-------------------------------- MODULE Merge --------------------------------
(***************************************************************************)
(* The three-way text merge of internal/merge/merge.go: Merge3, which      *)
(* "pull" runs on every file that both sides have changed.                 *)
(*                                                                         *)
(* The difference of each side to the base comes as the opcodes of the     *)
(* difflib library: a list of operations that covers the base from its     *)
(* first line to its last, unchanged stretches and edits in turn.  The     *)
(* loop of Merge3 walks the base with one cursor and one index into each   *)
(* list; one turn of the loop is one step here.                            *)
(*                                                                         *)
(* Positions in the base count from 0 as in the code, indexes into the     *)
(* lists from 1.                                                           *)
(***************************************************************************)
EXTENDS Integers, Sequences, SequencesExt

CONSTANTS
  Line,     \* what a line of a file may be
  Base,     \* the lines of the common ancestor
  Text,     \* what an edit may put in the place of base lines
  Script    \* the lists of operations that difflib may return

BaseLen == Len(Base)

\* An operation covers the base lines from i1 to before i2; only of an edit is
\* the text of the other side ever looked at.
Op == [same : BOOLEAN, i1 : 0 .. BaseLen, i2 : 0 .. BaseLen, text : Text]

\* Operations follow each other without a gap, and two unchanged stretches or
\* two edits are never neighbours.
IsScript(s) ==
  /\ s \in Seq(Op)
  /\ \A k \in DOMAIN s :
       /\ s[k].i1 <= s[k].i2
       /\ s[k].same => s[k].i1 < s[k].i2
       /\ s[k].i1 = (IF k = 1 THEN 0 ELSE s[k - 1].i2)
       /\ k > 1 => s[k].same # s[k - 1].same
  /\ (IF s = << >> THEN 0 ELSE s[Len(s)].i2) = BaseLen

ASSUME MergeConstants ==
  /\ Base \in Seq(Line)
  /\ Text \subseteq Seq(Line) /\ << >> \in Text
  /\ \A s \in Script : IsScript(s)

VARIABLES
  ours, theirs,   \* the operations that lead from the base to either side
  i,              \* current position in the base
  oi, ti,         \* next index into ours and theirs
  out,            \* what is written: lines, and conflict blocks
  hasConflict     \* whether any conflict block was written

mergeVars == <<ours, theirs, i, oi, ti, out, hasConflict>>

-----------------------------------------------------------------------------

\* Mistake: an insertion at the cursor counts as behind it.
ConsumedAtCursor(o, p) == o.i2 <= p

\* An insertion stands at its position, and is behind only once that is passed.
ConsumedBy(o, p) == IF o.i1 = o.i2 THEN o.i1 < p ELSE o.i2 <= p

\* The index of the first operation from idx on that is not behind p.
NextLive(ops, idx, p) ==
  Min({k \in idx .. Len(ops) : ~ ConsumedBy(ops[k], p)} \cup {Len(ops) + 1})

Unchanged(p, q) == [same |-> TRUE, i1 |-> p, i2 |-> q, text |-> << >>]

\* The operation at p: a stretch up to the next one counts as unchanged.
PeekOp(ops, idx, p) ==
  LET k == NextLive(ops, idx, p)
  IN  IF k > Len(ops) THEN Unchanged(p, BaseLen)
      ELSE IF ops[k].i1 > p THEN Unchanged(p, ops[k].i1)
      ELSE ops[k]

\* Mistake: the index is left where it is.
AdvanceNothing(ops, idx, p) == idx

AdvancePast(ops, idx, p) == IF idx > Len(ops) THEN idx ELSE NextLive(ops, idx, p)

MergeInit ==
  /\ ours \in Script /\ theirs \in Script
  /\ i = 0 /\ oi = 1 /\ ti = 1
  /\ out = << >> /\ hasConflict = FALSE

Merging == i < BaseLen \/ oi <= Len(ours) \/ ti <= Len(theirs)

OOp == PeekOp(ours, oi, i)
TOp == PeekOp(theirs, ti, i)

\* Both sides left these base lines alone.
CopyBase ==
  LET end == Min({OOp.i2, TOp.i2, BaseLen})
  IN  /\ Merging /\ OOp.same /\ TOp.same
      /\ out' = out \o SubSeq(Base, i + 1, end)
      /\ i' = end
      /\ oi' = AdvancePast(ours, oi, end)
      /\ ti' = AdvancePast(theirs, ti, end)
      /\ UNCHANGED <<ours, theirs, hasConflict>>

\* Mistake: the base is continued behind the start of the edit only.
TakeOursBeside ==
  /\ Merging /\ ~ OOp.same /\ TOp.same
  /\ out' = out \o OOp.text
  /\ i' = i /\ oi' = oi + 1
  /\ ti' = AdvancePast(theirs, ti, i)
  /\ UNCHANGED <<ours, theirs, hasConflict>>

TakeOurs ==
  /\ Merging /\ ~ OOp.same /\ TOp.same
  /\ out' = out \o OOp.text
  /\ i' = OOp.i2 /\ oi' = oi + 1
  /\ ti' = AdvancePast(theirs, ti, OOp.i2)
  /\ UNCHANGED <<ours, theirs, hasConflict>>

TakeTheirs ==
  /\ Merging /\ OOp.same /\ ~ TOp.same
  /\ out' = out \o TOp.text
  /\ i' = TOp.i2 /\ ti' = ti + 1
  /\ oi' = AdvancePast(ours, oi, TOp.i2)
  /\ UNCHANGED <<ours, theirs, hasConflict>>

Conflict(o, t) == [ours |-> o, theirs |-> t]

\* Mistake: a conflict is marked even if the sides agree.
AlwaysClash ==
  /\ Merging /\ ~ OOp.same /\ ~ TOp.same
  /\ out' = Append(out, Conflict(OOp.text, TOp.text))
  /\ hasConflict' = TRUE
  /\ i' = Max({OOp.i2, TOp.i2}) /\ oi' = oi + 1 /\ ti' = ti + 1
  /\ UNCHANGED <<ours, theirs>>

\* Both sides have an edit here; texts that are equal are written once.
TakeBoth ==
  /\ Merging /\ ~ OOp.same /\ ~ TOp.same
  /\ IF OOp.text = TOp.text
       THEN out' = out \o OOp.text /\ UNCHANGED hasConflict
       ELSE out' = Append(out, Conflict(OOp.text, TOp.text)) /\ hasConflict' = TRUE
  /\ i' = Max({OOp.i2, TOp.i2}) /\ oi' = oi + 1 /\ ti' = ti + 1
  /\ UNCHANGED <<ours, theirs>>

Turn == CopyBase \/ TakeOurs \/ TakeTheirs \/ TakeBoth

\* Merge3 has returned.
Done == ~ Merging /\ UNCHANGED mergeVars

MergeNext == Turn \/ Done

MergeSpec == MergeInit /\ [][MergeNext]_mergeVars

\* A loop goes on.
FairMerge == MergeSpec /\ WF_mergeVars(Turn)

-----------------------------------------------------------------------------
(* What a merge should be, told from the two lists alone.                  *)

Edits(s) == {s[k] : k \in {j \in DOMAIN s : ~ s[j].same}}

\* Two edits overlap if they replace a common line, one lies inside the other,
\* or both start at the same place.
Overlap(a, b) == (a.i1 < b.i2 /\ b.i1 < a.i2) \/ a.i1 = b.i1

EditsApart == \A a \in Edits(ours), b \in Edits(theirs) : ~ Overlap(a, b)

\* What s writes in front of base line p, and whether it keeps that line.
TextAt(s, p) ==
  IF \E e \in Edits(s) : e.i1 = p THEN (CHOOSE e \in Edits(s) : e.i1 = p).text ELSE << >>
Keeps(s, p)  == \A e \in Edits(s) : ~ (e.i1 <= p /\ p < e.i2)

\* What stands at base line p after both lists: the texts, and the line if kept.
Piece(s, t, p) ==
  TextAt(s, p) \o TextAt(t, p)
    \o (IF p < BaseLen /\ Keeps(s, p) /\ Keeps(t, p) THEN <<Base[p + 1]>> ELSE << >>)

\* Every edit of either list, and the base lines that both keep, in place: all
\* that stands in front of line p, and the whole file.
AppliedBefore(s, t, p) == FlattenSeq([n \in 1 .. p |-> Piece(s, t, n - 1)])
Applied(s, t) == AppliedBefore(s, t, BaseLen + 1)

KeptByBoth == {p \in 1 .. BaseLen : Keeps(ours, p - 1) /\ Keeps(theirs, p - 1)}

\* The lines that the edits bring, and the conflicts they may end in.
Clashes == {Conflict(a.text, b.text) : a \in Edits(ours), b \in Edits(theirs)}
EditLines == Clashes \cup UNION {Range(e.text) : e \in Edits(ours) \cup Edits(theirs)}

\* The base lines at the positions of kept are found among lines, each at a place
\* of its own and in their order, and all other lines are those of edits.
Placed(kept, lines) ==
  \E place \in [kept -> DOMAIN lines] :
    /\ \A p, q \in kept : p < q => place[p] < place[q]
    /\ \A p \in kept : lines[place[p]] = Base[p]
    /\ \A n \in DOMAIN lines \ Range(place) : lines[n] \in EditLines

-----------------------------------------------------------------------------
(* Properties.                                                             *)

\* The lists are what difflib returns, and the cursor and the indexes stay
\* within the base and the lists.
MergeTypeOK ==
  /\ IsScript(ours) /\ IsScript(theirs)
  /\ i \in 0 .. BaseLen
  /\ oi \in 1 .. Len(ours) + 1 /\ ti \in 1 .. Len(theirs) + 1
  /\ hasConflict \in BOOLEAN

\* The merge comes to its end, whatever the two lists are.
MergeEnds == <>~ Merging

\* Every turn moves the cursor or an index on and none of them back, so the
\* number of turns is bounded by the lengths of the base and the lists.
Advances ==
  /\ i <= i' /\ oi <= oi' /\ ti <= ti'
  /\ i + oi + ti < i' + oi' + ti'

LoopAdvances == [][Advances]_mergeVars

\* "Non-overlapping changes are applied automatically": all of them, each once,
\* nothing else, and without a conflict (Merge3).
EditsApartApplied ==
  ~ Merging /\ EditsApart => ~ hasConflict /\ out = Applied(ours, theirs)

\* Sides that made the same edits merge to what both have.
SameEditsAgree ==
  ~ Merging /\ ours = theirs => ~ hasConflict /\ out = Applied(ours, << >>)

\* A base line that both sides keep is written once and in its place among the
\* others, whatever edits and conflicts surround it, and nothing is written that
\* is neither such a line nor from an edit (Merge3).
KeptLinesOnce == ~ Merging => Placed(KeptByBoth, out)

\* "overlapping changes produce git-style conflict markers": no merge in which
\* two edits write different texts over the same place ends without a marker
\* (Merge3).
OverlapsMarked ==
  ~ Merging /\ (\E a \in Edits(ours), b \in Edits(theirs) :
                 Overlap(a, b) /\ a.text # b.text /\ << >> \notin {a.text, b.text})
    => hasConflict
=============================================================================
