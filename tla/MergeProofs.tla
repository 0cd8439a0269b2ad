---------------------------- MODULE MergeProofs ----------------------------
(***************************************************************************)
(* Proofs about Merge, for any base and any two lists of operations.       *)
(*                                                                         *)
(* Beyond the walk itself they say what each turn may write: a base line   *)
(* that both sides keep is copied where it is passed, and no other one is; *)
(* an edit of lists that are apart is taken in one turn, at its place.     *)
(* From that follows what the whole merge writes: at every turn the lines  *)
(* are those of the edits and kept lines in front of the cursor.           *)
(***************************************************************************)
EXTENDS Merge, SequenceTheorems, WellFoundedInduction, TLAPS

-----------------------------------------------------------------------------
(* Least and greatest numbers.                                             *)

\* A set of naturals that is not empty has its least number in it.
LEMMA MinIsLeast ==
  ASSUME NEW S, S \subseteq Nat, S # {}
  PROVE  Min(S) \in S /\ \A y \in S : Min(S) <= y
<1> DEFINE Less == {pair \in Nat \X Nat : pair[1] < pair[2]}
<1>1. IsWellFoundedOn(Less, Nat)
  BY NatLessThanWellFounded DEF OpToRel
<1> HIDE DEF Less
<1>2. PICK x \in S : \A y \in S : ~ (<<y, x>> \in Less)
  BY <1>1, WFMin
<1>3. \A y \in Nat : y < x => <<y, x>> \in Less
  BY DEF Less
<1>4. \A y \in S : x <= y
  <2>1. x \in Nat /\ \A y \in S : y \in Nat /\ ~ y < x
    BY <1>2, <1>3
  <2> QED
    BY <2>1
<1> QED
  BY <1>4, Zenon DEF Min

\* The greater of two numbers.
LEMMA MaxOfTwo ==
  ASSUME NEW a \in Int, NEW b \in Int
  PROVE  Max({a, b}) = IF a >= b THEN a ELSE b
<1>1. \E x \in {a, b} : \A y \in {a, b} : x >= y
  OBVIOUS
<1>2. Max({a, b}) \in {a, b} /\ \A y \in {a, b} : Max({a, b}) >= y
  BY <1>1, Zenon DEF Max
<1> QED
  BY <1>2

-----------------------------------------------------------------------------
(* Putting lists one after the other.                                      *)

\* F holds what the first lists of s make when they are put one after the other.
Flattened(S, s, n, F) ==
  /\ F \in [0 .. n -> Seq(S)] /\ F[0] = << >>
  /\ \A k \in 1 .. n : F[k] = F[k - 1] \o s[k]

\* There are such prefixes for any list of lists.
LEMMA PrefixesExist ==
  ASSUME NEW S, NEW N \in Nat, NEW s, \A k \in 1 .. N : s[k] \in Seq(S)
  PROVE  \E F : Flattened(S, s, N, F)
<1> DEFINE Bad == {n \in 0 .. N : ~ \E F : Flattened(S, s, n, F)}
<1>1. SUFFICES ASSUME Bad # {} PROVE FALSE
  BY DEF Bad
<1>2. PICK n \in Bad : \A m \in Bad : n <= m
  <2>1. Bad \subseteq Nat
    OBVIOUS
  <2> HIDE DEF Bad
  <2> QED
    BY <1>1, <2>1, MinIsLeast
<1>3. n \in 0 .. N /\ ~ \E F : Flattened(S, s, n, F)
  OBVIOUS
<1>4. n # 0
  <2>1. Flattened(S, s, 0, [k \in 0 .. 0 |-> << >>])
    <3>1. << >> \in Seq(S)
      OBVIOUS
    <3> QED
      BY <3>1 DEF Flattened
  <2> QED
    BY <1>3, <2>1
<1>5. n - 1 \in 0 .. N /\ n - 1 \notin Bad
  BY <1>2, <1>3, <1>4
<1>6. PICK F : Flattened(S, s, n - 1, F)
  BY <1>5
<1> DEFINE G == [k \in 0 .. n |-> IF k = n THEN F[n - 1] \o s[n] ELSE F[k]]
<1>7. s[n] \in Seq(S) /\ \A k \in 0 .. n - 1 : F[k] \in Seq(S)
  BY <1>3, <1>4, <1>6 DEF Flattened
<1>8. F[n - 1] \o s[n] \in Seq(S)
  <2>1. F[n - 1] \in Seq(S)
    BY <1>3, <1>4, <1>7
  <2> QED
    BY <1>7, <2>1, ConcatProperties
<1>9. G \in [0 .. n -> Seq(S)]
  BY <1>3, <1>7, <1>8
<1>10. Flattened(S, s, n, G)
  <2>1. G[0] = << >>
    BY <1>3, <1>4, <1>6 DEF Flattened
  <2>2. ASSUME NEW k \in 1 .. n PROVE G[k] = G[k - 1] \o s[k]
    <3>1. CASE k = n
      <4>1. k - 1 \in 0 .. n /\ k - 1 # n /\ k \in 0 .. n
        BY <1>3, <3>1
      <4>2. G[k] = F[n - 1] \o s[n] /\ G[k - 1] = F[k - 1]
        BY <3>1, <4>1
      <4> QED
        BY <3>1, <4>2
    <3>2. CASE k # n
      <4>1. k \in 1 .. n - 1 /\ k - 1 \in 0 .. n /\ k - 1 # n
        BY <1>3, <3>2
      <4>2. G[k] = F[k] /\ G[k - 1] = F[k - 1]
        BY <3>2, <4>1
      <4>3. F[k] = F[k - 1] \o s[k]
        BY <1>6, <4>1 DEF Flattened
      <4> QED
        BY <4>2, <4>3
    <3> QED
      BY <3>1, <3>2
  <2> HIDE DEF G
  <2> QED
    BY <1>9, <2>1, <2>2 DEF Flattened
<1> QED
  BY <1>3, <1>10

\* FlattenSeq gives the last of these prefixes.
LEMMA FlattenIsPrefix ==
  ASSUME NEW S, NEW N \in Nat, NEW s, s \in [1 .. N -> Seq(S)], NEW F, Flattened(S, s, N, F)
  PROVE  FlattenSeq(s) = F[N]
<1>0. s \in Seq(Seq(S)) /\ Len(s) = N
  BY SeqDef
<1>1. CASE N = 0
  BY <1>0, <1>1 DEF FlattenSeq, Flattened
<1>2. CASE N # 0
  <2> DEFINE Step(f) == [n \in 1 .. N |-> IF n = 1 THEN s[n] ELSE f[n - 1] \o s[n]]
         Prefixed == [k \in 1 .. N |-> F[k]]
  <2>1. FlattenSeq(s) = (CHOOSE f : f = Step(f))[N]
    BY <1>0, <1>2, Zenon DEF FlattenSeq
  <2>2. Prefixed = Step(Prefixed)
    <3>1. ASSUME NEW k \in 1 .. N
          PROVE  F[k] = IF k = 1 THEN s[k] ELSE Prefixed[k - 1] \o s[k]
      <4>1. F[k] = F[k - 1] \o s[k] /\ F[0] = << >> /\ s[k] \in Seq(S)
        BY DEF Flattened
      <4>2. CASE k = 1
        BY <4>1, <4>2, ConcatEmptySeq
      <4>3. CASE k # 1
        <5>1. k - 1 \in 1 .. N
          BY <4>3
        <5> QED
          BY <4>1, <4>3, <5>1
      <4> QED
        BY <4>2, <4>3
    <3> QED
      BY <3>1
  <2>3. PICK flat : flat = (CHOOSE f : f = Step(f))
    OBVIOUS
  <2>4. flat = Step(flat)
    <3> HIDE DEF Prefixed, Step
    <3> QED
      BY <2>2, <2>3, Zenon
  <2> DEFINE Bad == {k \in 1 .. N : flat[k] # F[k]}
  <2>5. ASSUME Bad # {} PROVE FALSE
    <3>1. PICK k \in Bad : \A m \in Bad : k <= m
      <4>1. Bad \subseteq Nat
        OBVIOUS
      <4> HIDE DEF Bad
      <4> QED
        BY <2>5, <4>1, MinIsLeast
    <3>2. k \in 1 .. N /\ flat[k] # F[k] /\ k - 1 \notin Bad
      BY <3>1
    <3>3. F[k] = F[k - 1] \o s[k] /\ F[0] = << >> /\ s[k] \in Seq(S)
      BY <3>2 DEF Flattened
    <3>4. flat[k] = IF k = 1 THEN s[k] ELSE flat[k - 1] \o s[k]
      BY <2>4, <3>2
    <3>5. CASE k = 1
      BY <3>2, <3>3, <3>4, <3>5, ConcatEmptySeq
    <3>6. CASE k # 1
      <4>1. k - 1 \in 1 .. N
        BY <3>2, <3>6
      <4>2. flat[k - 1] = F[k - 1]
        BY <3>2, <4>1
      <4> QED
        BY <3>2, <3>3, <3>4, <3>6, <4>2
    <3> QED
      BY <3>5, <3>6
  <2>6. N \in 1 .. N
    BY <1>2
  <2>7. flat[N] = F[N]
    BY <2>5, <2>6
  <2> QED
    BY <2>1, <2>3, <2>7
<1> QED
  BY <1>1, <1>2

\* One list more is put behind what the others make.
LEMMA FlattenOneMore ==
  ASSUME NEW S, NEW N \in Nat, NEW s, s \in [1 .. N + 1 -> Seq(S)],
         NEW r, r \in [1 .. N -> Seq(S)], \A k \in 1 .. N : r[k] = s[k]
  PROVE  FlattenSeq(r) \in Seq(S) /\ FlattenSeq(s) = FlattenSeq(r) \o s[N + 1]
<1>1. PICK F : Flattened(S, s, N + 1, F)
  <2>1. \A k \in 1 .. N + 1 : s[k] \in Seq(S)
    OBVIOUS
  <2> QED
    BY <2>1, PrefixesExist
<1> DEFINE G == [k \in 0 .. N |-> F[k]]
<1>2. Flattened(S, r, N, G)
  <2>1. G \in [0 .. N -> Seq(S)] /\ G[0] = << >>
    BY <1>1 DEF Flattened
  <2>2. ASSUME NEW k \in 1 .. N PROVE G[k] = G[k - 1] \o r[k]
    <3>1. k \in 1 .. N + 1 /\ k - 1 \in 0 .. N
      OBVIOUS
    <3>2. F[k] = F[k - 1] \o s[k]
      BY <1>1, <3>1 DEF Flattened
    <3>3. G[k] = F[k] /\ G[k - 1] = F[k - 1] /\ r[k] = s[k]
      BY <3>1
    <3> QED
      BY <3>2, <3>3
  <2> HIDE DEF G
  <2> QED
    BY <2>1, <2>2 DEF Flattened
<1>3. FlattenSeq(r) = F[N] /\ F[N] \in Seq(S)
  <2>1. FlattenSeq(r) = G[N]
    <3> HIDE DEF G
    <3> QED
      BY <1>2, FlattenIsPrefix
  <2> QED
    BY <1>1, <2>1 DEF Flattened
<1>4. FlattenSeq(s) = F[N + 1]
  <2>1. N + 1 \in Nat
    OBVIOUS
  <2> QED
    BY <1>1, <2>1, FlattenIsPrefix
<1>5. F[N + 1] = F[N] \o s[N + 1]
  <2>1. N + 1 \in 1 .. N + 1 /\ (N + 1) - 1 = N
    OBVIOUS
  <2>2. F[N + 1] = F[(N + 1) - 1] \o s[N + 1]
    BY <1>1, <2>1 DEF Flattened
  <2> QED
    BY <2>1, <2>2
<1> QED
  BY <1>3, <1>4, <1>5

-----------------------------------------------------------------------------
(* Looking up and skipping operations.                                     *)

\* The length of the base is a number.
LEMMA BaseTyped ==
  /\ BaseLen \in Nat /\ DOMAIN Base = 1 .. BaseLen
  /\ \A p \in 1 .. BaseLen : Base[p] \in Line
  /\ \A s \in Script : IsScript(s)
BY MergeConstants DEF BaseLen

\* A cursor within the base, and an index into a list of operations.
At(s, idx, p) == IsScript(s) /\ idx \in 1 .. Len(s) + 1 /\ p \in 0 .. BaseLen

\* What a list of operations consists of.
LEMMA OpsTyped ==
  ASSUME NEW s, IsScript(s)
  PROVE  /\ Len(s) \in Nat /\ DOMAIN s = 1 .. Len(s)
         /\ \A k \in 1 .. Len(s) :
              /\ s[k] \in Op /\ s[k].i1 \in 0 .. BaseLen /\ s[k].i2 \in 0 .. BaseLen
              /\ s[k].i1 <= s[k].i2
              /\ s[k].same \in BOOLEAN
              /\ s[k].same => s[k].i1 < s[k].i2
<1>1. s \in Seq(Op)
  BY DEF IsScript
<1>2. \A k \in 1 .. Len(s) : s[k] \in Op
  BY <1>1
<1> QED
  BY <1>1, <1>2 DEF IsScript, Op

\* NextLive gives an operation that is not behind, or the end of the list.
LEMMA NextLiveFound ==
  ASSUME NEW s, NEW idx, NEW p, At(s, idx, p)
  PROVE  /\ NextLive(s, idx, p) \in idx .. Len(s) + 1
         /\ NextLive(s, idx, p) <= Len(s) => ~ ConsumedBy(s[NextLive(s, idx, p)], p)
<1> DEFINE S == {k \in idx .. Len(s) : ~ ConsumedBy(s[k], p)} \cup {Len(s) + 1}
<1>1. Len(s) \in Nat /\ idx \in 1 .. Len(s) + 1
  BY OpsTyped DEF At
<1>2. S \subseteq Nat /\ S # {}
  BY <1>1
<1>3. Min(S) \in S
  BY <1>2, MinIsLeast
<1>4. NextLive(s, idx, p) = Min(S)
  BY DEF NextLive
<1> HIDE DEF S
<1>5. NextLive(s, idx, p) \in S
  BY <1>3, <1>4
<1> QED
  BY <1>1, <1>5 DEF S

\* What PeekOp finds reaches to the cursor or beyond.  An unchanged stretch
\* reaches beyond it while base lines are left; an edit is an operation of the
\* list, and so the index has not come to its end.
LEMMA Peeked ==
  ASSUME BaseLen \in Nat, NEW s, NEW idx, NEW p, At(s, idx, p)
  PROVE  LET o == PeekOp(s, idx, p)
         IN  /\ o.same \in BOOLEAN /\ o.i2 \in p .. BaseLen
             /\ o.same /\ p < BaseLen => p < o.i2
             /\ o.same /\ p = BaseLen => NextLive(s, idx, p) = Len(s) + 1
             /\ ~ o.same => idx <= Len(s)
<1> DEFINE k == NextLive(s, idx, p)
           o == PeekOp(s, idx, p)
<1>1. k \in idx .. Len(s) + 1 /\ (k <= Len(s) => ~ ConsumedBy(s[k], p))
  BY NextLiveFound
<1>2. Len(s) \in Nat /\ idx \in 1 .. Len(s) + 1 /\ p \in 0 .. BaseLen
  BY OpsTyped DEF At
<1>3. k <= Len(s) => /\ s[k].i1 \in 0 .. BaseLen /\ s[k].i2 \in 0 .. BaseLen /\ s[k].i1 <= s[k].i2
                     /\ s[k].same \in BOOLEAN /\ (s[k].same => s[k].i1 < s[k].i2)
  <2>1. IsScript(s)
    BY DEF At
  <2> HIDE DEF k
  <2> QED
    BY <1>1, <1>2, <2>1, OpsTyped
<1>4. o = IF k > Len(s) THEN Unchanged(p, BaseLen)
          ELSE IF s[k].i1 > p THEN Unchanged(p, s[k].i1) ELSE s[k]
  BY DEF PeekOp
<1> HIDE DEF k, o
<1>5. CASE k > Len(s)
  BY <1>1, <1>2, <1>4, <1>5 DEF Unchanged, o, k
<1>6. CASE k <= Len(s) /\ s[k].i1 > p
  <2>1. o.same = TRUE /\ o.i2 = s[k].i1
    BY <1>1, <1>2, <1>4, <1>6 DEF Unchanged
  <2>2. o.i2 \in p .. BaseLen /\ p < o.i2 /\ p # BaseLen
    BY <1>2, <1>3, <1>6, <2>1
  <2> QED
    BY <2>1, <2>2 DEF o
<1>7. CASE k <= Len(s) /\ ~ s[k].i1 > p
  BY <1>1, <1>2, <1>3, <1>4, <1>7 DEF ConsumedBy, o, k
<1> QED
  BY <1>1, <1>2, <1>5, <1>6, <1>7

\* AdvancePast does not go back, and reaches the end where NextLive does.
LEMMA Advanced ==
  ASSUME NEW s, NEW idx, NEW p, At(s, idx, p)
  PROVE  /\ AdvancePast(s, idx, p) \in idx .. Len(s) + 1
         /\ NextLive(s, idx, p) = Len(s) + 1 => AdvancePast(s, idx, p) = Len(s) + 1
<1>1. Len(s) \in Nat /\ idx \in 1 .. Len(s) + 1
  BY OpsTyped DEF At
<1> QED
  BY <1>1, NextLiveFound DEF AdvancePast

-----------------------------------------------------------------------------
(* One turn of the loop.                                                   *)

\* Each turn stays within the base and the lists, and moves on.
LEMMA TurnAdvances ==
  ASSUME MergeTypeOK, Turn
  PROVE  MergeTypeOK' /\ Advances
<1>1. BaseLen \in Nat /\ At(ours, oi, i) /\ At(theirs, ti, i)
  BY BaseTyped DEF MergeTypeOK, At
<1>2. Len(ours) \in Nat /\ Len(theirs) \in Nat
  BY OpsTyped DEF MergeTypeOK
<1>3. /\ i \in 0 .. BaseLen /\ oi \in 1 .. Len(ours) + 1 /\ ti \in 1 .. Len(theirs) + 1
      /\ IsScript(ours) /\ IsScript(theirs) /\ hasConflict \in BOOLEAN
  BY DEF MergeTypeOK
<1>4. /\ OOp.same \in BOOLEAN /\ OOp.i2 \in i .. BaseLen
      /\ OOp.same /\ i < BaseLen => i < OOp.i2
      /\ OOp.same /\ i = BaseLen => NextLive(ours, oi, i) = Len(ours) + 1
      /\ ~ OOp.same => oi <= Len(ours)
  BY <1>1, Peeked DEF OOp
<1>5. /\ TOp.same \in BOOLEAN /\ TOp.i2 \in i .. BaseLen
      /\ TOp.same /\ i < BaseLen => i < TOp.i2
      /\ TOp.same /\ i = BaseLen => NextLive(theirs, ti, i) = Len(theirs) + 1
      /\ ~ TOp.same => ti <= Len(theirs)
  BY <1>1, Peeked DEF TOp
<1>6. CASE CopyBase
  <2> DEFINE end == Min({OOp.i2, TOp.i2, BaseLen})
  <2>1. end \in {OOp.i2, TOp.i2, BaseLen}
    <3>1. {OOp.i2, TOp.i2, BaseLen} \subseteq Nat
      BY <1>1, <1>3, <1>4, <1>5
    <3> QED
      BY <3>1, MinIsLeast
  <2>2. /\ Merging /\ OOp.same /\ TOp.same /\ i' = end
        /\ oi' = AdvancePast(ours, oi, end) /\ ti' = AdvancePast(theirs, ti, end)
        /\ UNCHANGED <<ours, theirs, hasConflict>>
    BY <1>6 DEF CopyBase
  <2> HIDE DEF end
  <2>3. end \in i .. BaseLen /\ (i < BaseLen => i < end)
    BY <1>1, <1>3, <1>4, <1>5, <2>1, <2>2
  <2>4. At(ours, oi, end) /\ At(theirs, ti, end)
    BY <1>1, <1>3, <2>3 DEF At
  <2>5. oi' \in oi .. Len(ours) + 1 /\ ti' \in ti .. Len(theirs) + 1
    BY <2>2, <2>4, Advanced
  <2>6. MergeTypeOK'
    BY <1>1, <1>2, <1>3, <2>2, <2>3, <2>5 DEF MergeTypeOK
  <2>7. CASE i < BaseLen
    BY <1>1, <1>2, <1>3, <2>2, <2>3, <2>5, <2>6, <2>7 DEF Advances
  <2>8. CASE i = BaseLen
    <3>1. end = i
      BY <1>1, <2>3, <2>8
    <3>2. oi' = Len(ours) + 1 /\ ti' = Len(theirs) + 1
      BY <1>1, <1>4, <1>5, <2>2, <2>8, <3>1, Advanced
    <3>3. oi <= Len(ours) \/ ti <= Len(theirs)
      BY <1>1, <2>2, <2>8 DEF Merging
    <3> QED
      BY <1>1, <1>2, <1>3, <2>2, <2>6, <3>1, <3>2, <3>3 DEF Advances
  <2> QED
    BY <1>1, <1>3, <2>7, <2>8
<1>7. CASE TakeOurs
  <2>1. /\ ~ OOp.same /\ i' = OOp.i2 /\ oi' = oi + 1 /\ ti' = AdvancePast(theirs, ti, OOp.i2)
        /\ UNCHANGED <<ours, theirs, hasConflict>>
    BY <1>7 DEF TakeOurs
  <2>2. At(theirs, ti, OOp.i2)
    BY <1>1, <1>3, <1>4 DEF At
  <2>3. ti' \in ti .. Len(theirs) + 1
    BY <2>1, <2>2, Advanced
  <2> QED
    BY <1>1, <1>2, <1>3, <1>4, <2>1, <2>3 DEF MergeTypeOK, Advances
<1>8. CASE TakeTheirs
  <2>1. /\ ~ TOp.same /\ i' = TOp.i2 /\ ti' = ti + 1 /\ oi' = AdvancePast(ours, oi, TOp.i2)
        /\ UNCHANGED <<ours, theirs, hasConflict>>
    BY <1>8 DEF TakeTheirs
  <2>2. At(ours, oi, TOp.i2)
    BY <1>1, <1>3, <1>5 DEF At
  <2>3. oi' \in oi .. Len(ours) + 1
    BY <2>1, <2>2, Advanced
  <2> QED
    BY <1>1, <1>2, <1>3, <1>5, <2>1, <2>3 DEF MergeTypeOK, Advances
<1>9. CASE TakeBoth
  <2>1. /\ ~ OOp.same /\ ~ TOp.same /\ i' = Max({OOp.i2, TOp.i2}) /\ oi' = oi + 1 /\ ti' = ti + 1
        /\ UNCHANGED <<ours, theirs>> /\ hasConflict' \in BOOLEAN
    BY <1>3, <1>9 DEF TakeBoth
  <2>2. OOp.i2 \in Int /\ TOp.i2 \in Int
    BY <1>4, <1>5
  <2>3. i' \in i .. BaseLen
    BY <1>1, <1>3, <1>4, <1>5, <2>1, <2>2, MaxOfTwo
  <2> QED
    BY <1>1, <1>2, <1>3, <1>4, <1>5, <2>1, <2>3 DEF MergeTypeOK, Advances
<1> QED
  BY <1>6, <1>7, <1>8, <1>9 DEF Turn

\* The loop starts in front of the first line.
LEMMA MergeInitTyped == MergeInit => MergeTypeOK
<1> SUFFICES ASSUME MergeInit PROVE MergeTypeOK
  OBVIOUS
<1>1. IsScript(ours) /\ IsScript(theirs) /\ BaseLen \in Nat
  BY BaseTyped DEF MergeInit
<1>2. Len(ours) \in Nat /\ Len(theirs) \in Nat
  BY <1>1, OpsTyped
<1>3. hasConflict \in BOOLEAN
  BY Zenon DEF MergeInit
<1> QED
  BY <1>1, <1>2, <1>3 DEF MergeInit, MergeTypeOK

\* The cursor never leaves the base and no index its list, so that Merge3 never
\* slices out of range, whatever the two lists of operations are.
THEOREM MergeTyped == MergeSpec => []MergeTypeOK
<1>1. MergeTypeOK /\ [MergeNext]_mergeVars => MergeTypeOK'
  BY TurnAdvances DEF MergeNext, Done, mergeVars, MergeTypeOK
<1> QED
  BY <1>1, MergeInitTyped, PTL DEF MergeSpec

\* Every turn of the loop of Merge3 moves on; with MergeTyped this bounds the
\* turns by the lengths of the base and the lists, and the loop ends.
THEOREM LoopAlwaysAdvances == MergeSpec => LoopAdvances
<1>1. MergeTypeOK /\ [MergeNext]_mergeVars => [Advances]_mergeVars
  BY TurnAdvances DEF MergeNext, Done
<1> QED
  BY <1>1, MergeTyped, PTL DEF MergeSpec, LoopAdvances

-----------------------------------------------------------------------------
(* What a turn passes and what it writes.                                  *)

\* Base lines are passed once, as i only moves on: a line that both sides keep is
\* copied then, and a line that an edit of either side covers is not.
KeptLinesCopied == \A n \in i + 1 .. i' : n \in KeptByBoth <=> CopyBase

\* If the edits are apart, an index moves beyond an edit in the turn that takes
\* it, which is when the cursor has come to its place, and in no other turn.
EditsInPlace ==
  EditsApart =>
    /\ \A k \in oi .. oi' - 1 : ~ ours[k].same <=> TakeOurs
    /\ \A k \in ti .. ti' - 1 : ~ theirs[k].same <=> TakeTheirs
    /\ TakeOurs => OOp = ours[oi] /\ OOp.i1 = i /\ oi' = oi + 1
    /\ TakeTheirs => TOp = theirs[ti] /\ TOp.i1 = i /\ ti' = ti + 1
    /\ ~ TakeBoth

\* A conflict is marked only where edits overlap and differ.
NoFalseConflict == EditsApart \/ ours = theirs => ~ hasConflict

\* The operations before an index lie before the cursor; those from it on are
\* ahead of the cursor, as far as they are edits, and the next one is not behind.
Behind(s, idx, p) == \A k \in 1 .. idx - 1 : s[k].i2 <= p
Ahead(s, idx, p)  == \A k \in idx .. Len(s) : ~ s[k].same => s[k].i1 >= p
Fresh(s, idx, p)  == idx <= Len(s) => ~ ConsumedBy(s[idx], p)

ApartInv ==
  EditsApart =>
    /\ Ahead(ours, oi, i) /\ Fresh(ours, oi, i)
    /\ Ahead(theirs, ti, i) /\ Fresh(theirs, ti, i)
    /\ ~ hasConflict

WalkInv ==
  /\ MergeTypeOK
  /\ Behind(ours, oi, i) /\ Behind(theirs, ti, i)
  /\ ApartInv
  /\ ours = theirs => oi = ti /\ ~ hasConflict

\* Operations do not reach over later ones.
LEMMA OpsOrdered ==
  ASSUME NEW s, IsScript(s), NEW j \in 1 .. Len(s), NEW k \in j + 1 .. Len(s)
  PROVE  s[j].i2 <= s[k].i1
<1> DEFINE Wrong == {l \in j + 1 .. Len(s) : ~ s[j].i2 <= s[l].i1}
<1>1. Len(s) \in Nat /\ j \in Nat
  BY OpsTyped
<1>2. SUFFICES ASSUME Wrong # {} PROVE FALSE
  BY DEF Wrong
<1>3. PICK l \in Wrong : \A m \in Wrong : l <= m
  <2>1. Wrong \subseteq Nat
    BY <1>1
  <2> HIDE DEF Wrong
  <2> QED
    BY <1>2, <2>1, MinIsLeast
<1>4. l \in j + 1 .. Len(s) /\ ~ s[j].i2 <= s[l].i1 /\ l - 1 \in j .. Len(s) /\ l - 1 \notin Wrong
  BY <1>1, <1>3
<1>5. s[l].i1 = s[l - 1].i2
  <2>1. l \in DOMAIN s /\ l # 1
    BY <1>1, <1>4, OpsTyped
  <2> QED
    BY <2>1 DEF IsScript
<1>6. CASE l - 1 = j
  <2>1. s[j].i2 \in 0 .. BaseLen
    BY OpsTyped
  <2> QED
    BY <1>4, <1>5, <1>6, <2>1
<1>7. CASE l - 1 # j
  <2>1. s[j].i2 <= s[l - 1].i1
    BY <1>1, <1>4, <1>7
  <2>2. l - 1 \in 1 .. Len(s)
    BY <1>1, <1>4
  <2>3. s[l - 1].i1 <= s[l - 1].i2 /\ s[l - 1].i1 \in Int /\ s[l - 1].i2 \in Int /\ s[j].i2 \in Int
    BY <2>2, OpsTyped
  <2> QED
    BY <1>4, <1>5, <2>1, <2>3
<1> QED
  BY <1>6, <1>7

\* NextLive skips what is behind, and that only.
LEMMA LiveNotSkipped ==
  ASSUME NEW s, NEW idx, NEW p, At(s, idx, p), NEW k \in idx .. Len(s)
  PROVE  /\ ~ ConsumedBy(s[k], p) => NextLive(s, idx, p) <= k
         /\ k < NextLive(s, idx, p) => ConsumedBy(s[k], p)
<1> DEFINE S == {l \in idx .. Len(s) : ~ ConsumedBy(s[l], p)} \cup {Len(s) + 1}
<1>1. Len(s) \in Nat /\ idx \in 1 .. Len(s) + 1
  BY OpsTyped DEF At
<1>2. S \subseteq Nat /\ S # {}
  BY <1>1
<1>3. \A l \in S : Min(S) <= l
  <2> HIDE DEF S
  <2> QED
    BY <1>2, MinIsLeast
<1>4. NextLive(s, idx, p) = Min(S)
  BY DEF NextLive
<1>5. ~ ConsumedBy(s[k], p) => NextLive(s, idx, p) <= k
  <2> HIDE DEF S
  <2>1. ~ ConsumedBy(s[k], p) => k \in S
    BY DEF S
  <2> QED
    BY <1>3, <1>4, <2>1
<1> QED
  <2>1. NextLive(s, idx, p) \in Int /\ k \in Int
    BY <1>1, NextLiveFound
  <2> QED
    BY <1>5, <2>1

\* An edit that PeekOp finds is the first operation of the list that is not
\* behind, and has begun; an unchanged stretch ends where the next edit begins.
LEMMA PeekedEdit ==
  ASSUME NEW s, NEW idx, NEW p, At(s, idx, p)
  PROVE  LET o == PeekOp(s, idx, p)
             l == NextLive(s, idx, p)
         IN  /\ ~ o.same => l \in idx .. Len(s) /\ o = s[l] /\ s[l].i1 <= p
             /\ o.same => \A k \in idx .. Len(s) :
                            ~ s[k].same /\ ~ ConsumedBy(s[k], p) => s[k].i1 >= o.i2
<1>1. PICK l : l = NextLive(s, idx, p)
  OBVIOUS
<1>2. PICK o : o = PeekOp(s, idx, p)
  OBVIOUS
<1>3. Len(s) \in Nat /\ idx \in 1 .. Len(s) + 1 /\ p \in 0 .. BaseLen /\ l \in idx .. Len(s) + 1
  BY <1>1, OpsTyped, NextLiveFound DEF At
<1>4. o = IF l > Len(s) THEN Unchanged(p, BaseLen)
          ELSE IF s[l].i1 > p THEN Unchanged(p, s[l].i1) ELSE s[l]
  BY <1>1, <1>2 DEF PeekOp
<1>5. \A k \in 1 .. Len(s) : s[k].i1 \in Int /\ s[k].i2 \in Int /\ s[k].i1 <= s[k].i2 /\ s[k].same \in BOOLEAN
  BY OpsTyped DEF At
<1>6. ~ o.same => l \in idx .. Len(s) /\ o = s[l] /\ s[l].i1 <= p
  <2>1. CASE l > Len(s)
    BY <1>4, <2>1 DEF Unchanged
  <2>2. CASE l <= Len(s) /\ s[l].i1 > p
    BY <1>3, <1>4, <2>2 DEF Unchanged
  <2>3. CASE l <= Len(s) /\ ~ s[l].i1 > p
    BY <1>3, <1>4, <1>5, <2>3
  <2> QED
    BY <1>3, <2>1, <2>2, <2>3
<1>7. ASSUME o.same, NEW k \in idx .. Len(s), ~ s[k].same, ~ ConsumedBy(s[k], p)
      PROVE  s[k].i1 >= o.i2
  <2>1. l <= k /\ k \in 1 .. Len(s) /\ l \in 1 .. Len(s)
    BY <1>1, <1>3, <1>7, LiveNotSkipped
  <2>2. l < k => s[l].i2 <= s[k].i1
    <3>1. l < k => k \in l + 1 .. Len(s)
      BY <1>3, <2>1
    <3> QED
      BY <2>1, <3>1, OpsOrdered DEF At
  <2>3. CASE s[l].i1 > p
    <3>1. o.i2 = s[l].i1
      BY <1>3, <1>4, <2>1, <2>3 DEF Unchanged
    <3> QED
      BY <1>3, <1>5, <2>1, <2>2, <3>1
  <2>4. CASE ~ s[l].i1 > p
    <3>1. o = s[l] /\ l # k
      BY <1>3, <1>4, <1>7, <2>1, <2>4
    <3> QED
      BY <1>3, <1>5, <2>1, <2>2, <3>1
  <2> QED
    BY <2>3, <2>4
<1> QED
  BY <1>1, <1>2, <1>6, <1>7

\* What AdvancePast passes lies behind.
LEMMA AdvancedBehind ==
  ASSUME NEW s, NEW idx, NEW p, NEW q, At(s, idx, p), At(s, idx, q), p <= q, Behind(s, idx, p)
  PROVE  Behind(s, AdvancePast(s, idx, q), q)
<1>1. Len(s) \in Nat /\ idx \in 1 .. Len(s) + 1 /\ p \in Int /\ q \in Int /\ AdvancePast(s, idx, q) \in idx .. Len(s) + 1
  BY OpsTyped, Advanced DEF At
<1>2. \A k \in 1 .. Len(s) : s[k].i1 \in Int /\ s[k].i2 \in Int /\ s[k].i1 <= s[k].i2
  BY OpsTyped DEF At
<1>3. ASSUME NEW k \in 1 .. AdvancePast(s, idx, q) - 1
      PROVE  s[k].i2 <= q
  <2>1. CASE k < idx
    <3>1. k \in 1 .. idx - 1 /\ k \in 1 .. Len(s)
      BY <1>1, <1>3, <2>1
    <3> QED
      BY <1>1, <1>2, <3>1 DEF Behind
  <2>2. CASE k >= idx
    <3>1. k \in idx .. Len(s) /\ k \in 1 .. Len(s) /\ k < NextLive(s, idx, q)
      BY <1>1, <1>3, <2>2 DEF AdvancePast
    <3>2. ConsumedBy(s[k], q)
      BY <3>1, LiveNotSkipped
    <3> QED
      BY <1>1, <1>2, <3>1, <3>2 DEF ConsumedBy
  <2> QED
    BY <1>1, <1>3, <2>1, <2>2
<1> QED
  BY <1>3 DEF Behind

\* Taking an edit leaves the operation at the index behind.
LEMMA TakenBehind ==
  ASSUME NEW s, NEW idx, NEW p, NEW q \in Int, At(s, idx, p), p <= q, Behind(s, idx, p),
         ~ PeekOp(s, idx, p).same, PeekOp(s, idx, p).i2 <= q
  PROVE  Behind(s, idx + 1, q)
<1>1. PICK l : l = NextLive(s, idx, p)
  OBVIOUS
<1>2. l \in idx .. Len(s) /\ s[l].i2 <= q
  BY <1>1, PeekedEdit
<1>3. Len(s) \in Nat /\ idx \in 1 .. Len(s) /\ p \in Int /\ l \in 1 .. Len(s)
  BY <1>2, OpsTyped DEF At
<1>4. \A k \in 1 .. Len(s) : s[k].i1 \in Int /\ s[k].i2 \in Int /\ s[k].i1 <= s[k].i2
  BY OpsTyped DEF At
<1>5. s[idx].i2 <= q
  <2>1. CASE idx = l
    BY <1>2, <2>1
  <2>2. CASE idx # l
    <3>1. l \in idx + 1 .. Len(s)
      BY <1>2, <1>3, <2>2
    <3>2. s[idx].i2 <= s[l].i1
      BY <1>3, <3>1, OpsOrdered DEF At
    <3> QED
      BY <1>2, <1>3, <1>4, <3>2
  <2> QED
    BY <2>1, <2>2
<1>6. \A k \in 1 .. (idx + 1) - 1 : k = idx \/ k \in 1 .. idx - 1
  BY <1>3
<1>7. \A k \in 1 .. idx - 1 : s[k].i2 <= q
  BY <1>3, <1>4 DEF Behind
<1> QED
  BY <1>5, <1>6, <1>7 DEF Behind

\* Where every edit that is left begins at the new cursor or beyond, AdvancePast
\* skips none of them.
LEMMA AdvancedAhead ==
  ASSUME NEW s, NEW idx, NEW q, At(s, idx, q), Ahead(s, idx, q)
  PROVE  /\ Ahead(s, AdvancePast(s, idx, q), q) /\ Fresh(s, AdvancePast(s, idx, q), q)
         /\ \A k \in idx .. AdvancePast(s, idx, q) - 1 : s[k].same
<1>1. PICK j : j = AdvancePast(s, idx, q)
  OBVIOUS
<1>2. Len(s) \in Nat /\ idx \in 1 .. Len(s) + 1 /\ q \in Int /\ j \in idx .. Len(s) + 1
  BY <1>1, OpsTyped, Advanced DEF At
<1>3. \A k \in 1 .. Len(s) : s[k].i1 \in Int /\ s[k].i2 \in Int /\ s[k].i1 <= s[k].i2
  BY OpsTyped DEF At
<1>4. Ahead(s, j, q)
  BY <1>2 DEF Ahead
<1>5. Fresh(s, j, q)
  <2>1. j <= Len(s) => j = NextLive(s, idx, q)
    BY <1>1, <1>2 DEF AdvancePast
  <2> QED
    BY <2>1, NextLiveFound DEF Fresh
<1>6. ASSUME NEW k \in idx .. j - 1
      PROVE  s[k].same
  <2>1. k \in idx .. Len(s) /\ k \in 1 .. Len(s) /\ k < NextLive(s, idx, q)
    BY <1>1, <1>2, <1>6 DEF AdvancePast
  <2>2. ConsumedBy(s[k], q)
    BY <2>1, LiveNotSkipped
  <2>3. ~ s[k].i1 >= q
    BY <1>2, <1>3, <2>1, <2>2 DEF ConsumedBy
  <2> QED
    BY <2>1, <2>3 DEF Ahead
<1> QED
  BY <1>1, <1>4, <1>5, <1>6

\* Edits that are ahead of the cursor begin no earlier than an unchanged stretch
\* ends.
LEMMA AheadOfStretch ==
  ASSUME NEW s, NEW idx, NEW p, NEW q \in Int, At(s, idx, p), Ahead(s, idx, p),
         PeekOp(s, idx, p).same, q <= PeekOp(s, idx, p).i2, BaseLen \in Nat
  PROVE  Ahead(s, idx, q)
<1>1. Len(s) \in Nat /\ idx \in 1 .. Len(s) + 1 /\ p \in Int /\ PeekOp(s, idx, p).i2 \in Int
  BY OpsTyped, Peeked DEF At
<1>2. \A k \in 1 .. Len(s) : s[k].i1 \in Int /\ s[k].i2 \in Int /\ s[k].i1 <= s[k].i2
  BY OpsTyped DEF At
<1>3. ASSUME NEW k \in idx .. Len(s), ~ s[k].same
      PROVE  s[k].i1 >= q
  <2>1. k \in 1 .. Len(s)
    BY <1>1
  <2>2. s[k].i1 >= p
    BY <1>3 DEF Ahead
  <2>3. ~ ConsumedBy(s[k], p)
    BY <1>1, <1>2, <2>1, <2>2 DEF ConsumedBy
  <2>4. s[k].i1 >= PeekOp(s, idx, p).i2
    BY <1>3, <2>3, PeekedEdit
  <2> QED
    BY <1>1, <1>2, <2>1, <2>4
<1> QED
  BY <1>3 DEF Ahead

\* An edit that is taken is the next operation, begins at the cursor, and leaves
\* those after it ahead.
LEMMA EditTaken ==
  ASSUME NEW s, NEW idx, NEW p, At(s, idx, p), Ahead(s, idx, p), Fresh(s, idx, p),
         ~ PeekOp(s, idx, p).same
  PROVE  /\ idx \in 1 .. Len(s) /\ PeekOp(s, idx, p) = s[idx] /\ s[idx].i1 = p
         /\ Ahead(s, idx + 1, s[idx].i2) /\ Fresh(s, idx + 1, s[idx].i2)
<1>1. PICK l : l = NextLive(s, idx, p)
  OBVIOUS
<1>2. l \in idx .. Len(s) /\ PeekOp(s, idx, p) = s[l] /\ s[l].i1 <= p
  BY <1>1, PeekedEdit
<1>3. Len(s) \in Nat /\ idx \in 1 .. Len(s) /\ idx \in idx .. Len(s) /\ p \in Int
  BY <1>2, OpsTyped DEF At
<1>4. \A k \in 1 .. Len(s) : s[k].i1 \in Int /\ s[k].i2 \in Int /\ s[k].i1 <= s[k].i2
  BY OpsTyped DEF At
<1>5. l = idx
  <2>1. l <= idx
    BY <1>1, <1>3, LiveNotSkipped DEF Fresh
  <2> QED
    BY <1>2, <1>3, <2>1
<1>6. s[idx].i1 = p
  BY <1>2, <1>3, <1>4, <1>5 DEF Ahead
<1>7. Ahead(s, idx + 1, s[idx].i2)
  <2>1. \A k \in idx + 1 .. Len(s) : s[idx].i2 <= s[k].i1 /\ k \in 1 .. Len(s)
    BY <1>3, OpsOrdered DEF At
  <2> QED
    BY <1>3, <1>4, <2>1 DEF Ahead
<1>8. Fresh(s, idx + 1, s[idx].i2)
  <2> SUFFICES ASSUME idx + 1 <= Len(s) PROVE ~ ConsumedBy(s[idx + 1], s[idx].i2)
    BY DEF Fresh
  <2>1. idx + 1 \in 1 .. Len(s)
    BY <1>3
  <2>2. s[idx + 1].i1 = s[idx].i2
    BY <1>3, <2>1, OpsTyped DEF At, IsScript
  <2> QED
    BY <1>3, <1>4, <2>1, <2>2 DEF ConsumedBy
<1> QED
  BY <1>2, <1>3, <1>5, <1>6, <1>7, <1>8

\* Edits of the other side stay ahead if they do not overlap the one taken.
LEMMA AheadOfEdit ==
  ASSUME NEW s, NEW idx, NEW p, At(s, idx, p), Ahead(s, idx, p),
         NEW e \in Op, e.i1 = p, e.i1 <= e.i2, \A a \in Edits(s) : ~ Overlap(e, a)
  PROVE  Ahead(s, idx, e.i2)
<1>1. Len(s) \in Nat /\ DOMAIN s = 1 .. Len(s) /\ idx \in 1 .. Len(s) + 1 /\ p \in Int
  BY OpsTyped DEF At
<1>2. \A k \in 1 .. Len(s) : s[k].i1 \in Int /\ s[k].i2 \in Int /\ s[k].i1 <= s[k].i2
  BY OpsTyped DEF At
<1>3. e.i2 \in Int
  <2>1. e.i2 \in 0 .. BaseLen
    BY DEF Op
  <2> QED
    BY <2>1
<1>4. ASSUME NEW k \in idx .. Len(s), ~ s[k].same
      PROVE  s[k].i1 >= e.i2
  <2>1. k \in 1 .. Len(s) /\ s[k] \in Edits(s)
    BY <1>1, <1>4 DEF Edits
  <2>2. s[k].i1 >= p /\ ~ Overlap(e, s[k])
    BY <1>4, <2>1 DEF Ahead
  <2> QED
    BY <1>1, <1>2, <1>3, <2>1, <2>2 DEF Overlap
<1> QED
  BY <1>4 DEF Ahead

\* The range of an edit.
LEMMA EditTyped ==
  ASSUME NEW s, IsScript(s), NEW e \in Edits(s)
  PROVE  e.i1 \in Int /\ e.i2 \in Int /\ e.i1 <= e.i2 /\ ~ e.same
BY OpsTyped DEF Edits

\* A base line between the cursor and the end of an unchanged stretch is kept.
LEMMA KeptByStretch ==
  ASSUME NEW s, NEW idx, NEW p, NEW n \in Int, At(s, idx, p), Behind(s, idx, p), BaseLen \in Nat,
         PeekOp(s, idx, p).same, p <= n, n < PeekOp(s, idx, p).i2
  PROVE  Keeps(s, n)
<1> SUFFICES ASSUME NEW e \in Edits(s), e.i1 <= n, n < e.i2 PROVE FALSE
  BY DEF Keeps
<1>1. Len(s) \in Nat /\ DOMAIN s = 1 .. Len(s) /\ idx \in 1 .. Len(s) + 1 /\ p \in Int
      /\ PeekOp(s, idx, p).i2 \in Int
  BY OpsTyped, Peeked DEF At
<1>2. PICK k \in 1 .. Len(s) : s[k] = e /\ ~ s[k].same
  BY <1>1 DEF Edits
<1>3. s[k].i1 \in Int /\ s[k].i2 \in Int /\ s[k].i1 <= n /\ n < s[k].i2
  BY <1>2, OpsTyped DEF At
<1>4. CASE k < idx
  BY <1>1, <1>3, <1>4 DEF Behind
<1>5. CASE k >= idx
  <2>1. ~ ConsumedBy(s[k], p)
    BY <1>1, <1>3 DEF ConsumedBy
  <2>2. k \in idx .. Len(s)
    BY <1>1, <1>5
  <2>3. s[k].i1 >= PeekOp(s, idx, p).i2
    BY <1>2, <2>1, <2>2, PeekedEdit
  <2> QED
    BY <1>1, <1>3, <2>3
<1> QED
  BY <1>1, <1>4, <1>5

\* One turn, of which each list is passed by one of the four cases.
LEMMA TurnWalks ==
  ASSUME WalkInv, Turn
  PROVE  WalkInv' /\ KeptLinesCopied /\ EditsInPlace
<1>1. /\ BaseLen \in Nat /\ MergeTypeOK /\ MergeTypeOK' /\ Advances
      /\ At(ours, oi, i) /\ At(theirs, ti, i)
      /\ Behind(ours, oi, i) /\ Behind(theirs, ti, i)
  BY BaseTyped, TurnAdvances DEF WalkInv, MergeTypeOK, At
<1>2. /\ IsScript(ours) /\ IsScript(theirs) /\ ours' = ours /\ theirs' = theirs
      /\ i \in Nat /\ i' \in Nat /\ i <= i' /\ i' <= BaseLen
      /\ oi \in Nat /\ oi' \in Nat /\ ti \in Nat /\ ti' \in Nat
      /\ At(ours, oi, i') /\ At(theirs, ti, i')
  <2>1. ours' = ours /\ theirs' = theirs
    BY DEF Turn, CopyBase, TakeOurs, TakeTheirs, TakeBoth
  <2>2. Len(ours) \in Nat /\ Len(theirs) \in Nat
    BY <1>1, OpsTyped DEF MergeTypeOK
  <2> QED
    BY <1>1, <2>1, <2>2 DEF MergeTypeOK, At, Advances
<1>3. /\ Edits(ours)' = Edits(ours) /\ Edits(theirs)' = Edits(theirs)
      /\ EditsApart' = EditsApart
  BY <1>2 DEF Edits, EditsApart
<1>4. /\ OOp.same \in BOOLEAN /\ OOp.i2 \in i .. BaseLen
      /\ TOp.same \in BOOLEAN /\ TOp.i2 \in i .. BaseLen
  BY <1>1, Peeked DEF OOp, TOp
<1>5. /\ ~ OOp.same => OOp \in Edits(ours) /\ OOp.i1 <= i
      /\ ~ TOp.same => TOp \in Edits(theirs) /\ TOp.i1 <= i
  <2>1. /\ Len(ours) \in Nat /\ DOMAIN ours = 1 .. Len(ours)
        /\ Len(theirs) \in Nat /\ DOMAIN theirs = 1 .. Len(theirs)
    BY <1>2, OpsTyped
  <2>2. ~ OOp.same => \E l \in oi .. Len(ours) : OOp = ours[l] /\ ours[l].i1 <= i
    BY <1>1, PeekedEdit DEF OOp
  <2>3. ~ TOp.same => \E l \in ti .. Len(theirs) : TOp = theirs[l] /\ theirs[l].i1 <= i
    BY <1>1, PeekedEdit DEF TOp
  <2>4. oi >= 1 /\ ti >= 1
    BY <1>1, <2>1 DEF At
  <2>5. ASSUME ~ OOp.same PROVE OOp \in Edits(ours) /\ OOp.i1 <= i
    BY <1>2, <2>1, <2>2, <2>4, <2>5 DEF Edits
  <2>6. ASSUME ~ TOp.same PROVE TOp \in Edits(theirs) /\ TOp.i1 <= i
    BY <1>2, <2>1, <2>3, <2>4, <2>6 DEF Edits
  <2> QED
    BY <2>5, <2>6
\* A line below the end of two unchanged stretches is kept by both.
<1>6. ASSUME CopyBase
      PROVE  /\ i' <= OOp.i2 /\ i' <= TOp.i2 /\ OOp.same /\ TOp.same
             /\ oi' = AdvancePast(ours, oi, i') /\ ti' = AdvancePast(theirs, ti, i')
             /\ hasConflict' = hasConflict
  <2>1. {OOp.i2, TOp.i2, BaseLen} \subseteq Nat
    BY <1>1, <1>2, <1>4
  <2>2. i' = Min({OOp.i2, TOp.i2, BaseLen})
    BY <1>6 DEF CopyBase
  <2>3. \A x \in {OOp.i2, TOp.i2, BaseLen} : i' <= x
    BY <2>1, <2>2, MinIsLeast
  <2> QED
    BY <1>6, <2>2, <2>3 DEF CopyBase
<1>7. KeptLinesCopied
  <2> SUFFICES ASSUME NEW n \in i + 1 .. i' PROVE n \in KeptByBoth <=> CopyBase
    BY DEF KeptLinesCopied
  <2>1. n \in 1 .. BaseLen /\ n - 1 \in i .. i' - 1 /\ n - 1 \in Int
    <3>1. PICK j \in Nat : j = i'
      BY <1>2
    <3>2. n \in i + 1 .. j /\ j <= BaseLen
      BY <1>2, <3>1
    <3>3. n \in Int /\ i + 1 <= n /\ n <= j
      BY <1>2, <3>2
    <3>4. n - 1 \in i .. j - 1
      BY <1>2, <3>3
    <3>5. n \in 1 .. BaseLen
      BY <1>1, <1>2, <3>2, <3>3
    <3>6. n - 1 \in i .. i' - 1
      BY <3>1, <3>4
    <3> QED
      BY <3>3, <3>5, <3>6
  <2>2. CASE CopyBase
    <3>1. Keeps(ours, n - 1)
      BY <1>1, <1>2, <1>4, <1>6, <2>1, <2>2, KeptByStretch DEF OOp
    <3>2. Keeps(theirs, n - 1)
      BY <1>1, <1>2, <1>4, <1>6, <2>1, <2>2, KeptByStretch DEF TOp
    <3> QED
      BY <2>1, <2>2, <3>1, <3>2 DEF KeptByBoth
  <2>3. CASE ~ CopyBase
    <3>1. \/ ~ OOp.same /\ n - 1 < OOp.i2
          \/ ~ TOp.same /\ n - 1 < TOp.i2
      <4>1. CASE TakeOurs
        BY <2>1, <1>2, <1>4, <4>1 DEF TakeOurs
      <4>2. CASE TakeTheirs
        BY <2>1, <1>2, <1>4, <4>2 DEF TakeTheirs
      <4>3. CASE TakeBoth
        <5>1. ~ OOp.same /\ ~ TOp.same /\ i' = Max({OOp.i2, TOp.i2})
          BY <4>3 DEF TakeBoth
        <5>2. OOp.i2 \in Int /\ TOp.i2 \in Int
          BY <1>4
        <5>3. i' = OOp.i2 \/ i' = TOp.i2
          BY <5>1, <5>2, MaxOfTwo
        <5> QED
          BY <1>2, <2>1, <5>1, <5>2, <5>3
      <4> QED
        BY <2>3, <4>1, <4>2, <4>3 DEF Turn
    <3>2. ~ Keeps(ours, n - 1) \/ ~ Keeps(theirs, n - 1)
      <4>1. CASE ~ OOp.same /\ n - 1 < OOp.i2
        <5>1. OOp \in Edits(ours) /\ OOp.i1 <= n - 1
          <6>1. OOp.i1 \in Int
            BY <1>2, <1>5, <4>1, EditTyped
          <6> QED
            BY <1>2, <1>5, <2>1, <4>1, <6>1
        <5> QED
          BY <4>1, <5>1 DEF Keeps
      <4>2. CASE ~ TOp.same /\ n - 1 < TOp.i2
        <5>1. TOp \in Edits(theirs) /\ TOp.i1 <= n - 1
          <6>1. TOp.i1 \in Int
            BY <1>2, <1>5, <4>2, EditTyped
          <6> QED
            BY <1>2, <1>5, <2>1, <4>2, <6>1
        <5> QED
          BY <4>2, <5>1 DEF Keeps
      <4> QED
        BY <3>1, <4>1, <4>2
    <3> QED
      BY <2>3, <3>2 DEF KeptByBoth
  <2> QED
    BY <2>2, <2>3
<1>8. Behind(ours, oi', i') /\ Behind(theirs, ti', i')
  <2>1. CASE CopyBase
    BY <1>1, <1>2, <1>6, <2>1, AdvancedBehind
  <2>2. CASE TakeOurs
    <3>1. i' = OOp.i2 /\ oi' = oi + 1 /\ ti' = AdvancePast(theirs, ti, i') /\ ~ OOp.same
      BY <2>2 DEF TakeOurs
    <3>2. Behind(theirs, ti', i')
      BY <1>1, <1>2, <3>1, AdvancedBehind
    <3>3. Behind(ours, oi + 1, i')
      BY <1>1, <1>2, <1>4, <3>1, TakenBehind DEF OOp
    <3> QED
      BY <3>1, <3>2, <3>3
  <2>3. CASE TakeTheirs
    <3>1. i' = TOp.i2 /\ ti' = ti + 1 /\ oi' = AdvancePast(ours, oi, i') /\ ~ TOp.same
      BY <2>3 DEF TakeTheirs
    <3>2. Behind(ours, oi', i')
      BY <1>1, <1>2, <3>1, AdvancedBehind
    <3>3. Behind(theirs, ti + 1, i')
      BY <1>1, <1>2, <1>4, <3>1, TakenBehind DEF TOp
    <3> QED
      BY <3>1, <3>2, <3>3
  <2>4. CASE TakeBoth
    <3>1. ~ OOp.same /\ ~ TOp.same /\ i' = Max({OOp.i2, TOp.i2}) /\ oi' = oi + 1 /\ ti' = ti + 1
      BY <2>4 DEF TakeBoth
    <3>2. OOp.i2 \in Int /\ TOp.i2 \in Int
      BY <1>4
    <3>3. OOp.i2 <= i' /\ TOp.i2 <= i' /\ i' \in Int
      BY <1>2, <3>1, <3>2, MaxOfTwo
    <3>4. Behind(ours, oi + 1, i')
      BY <1>1, <1>2, <3>1, <3>3, TakenBehind DEF OOp
    <3>5. Behind(theirs, ti + 1, i')
      BY <1>1, <1>2, <3>1, <3>3, TakenBehind DEF TOp
    <3> QED
      BY <3>1, <3>4, <3>5
  <2> QED
    BY <2>1, <2>2, <2>3, <2>4 DEF Turn
<1>9. ASSUME EditsApart
      PROVE  /\ Ahead(ours, oi', i') /\ Fresh(ours, oi', i')
             /\ Ahead(theirs, ti', i') /\ Fresh(theirs, ti', i')
             /\ ~ hasConflict' /\ EditsInPlace
  <2>1. /\ Ahead(ours, oi, i) /\ Fresh(ours, oi, i) /\ Ahead(theirs, ti, i) /\ Fresh(theirs, ti, i)
        /\ ~ hasConflict
    BY <1>9 DEF WalkInv, ApartInv
  <2>2. ~ OOp.same => /\ OOp = ours[oi] /\ OOp.i1 = i /\ OOp \in Op /\ OOp.i1 <= OOp.i2
                      /\ Ahead(ours, oi + 1, OOp.i2) /\ Fresh(ours, oi + 1, OOp.i2)
    BY <1>1, <1>2, <2>1, EditTaken, OpsTyped DEF OOp
  <2>3. ~ TOp.same => /\ TOp = theirs[ti] /\ TOp.i1 = i /\ TOp \in Op /\ TOp.i1 <= TOp.i2
                      /\ Ahead(theirs, ti + 1, TOp.i2) /\ Fresh(theirs, ti + 1, TOp.i2)
    BY <1>1, <1>2, <2>1, EditTaken, OpsTyped DEF TOp
  <2>4. CASE CopyBase
    <3>1. ~ TakeOurs /\ ~ TakeTheirs /\ ~ TakeBoth
      BY <1>6, <2>4 DEF TakeOurs, TakeTheirs, TakeBoth
    <3>2. Ahead(ours, oi, i') /\ Ahead(theirs, ti, i')
      BY <1>1, <1>2, <1>6, <2>1, <2>4, AheadOfStretch DEF OOp, TOp
    <3>3. /\ Ahead(ours, oi', i') /\ Fresh(ours, oi', i') /\ \A k \in oi .. oi' - 1 : ours[k].same
          /\ Ahead(theirs, ti', i') /\ Fresh(theirs, ti', i') /\ \A k \in ti .. ti' - 1 : theirs[k].same
      BY <1>2, <1>6, <2>4, <3>2, AdvancedAhead
    <3> QED
      BY <1>6, <2>1, <2>4, <3>1, <3>3 DEF EditsInPlace
  <2>5. CASE TakeOurs
    <3>1. /\ ~ OOp.same /\ TOp.same /\ i' = OOp.i2 /\ oi' = oi + 1 /\ ti' = AdvancePast(theirs, ti, i')
          /\ hasConflict' = hasConflict
      BY <2>5 DEF TakeOurs
    <3>2. ~ TakeTheirs /\ ~ TakeBoth
      BY <3>1 DEF TakeTheirs, TakeBoth
    <3>3. \A a \in Edits(theirs) : ~ Overlap(OOp, a)
      BY <1>5, <1>9, <3>1 DEF EditsApart
    <3>4. Ahead(theirs, ti, i')
      BY <1>1, <2>1, <2>2, <3>1, <3>3, AheadOfEdit
    <3>5. Ahead(theirs, ti', i') /\ Fresh(theirs, ti', i') /\ \A k \in ti .. ti' - 1 : theirs[k].same
      BY <1>2, <3>1, <3>4, AdvancedAhead
    <3>6. \A k \in oi .. oi' - 1 : k = oi
      BY <1>2, <3>1
    <3> QED
      BY <2>1, <2>2, <2>5, <3>1, <3>2, <3>5, <3>6 DEF EditsInPlace
  <2>6. CASE TakeTheirs
    <3>1. /\ OOp.same /\ ~ TOp.same /\ i' = TOp.i2 /\ ti' = ti + 1 /\ oi' = AdvancePast(ours, oi, i')
          /\ hasConflict' = hasConflict
      BY <2>6 DEF TakeTheirs
    <3>2. ~ TakeOurs /\ ~ TakeBoth
      BY <3>1 DEF TakeOurs, TakeBoth
    <3>3. \A a \in Edits(ours) : ~ Overlap(TOp, a)
      <4>1. TOp \in Op /\ \A a \in Edits(ours) : a \in Op
        BY <1>2, <2>3, <3>1, OpsTyped DEF Edits
      <4>2. \A a \in Edits(ours) : ~ Overlap(a, TOp)
        BY <1>5, <1>9, <3>1 DEF EditsApart
      <4> QED
        BY <4>1, <4>2 DEF Overlap, Op
    <3>4. Ahead(ours, oi, i')
      BY <1>1, <2>1, <2>3, <3>1, <3>3, AheadOfEdit
    <3>5. Ahead(ours, oi', i') /\ Fresh(ours, oi', i') /\ \A k \in oi .. oi' - 1 : ours[k].same
      BY <1>2, <3>1, <3>4, AdvancedAhead
    <3>6. \A k \in ti .. ti' - 1 : k = ti
      BY <1>2, <3>1
    <3> QED
      BY <2>1, <2>3, <2>6, <3>1, <3>2, <3>5, <3>6 DEF EditsInPlace
  <2>7. ~ TakeBoth
    <3> SUFFICES ASSUME TakeBoth PROVE FALSE
      OBVIOUS
    <3>1. ~ OOp.same /\ ~ TOp.same
      BY DEF TakeBoth
    <3>2. Overlap(OOp, TOp)
      BY <2>2, <2>3, <3>1 DEF Overlap
    <3> QED
      BY <1>5, <1>9, <3>1, <3>2 DEF EditsApart
  <2> QED
    BY <2>4, <2>5, <2>6, <2>7 DEF Turn
<1>10. ASSUME ours = theirs
       PROVE  oi' = ti' /\ ~ hasConflict'
  <2>1. oi = ti /\ ~ hasConflict /\ OOp = TOp
    BY <1>10 DEF WalkInv, OOp, TOp
  <2> QED
    BY <1>6, <1>10, <2>1 DEF Turn, TakeOurs, TakeTheirs, TakeBoth
<1>11. ApartInv'
  BY <1>2, <1>3, <1>9 DEF ApartInv
<1>12. WalkInv'
  BY <1>1, <1>2, <1>8, <1>10, <1>11 DEF WalkInv
<1> QED
  BY <1>7, <1>9, <1>12 DEF EditsInPlace

\* Every edit is ahead of the first line.
LEMMA AheadAtStart ==
  ASSUME NEW s, IsScript(s)
  PROVE  Ahead(s, 1, 0) /\ Fresh(s, 1, 0)
<1>1. \A k \in 1 .. Len(s) : s[k].i1 \in 0 .. BaseLen /\ s[k].i2 \in 0 .. BaseLen /\ s[k].i1 <= s[k].i2
                             /\ (s[k].same => s[k].i1 < s[k].i2)
  BY OpsTyped
<1>2. Len(s) \in Nat
  BY OpsTyped
<1>3. 1 <= Len(s) => 1 \in 1 .. Len(s) /\ s[1].i1 = 0
  BY <1>2, OpsTyped DEF IsScript
<1> QED
  BY <1>1, <1>2, <1>3 DEF Ahead, Fresh, ConsumedBy

\* The invariant of the loop.
LEMMA WalkHolds == MergeSpec => []WalkInv
<1>1. MergeInit => WalkInv
  <2> SUFFICES ASSUME MergeInit PROVE WalkInv
    OBVIOUS
  <2>1. MergeTypeOK /\ i = 0 /\ oi = 1 /\ ti = 1 /\ ~ hasConflict
    BY MergeInitTyped DEF MergeInit
  <2>2. Behind(ours, oi, i) /\ Behind(theirs, ti, i)
    BY <2>1 DEF Behind
  <2> QED
    BY <2>1, <2>2, AheadAtStart DEF WalkInv, ApartInv, MergeTypeOK
<1>2. WalkInv /\ [MergeNext]_mergeVars => WalkInv'
  <2> SUFFICES ASSUME WalkInv, [MergeNext]_mergeVars PROVE WalkInv'
    OBVIOUS
  <2>1. CASE Turn
    BY <2>1, TurnWalks
  <2>2. CASE UNCHANGED mergeVars
    BY <2>2 DEF mergeVars, WalkInv, ApartInv, MergeTypeOK, Behind, Ahead, Fresh, EditsApart, Edits
  <2> QED
    BY <2>1, <2>2 DEF MergeNext, Done
<1> QED
  BY <1>1, <1>2, PTL DEF MergeSpec

\* Merge3 writes no conflict where the edits of the two sides are apart, nor where
\* both sides made the same ones, whatever the base and the edits are.
THEOREM NeverFalseConflict == MergeSpec => []NoFalseConflict
<1>1. WalkInv => NoFalseConflict
  BY DEF WalkInv, ApartInv, NoFalseConflict
<1> QED
  BY <1>1, WalkHolds, PTL

\* The loop of Merge3 copies a base line when both sides keep it, and drops it when
\* one of them does not, in each turn and with any overlaps and conflicts: this is
\* the step that KeptLinesOnce is the sum of.
THEOREM LinesCopiedInPlace == MergeSpec => [][KeptLinesCopied]_mergeVars
<1>1. WalkInv /\ [MergeNext]_mergeVars => [KeptLinesCopied]_mergeVars
  BY TurnWalks DEF MergeNext, Done
<1> QED
  BY <1>1, WalkHolds, PTL DEF MergeSpec

\* Edits that are apart are each taken by one turn of the loop, at their own place,
\* and none is skipped when the other side's is taken: this is the step that
\* EditsApartApplied is the sum of.
THEOREM EditsTakenInPlace == MergeSpec => [][EditsInPlace]_mergeVars
<1>1. WalkInv /\ [MergeNext]_mergeVars => [EditsInPlace]_mergeVars
  BY TurnWalks DEF MergeNext, Done
<1> QED
  BY <1>1, WalkHolds, PTL DEF MergeSpec

-----------------------------------------------------------------------------
(* What both lists leave of the base, line by line.                        *)

\* The operations of one side, or none where the other side stands for both.
Side(s) == IsScript(s) \/ s = << >>

\* What an edit writes, and where.
LEMMA EditOfSide ==
  ASSUME NEW s, Side(s), NEW e \in Edits(s)
  PROVE  e.text \in Seq(Line) /\ e.i1 \in Int /\ e.i2 \in Int /\ e.i1 <= e.i2
<1>1. IsScript(s)
  BY DEF Side, Edits
<1>2. PICK k \in 1 .. Len(s) : e = s[k]
  BY <1>1, OpsTyped DEF Edits
<1>3. e \in Op
  BY <1>1, <1>2, OpsTyped
<1>4. e.text \in Text
  BY <1>3 DEF Op
<1> QED
  BY <1>1, <1>4, EditTyped, MergeConstants

\* It does not matter which of three lists of lines are put together first.
LEMMA LinesAssociate ==
  \A x, y, z \in Seq(Line) : (x \o y) \o z = x \o (y \o z)
BY ConcatAssociative

\* The text in front of a line is a list of lines.
LEMMA TextTyped ==
  ASSUME NEW s, Side(s), NEW p
  PROVE  TextAt(s, p) \in Seq(Line)
<1>1. CASE \E e \in Edits(s) : e.i1 = p
  <2>1. PICK e : e = (CHOOSE d \in Edits(s) : d.i1 = p)
    OBVIOUS
  <2>2. e \in Edits(s)
    BY <1>1, <2>1, Zenon
  <2>3. TextAt(s, p) = e.text
    BY <1>1, <2>1, Zenon DEF TextAt
  <2> QED
    BY <2>2, <2>3, EditOfSide
<1>2. CASE ~ \E e \in Edits(s) : e.i1 = p
  BY <1>2 DEF TextAt
<1> QED
  BY <1>1, <1>2

\* So is what stands at a line.
LEMMA PieceTyped ==
  ASSUME NEW s, NEW t, Side(s), Side(t), NEW p \in 0 .. BaseLen
  PROVE  Piece(s, t, p) \in Seq(Line)
<1>1. PICK l : l = IF p < BaseLen /\ Keeps(s, p) /\ Keeps(t, p) THEN <<Base[p + 1]>> ELSE << >>
  OBVIOUS
<1>2. l \in Seq(Line)
  <2>1. p < BaseLen => Base[p + 1] \in Line
    BY BaseTyped
  <2> QED
    BY <1>1, <2>1
<1>3. TextAt(s, p) \o TextAt(t, p) \in Seq(Line)
  BY TextTyped, ConcatProperties
<1> QED
  BY <1>1, <1>2, <1>3, ConcatProperties DEF Piece

\* Nothing stands in front of the first line.
LEMMA BeforeFirst ==
  ASSUME NEW s, NEW t
  PROVE  AppliedBefore(s, t, 0) = << >>
BY DEF AppliedBefore, FlattenSeq

\* In front of the next line stands what is at this one and all before it.
LEMMA BeforeNext ==
  ASSUME NEW s, NEW t, Side(s), Side(t), NEW p \in 0 .. BaseLen
  PROVE  /\ AppliedBefore(s, t, p) \in Seq(Line)
         /\ AppliedBefore(s, t, p + 1) = AppliedBefore(s, t, p) \o Piece(s, t, p)
<1> DEFINE less == [n \in 1 .. p |-> Piece(s, t, n - 1)]
           more == [n \in 1 .. p + 1 |-> Piece(s, t, n - 1)]
<1>1. p \in Nat /\ BaseLen \in Nat
  BY BaseTyped
<1>2. less \in [1 .. p -> Seq(Line)] /\ more \in [1 .. p + 1 -> Seq(Line)]
  <2>1. \A n \in 1 .. p + 1 : n - 1 \in 0 .. BaseLen
    BY <1>1
  <2> QED
    BY <1>1, <2>1, PieceTyped
<1>3. \A k \in 1 .. p : less[k] = more[k]
  BY <1>1
<1>4. more[p + 1] = Piece(s, t, p)
  <2>1. p + 1 \in 1 .. p + 1 /\ (p + 1) - 1 = p
    BY <1>1
  <2> QED
    BY <2>1
<1>5. AppliedBefore(s, t, p) = FlattenSeq(less) /\ AppliedBefore(s, t, p + 1) = FlattenSeq(more)
  BY DEF AppliedBefore
<1> HIDE DEF less, more
<1>6. FlattenSeq(less) \in Seq(Line) /\ FlattenSeq(more) = FlattenSeq(less) \o more[p + 1]
  BY <1>1, <1>2, <1>3, FlattenOneMore
<1> QED
  BY <1>4, <1>5, <1>6, Zenon

\* Where nothing stands between two lines, the same stands in front of both.
LEMMA BeforeDropped ==
  ASSUME NEW s, NEW t, Side(s), Side(t), NEW a \in 0 .. BaseLen, NEW b \in a .. BaseLen,
         \A n \in a .. b - 1 : Piece(s, t, n) = << >>
  PROVE  AppliedBefore(s, t, b) = AppliedBefore(s, t, a)
<1> DEFINE Bad == {n \in a .. b : AppliedBefore(s, t, n) # AppliedBefore(s, t, a)}
<1>1. BaseLen \in Nat /\ a \in Int /\ b \in Int /\ a <= b /\ b <= BaseLen
  BY BaseTyped
<1>2. SUFFICES ASSUME Bad # {} PROVE FALSE
  BY <1>1 DEF Bad
<1>3. PICK n \in Bad : \A m \in Bad : n <= m
  <2>1. Bad \subseteq Nat
    BY <1>1
  <2> HIDE DEF Bad
  <2> QED
    BY <1>2, <2>1, MinIsLeast
<1>4. n \in a .. b /\ AppliedBefore(s, t, n) # AppliedBefore(s, t, a) /\ n - 1 \notin Bad
  BY <1>1, <1>3
<1>5. n - 1 \in a .. b - 1 /\ n - 1 \in a .. b /\ n - 1 \in 0 .. BaseLen /\ (n - 1) + 1 = n
  BY <1>1, <1>4
<1>6. AppliedBefore(s, t, n - 1) = AppliedBefore(s, t, a)
  BY <1>4, <1>5
<1>7. /\ AppliedBefore(s, t, n - 1) \in Seq(Line)
      /\ AppliedBefore(s, t, n) = AppliedBefore(s, t, n - 1) \o << >>
  BY <1>5, BeforeNext
<1> QED
  BY <1>4, <1>6, <1>7, ConcatEmptySeq

\* Where only base lines stand between two lines, those make the difference.
LEMMA BeforeCopied ==
  ASSUME NEW s, NEW t, Side(s), Side(t), NEW a \in 0 .. BaseLen, NEW b \in a .. BaseLen,
         \A n \in a .. b - 1 : Piece(s, t, n) = <<Base[n + 1]>>
  PROVE  AppliedBefore(s, t, b) = AppliedBefore(s, t, a) \o SubSeq(Base, a + 1, b)
<1> DEFINE Copied(n) == AppliedBefore(s, t, n) = AppliedBefore(s, t, a) \o SubSeq(Base, a + 1, n)
           Bad == {n \in a .. b : ~ Copied(n)}
<1>1. BaseLen \in Nat /\ a \in Int /\ b \in Int /\ a <= b /\ b <= BaseLen /\ Base \in Seq(Line)
  BY BaseTyped, MergeConstants
<1>2. b \in a .. b /\ Base \in Seq(Line)
  BY <1>1
<1> HIDE DEF Copied
<1>3. ASSUME Bad # {} PROVE FALSE
  <2>3. PICK n \in Bad : \A m \in Bad : n <= m
    <3>1. Bad \subseteq Nat
      BY <1>1
    <3> HIDE DEF Bad
    <3> QED
      BY <1>3, <3>1, MinIsLeast
  <2>4. n \in a .. b /\ n - 1 \notin Bad /\ ~ Copied(n)
    BY <1>1, <2>3
  <2>5. AppliedBefore(s, t, a) \in Seq(Line)
    BY BeforeNext
  <2>6. CASE n = a
    <3>1. SubSeq(Base, a + 1, a) = << >>
      BY <1>1, SubSeqEmpty
    <3> QED
      BY <2>4, <2>5, <2>6, <3>1, ConcatEmptySeq DEF Copied
  <2>7. CASE n # a
    <3>1. n - 1 \in a .. b - 1 /\ n - 1 \in a .. b /\ n - 1 \in 0 .. BaseLen /\ (n - 1) + 1 = n
      BY <1>1, <2>4, <2>7
    <3>2. AppliedBefore(s, t, n - 1) = AppliedBefore(s, t, a) \o SubSeq(Base, a + 1, n - 1)
      BY <2>4, <3>1 DEF Copied
    <3>3. AppliedBefore(s, t, n) = AppliedBefore(s, t, n - 1) \o <<Base[n]>>
      BY <3>1, BeforeNext
    <3>4. SubSeq(Base, a + 1, n) = SubSeq(Base, a + 1, n - 1) \o <<Base[n]>>
      <4>1. a + 1 \in 1 .. Len(Base) /\ n \in a + 1 .. Len(Base)
        BY <1>1, <2>4, <2>7 DEF BaseLen
      <4> QED
        BY <1>1, <4>1, SubSeqRecursiveSecond
    <3>5. SubSeq(Base, a + 1, n - 1) \in Seq(Line) /\ <<Base[n]>> \in Seq(Line)
      <4>1. \A k \in a + 1 .. n - 1 : Base[k] \in Line
        BY <1>1, <2>4, BaseTyped
      <4>2. Base[n] \in Line
        BY <1>1, <2>4, <2>7, BaseTyped
      <4>3. a + 1 \in Int /\ n - 1 \in Int
        BY <1>1, <2>4
      <4> QED
        BY <4>1, <4>2, <4>3, SubSeqProperties
    <3>6. (AppliedBefore(s, t, a) \o SubSeq(Base, a + 1, n - 1)) \o <<Base[n]>>
            = AppliedBefore(s, t, a) \o (SubSeq(Base, a + 1, n - 1) \o <<Base[n]>>)
      BY <2>5, <3>5, LinesAssociate, Zenon
    <3> QED
      BY <2>4, <3>2, <3>3, <3>4, <3>6, Zenon DEF Copied
  <2> QED
    BY <2>6, <2>7
<1>4. Copied(b)
  BY <1>2, <1>3
<1> QED
  BY <1>4 DEF Copied

-----------------------------------------------------------------------------
(* The two ways in which a turn moves the cursor on.                       *)

\* No line has a text in front of it where no edit begins.
LEMMA NoTextAt ==
  ASSUME NEW s, NEW p, \A e \in Edits(s) : e.i1 # p
  PROVE  TextAt(s, p) = << >>
BY DEF TextAt

\* Over lines that both sides keep, in front of the first of which only there may
\* be texts.
LEMMA KeptWritten ==
  ASSUME NEW s, NEW t, Side(s), Side(t), NEW p \in 0 .. BaseLen, NEW q \in p + 1 .. BaseLen,
         \A n \in p .. q - 1 : Keeps(s, n) /\ Keeps(t, n),
         \A n \in p + 1 .. q - 1 : TextAt(s, n) = << >> /\ TextAt(t, n) = << >>
  PROVE  AppliedBefore(s, t, q)
           = ((AppliedBefore(s, t, p) \o TextAt(s, p)) \o TextAt(t, p)) \o SubSeq(Base, p + 1, q)
<1>1. BaseLen \in Nat /\ p \in Nat /\ q \in Nat /\ p < q /\ q <= BaseLen /\ Base \in Seq(Line)
  BY BaseTyped, MergeConstants
<1>2. ASSUME NEW n \in p + 1 .. q - 1 PROVE Piece(s, t, n) = <<Base[n + 1]>>
  <2>1. Base[n + 1] \in Line /\ n < BaseLen /\ n \in p .. q - 1
    BY <1>1, BaseTyped
  <2>2. Keeps(s, n) /\ Keeps(t, n)
    BY <2>1
  <2>3. Piece(s, t, n) = (<< >> \o << >>) \o <<Base[n + 1]>>
    BY <2>1, <2>2, Zenon DEF Piece
  <2> QED
    BY <2>1, <2>3
<1>3. AppliedBefore(s, t, q) = AppliedBefore(s, t, p + 1) \o SubSeq(Base, (p + 1) + 1, q)
  <2>1. p + 1 \in 0 .. BaseLen /\ q \in p + 1 .. BaseLen
    BY <1>1
  <2> QED
    BY <1>2, <2>1, BeforeCopied
<1>4. Piece(s, t, p) = (TextAt(s, p) \o TextAt(t, p)) \o <<Base[p + 1]>>
  <2>1. p < BaseLen /\ p \in p .. q - 1
    BY <1>1
  <2>2. Keeps(s, p) /\ Keeps(t, p)
    BY <2>1
  <2> QED
    BY <2>1, <2>2, Zenon DEF Piece
<1>5. PICK a, x, y, l, r :
        /\ a = AppliedBefore(s, t, p) /\ x = TextAt(s, p) /\ y = TextAt(t, p)
        /\ l = <<Base[p + 1]>> /\ r = SubSeq(Base, (p + 1) + 1, q)
  OBVIOUS
<1>6. a \in Seq(Line) /\ x \in Seq(Line) /\ y \in Seq(Line) /\ l \in Seq(Line) /\ r \in Seq(Line)
  <2>1. a \in Seq(Line) /\ x \in Seq(Line) /\ y \in Seq(Line)
    BY <1>5, BeforeNext, TextTyped
  <2>2. Base[p + 1] \in Line /\ \A k \in (p + 1) + 1 .. q : Base[k] \in Line
    BY <1>1, BaseTyped
  <2>3. r \in Seq(Line)
    BY <1>1, <1>5, <2>2, SubSeqProperties
  <2> QED
    BY <1>5, <2>1, <2>2, <2>3
<1>7. AppliedBefore(s, t, p + 1) = a \o ((x \o y) \o l)
  BY <1>4, <1>5, BeforeNext
<1>8. SubSeq(Base, p + 1, q) = l \o r
  <2>1. p + 1 \in 1 .. Len(Base) /\ q \in p + 1 .. Len(Base)
    BY <1>1 DEF BaseLen
  <2> QED
    BY <1>1, <1>5, <2>1, SubSeqRecursiveFirst
<1>9. (a \o ((x \o y) \o l)) \o r = ((a \o x) \o y) \o (l \o r)
  <2>1. PICK w : w = x \o y
    OBVIOUS
  <2>2. PICK v : v = a \o w
    OBVIOUS
  <2>3. w \in Seq(Line)
    BY <1>6, <2>1
  <2>4. v \in Seq(Line)
    BY <1>6, <2>2, <2>3
  <2>5. a \in Seq(Line)
    BY <1>6
  <2>6. l \in Seq(Line)
    BY <1>6
  <2>7. r \in Seq(Line)
    BY <1>6
  <2>8. (a \o w) \o l = a \o (w \o l)
    BY <2>3, <2>5, <2>6, LinesAssociate, Zenon
  <2>9. (v \o l) \o r = v \o (l \o r)
    BY <2>4, <2>6, <2>7, LinesAssociate, Zenon
  <2>10. v = (a \o x) \o y
    BY <1>6, <2>1, <2>2, LinesAssociate, Zenon
  <2> QED
    BY <2>1, <2>2, <2>8, <2>9, <2>10, Zenon
<1> QED
  BY <1>3, <1>5, <1>7, <1>8, <1>9, Zenon

\* Over lines of which one side drops each.
LEMMA DroppedWritten ==
  ASSUME NEW s, NEW t, Side(s), Side(t), NEW p \in 0 .. BaseLen, NEW q \in p + 1 .. BaseLen,
         \A n \in p .. q - 1 : ~ Keeps(s, n) \/ ~ Keeps(t, n),
         \A n \in p + 1 .. q - 1 : TextAt(s, n) = << >> /\ TextAt(t, n) = << >>
  PROVE  AppliedBefore(s, t, q) = (AppliedBefore(s, t, p) \o TextAt(s, p)) \o TextAt(t, p)
<1>1. BaseLen \in Nat /\ p \in Nat /\ q \in Nat /\ p < q /\ q <= BaseLen
  BY BaseTyped
<1>2. ASSUME NEW n \in p + 1 .. q - 1 PROVE Piece(s, t, n) = << >>
  <2>1. n \in p .. q - 1
    BY <1>1
  <2>2. ~ (n < BaseLen /\ Keeps(s, n) /\ Keeps(t, n))
    BY <2>1
  <2> QED
    BY <2>2 DEF Piece
<1>3. AppliedBefore(s, t, q) = AppliedBefore(s, t, p + 1)
  <2>1. p + 1 \in 0 .. BaseLen /\ q \in p + 1 .. BaseLen
    BY <1>1
  <2> QED
    BY <1>2, <2>1, BeforeDropped
<1>4. PICK a, x, y : a = AppliedBefore(s, t, p) /\ x = TextAt(s, p) /\ y = TextAt(t, p)
  OBVIOUS
<1>5. a \in Seq(Line) /\ x \in Seq(Line) /\ y \in Seq(Line)
  BY <1>4, BeforeNext, TextTyped
<1>6. Piece(s, t, p) = (x \o y) \o << >>
  <2>1. p \in p .. q - 1
    BY <1>1
  <2>2. ~ (p < BaseLen /\ Keeps(s, p) /\ Keeps(t, p))
    BY <2>1
  <2> QED
    BY <1>4, <2>2, Zenon DEF Piece
<1>7. AppliedBefore(s, t, p + 1) = a \o ((x \o y) \o << >>)
  BY <1>4, <1>6, BeforeNext
<1>8. a \o ((x \o y) \o << >>) = (a \o x) \o y
  BY <1>5
<1> QED
  BY <1>3, <1>4, <1>7, <1>8, Zenon

-----------------------------------------------------------------------------
(* What one list has written so far.                                       *)

\* The text of an edit in front of line p, once the index has moved beyond it.
Taken(s, idx, p) ==
  IF \E k \in DOMAIN s : k < idx /\ ~ s[k].same /\ s[k].i1 = p THEN TextAt(s, p) ELSE << >>

\* No two edits of a list begin at one place.
LEMMA OneEditAt ==
  ASSUME NEW s, IsScript(s), NEW j \in 1 .. Len(s), NEW k \in 1 .. Len(s),
         ~ s[j].same, ~ s[k].same, s[j].i1 = s[k].i1
  PROVE  j = k
<1>1. Len(s) \in Nat /\ DOMAIN s = 1 .. Len(s)
  BY OpsTyped
<1>2. ASSUME NEW l \in 1 .. Len(s), NEW m \in 1 .. Len(s), ~ s[l].same, ~ s[m].same,
             s[l].i1 = s[m].i1, l < m
      PROVE  FALSE
  <2>1. l + 1 \in DOMAIN s /\ l + 1 \in 1 .. Len(s) /\ l + 1 # 1 /\ l + 1 > 1 /\ (l + 1) - 1 = l
    BY <1>1, <1>2
  <2>2. s[l + 1].same /\ s[l + 1].i1 = s[l].i2
    <3>1. s[l + 1].i1 = s[l].i2 /\ s[l + 1].same # s[l].same
      BY <2>1 DEF IsScript
    <3>2. s[l].same \in BOOLEAN /\ s[l + 1].same \in BOOLEAN
      BY <2>1, OpsTyped
    <3> QED
      BY <1>2, <3>1, <3>2, Zenon
  <2>3. s[l + 1].i1 < s[l + 1].i2 /\ s[l + 1].i1 \in Int /\ s[l + 1].i2 \in Int
    BY <2>1, <2>2, OpsTyped
  <2>4. s[l].i1 \in Int /\ s[l].i2 \in Int /\ s[l].i1 <= s[l].i2
    BY OpsTyped
  <2>5. l + 1 # m
    BY <1>2, <2>2
  <2>6. m \in (l + 1) + 1 .. Len(s)
    BY <1>1, <1>2, <2>5
  <2>7. s[l + 1].i2 <= s[m].i1
    BY <2>1, <2>6, OpsOrdered
  <2> QED
    BY <1>2, <2>2, <2>3, <2>4, <2>7
<1>3. ~ j < k /\ ~ k < j
  BY <1>2
<1> QED
  BY <1>1, <1>3

\* The text in front of the line where an edit begins is that edit's.
LEMMA TextOfEdit ==
  ASSUME NEW s, IsScript(s), NEW k \in 1 .. Len(s), ~ s[k].same
  PROVE  TextAt(s, s[k].i1) = s[k].text
<1>1. DOMAIN s = 1 .. Len(s)
  BY OpsTyped
<1>2. s[k] \in Edits(s)
  BY <1>1 DEF Edits
<1>3. ASSUME NEW e \in Edits(s), e.i1 = s[k].i1 PROVE e = s[k]
  <2>1. PICK j \in 1 .. Len(s) : e = s[j] /\ ~ s[j].same
    BY <1>1 DEF Edits
  <2>2. j = k
    BY <1>3, <2>1, OneEditAt
  <2> QED
    BY <2>1, <2>2
<1>4. (CHOOSE e \in Edits(s) : e.i1 = s[k].i1) = s[k]
  BY <1>2, <1>3, Zenon
<1> QED
  BY <1>2, <1>4, Zenon DEF TextAt

\* What it means for the texts that an index moves from x to u over unchanged
\* stretches, or beyond an edit, while the cursor moves from p to q.
Skips(s, x, p, u, q) ==
  /\ p < q => Taken(s, x, p) = TextAt(s, p) /\ Taken(s, u, q) = << >>
  /\ p = q => Taken(s, u, q) = Taken(s, x, p)
  /\ \A n \in p + 1 .. q - 1 : TextAt(s, n) = << >>

Takes(s, x, p, q) ==
  /\ Taken(s, x, p) = << >> /\ TextAt(s, p) = s[x].text
  /\ p = q => Taken(s, x + 1, q) = s[x].text
  /\ p < q => Taken(s, x + 1, q) = << >>
  /\ \A n \in p + 1 .. q - 1 : TextAt(s, n) = << >>
  /\ \A n \in p .. q - 1 : ~ Keeps(s, n)

\* A list whose edits all lie outside of the lines from p to q, but for one in
\* front of p, and whose index moves over unchanged stretches only.
LEMMA Passed ==
  ASSUME NEW s, NEW idx, NEW p, NEW q \in p .. BaseLen, At(s, idx, p),
         Behind(s, idx, p), NEW j \in idx .. Len(s) + 1, Ahead(s, j, q),
         \A k \in idx .. j - 1 : s[k].same
  PROVE  Skips(s, idx, p, j, q)
<1>1. /\ Len(s) \in Nat /\ DOMAIN s = 1 .. Len(s) /\ idx \in 1 .. Len(s) + 1 /\ p \in Nat /\ q \in Nat
      /\ p <= q /\ IsScript(s)
  BY OpsTyped, BaseTyped DEF At
<1>2. \A k \in 1 .. Len(s) : s[k].i1 \in Int /\ s[k].i2 \in Int /\ s[k].i1 <= s[k].i2
  BY OpsTyped DEF At
<1>3. \A k \in 1 .. Len(s) : ~ s[k].same => (k < idx /\ s[k].i1 <= p) \/ (k >= idx /\ s[k].i1 >= q)
  <2> SUFFICES ASSUME NEW k \in 1 .. Len(s), ~ s[k].same
               PROVE  (k < idx /\ s[k].i1 <= p) \/ (k >= idx /\ s[k].i1 >= q)
    OBVIOUS
  <2>1. CASE k < idx
    <3>1. k \in 1 .. idx - 1
      BY <1>1, <2>1
    <3>2. s[k].i2 <= p
      BY <3>1 DEF Behind
    <3> QED
      BY <1>1, <1>2, <2>1, <3>2
  <2>2. CASE k >= idx
    <3>1. k \in idx .. j - 1 \/ k \in j .. Len(s)
      BY <1>1, <2>2
    <3>2. k \notin idx .. j - 1
      OBVIOUS
    <3> QED
      BY <2>2, <3>1, <3>2 DEF Ahead
  <2> QED
    BY <1>1, <2>1, <2>2
<1>4. \A k \in 1 .. Len(s) : ~ s[k].same => (k < j <=> k < idx)
  <2>1. \A k \in 1 .. Len(s) : k < j => k < idx \/ k \in idx .. j - 1
    BY <1>1
  <2> QED
    BY <1>1, <2>1
<1>5. ASSUME p < q
      PROVE  Taken(s, idx, p) = TextAt(s, p) /\ Taken(s, j, q) = << >>
  <2>1. Taken(s, j, q) = << >>
    <3>1. ~ \E k \in DOMAIN s : k < j /\ ~ s[k].same /\ s[k].i1 = q
      BY <1>1, <1>2, <1>3, <1>4, <1>5
    <3> QED
      BY <3>1 DEF Taken
  <2>2. CASE \E k \in DOMAIN s : k < idx /\ ~ s[k].same /\ s[k].i1 = p
    BY <2>1, <2>2 DEF Taken
  <2>3. CASE ~ \E k \in DOMAIN s : k < idx /\ ~ s[k].same /\ s[k].i1 = p
    <3>1. \A e \in Edits(s) : e.i1 # p
      BY <1>1, <1>2, <1>3, <1>5, <2>3 DEF Edits
    <3>2. TextAt(s, p) = << >>
      BY <3>1, NoTextAt
    <3> QED
      BY <2>1, <2>3, <3>2 DEF Taken
  <2> QED
    BY <2>2, <2>3
<1>6. ASSUME p = q PROVE Taken(s, j, q) = Taken(s, idx, p)
  <2>1. (\E k \in DOMAIN s : k < idx /\ ~ s[k].same /\ s[k].i1 = p)
          <=> (\E k \in DOMAIN s : k < j /\ ~ s[k].same /\ s[k].i1 = q)
    BY <1>1, <1>4, <1>6
  <2> QED
    BY <1>6, <2>1, Zenon DEF Taken
<1>7. ASSUME NEW n \in p + 1 .. q - 1 PROVE TextAt(s, n) = << >>
  <2>1. \A e \in Edits(s) : e.i1 # n
    BY <1>1, <1>2, <1>3 DEF Edits
  <2> QED
    BY <2>1, NoTextAt
<1> QED
  BY <1>5, <1>6, <1>7 DEF Skips

\* A list whose index moves over the edit at the cursor.
LEMMA TakenOver ==
  ASSUME NEW s, NEW idx \in 1 .. Len(s), NEW p, At(s, idx, p), Behind(s, idx, p),
         ~ s[idx].same, s[idx].i1 = p, NEW q, q = s[idx].i2
  PROVE  Takes(s, idx, p, q)
<1>1. /\ Len(s) \in Nat /\ DOMAIN s = 1 .. Len(s) /\ idx \in 1 .. Len(s) + 1 /\ p \in Nat /\ q \in Nat
      /\ p <= q /\ IsScript(s)
  BY OpsTyped, BaseTyped DEF At
<1>2. \A k \in 1 .. Len(s) : s[k].i1 \in Int /\ s[k].i2 \in Int /\ s[k].i1 <= s[k].i2
  BY OpsTyped DEF At
<1>3. \A k \in 1 .. Len(s) : ~ s[k].same =>
        (k < idx /\ s[k].i1 < p) \/ k = idx \/ (k > idx /\ s[k].i1 >= q)
  <2> SUFFICES ASSUME NEW k \in 1 .. Len(s), ~ s[k].same
               PROVE  (k < idx /\ s[k].i1 < p) \/ k = idx \/ (k > idx /\ s[k].i1 >= q)
    OBVIOUS
  <2>1. CASE k < idx
    <3>1. k \in 1 .. idx - 1
      BY <1>1, <2>1
    <3>2. s[k].i2 <= p
      BY <3>1 DEF Behind
    <3>3. s[k].i1 # p
      BY <1>1, <2>1, OneEditAt
    <3> QED
      BY <1>1, <1>2, <2>1, <3>2, <3>3
  <2>2. CASE k > idx
    <3>1. k \in idx + 1 .. Len(s)
      BY <1>1, <2>2
    <3>2. s[idx].i2 <= s[k].i1
      BY <1>1, <3>1, OpsOrdered
    <3> QED
      BY <1>1, <1>2, <2>2, <3>2
  <2> QED
    BY <1>1, <2>1, <2>2
<1>4. TextAt(s, p) = s[idx].text
  BY <1>1, TextOfEdit
<1>5. Taken(s, idx, p) = << >>
  <2>1. ~ \E k \in DOMAIN s : k < idx /\ ~ s[k].same /\ s[k].i1 = p
    BY <1>1, <1>2, <1>3
  <2> QED
    BY <2>1 DEF Taken
<1>6. ASSUME p = q PROVE Taken(s, idx + 1, q) = s[idx].text
  <2>1. \E k \in DOMAIN s : k < idx + 1 /\ ~ s[k].same /\ s[k].i1 = q
    BY <1>1, <1>6
  <2> QED
    BY <1>4, <1>6, <2>1, Zenon DEF Taken
<1>7. ASSUME p < q PROVE Taken(s, idx + 1, q) = << >>
  <2>1. ~ \E k \in DOMAIN s : k < idx + 1 /\ ~ s[k].same /\ s[k].i1 = q
    BY <1>1, <1>2, <1>3, <1>7
  <2> QED
    BY <2>1 DEF Taken
<1>8. ASSUME NEW n \in p + 1 .. q - 1 PROVE TextAt(s, n) = << >>
  <2>1. \A e \in Edits(s) : e.i1 # n
    BY <1>1, <1>2, <1>3 DEF Edits
  <2> QED
    BY <2>1, NoTextAt
<1>9. ASSUME NEW n \in p .. q - 1 PROVE ~ Keeps(s, n)
  <2>1. s[idx] \in Edits(s) /\ s[idx].i1 <= n /\ n < s[idx].i2
    BY <1>1, <1>2 DEF Edits
  <2> QED
    BY <2>1 DEF Keeps
<1> QED
  BY <1>4, <1>5, <1>6, <1>7, <1>8, <1>9 DEF Takes

\* Where there are no operations there is nothing to pass.
LEMMA NoneSkips ==
  ASSUME NEW x, NEW p, NEW u, NEW q
  PROVE  Skips(<< >>, x, p, u, q) /\ \A n : TextAt(<< >>, n) = << >> /\ Keeps(<< >>, n)
<1>1. DOMAIN << >> = {} /\ Edits(<< >>) = {}
  BY DEF Edits
<1>2. \A n : TextAt(<< >>, n) = << >> /\ Keeps(<< >>, n)
  BY <1>1 DEF TextAt, Keeps
<1>3. \A y, n : Taken(<< >>, y, n) = << >>
  BY <1>1 DEF Taken
<1> QED
  BY <1>2, <1>3 DEF Skips

\* What was taken is a list of lines.
LEMMA TakenTyped ==
  ASSUME NEW s, Side(s), NEW x, NEW p
  PROVE  Taken(s, x, p) \in Seq(Line) /\ Taken(s, x, p) \in {TextAt(s, p), << >>}
<1>1. Taken(s, x, p) \in {TextAt(s, p), << >>}
  BY DEF Taken
<1>2. TextAt(s, p) \in Seq(Line) /\ << >> \in Seq(Line)
  BY TextTyped
<1> QED
  BY <1>1, <1>2

\* All that should have been written when the cursor is at p and the indexes at x
\* and y: what stands in front of line p, and the edit of either list there if its
\* index has moved beyond it.
Written(s, t, x, y, p) == (AppliedBefore(s, t, p) \o Taken(s, x, p)) \o Taken(t, y, p)

\* What should have been written grows by these lines on the way from p to q.
GrowsBy(s, t, x, y, p, u, v, q, lines) == Written(s, t, x, y, p) \o lines = Written(s, t, u, v, q)

\* Copying kept lines writes what it should.
LEMMA CopyWrites ==
  ASSUME NEW s, NEW t, Side(s), Side(t), NEW x, NEW y, NEW u, NEW v,
         NEW p \in 0 .. BaseLen, NEW q \in p .. BaseLen,
         Skips(s, x, p, u, q), Skips(t, y, p, v, q),
         \A n \in p .. q - 1 : Keeps(s, n) /\ Keeps(t, n)
  PROVE  GrowsBy(s, t, x, y, p, u, v, q, SubSeq(Base, p + 1, q))
<1> USE DEF GrowsBy
<1>1. BaseLen \in Nat /\ p \in Nat /\ q \in Nat /\ p <= q /\ q <= BaseLen
  BY BaseTyped
<1>2. CASE p = q
  <2>1. SubSeq(Base, p + 1, q) = << >>
    BY <1>1, <1>2, SubSeqEmpty
  <2>2. Written(s, t, x, y, p) = Written(s, t, u, v, q)
    BY <1>2, Zenon DEF Skips, Written
  <2>3. Written(s, t, x, y, p) \in Seq(Line)
    BY BeforeNext, TakenTyped, ConcatProperties DEF Written
  <2> QED
    BY <2>1, <2>2, <2>3, ConcatEmptySeq
<1>3. CASE p < q
  <2>1. /\ Taken(s, x, p) = TextAt(s, p) /\ Taken(s, u, q) = << >>
        /\ Taken(t, y, p) = TextAt(t, p) /\ Taken(t, v, q) = << >>
        /\ \A n \in p + 1 .. q - 1 : TextAt(s, n) = << >> /\ TextAt(t, n) = << >>
    BY <1>3 DEF Skips
  <2>2. q \in p + 1 .. BaseLen
    BY <1>1, <1>3
  <2>3. AppliedBefore(s, t, q) = Written(s, t, x, y, p) \o SubSeq(Base, p + 1, q)
    <3>1. AppliedBefore(s, t, q)
            = ((AppliedBefore(s, t, p) \o TextAt(s, p)) \o TextAt(t, p)) \o SubSeq(Base, p + 1, q)
      <4>1. \A n \in p + 1 .. q - 1 : TextAt(s, n) = << >> /\ TextAt(t, n) = << >>
        BY <2>1
      <4> QED
        BY <2>2, <4>1, KeptWritten, Zenon
    <3> QED
      BY <2>1, <3>1, Zenon DEF Written
  <2>4. AppliedBefore(s, t, q) \in Seq(Line)
    <3>1. q \in 0 .. BaseLen
      BY <1>1
    <3> QED
      BY <3>1, BeforeNext
  <2>5. Written(s, t, u, v, q) = (AppliedBefore(s, t, q) \o << >>) \o << >>
    BY <2>1, Zenon DEF Written
  <2>6. AppliedBefore(s, t, q) \o << >> = AppliedBefore(s, t, q)
    BY <2>4, ConcatEmptySeq
  <2> QED
    BY <2>3, <2>5, <2>6, Zenon
<1>4. p = q \/ p < q
  BY <1>1
<1> QED
  BY <1>2, <1>3, <1>4, Zenon

\* So does taking an edit of one list where the other has none, whichever of the
\* two comes first.
LEMMA EditWrites ==
  ASSUME NEW s, NEW t, Side(s), Side(t), NEW x, NEW y, NEW v,
         NEW p \in 0 .. BaseLen, NEW q \in p .. BaseLen,
         Takes(s, x, p, q), Skips(t, y, p, v, q), TextAt(t, p) = << >>
  PROVE  /\ GrowsBy(s, t, x, y, p, x + 1, v, q, s[x].text)
         /\ GrowsBy(t, s, y, x, p, v, x + 1, q, s[x].text)
<1> USE DEF GrowsBy
<1>1. BaseLen \in Nat /\ p \in Nat /\ q \in Nat /\ p <= q /\ q <= BaseLen /\ q \in 0 .. BaseLen
  BY BaseTyped
<1>2. Taken(s, x, p) = << >> /\ Taken(t, y, p) = << >> /\ TextAt(s, p) = s[x].text
  BY TakenTyped DEF Takes
<1>3. PICK text \in Seq(Line) : text = s[x].text
  BY <1>2, TextTyped
<1>4. /\ AppliedBefore(s, t, p) \in Seq(Line) /\ AppliedBefore(t, s, p) \in Seq(Line)
      /\ AppliedBefore(s, t, q) \in Seq(Line) /\ AppliedBefore(t, s, q) \in Seq(Line)
  BY <1>1, BeforeNext
<1>5. /\ Written(s, t, x, y, p) = AppliedBefore(s, t, p)
      /\ Written(t, s, y, x, p) = AppliedBefore(t, s, p)
  BY <1>2, <1>4, ConcatEmptySeq DEF Written
<1>6. CASE p = q
  <2>1. Taken(s, x + 1, q) = text /\ Taken(t, v, q) = << >>
    BY <1>2, <1>3, <1>6 DEF Takes, Skips
  <2>2. /\ Written(s, t, x + 1, v, q) = (AppliedBefore(s, t, p) \o text) \o << >>
        /\ Written(t, s, v, x + 1, q) = (AppliedBefore(t, s, p) \o << >>) \o text
    BY <1>6, <2>1, Zenon DEF Written
  <2> QED
    BY <1>3, <1>4, <1>5, <2>2
<1>7. CASE p < q
  <2>1. /\ Taken(s, x + 1, q) = << >> /\ Taken(t, v, q) = << >>
        /\ \A n \in p + 1 .. q - 1 : TextAt(s, n) = << >> /\ TextAt(t, n) = << >>
        /\ \A n \in p .. q - 1 : ~ Keeps(s, n)
    BY <1>7 DEF Takes, Skips
  <2>2. q \in p + 1 .. BaseLen
    BY <1>1, <1>7
  <2>3. AppliedBefore(s, t, q) = (AppliedBefore(s, t, p) \o text) \o << >>
    <3>1. AppliedBefore(s, t, q) = (AppliedBefore(s, t, p) \o TextAt(s, p)) \o TextAt(t, p)
      BY <2>1, <2>2, DroppedWritten
    <3> QED
      BY <1>2, <1>3, <3>1, Zenon
  <2>4. AppliedBefore(t, s, q) = (AppliedBefore(t, s, p) \o << >>) \o text
    <3>1. AppliedBefore(t, s, q) = (AppliedBefore(t, s, p) \o TextAt(t, p)) \o TextAt(s, p)
      BY <2>1, <2>2, DroppedWritten
    <3> QED
      BY <1>2, <1>3, <3>1, Zenon
  <2>5. /\ Written(s, t, x + 1, v, q) = (AppliedBefore(s, t, q) \o << >>) \o << >>
        /\ Written(t, s, v, x + 1, q) = (AppliedBefore(t, s, q) \o << >>) \o << >>
    BY <2>1, Zenon DEF Written
  <2>6. /\ Written(s, t, x + 1, v, q) = AppliedBefore(s, t, q)
        /\ Written(t, s, v, x + 1, q) = AppliedBefore(t, s, q)
    BY <1>4, <2>5, ConcatEmptySeq
  <2> QED
    BY <1>3, <1>4, <1>5, <2>3, <2>4, <2>6
<1> QED
  BY <1>1, <1>6, <1>7

\* At the end of a list all of its edits were taken.
LEMMA AllTaken ==
  ASSUME NEW s, Side(s), NEW p
  PROVE  Taken(s, Len(s) + 1, p) = TextAt(s, p)
<1>1. Len(s) \in Nat /\ DOMAIN s = 1 .. Len(s)
  BY OpsTyped DEF Side
<1>2. CASE \E e \in Edits(s) : e.i1 = p
  <2>1. \E k \in DOMAIN s : k < Len(s) + 1 /\ ~ s[k].same /\ s[k].i1 = p
    BY <1>1, <1>2 DEF Edits
  <2> QED
    BY <2>1, Zenon DEF Taken
<1>3. CASE ~ \E e \in Edits(s) : e.i1 = p
  <2>1. ~ \E k \in DOMAIN s : k < Len(s) + 1 /\ ~ s[k].same /\ s[k].i1 = p
    BY <1>3 DEF Edits
  <2> QED
    BY <1>3, <2>1, Zenon DEF Taken, TextAt
<1> QED
  BY <1>2, <1>3

\* At the end of the base and of both lists the whole file should be written.
LEMMA WrittenAtEnd ==
  ASSUME NEW s, NEW t, Side(s), Side(t)
  PROVE  Written(s, t, Len(s) + 1, Len(t) + 1, BaseLen) = Applied(s, t)
<1>1. BaseLen \in Nat /\ BaseLen \in 0 .. BaseLen /\ ~ BaseLen < BaseLen
  BY BaseTyped
<1>2. PICK a, x, y : a = AppliedBefore(s, t, BaseLen) /\ x = TextAt(s, BaseLen) /\ y = TextAt(t, BaseLen)
  OBVIOUS
<1>3. a \in Seq(Line) /\ x \in Seq(Line) /\ y \in Seq(Line)
  BY <1>1, <1>2, BeforeNext, TextTyped
<1>4. Piece(s, t, BaseLen) = (x \o y) \o << >>
  BY <1>1, <1>2, Zenon DEF Piece
<1>5. Applied(s, t) = a \o ((x \o y) \o << >>)
  BY <1>1, <1>2, <1>4, BeforeNext DEF Applied
<1>6. Written(s, t, Len(s) + 1, Len(t) + 1, BaseLen) = (a \o x) \o y
  BY <1>2, AllTaken, Zenon DEF Written
<1>7. a \o ((x \o y) \o << >>) = (a \o x) \o y
  BY <1>3
<1> QED
  BY <1>5, <1>6, <1>7, Zenon

-----------------------------------------------------------------------------
(* What the loop has written so far.                                       *)

ApartWritten == EditsApart => out = Written(ours, theirs, oi, ti, i)

SameWritten ==
  ours = theirs =>
    out = Written(ours, << >>, oi, 1, i) /\ Ahead(ours, oi, i) /\ Fresh(ours, oi, i)

WrittenInv == WalkInv /\ ApartWritten /\ SameWritten

\* What CopyBase adds to the lines, and how far it goes.
LEMMA CopyStep ==
  ASSUME MergeTypeOK, CopyBase
  PROVE  /\ out' = out \o SubSeq(Base, i + 1, i')
         /\ i' \in i .. BaseLen /\ i' <= OOp.i2 /\ i' <= TOp.i2
         /\ oi' = AdvancePast(ours, oi, i') /\ ti' = AdvancePast(theirs, ti, i')
<1>1. BaseLen \in Nat /\ At(ours, oi, i) /\ At(theirs, ti, i) /\ i \in 0 .. BaseLen
  BY BaseTyped DEF MergeTypeOK, At
<1>2. OOp.i2 \in i .. BaseLen /\ TOp.i2 \in i .. BaseLen
  BY <1>1, Peeked DEF OOp, TOp
<1>3. {OOp.i2, TOp.i2, BaseLen} \subseteq Nat
  BY <1>1, <1>2
<1>4. i' = Min({OOp.i2, TOp.i2, BaseLen})
  BY DEF CopyBase
<1>5. i' \in {OOp.i2, TOp.i2, BaseLen} /\ \A n \in {OOp.i2, TOp.i2, BaseLen} : i' <= n
  BY <1>3, <1>4, MinIsLeast
<1>6. i' \in i .. BaseLen
  BY <1>1, <1>2, <1>5
<1>7. /\ out' = out \o SubSeq(Base, i + 1, i')
      /\ oi' = AdvancePast(ours, oi, i') /\ ti' = AdvancePast(theirs, ti, i')
  BY <1>4, Zenon DEF CopyBase
<1> QED
  BY <1>5, <1>6, <1>7

\* Each turn writes what it should where the edits are apart.
LEMMA TurnWritesApart ==
  ASSUME WalkInv, ApartWritten, Turn
  PROVE  ApartWritten'
<1>1. /\ WalkInv' /\ KeptLinesCopied /\ EditsInPlace /\ MergeTypeOK /\ MergeTypeOK'
      /\ Advances /\ ours' = ours /\ theirs' = theirs /\ BaseLen \in Nat
  <2>1. ours' = ours /\ theirs' = theirs
    BY DEF Turn, CopyBase, TakeOurs, TakeTheirs, TakeBoth
  <2> QED
    BY <2>1, BaseTyped, TurnWalks, TurnAdvances DEF WalkInv
<1>2. SUFFICES ASSUME EditsApart PROVE out' = Written(ours', theirs', oi', ti', i')
  <2>1. EditsApart' = EditsApart
    BY <1>1 DEF EditsApart, Edits
  <2> QED
    BY <2>1 DEF ApartWritten, Written
<1>3. PICK s, t, x, y, p, q, u, v :
        /\ s = ours /\ t = theirs /\ x = oi /\ y = ti /\ p = i /\ q = i' /\ u = oi' /\ v = ti'
  OBVIOUS
<1>4. /\ p \in 0 .. BaseLen /\ q \in 0 .. BaseLen /\ p <= q /\ q \in p .. BaseLen
      /\ At(s, x, p) /\ At(t, y, p) /\ IsScript(s) /\ IsScript(t) /\ Side(s) /\ Side(t)
      /\ u \in x .. Len(s) + 1 /\ v \in y .. Len(t) + 1
  <2>1. /\ IsScript(s) /\ IsScript(t) /\ p \in 0 .. BaseLen /\ q \in 0 .. BaseLen
        /\ x \in 1 .. Len(s) + 1 /\ y \in 1 .. Len(t) + 1
        /\ u \in 1 .. Len(s) + 1 /\ v \in 1 .. Len(t) + 1
        /\ p <= q /\ x <= u /\ y <= v
    BY <1>1, <1>3 DEF MergeTypeOK, Advances
  <2>2. Len(s) \in Nat /\ Len(t) \in Nat
    BY <2>1, OpsTyped
  <2> QED
    BY <1>1, <2>1, <2>2 DEF At, Side
<1>5. Behind(s, x, p) /\ Behind(t, y, p) /\ Ahead(s, u, q) /\ Ahead(t, v, q)
  <2>1. EditsApart'
    BY <1>1, <1>2 DEF EditsApart, Edits
  <2>2. Ahead(ours', oi', i') /\ Ahead(theirs', ti', i')
    BY <1>1, <2>1 DEF WalkInv, ApartInv, Ahead
  <2> QED
    BY <1>1, <1>3, <2>2 DEF WalkInv
<1>6. out = Written(s, t, x, y, p)
  BY <1>2, <1>3 DEF ApartWritten
<1>7. ~ TakeOurs => Skips(s, x, p, u, q)
  <2>1. ~ TakeOurs => \A k \in x .. u - 1 : s[k].same
    BY <1>1, <1>2, <1>3 DEF EditsInPlace
  <2> QED
    BY <1>4, <1>5, <2>1, Passed
<1>8. ~ TakeTheirs => Skips(t, y, p, v, q)
  <2>1. ~ TakeTheirs => \A k \in y .. v - 1 : t[k].same
    BY <1>1, <1>2, <1>3 DEF EditsInPlace
  <2> QED
    BY <1>4, <1>5, <2>1, Passed
<1>9. SUFFICES out' = Written(s, t, u, v, q)
  BY <1>1, <1>3
<1>10. CASE CopyBase
  <2>1. out' = out \o SubSeq(Base, p + 1, q) /\ ~ TakeOurs /\ ~ TakeTheirs
    BY <1>1, <1>3, <1>10, CopyStep DEF CopyBase, TakeOurs, TakeTheirs
  <2>2. ASSUME NEW n \in p .. q - 1 PROVE Keeps(s, n) /\ Keeps(t, n)
    <3>1. n + 1 \in p + 1 .. q /\ (n + 1) - 1 = n
      BY <1>1, <1>4
    <3>2. n + 1 \in i + 1 .. i'
      BY <1>3, <3>1
    <3>3. n + 1 \in KeptByBoth
      BY <1>1, <1>10, <3>2 DEF KeptLinesCopied
    <3> QED
      BY <1>3, <3>1, <3>3 DEF KeptByBoth
  <2>3. GrowsBy(s, t, x, y, p, u, v, q, SubSeq(Base, p + 1, q))
    <3>1. Side(s) /\ Side(t) /\ p \in 0 .. BaseLen /\ q \in p .. BaseLen
      BY <1>4
    <3>2. Skips(s, x, p, u, q) /\ Skips(t, y, p, v, q)
      BY <1>7, <1>8, <2>1
    <3> QED
      BY <2>2, <3>1, <3>2, CopyWrites
  <2> QED
    BY <1>6, <2>1, <2>3, Zenon DEF GrowsBy
<1>11. CASE TakeOurs
  <2>1. /\ ~ OOp.same /\ OOp = s[x] /\ s[x].i1 = p /\ u = x + 1 /\ q = s[x].i2
        /\ out' = out \o s[x].text /\ ~ TakeTheirs
    BY <1>1, <1>2, <1>3, <1>11 DEF EditsInPlace, TakeOurs, TakeTheirs
  <2>2. x \in 1 .. Len(s)
    <3>1. x <= Len(s)
      BY <1>1, <1>3, <1>4, <2>1, Peeked DEF OOp
    <3> QED
      BY <1>4, <3>1, OpsTyped DEF At
  <2>3. Takes(s, x, p, q)
    BY <1>4, <1>5, <2>1, <2>2, TakenOver
  <2>4. TextAt(t, p) = << >>
    <3>1. s[x] \in Edits(s)
      BY <1>4, <2>1, <2>2, OpsTyped DEF Edits
    <3>2. \A e \in Edits(t) : e.i1 # p
      BY <1>2, <1>3, <2>1, <3>1 DEF EditsApart, Overlap
    <3> QED
      BY <3>2, NoTextAt
  <2>5. GrowsBy(s, t, x, y, p, x + 1, v, q, s[x].text)
    <3>1. Side(s) /\ Side(t) /\ p \in 0 .. BaseLen /\ q \in p .. BaseLen
      BY <1>4
    <3>2. Skips(t, y, p, v, q)
      BY <1>8, <2>1
    <3> QED
      BY <2>3, <2>4, <3>1, <3>2, EditWrites
  <2> QED
    BY <1>6, <2>1, <2>5, Zenon DEF GrowsBy
<1>12. CASE TakeTheirs
  <2>1. /\ ~ TOp.same /\ TOp = t[y] /\ t[y].i1 = p /\ v = y + 1 /\ q = t[y].i2
        /\ out' = out \o t[y].text /\ ~ TakeOurs
    BY <1>1, <1>2, <1>3, <1>12 DEF EditsInPlace, TakeOurs, TakeTheirs
  <2>2. y \in 1 .. Len(t)
    <3>1. y <= Len(t)
      BY <1>1, <1>3, <1>4, <2>1, Peeked DEF TOp
    <3> QED
      BY <1>4, <3>1, OpsTyped DEF At
  <2>3. Takes(t, y, p, q)
    BY <1>4, <1>5, <2>1, <2>2, TakenOver
  <2>4. TextAt(s, p) = << >>
    <3>1. t[y] \in Edits(t)
      BY <1>4, <2>1, <2>2, OpsTyped DEF Edits
    <3>2. \A e \in Edits(s) : e.i1 # p
      BY <1>2, <1>3, <2>1, <3>1 DEF EditsApart, Overlap
    <3> QED
      BY <3>2, NoTextAt
  <2>5. GrowsBy(s, t, x, y, p, u, y + 1, q, t[y].text)
    <3>1. Side(s) /\ Side(t) /\ p \in 0 .. BaseLen /\ q \in p .. BaseLen
      BY <1>4
    <3>2. Skips(s, x, p, u, q)
      BY <1>7, <2>1
    <3> QED
      BY <2>3, <2>4, <3>1, <3>2, EditWrites
  <2> QED
    BY <1>6, <2>1, <2>5, Zenon DEF GrowsBy
<1>13. ~ TakeBoth
  BY <1>1, <1>2 DEF EditsInPlace
<1> QED
  BY <1>10, <1>11, <1>12, <1>13 DEF Turn

\* Each turn writes what it should where both sides made the same edits.
LEMMA TurnWritesSame ==
  ASSUME WalkInv, SameWritten, Turn
  PROVE  SameWritten'
<1>1. /\ WalkInv' /\ KeptLinesCopied /\ MergeTypeOK /\ MergeTypeOK'
      /\ Advances /\ ours' = ours /\ theirs' = theirs /\ BaseLen \in Nat
  <2>1. ours' = ours /\ theirs' = theirs
    BY DEF Turn, CopyBase, TakeOurs, TakeTheirs, TakeBoth
  <2> QED
    BY <2>1, BaseTyped, TurnWalks, TurnAdvances DEF WalkInv
<1>2. SUFFICES ASSUME ours = theirs
               PROVE  out' = Written(ours', << >>, oi', 1, i') /\ Ahead(ours', oi', i') /\ Fresh(ours', oi', i')
  BY <1>1 DEF SameWritten, Written, Ahead, Fresh
<1>3. PICK s, x, p, q, u : s = ours /\ x = oi /\ p = i /\ q = i' /\ u = oi'
  OBVIOUS
<1>4. /\ p \in 0 .. BaseLen /\ q \in 0 .. BaseLen /\ p <= q /\ q \in p .. BaseLen
      /\ At(s, x, p) /\ At(s, x, q) /\ IsScript(s) /\ Side(s) /\ Side(<< >>) /\ u \in x .. Len(s) + 1
  <2>1. /\ IsScript(s) /\ p \in 0 .. BaseLen /\ q \in 0 .. BaseLen
        /\ x \in 1 .. Len(s) + 1 /\ u \in 1 .. Len(s) + 1 /\ p <= q /\ x <= u
    BY <1>1, <1>3 DEF MergeTypeOK, Advances
  <2>2. Len(s) \in Nat
    BY <2>1, OpsTyped
  <2> QED
    BY <1>1, <2>1, <2>2 DEF At, Side
<1>5. Behind(s, x, p) /\ Ahead(s, x, p) /\ Fresh(s, x, p) /\ out = Written(s, << >>, x, 1, p)
  BY <1>2, <1>3 DEF WalkInv, SameWritten
<1>6. oi = ti /\ OOp = TOp /\ OOp = PeekOp(s, x, p) /\ TOp.same \in BOOLEAN
  BY <1>1, <1>2, <1>3, <1>4, Peeked DEF WalkInv, OOp, TOp
<1>7. SUFFICES out' = Written(s, << >>, u, 1, q) /\ Ahead(s, u, q) /\ Fresh(s, u, q)
  BY <1>1, <1>3
<1>8. CASE CopyBase
  <2>1. /\ out' = out \o SubSeq(Base, p + 1, q) /\ OOp.same
        /\ q <= OOp.i2 /\ u = AdvancePast(s, x, q)
    BY <1>1, <1>3, <1>8, CopyStep DEF CopyBase
  <2>2. Ahead(s, x, q)
    <3>1. q \in Int
      BY <1>4
    <3> QED
      BY <1>1, <1>4, <1>5, <1>6, <2>1, <3>1, AheadOfStretch
  <2>3. Ahead(s, u, q) /\ Fresh(s, u, q) /\ \A k \in x .. u - 1 : s[k].same
    BY <1>4, <2>1, <2>2, AdvancedAhead
  <2>4. Skips(s, x, p, u, q) /\ Skips(<< >>, 1, p, 1, q)
    BY <1>4, <1>5, <2>3, Passed, NoneSkips
  <2>5. ASSUME NEW n \in p .. q - 1 PROVE Keeps(s, n) /\ Keeps(<< >>, n)
    <3>1. n + 1 \in p + 1 .. q /\ (n + 1) - 1 = n
      BY <1>1, <1>4
    <3>2. n + 1 \in i + 1 .. i'
      BY <1>3, <3>1
    <3>3. n + 1 \in KeptByBoth
      BY <1>1, <1>8, <3>2 DEF KeptLinesCopied
    <3> QED
      BY <1>3, <3>1, <3>3, NoneSkips DEF KeptByBoth
  <2>6. GrowsBy(s, << >>, x, 1, p, u, 1, q, SubSeq(Base, p + 1, q))
    <3>1. Side(s) /\ Side(<< >>) /\ p \in 0 .. BaseLen /\ q \in p .. BaseLen
      BY <1>4
    <3> QED
      BY <2>4, <2>5, <3>1, CopyWrites
  <2>7. out' = Written(s, << >>, u, 1, q)
    BY <1>5, <2>1, <2>6, Zenon DEF GrowsBy
  <2> QED
    BY <2>3, <2>7
<1>9. CASE TakeBoth
  <2>1. /\ ~ OOp.same /\ u = x + 1 /\ out' = out \o OOp.text /\ q = Max({OOp.i2, OOp.i2})
    BY <1>3, <1>6, <1>9 DEF TakeBoth
  <2>2. /\ x \in 1 .. Len(s) /\ OOp = s[x] /\ s[x].i1 = p
        /\ Ahead(s, x + 1, s[x].i2) /\ Fresh(s, x + 1, s[x].i2)
    BY <1>4, <1>5, <1>6, <2>1, EditTaken
  <2>3. q = s[x].i2
    <3>1. s[x].i2 \in Int
      BY <1>4, <2>2, OpsTyped
    <3>2. Max({s[x].i2, s[x].i2}) = s[x].i2
      BY <3>1, MaxOfTwo
    <3> QED
      BY <2>1, <2>2, <3>2
  <2>4. Takes(s, x, p, q)
    BY <1>4, <1>5, <2>1, <2>2, <2>3, TakenOver
  <2>5. Skips(<< >>, 1, p, 1, q) /\ TextAt(<< >>, p) = << >>
    BY NoneSkips
  <2>6. GrowsBy(s, << >>, x, 1, p, x + 1, 1, q, s[x].text)
    <3>1. Side(s) /\ Side(<< >>) /\ p \in 0 .. BaseLen /\ q \in p .. BaseLen
      BY <1>4
    <3> QED
      BY <2>4, <2>5, <3>1, EditWrites
  <2>7. out' = Written(s, << >>, u, 1, q)
    BY <1>5, <2>1, <2>2, <2>6, Zenon DEF GrowsBy
  <2> QED
    BY <2>1, <2>2, <2>3, <2>7
<1> QED
  BY <1>6, <1>8, <1>9 DEF Turn, TakeOurs, TakeTheirs

\* The invariant of the loop with what it has written.
LEMMA WrittenHolds == MergeSpec => []WrittenInv
<1>1. MergeInit /\ WalkInv => WrittenInv
  <2> SUFFICES ASSUME MergeInit, WalkInv PROVE WrittenInv
    OBVIOUS
  <2>1. /\ i = 0 /\ oi = 1 /\ ti = 1 /\ out = << >> /\ IsScript(ours) /\ IsScript(theirs)
    BY DEF MergeInit, WalkInv, MergeTypeOK
  <2>2. ASSUME NEW s, Side(s) PROVE Taken(s, 1, 0) = << >>
    <3>1. DOMAIN s \subseteq Nat /\ 0 \notin DOMAIN s
      BY <2>2, OpsTyped DEF Side
    <3>2. ~ \E k \in DOMAIN s : k < 1 /\ ~ s[k].same /\ s[k].i1 = 0
      BY <3>1
    <3> QED
      BY <3>2 DEF Taken
  <2>3. Taken(ours, 1, 0) = << >> /\ Taken(theirs, 1, 0) = << >> /\ Taken(<< >>, 1, 0) = << >>
    BY <2>1, <2>2 DEF Side
  <2>4. /\ Written(ours, theirs, 1, 1, 0) = (<< >> \o << >>) \o << >>
        /\ Written(ours, << >>, 1, 1, 0) = (<< >> \o << >>) \o << >>
    BY <2>3, BeforeFirst, Zenon DEF Written
  <2>5. (<< >> \o << >>) \o << >> = << >>
    OBVIOUS
  <2>6. ApartWritten /\ SameWritten
    BY <2>1, <2>4, <2>5, AheadAtStart DEF ApartWritten, SameWritten
  <2> QED
    BY <2>6 DEF WrittenInv
<1>2. WrittenInv /\ [MergeNext]_mergeVars => WrittenInv'
  <2> SUFFICES ASSUME WrittenInv, [MergeNext]_mergeVars PROVE WrittenInv'
    OBVIOUS
  <2>1. CASE Turn
    BY <2>1, TurnWalks, TurnWritesApart, TurnWritesSame DEF WrittenInv
  <2>2. CASE UNCHANGED mergeVars
    BY <2>2 DEF mergeVars, WrittenInv, WalkInv, ApartInv, ApartWritten, SameWritten, MergeTypeOK,
                Behind, Ahead, Fresh, EditsApart, Edits, Written
  <2> QED
    BY <2>1, <2>2 DEF MergeNext, Done
<1> QED
  BY <1>1, <1>2, WalkHolds, PTL DEF MergeSpec

\* Where the loop ends.
LEMMA LoopAtEnd ==
  ASSUME MergeTypeOK, ~ Merging
  PROVE  i = BaseLen /\ oi = Len(ours) + 1 /\ ti = Len(theirs) + 1
BY BaseTyped, OpsTyped DEF MergeTypeOK, Merging

\* Merge3 applies all edits of both sides, each once and in its place, and writes
\* nothing else and no conflict, where the edits are apart.
THEOREM MergeAppliesApart == MergeSpec => []EditsApartApplied
<1>1. WrittenInv => EditsApartApplied
  <2> SUFFICES ASSUME WrittenInv, ~ Merging, EditsApart
               PROVE  ~ hasConflict /\ out = Applied(ours, theirs)
    BY DEF EditsApartApplied
  <2>1. ~ hasConflict /\ out = Written(ours, theirs, oi, ti, i) /\ Side(ours) /\ Side(theirs)
    BY DEF WrittenInv, WalkInv, ApartInv, ApartWritten, MergeTypeOK, Side
  <2>2. i = BaseLen /\ oi = Len(ours) + 1 /\ ti = Len(theirs) + 1
    BY LoopAtEnd DEF WrittenInv, WalkInv
  <2> QED
    BY <2>1, <2>2, WrittenAtEnd
<1> QED
  BY <1>1, WrittenHolds, PTL

\* Where both sides made the same edits Merge3 gives what both of them have.
THEOREM MergeKeepsSame == MergeSpec => []SameEditsAgree
<1>1. WrittenInv => SameEditsAgree
  <2> SUFFICES ASSUME WrittenInv, ~ Merging, ours = theirs
               PROVE  ~ hasConflict /\ out = Applied(ours, << >>)
    BY DEF SameEditsAgree
  <2>1. ~ hasConflict /\ out = Written(ours, << >>, oi, 1, i) /\ Side(ours) /\ Side(<< >>)
    BY DEF WrittenInv, WalkInv, SameWritten, MergeTypeOK, Side
  <2>2. i = BaseLen /\ oi = Len(ours) + 1 /\ Len(<< >>) + 1 = 1
    BY LoopAtEnd DEF WrittenInv, WalkInv
  <2>3. Written(ours, << >>, Len(ours) + 1, Len(<< >>) + 1, BaseLen) = Applied(ours, << >>)
    BY <2>1, WrittenAtEnd
  <2> QED
    BY <2>1, <2>2, <2>3
<1> QED
  BY <1>1, WrittenHolds, PTL

-----------------------------------------------------------------------------
(* Where the kept lines are found among the written ones.                  *)

\* What may be written: lines of files, and conflict blocks.
OutLine == Line \cup {Conflict(a, b) : a \in Text, b \in Text}

\* The kept lines stay where they are when lines of edits are written.
LEMMA PlacedBefore ==
  ASSUME NEW lines \in Seq(OutLine), NEW more \in Seq(OutLine), NEW kept, Placed(kept, lines),
         \A n \in 1 .. Len(more) : more[n] \in EditLines
  PROVE  Placed(kept, lines \o more)
<1>1. PICK all \in Seq(OutLine) : all = lines \o more
  BY ConcatProperties
<1>2. /\ Len(lines) \in Nat /\ Len(more) \in Nat /\ Len(all) = Len(lines) + Len(more)
      /\ DOMAIN lines = 1 .. Len(lines) /\ DOMAIN all = 1 .. Len(all)
      /\ \A n \in 1 .. Len(lines) : all[n] = lines[n]
      /\ \A n \in Len(lines) + 1 .. Len(all) : all[n] = more[n - Len(lines)]
  BY <1>1, ConcatProperties, LenProperties
<1>3. PICK place \in [kept -> DOMAIN lines] :
        /\ \A p, q \in kept : p < q => place[p] < place[q]
        /\ \A p \in kept : lines[place[p]] = Base[p]
        /\ \A n \in DOMAIN lines \ Range(place) : lines[n] \in EditLines
  BY DEF Placed
<1>4. place \in [kept -> DOMAIN all]
  BY <1>2, <1>3
<1>5. \A p \in kept : all[place[p]] = Base[p]
  BY <1>2, <1>3
<1>6. ASSUME NEW n \in DOMAIN all \ Range(place) PROVE all[n] \in EditLines
  <2>1. CASE n \in 1 .. Len(lines)
    BY <1>2, <1>3, <1>6, <2>1
  <2>2. CASE n \notin 1 .. Len(lines)
    <3>1. n \in Len(lines) + 1 .. Len(all) /\ n - Len(lines) \in 1 .. Len(more)
      BY <1>2, <2>2
    <3> QED
      BY <1>2, <3>1
  <2> QED
    BY <2>1, <2>2
<1> QED
  BY <1>1, <1>3, <1>4, <1>5, <1>6 DEF Placed

\* Kept lines that are written follow those before them, in their order.
LEMMA PlacedNext ==
  ASSUME NEW lines \in Seq(OutLine), NEW a \in 0 .. BaseLen, NEW b \in a .. BaseLen,
         NEW kept, kept \subseteq 1 .. a, Placed(kept, lines)
  PROVE  Placed(kept \cup (a + 1 .. b), lines \o SubSeq(Base, a + 1, b))
<1>0. BaseLen \in Nat /\ a \in Nat /\ b \in Nat /\ a <= b /\ b <= BaseLen
  BY BaseTyped
<1>1. PICK more \in Seq(OutLine) :
        /\ more = SubSeq(Base, a + 1, b) /\ Len(more) = b - a
        /\ \A n \in 1 .. b - a : more[n] = Base[a + n]
  <2>1. \A n \in a + 1 .. b : Base[n] \in OutLine
    BY <1>0, BaseTyped DEF OutLine
  <2>2. a + 1 \in Int /\ b \in Int
    BY <1>0
  <2>3. /\ SubSeq(Base, a + 1, b) \in Seq(OutLine)
        /\ Len(SubSeq(Base, a + 1, b)) = IF a + 1 <= b THEN b - (a + 1) + 1 ELSE 0
        /\ \A n \in 1 .. b - (a + 1) + 1 : SubSeq(Base, a + 1, b)[n] = Base[(a + 1) + n - 1]
    BY <2>1, <2>2, SubSeqProperties
  <2>4. Len(SubSeq(Base, a + 1, b)) = b - a
    BY <1>0, <2>3
  <2>5. \A n \in 1 .. b - a : n \in 1 .. b - (a + 1) + 1 /\ (a + 1) + n - 1 = a + n
    BY <1>0
  <2>6. \A n \in 1 .. b - a : SubSeq(Base, a + 1, b)[n] = Base[a + n]
    BY <2>3, <2>5
  <2> QED
    BY <2>3, <2>4, <2>6
<1>2. PICK all \in Seq(OutLine) : all = lines \o more
  BY ConcatProperties
<1>3. PICK m : m = Len(lines)
  OBVIOUS
<1>4. /\ m \in Nat /\ Len(all) = m + (b - a)
      /\ DOMAIN lines = 1 .. m /\ DOMAIN all = 1 .. m + (b - a)
      /\ \A n \in 1 .. m : all[n] = lines[n]
      /\ \A n \in m + 1 .. m + (b - a) : all[n] = more[n - m]
  <2>1. /\ Len(lines) \in Nat /\ Len(all) = Len(lines) + Len(more)
        /\ DOMAIN lines = 1 .. Len(lines) /\ DOMAIN all = 1 .. Len(all)
        /\ \A n \in 1 .. Len(lines) : all[n] = lines[n]
        /\ \A n \in Len(lines) + 1 .. Len(all) : all[n] = more[n - Len(lines)]
    BY <1>2, ConcatProperties, LenProperties
  <2> QED
    BY <1>1, <1>3, <2>1
<1>5. PICK place \in [kept -> DOMAIN lines] :
        /\ \A p, q \in kept : p < q => place[p] < place[q]
        /\ \A p \in kept : lines[place[p]] = Base[p]
        /\ \A n \in DOMAIN lines \ Range(place) : lines[n] \in EditLines
  BY DEF Placed
<1> DEFINE both == kept \cup (a + 1 .. b)
           next == [p \in both |-> IF p \in kept THEN place[p] ELSE m + (p - a)]
<1>6. \A p \in kept : p \in 1 .. a /\ place[p] \in 1 .. m
  BY <1>4, <1>5
<1>7. \A p \in both : \/ p \in kept /\ next[p] = place[p] /\ next[p] \in 1 .. m
                      \/ p \notin kept /\ p \in a + 1 .. b /\ next[p] = m + (p - a)
                         /\ next[p] \in m + 1 .. m + (b - a)
  <2> SUFFICES ASSUME NEW p \in both
               PROVE  \/ p \in kept /\ next[p] = place[p] /\ next[p] \in 1 .. m
                      \/ p \notin kept /\ p \in a + 1 .. b /\ next[p] = m + (p - a)
                         /\ next[p] \in m + 1 .. m + (b - a)
    OBVIOUS
  <2>1. CASE p \in kept
    BY <1>6, <2>1
  <2>2. CASE p \notin kept
    <3>1. p \in a + 1 .. b /\ next[p] = m + (p - a)
      BY <2>2
    <3>2. m + (p - a) \in m + 1 .. m + (b - a)
      BY <1>0, <1>4, <3>1
    <3> QED
      BY <2>2, <3>1, <3>2
  <2> QED
    BY <2>1, <2>2
<1>8. next \in [both -> DOMAIN all]
  <2>1. ASSUME NEW p \in both PROVE next[p] \in DOMAIN all
    <3>1. next[p] \in 1 .. m \/ next[p] \in m + 1 .. m + (b - a)
      BY <1>7
    <3> HIDE DEF next, both
    <3> QED
      BY <1>0, <1>4, <3>1
  <2> QED
    BY <2>1
<1>9. ASSUME NEW p \in both, NEW q \in both, p < q PROVE next[p] < next[q]
  <2>1. CASE q \in kept
    <3>1. p \in kept
      BY <1>0, <1>6, <1>7, <1>9, <2>1
    <3> QED
      BY <1>5, <1>7, <1>9, <2>1, <3>1
  <2>2. CASE q \notin kept /\ p \in kept
    <3>1. next[q] \in m + 1 .. m + (b - a) /\ next[p] \in 1 .. m
      BY <1>7, <2>2
    <3> QED
      BY <1>0, <1>4, <3>1
  <2>3. CASE q \notin kept /\ p \notin kept
    <3>1. next[q] = m + (q - a) /\ next[p] = m + (p - a) /\ p \in a + 1 .. b /\ q \in a + 1 .. b
      BY <1>7, <2>3
    <3> QED
      BY <1>0, <1>4, <1>9, <3>1
  <2> QED
    BY <2>1, <2>2, <2>3
<1>10. ASSUME NEW p \in both PROVE all[next[p]] = Base[p]
  <2>1. CASE p \in kept
    BY <1>4, <1>5, <1>7, <2>1
  <2>2. CASE p \notin kept
    <3>1. p \in a + 1 .. b /\ next[p] = m + (p - a) /\ next[p] \in m + 1 .. m + (b - a)
      BY <1>7, <2>2
    <3>2. next[p] - m = p - a /\ p - a \in 1 .. b - a /\ a + (p - a) = p
      BY <1>0, <1>4, <3>1
    <3>3. all[next[p]] = more[p - a]
      BY <1>4, <3>1, <3>2
    <3>4. more[p - a] = Base[a + (p - a)]
      BY <1>1, <3>2
    <3> QED
      BY <3>2, <3>3, <3>4
  <2> QED
    BY <2>1, <2>2
<1>11. ASSUME NEW n \in DOMAIN all \ Range(next) PROVE all[n] \in EditLines
  <2>1. n \in 1 .. m
    <3> SUFFICES ASSUME n \in m + 1 .. m + (b - a) PROVE FALSE
      BY <1>0, <1>4
    <3>1. PICK p : p = a + (n - m)
      OBVIOUS
    <3>2. p \in a + 1 .. b /\ m + (p - a) = n
      BY <1>0, <1>4, <3>1
    <3>3. p \in both /\ next[p] = n
      BY <1>0, <1>6, <3>2
    <3> QED
      BY <1>11, <3>3 DEF Range
  <2>2. n \notin Range(place)
    <3> SUFFICES ASSUME NEW p \in kept, place[p] = n PROVE FALSE
      BY <1>5 DEF Range
    <3>1. p \in both /\ next[p] = n
      OBVIOUS
    <3> QED
      BY <1>11, <3>1 DEF Range
  <2> QED
    BY <1>4, <1>5, <2>1, <2>2
<1> HIDE DEF both, next
<1>12. Placed(both, all)
  BY <1>8, <1>9, <1>10, <1>11 DEF Placed
<1> QED
  BY <1>1, <1>2, <1>12 DEF both

\* The kept lines that the cursor has passed are among the lines written.
PlacedInv ==
  /\ WalkInv
  /\ out \in Seq(OutLine)
  /\ Placed({p \in KeptByBoth : p <= i}, out)

\* An edit that PeekOp finds is one of the list.
LEMMA PeekedIn ==
  ASSUME NEW s, NEW idx, NEW p, At(s, idx, p), ~ PeekOp(s, idx, p).same
  PROVE  PeekOp(s, idx, p) \in Edits(s)
<1>1. PICK l \in idx .. Len(s) : PeekOp(s, idx, p) = s[l]
  BY PeekedEdit
<1>2. l \in DOMAIN s
  BY OpsTyped DEF At
<1> QED
  BY <1>1, <1>2 DEF Edits

\* The text of an edit, and a conflict, are lines that may be written, and lines
\* of edits.
LEMMA EditLinesTyped ==
  ASSUME IsScript(ours), IsScript(theirs)
  PROVE  /\ \A e \in Edits(ours) \cup Edits(theirs) :
              e.text \in Seq(OutLine) /\ \A n \in 1 .. Len(e.text) : e.text[n] \in EditLines
         /\ \A a \in Edits(ours), b \in Edits(theirs) :
              Conflict(a.text, b.text) \in OutLine /\ Conflict(a.text, b.text) \in EditLines
<1>1. ASSUME NEW s, IsScript(s), NEW e \in Edits(s) PROVE e.text \in Text /\ e.text \in Seq(Line)
  <2>1. PICK k \in 1 .. Len(s) : e = s[k]
    BY <1>1, OpsTyped DEF Edits
  <2>2. e \in Op
    BY <1>1, <2>1, OpsTyped
  <2>3. e.text \in Text
    BY <2>2 DEF Op
  <2> QED
    BY <2>3, MergeConstants
<1>2. ASSUME NEW e \in Edits(ours) \cup Edits(theirs)
      PROVE  e.text \in Seq(OutLine) /\ \A n \in 1 .. Len(e.text) : e.text[n] \in EditLines
  <2>1. e.text \in Seq(Line)
    BY <1>1
  <2>2. Line \subseteq OutLine
    BY DEF OutLine
  <2>3. e.text \in Seq(OutLine)
    BY <2>1, <2>2, SeqMonotonic
  <2>4. \A n \in 1 .. Len(e.text) : e.text[n] \in Range(e.text)
    BY <2>1, LenProperties DEF Range
  <2>5. Range(e.text) \subseteq EditLines
    BY DEF EditLines
  <2> QED
    BY <2>3, <2>4, <2>5
<1>3. ASSUME NEW a \in Edits(ours), NEW b \in Edits(theirs)
      PROVE  Conflict(a.text, b.text) \in OutLine /\ Conflict(a.text, b.text) \in EditLines
  <2>1. a.text \in Text /\ b.text \in Text
    BY <1>1
  <2>2. Conflict(a.text, b.text) \in OutLine
    BY <2>1 DEF OutLine
  <2>3. Conflict(a.text, b.text) \in EditLines
    <3>1. Conflict(a.text, b.text) \in Clashes
      BY DEF Clashes
    <3> QED
      BY <3>1 DEF EditLines
  <2> QED
    BY <2>2, <2>3
<1> QED
  BY <1>2, <1>3

\* Each turn leaves every kept line that it passes among the lines written.
LEMMA TurnPlaces ==
  ASSUME PlacedInv, Turn
  PROVE  PlacedInv'
<1>1. /\ WalkInv /\ WalkInv' /\ KeptLinesCopied /\ MergeTypeOK /\ MergeTypeOK'
      /\ Advances /\ ours' = ours /\ theirs' = theirs /\ BaseLen \in Nat
      /\ At(ours, oi, i) /\ At(theirs, ti, i) /\ out \in Seq(OutLine)
  <2>1. ours' = ours /\ theirs' = theirs
    BY DEF Turn, CopyBase, TakeOurs, TakeTheirs, TakeBoth
  <2> QED
    BY <2>1, BaseTyped, TurnWalks, TurnAdvances DEF PlacedInv, WalkInv, MergeTypeOK, At
<1>2. IsScript(ours) /\ IsScript(theirs) /\ i \in 0 .. BaseLen /\ i' \in i .. BaseLen
  BY <1>1 DEF MergeTypeOK, Advances
<1>3. EditLines' = EditLines /\ KeptByBoth' = KeptByBoth
  BY <1>1 DEF EditLines, Clashes, KeptByBoth, Keeps, Edits
<1>4. PICK p, q, all : p = i /\ q = i' /\ all = out'
  OBVIOUS
<1>5. PICK past : past = {n \in KeptByBoth : n <= p}
  OBVIOUS
<1>6. Placed(past, out)
  BY <1>4, <1>5 DEF PlacedInv
<1>7. SUFFICES all \in Seq(OutLine) /\ Placed({n \in KeptByBoth : n <= q}, all)
  BY <1>1, <1>3, <1>4 DEF PlacedInv, Placed
<1>8. p \in 0 .. BaseLen /\ q \in p .. BaseLen /\ p <= q /\ past \subseteq 1 .. p
  BY <1>1, <1>2, <1>4, <1>5 DEF KeptByBoth
<1>9. \A n \in p + 1 .. q : n \in KeptByBoth <=> CopyBase
  BY <1>1, <1>4 DEF KeptLinesCopied
<1>10. KeptByBoth \subseteq 1 .. BaseLen
  BY DEF KeptByBoth
<1>11. CASE CopyBase
  <2>1. all = out \o SubSeq(Base, p + 1, q)
    BY <1>1, <1>4, <1>11, CopyStep
  <2>2. {n \in KeptByBoth : n <= q} = past \cup (p + 1 .. q)
    <3>1. \A n \in KeptByBoth : n <= q <=> n <= p \/ n \in p + 1 .. q
      BY <1>1, <1>8, <1>10
    <3>2. \A n \in p + 1 .. q : n \in KeptByBoth
      BY <1>9, <1>11
    <3> QED
      BY <1>5, <3>1, <3>2
  <2>3. Placed(past \cup (p + 1 .. q), out \o SubSeq(Base, p + 1, q))
    BY <1>1, <1>6, <1>8, PlacedNext
  <2>4. SubSeq(Base, p + 1, q) \in Seq(OutLine)
    <3>1. \A n \in p + 1 .. q : Base[n] \in OutLine
      BY <1>1, <1>8, BaseTyped DEF OutLine
    <3>2. p + 1 \in Int /\ q \in Int
      BY <1>1, <1>8
    <3> QED
      BY <3>1, <3>2, SubSeqProperties
  <2>5. all \in Seq(OutLine)
    BY <1>1, <2>1, <2>4, ConcatProperties
  <2> QED
    BY <2>1, <2>2, <2>3, <2>5
<1>12. CASE ~ CopyBase
  <2>1. PICK more \in Seq(OutLine) : all = out \o more /\ \A n \in 1 .. Len(more) : more[n] \in EditLines
    <3>1. /\ ~ OOp.same => OOp \in Edits(ours)
          /\ ~ TOp.same => TOp \in Edits(theirs)
      BY <1>1, PeekedIn DEF OOp, TOp
    <3>2. \A e \in Edits(ours) \cup Edits(theirs) :
            e.text \in Seq(OutLine) /\ \A n \in 1 .. Len(e.text) : e.text[n] \in EditLines
      BY <1>2, EditLinesTyped
    <3>3. CASE TakeOurs
      <4>1. all = out \o OOp.text /\ OOp \in Edits(ours) \cup Edits(theirs)
        BY <1>4, <3>1, <3>3 DEF TakeOurs
      <4> QED
        BY <3>2, <4>1, Zenon
    <3>4. CASE TakeTheirs
      <4>1. all = out \o TOp.text /\ TOp \in Edits(ours) \cup Edits(theirs)
        BY <1>4, <3>1, <3>4 DEF TakeTheirs
      <4> QED
        BY <3>2, <4>1, Zenon
    <3>5. CASE TakeBoth /\ OOp.text = TOp.text
      <4>1. all = out \o OOp.text /\ OOp \in Edits(ours) \cup Edits(theirs)
        BY <1>4, <3>1, <3>5 DEF TakeBoth
      <4> QED
        BY <3>2, <4>1, Zenon
    <3>6. CASE TakeBoth /\ OOp.text # TOp.text
      <4>1. PICK clash : clash = Conflict(OOp.text, TOp.text)
        OBVIOUS
      <4>2. all = Append(out, clash) /\ OOp \in Edits(ours) /\ TOp \in Edits(theirs)
        BY <1>4, <3>1, <3>6, <4>1 DEF TakeBoth
      <4>3. clash \in OutLine /\ clash \in EditLines
        BY <1>2, <4>1, <4>2, EditLinesTyped
      <4>4. all = out \o <<clash>>
        BY <1>1, <4>2, <4>3, AppendIsConcat
      <4>5. <<clash>> \in Seq(OutLine) /\ \A n \in 1 .. Len(<<clash>>) : <<clash>>[n] \in EditLines
        BY <4>3
      <4> QED
        BY <4>4, <4>5, Zenon
    <3> QED
      BY <1>12, <3>3, <3>4, <3>5, <3>6 DEF Turn
  <2>2. {n \in KeptByBoth : n <= q} = past
    <3>1. \A n \in KeptByBoth : n <= q <=> n <= p
      BY <1>1, <1>8, <1>9, <1>10, <1>12
    <3> QED
      BY <1>5, <3>1
  <2>3. Placed(past, out \o more)
    BY <1>1, <1>6, <2>1, PlacedBefore
  <2>4. all \in Seq(OutLine)
    BY <1>1, <2>1, ConcatProperties
  <2> QED
    BY <2>1, <2>2, <2>3, <2>4
<1> QED
  BY <1>11, <1>12

\* Every base line that both sides keep is written once, in its order, whatever
\* overlaps and conflicts surround it, and all else that Merge3 writes is a line of
\* an edit or a conflict of two of them.
THEOREM KeptLinesAlwaysOnce == MergeSpec => []KeptLinesOnce
<1>1. MergeInit /\ WalkInv => PlacedInv
  <2> SUFFICES ASSUME MergeInit, WalkInv PROVE PlacedInv
    OBVIOUS
  <2>1. i = 0 /\ out = << >>
    BY DEF MergeInit
  <2>2. PICK none : none = {p \in KeptByBoth : p <= 0}
    OBVIOUS
  <2>3. none = {}
    BY <2>2, BaseTyped DEF KeptByBoth
  <2>4. Placed(none, << >>)
    <3>1. DOMAIN << >> = {}
      OBVIOUS
    <3>2. [n \in none |-> n] \in [none -> DOMAIN << >>]
      BY <2>3
    <3> QED
      BY <2>3, <3>1, <3>2 DEF Placed
  <2> QED
    BY <2>1, <2>2, <2>4 DEF PlacedInv
<1>2. PlacedInv /\ [MergeNext]_mergeVars => PlacedInv'
  <2> SUFFICES ASSUME PlacedInv, [MergeNext]_mergeVars PROVE PlacedInv'
    OBVIOUS
  <2>1. CASE Turn
    BY <2>1, TurnPlaces
  <2>2. CASE UNCHANGED mergeVars
    <3>1. WalkInv'
      BY <2>2 DEF mergeVars, PlacedInv, WalkInv, ApartInv, MergeTypeOK, Behind, Ahead, Fresh,
                  EditsApart, Edits
    <3>2. EditLines' = EditLines /\ KeptByBoth' = KeptByBoth /\ out' = out /\ i' = i
      BY <2>2 DEF mergeVars, EditLines, Clashes, KeptByBoth, Keeps, Edits
    <3> QED
      BY <3>1, <3>2 DEF PlacedInv, Placed
  <2> QED
    BY <2>1, <2>2 DEF MergeNext, Done
<1>3. PlacedInv => KeptLinesOnce
  <2> SUFFICES ASSUME PlacedInv, ~ Merging PROVE Placed(KeptByBoth, out)
    BY DEF KeptLinesOnce
  <2>1. i = BaseLen /\ BaseLen \in Nat
    BY BaseTyped, LoopAtEnd DEF PlacedInv, WalkInv
  <2>2. {p \in KeptByBoth : p <= i} = KeptByBoth
    BY <2>1 DEF KeptByBoth
  <2> QED
    BY <2>2 DEF PlacedInv
<1> QED
  BY <1>1, <1>2, <1>3, WalkHolds, PTL DEF MergeSpec
=============================================================================
