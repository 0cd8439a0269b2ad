------------------------------- MODULE MCMerge -------------------------------
EXTENDS Merge

CONSTANTS b1, b2, b3, x, y

MCLine == {b1, b2, b3, x, y}
MCBase == <<b1, b2, b3>>
MCText == {<< >>, <<x>>, <<y>>}

\* All lists of operations from line p on that may follow one of the kind last.
Ops(p, last) ==
  {o \in Op : /\ o.i1 = p /\ p <= o.i2 /\ o.same # last
              /\ IF o.same THEN o.text = << >> /\ p < o.i2 ELSE o.text # << >> \/ p < o.i2}
Rest[p \in 0 .. BaseLen, last \in BOOLEAN] ==
  (IF p = BaseLen THEN {<< >>} ELSE {}) \cup
  UNION {{<<o>> \o s : s \in Rest[o.i2, o.same]} : o \in Ops(p, last)}
MCScript == Rest[0, TRUE] \cup Rest[0, FALSE]
=============================================================================
