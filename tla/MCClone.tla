------------------------------ MODULE MCClone ------------------------------
EXTENDS Clone

Symmetry == Permutations(Mine) \cup Permutations(Commit \ Mine) \cup Permutations(Text)

\* Up to three commits are made and two of them pushed, before the last step.
Made  == {c \in Commit : Changes(c) # {}}
Bound == Cardinality(Made) <= 3 /\ Len(log) <= 2

\* Behaviours of Spec in which no command is cut short.
Undisturbed == Init /\ [][Work]_vars
=============================================================================
