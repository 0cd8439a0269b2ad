------------------------------- MODULE MCPush -------------------------------
EXTENDS PushServer, TLC

CONSTANTS alice, bob, fileA, fileB

MCPath    == {<<fileA>>, <<fileB>>}
MCPattern == {<<Wildcard>>}
Symmetry  == Permutations(Commit) \cup Permutations(Pusher) \cup Permutations({fileA, fileB})

\* The commits change at most MaxChanges files between them, so that two of
\* them may change both files.
MaxChanges == 4
FewChanges == Cardinality({x \in Commit \X Path : x[2] \in Changes(x[1])}) <= MaxChanges

\* They are made before the server is asked for anything.  What the server
\* does needs nothing of a commit not yet made, so every state and every step
\* of the server is still there.
CommitsFirst ==
  \/ UNCHANGED commitVars
  \/ objects = {} /\ (\A c \in Commit : ~ Stored(c)) /\ (\A w \in Pusher : push[w] = Idle)

BoundedSpec == Init /\ [][Next /\ FewChanges' /\ CommitsFirst]_vars
=============================================================================
