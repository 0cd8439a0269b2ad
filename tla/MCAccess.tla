------------------------------ MODULE MCAccess ------------------------------
EXTENDS PushAudit, TLC

CONSTANTS alice, bob, carol

MCPath    == {<<"a">>}
MCPattern == {<<Wildcard>>}
Symmetry  == Permutations(Clerk)
=============================================================================
