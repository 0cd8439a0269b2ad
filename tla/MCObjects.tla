------------------------------ MODULE MCObjects ------------------------------
EXTENDS ObjectStore, TLC

CONSTANTS w1, w2, h1, h2, h3

MCFile == 1 .. 7

\* Uploads and objects are interchangeable.
Symmetry == Permutations({w1, w2}) \cup Permutations({h1, h2, h3})
=============================================================================
