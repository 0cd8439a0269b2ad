------------------------------- MODULE MCWatch -------------------------------
EXTENDS Watch

\* Every commit changes every path.
AllPaths == {Path}
=============================================================================
