---------------------------- MODULE MCWatchMissed ----------------------------
EXTENDS WatchAudit

\* Every commit changes every path.
AllPaths == {Path}
=============================================================================
