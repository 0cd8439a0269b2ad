----------------------------- MODULE CommitLog -----------------------------
(***************************************************************************)
(* What a repository promises about pushed commits, without handlers,      *)
(* locks or tables: one log, to which a commit is appended in one step,    *)
(* and only if every file it changes still has, as its latest version in   *)
(* the log, the commit that the change was based on.                       *)
(***************************************************************************)
EXTENDS Integers, Sequences

CONSTANTS Commit, Path, NoCommit, Untouched

VARIABLES
  base,   \* base[c][p]: the version that c's change of p starts from
  log     \* the accepted commits, in order of acceptance

Changes(c) == {p \in Path : base[c][p] # Untouched}

\* The latest commit of the log that changes p.
Latest(p) ==
  LET touching == {i \in DOMAIN log : p \in Changes(log[i])}
  IN  IF touching = {}
        THEN NoCommit
        ELSE log[CHOOSE i \in touching : \A j \in touching : j <= i]

LogInit ==
  /\ base = [c \in Commit |-> [p \in Path |-> Untouched]]
  /\ log = << >>

\* A client makes a commit; what it changes and from where is then fixed.
Make(c) ==
  /\ Changes(c) = {}
  /\ \E f \in [Path -> Commit \cup {NoCommit, Untouched}] :
       base' = [base EXCEPT ![c] = f]
  /\ UNCHANGED log

\* A commit enters the log once, and replaces exactly the versions it names.
AppendCommit(c) ==
  /\ Changes(c) # {}
  /\ \A i \in DOMAIN log : log[i] # c
  /\ \A p \in Changes(c) : base[c][p] = Latest(p)
  /\ log' = Append(log, c)
  /\ UNCHANGED base

LogNext == \E c \in Commit : Make(c) \/ AppendCommit(c)

LogSpec == LogInit /\ [][LogNext]_<<base, log>>
=============================================================================
