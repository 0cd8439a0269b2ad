----------------------------- MODULE WatchAudit -----------------------------
(***************************************************************************)
(* Watch with a history of what the client was started with and of what it *)
(* has received.  It only observes.                                        *)
(***************************************************************************)
EXTENDS Watch

VARIABLES
  start,   \* the cursor the client was started with
  seen     \* the events that RunWatch has handed to its caller

auditVars == <<watchVars, start, seen>>

AuditInit == WatchInit /\ start = cursor /\ seen = {}

Observe ==
  /\ seen' = seen \cup {Head(handler[c].sending) : c \in {d \in Conn : WriteEvent(d)}}
  /\ start' = start

AuditNext == WatchNext /\ Observe

AuditSpec == AuditInit /\ [][AuditNext]_auditVars

\* When a client reconnects, it has received all that lies below the cursor it
\* resumes from, which is never sent again: "The client detects the resulting
\* seq gap and backfills from the durable log" (hub.run), "so no accepted commit
\* is missed" (RunWatch).
NoneMissed ==
  \A c \in Conn : handler[c].step = "catchUp" /\ start > 0 =>
    \A s \in start + 1 .. handler[c].from : \A p \in log[s] \ Unsure :
      [seq |-> s, about |-> p] \in seen
=============================================================================
