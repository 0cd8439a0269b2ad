-------------------------------- MODULE Watch --------------------------------
(***************************************************************************)
(* The event stream of one repository and one client that watches it:      *)
(* internal/server/hub.go, internal/server/watch.go, and the reconnecting  *)
(* loop of internal/cli/watch.go over internal/client/watch.go.            *)
(*                                                                         *)
(* The pusher that holds the write lock stores a commit and hands its      *)
(* event group to the hub through a bounded channel.  The hub, a goroutine *)
(* of its own, copies each group into the bounded buffer of every          *)
(* subscriber, cut to what the permission queries let through, and drops   *)
(* it for a subscriber whose buffer is full.  The handler of a connection replays *)
(* the log from the client's cursor, subscribes, and then writes what      *)
(* arrives in its buffer to the socket, one event at a time.               *)
(*                                                                         *)
(* Only what lies under the watched prefix is modelled: a commit elsewhere *)
(* changes no path.  All event types are wanted.                           *)
(***************************************************************************)
EXTENDS Integers, FiniteSets, Sequences, SequencesExt

CONSTANTS
  Path,         \* file paths under the watched prefix
  Change,       \* sets of paths that a commit may change
  Unsure,       \* those for which a permission query may be answered no: grants are
                \* changed while the client watches, and a query that fails is a no
  Conn,         \* connections, each with its handler and its subscriber
  NoConn,       \* the client's connection when it has none
  PublishCap,   \* capacity of hub.publish
  OutCap,       \* subscriberBuffer
  MaxCommits    \* bound on the length of the log

\* The last event of a commit is about none of its files.
Summary == "commit.pushed"

ASSUME WatchConstants ==
  /\ Unsure \subseteq Path /\ Change \subseteq SUBSET Path
  /\ NoConn \notin Conn
  /\ IsFiniteSet(Path) /\ Summary \notin Path
  /\ PublishCap \in Nat \ {0} /\ OutCap \in Nat \ {0} /\ MaxCommits \in Nat \ {0}

VARIABLES
  log,          \* log[s]: the paths that the commit with number s changes
  publishing,   \* the stored commit whose group is not handed over yet, or 0
  queue,        \* hub.publish: the numbers of the groups in it
  fan,          \* the group in the hub's hands, and the subscribers it has yet to visit
  subs,         \* the hub's registry
  handler,      \* the handler of each connection
  session,      \* the connection the client reads from
  cursor        \* the client's cursor

repoVars   == <<log, publishing>>
hubVars    == <<queue, fan, subs>>
clientVars == <<session, cursor>>
watchVars  == <<repoVars, hubVars, handler, clientVars>>

-----------------------------------------------------------------------------
(* A group of commit s is cut to the events that the subscriber may see;   *)
(* written out it is one event per path and the final commit.pushed.       *)

EventsOf(group) ==
  [i \in 1 .. Cardinality(group.paths) |->
     [seq |-> group.seq, about |-> SetToSeq(group.paths)[i]]]
  \o (IF group.end THEN <<[seq |-> group.seq, about |-> Summary]>> ELSE << >>)

\* The permission of each path is queried twice, for the event of the file and
\* for commit.pushed, which is kept as long as one of its paths is: the two
\* answers may differ, by a change of the grants between them or by a failure.
FilterGroup(s) ==
  {group \in [seq : {s}, paths : SUBSET log[s], end : BOOLEAN] :
     /\ log[s] \ Unsure \subseteq group.paths
     /\ log[s] = {} => ~ group.end
     /\ log[s] \ Unsure # {} => group.end}

IsEmpty(group) == group.paths = {} /\ ~ group.end

HandlerStep == {"free", "catchUp", "replay", "subscribe", "live", "unsubscribe"}

Free == [step |-> "free", from |-> 0, replay |-> << >>, sending |-> << >>, out |-> << >>]

NoGroup == [seq |-> 0, todo |-> {}]

\* The repository has a commit already, from which the client may resume.
WatchInit ==
  /\ log \in {<<P>> : P \in Change}
  /\ publishing = 0
  /\ queue = << >>
  /\ fan = NoGroup
  /\ subs = {}
  /\ handler = [c \in Conn |-> Free]
  /\ session = NoConn
  /\ cursor \in {0, 1}

-----------------------------------------------------------------------------
(* The write lock's holder.                                                *)

\* A commit is stored.
Store ==
  /\ publishing = 0 /\ Len(log) < MaxCommits
  /\ \E P \in Change : log' = Append(log, P)
  /\ publishing' = Len(log) + 1
  /\ UNCHANGED <<hubVars, handler, clientVars>>

\* Mistake: the hand-over is tried again after it succeeded.
PublishAgain ==
  /\ publishing # 0 /\ Len(queue) < PublishCap
  /\ queue' = Append(queue, publishing)
  /\ UNCHANGED <<repoVars, fan, subs, handler, clientVars>>

\* The send waits while the channel is full, with the write lock held.
Publish ==
  /\ publishing # 0 /\ Len(queue) < PublishCap
  /\ queue' = Append(queue, publishing)
  /\ publishing' = 0
  /\ UNCHANGED <<log, fan, subs, handler, clientVars>>

\* The push fails between the transaction and the send.
PublishNothing ==
  /\ publishing # 0
  /\ publishing' = 0
  /\ UNCHANGED <<log, hubVars, handler, clientVars>>

-----------------------------------------------------------------------------
(* The hub: one case of its select at a time.                              *)

HubIdle == fan.todo = {}

Register(c) ==
  /\ HubIdle /\ handler[c].step = "subscribe"
  /\ subs' = subs \cup {c}
  /\ handler' = [handler EXCEPT ![c].step = "live"]
  /\ UNCHANGED <<repoVars, queue, fan, clientVars>>

Unregister(c) ==
  /\ HubIdle /\ handler[c].step = "unsubscribe"
  /\ subs' = subs \ {c}
  /\ handler' = [handler EXCEPT ![c] = Free]
  /\ UNCHANGED <<repoVars, queue, fan, clientVars>>

TakeGroup ==
  /\ HubIdle /\ queue # << >>
  /\ fan' = [seq |-> Head(queue), todo |-> subs]
  /\ queue' = Tail(queue)
  /\ UNCHANGED <<repoVars, subs, handler, clientVars>>

\* Mistake: the buffer grows with what is pushed.
DeliverAlways(c) ==
  /\ c \in fan.todo
  /\ \E group \in FilterGroup(fan.seq) :
       handler' = [handler EXCEPT ![c].out = IF IsEmpty(group) THEN @ ELSE Append(@, group)]
  /\ fan' = [fan EXCEPT !.todo = @ \ {c}]
  /\ UNCHANGED <<repoVars, queue, subs, clientVars>>

\* Mistake: the hub waits for room in the subscriber's buffer.
BlockingDeliver(c) ==
  /\ c \in fan.todo
  /\ Len(handler[c].out) < OutCap
  /\ \E group \in FilterGroup(fan.seq) :
       handler' = [handler EXCEPT ![c].out = IF IsEmpty(group) THEN @ ELSE Append(@, group)]
  /\ fan' = [fan EXCEPT !.todo = @ \ {c}]
  /\ UNCHANGED <<repoVars, queue, subs, clientVars>>

\* The permissions are queried for each subscriber in turn.
Deliver(c) ==
  /\ c \in fan.todo
  /\ \E group \in FilterGroup(fan.seq) :
       handler' = [handler EXCEPT ![c].out =
         IF ~ IsEmpty(group) /\ Len(@) < OutCap THEN Append(@, group) ELSE @]
  /\ fan' = [fan EXCEPT !.todo = @ \ {c}]
  /\ UNCHANGED <<repoVars, queue, subs, clientVars>>

-----------------------------------------------------------------------------
(* handleWatch.                                                            *)

\* RunWatch opens a connection with its cursor; without one nothing is replayed.
Connect(c) ==
  /\ session = NoConn /\ handler[c].step = "free"
  /\ session' = c
  /\ handler' = [handler EXCEPT ![c].from = cursor,
                                ![c].step = IF cursor > 0 THEN "catchUp" ELSE "subscribe"]
  /\ UNCHANGED <<repoVars, hubVars, cursor>>

\* Mistake: newest first, as log prints them.
ReadLogNewestFirst(c) ==
  /\ handler[c].step = "catchUp"
  /\ handler' = [handler EXCEPT ![c].step = "replay",
       ![c].replay = [i \in 1 .. Len(log) - handler[c].from |-> Len(log) + 1 - i]]
  /\ UNCHANGED <<repoVars, hubVars, clientVars>>

\* LogCommits after the cursor, oldest first.
ReadLog(c) ==
  /\ handler[c].step = "catchUp"
  /\ handler' = [handler EXCEPT ![c].step = "replay",
       ![c].replay = [i \in 1 .. Len(log) - handler[c].from |-> handler[c].from + i]]
  /\ UNCHANGED <<repoVars, hubVars, clientVars>>

ReplayCommit(c) ==
  /\ handler[c].step = "replay" /\ handler[c].sending = << >> /\ handler[c].replay # << >>
  /\ \E group \in FilterGroup(Head(handler[c].replay)) :
       handler' = [handler EXCEPT ![c].replay = Tail(@), ![c].sending = EventsOf(group)]
  /\ UNCHANGED <<repoVars, hubVars, clientVars>>

EndReplay(c) ==
  /\ handler[c].step = "replay" /\ handler[c].sending = << >> /\ handler[c].replay = << >>
  /\ handler' = [handler EXCEPT ![c].step = "subscribe"]
  /\ UNCHANGED <<repoVars, hubVars, clientVars>>

\* The writer loop takes the next group out of the buffer.
Drain(c) ==
  /\ handler[c].step = "live" /\ handler[c].sending = << >> /\ handler[c].out # << >>
  /\ handler' = [handler EXCEPT ![c].sending = EventsOf(Head(handler[c].out)),
                                ![c].out = Tail(@)]
  /\ UNCHANGED <<repoVars, hubVars, clientVars>>

\* One event is written and read; the client moves its cursor with every event.
WriteEvent(c) ==
  /\ c = session /\ handler[c].sending # << >>
  /\ LET e == Head(handler[c].sending)
     IN  cursor' = IF e.seq > cursor THEN e.seq ELSE cursor
  /\ handler' = [handler EXCEPT ![c].sending = Tail(@)]
  /\ UNCHANGED <<repoVars, hubVars, session>>

\* Mistake: the handler learns that the client is gone only from a failed write.
HangUpOnWrite(c) ==
  /\ c # session /\ handler[c].sending # << >>
  /\ \/ handler[c].step = "replay" /\ handler' = [handler EXCEPT ![c] = Free]
     \/ handler[c].step = "live" /\ handler' = [handler EXCEPT ![c].step = "unsubscribe"]
  /\ UNCHANGED <<repoVars, hubVars, clientVars>>

\* A write fails, or the reader goroutine sees the connection closed.  The
\* handler returns; it has to leave the hub only if it had come to subscribe.
HangUp(c) ==
  /\ c # session
  /\ \/ /\ handler[c].step = "replay" /\ handler[c].sending # << >>
        /\ handler' = [handler EXCEPT ![c] = Free]
     \/ /\ handler[c].step = "live"
        /\ handler' = [handler EXCEPT ![c].step = "unsubscribe"]
  /\ UNCHANGED <<repoVars, hubVars, clientVars>>

\* The connection breaks; the client reconnects after a pause.
Disconnect ==
  /\ session # NoConn
  /\ session' = NoConn
  /\ UNCHANGED <<repoVars, hubVars, handler, cursor>>

\* The server dies and is started again: only the log remains.
Crash ==
  /\ publishing' = 0 /\ queue' = << >> /\ fan' = NoGroup /\ subs' = {}
  /\ handler' = [c \in Conn |-> Free]
  /\ session' = NoConn
  /\ UNCHANGED <<log, cursor>>

HubNext(c)     == Register(c) \/ Unregister(c) \/ Deliver(c)
HandlerNext(c) == \/ ReadLog(c) \/ ReplayCommit(c) \/ EndReplay(c)
                  \/ Drain(c) \/ WriteEvent(c) \/ HangUp(c)

WatchNext ==
  \/ Store \/ Publish \/ PublishNothing \/ TakeGroup
  \/ Disconnect \/ Crash
  \/ \E c \in Conn : Connect(c) \/ HubNext(c) \/ HandlerNext(c)

WatchSpec == WatchInit /\ [][WatchNext]_watchVars

\* The pusher and the hub run, and each ready case of a select is chosen in the
\* end.  Handlers run; a write to an open connection may block for ever.
WatchFairness ==
  /\ WF_watchVars(Publish) /\ SF_watchVars(TakeGroup)
  /\ \A c \in Conn :
       /\ WF_watchVars(Deliver(c)) /\ SF_watchVars(Register(c)) /\ SF_watchVars(Unregister(c))
       /\ WF_watchVars(ReadLog(c) \/ ReplayCommit(c) \/ EndReplay(c) \/ Drain(c) \/ HangUp(c))

FairWatch == WatchSpec /\ WatchFairness

-----------------------------------------------------------------------------
(* Properties.                                                             *)

Number == 1 .. MaxCommits
Event  == [seq : Number, about : Path \cup {Summary}]
Group  == [seq : Number, paths : SUBSET Path, end : BOOLEAN]

\* The variables have the types of what they stand for, and no channel holds
\* more than its capacity.
WatchTypeOK ==
  /\ log \in Seq(SUBSET Path)
  /\ publishing \in 0 .. Len(log)
  /\ queue \in Seq(Number) /\ Len(queue) <= PublishCap
  /\ fan \in [seq : Number \cup {0}, todo : SUBSET Conn]
  /\ subs \subseteq Conn
  /\ handler \in [Conn -> [step : HandlerStep, from : Nat, replay : Seq(Number),
                           sending : Seq(Event), out : Seq(Group)]]
  /\ \A c \in Conn : Len(handler[c].out) <= OutCap
  /\ session \in Conn \cup {NoConn}
  /\ cursor \in Nat

\* What is on its way to a live subscriber, from the event being written to
\* the commit that waits to be handed over, is in the order of the log: a
\* subscriber needs no reordering (hub.run, and Publish under the lock).
Pipeline(c) ==
  (IF handler[c].sending = << >> THEN << >> ELSE <<Head(handler[c].sending).seq>>)
  \o [i \in DOMAIN handler[c].out |-> handler[c].out[i].seq]
  \o (IF c \in fan.todo THEN <<fan.seq>> ELSE << >>)
  \o queue
  \o (IF publishing = 0 THEN << >> ELSE <<publishing>>)

PipelineInOrder ==
  \A c \in subs : \A i, j \in DOMAIN Pipeline(c) :
    i < j => Pipeline(c)[i] < Pipeline(c)[j]

\* While a connection catches up, the client's cursor stays below every commit
\* that is still to be replayed: a break in the middle of a replay loses none
\* of them, as the next connection resumes from the cursor (catchUp, RunWatch).
CatchUpInOrder ==
  \A c \in Conn : c = session /\ handler[c].step \in {"catchUp", "replay"} =>
    \A i \in DOMAIN handler[c].replay : cursor < handler[c].replay[i]

\* No subscriber can stall the pushes of the repository: the holder of the
\* write lock gets its group into the channel, whatever the clients read.
PushesGoOn == publishing # 0 ~> publishing = 0

\* A connection that its client has left does not stay registered.
ConnectionsReleased ==
  \A c \in Conn : handler[c].step = "live" /\ c # session ~> handler[c].step = "free"
=============================================================================
