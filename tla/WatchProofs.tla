---------------------------- MODULE WatchProofs ----------------------------
(***************************************************************************)
(* Proofs about Watch and WatchAudit, for any number of connections and    *)
(* commits, any capacities of the channels, and any answers of the         *)
(* permission queries.                                                     *)
(***************************************************************************)
EXTENDS WatchAudit, FiniteSetTheorems, SequenceTheorems, TLAPS

Handler == [step : HandlerStep, from : Nat, replay : Seq(Number), sending : Seq(Event), out : Seq(Group)]

\* What a handler has at hand at each of its steps.
HandlerOK(c) ==
  LET h == handler[c]
  IN  /\ h.step \in {"free", "catchUp", "subscribe"} => h.sending = << >>
      /\ h.step # "replay" => h.replay = << >>
      /\ c \notin subs => h.out = << >>
      /\ c \in subs <=> h.step \in {"live", "unsubscribe"}

\* The numbers in the hands of the pusher and of the hub.
HubInOrder ==
  /\ publishing # 0 => publishing = Len(log)
  /\ \A i \in DOMAIN queue : queue[i] <= Len(log) /\ (publishing # 0 => queue[i] < publishing)
  /\ \A i, j \in DOMAIN queue : i < j => queue[i] < queue[j]
  /\ fan.todo # {} => /\ 0 < fan.seq /\ fan.seq <= Len(log)
                      /\ publishing # 0 => fan.seq < publishing
                      /\ \A i \in DOMAIN queue : fan.seq < queue[i]

\* All that the handler of c has at hand comes before n.
Ahead(c, n) ==
  /\ \A i \in DOMAIN handler[c].sending : handler[c].sending[i].seq < n
  /\ \A i \in DOMAIN handler[c].out : handler[c].out[i].seq < n

SubInOrder(c) ==
  LET h == handler[c]
  IN  /\ \A i, j \in DOMAIN h.out : i < j => h.out[i].seq < h.out[j].seq
      /\ \A i \in DOMAIN h.sending, j \in DOMAIN h.out : h.sending[i].seq < h.out[j].seq
      /\ c \in fan.todo => Ahead(c, fan.seq)
      /\ \A i \in DOMAIN queue : Ahead(c, queue[i])
      /\ publishing # 0 => Ahead(c, publishing)
      /\ Ahead(c, Len(log) + 1)

\* What is to be replayed lies behind what is being written, and behind the cursor.
ReplayInOrder(c) ==
  LET h == handler[c]
  IN  /\ \A i \in DOMAIN h.replay : h.replay[i] <= Len(log)
      /\ \A i, j \in DOMAIN h.replay : i < j => h.replay[i] < h.replay[j]
      /\ h.step = "replay" => \A i \in DOMAIN h.sending, j \in DOMAIN h.replay : h.sending[i].seq < h.replay[j]
      /\ c = session /\ h.step = "catchUp" => cursor = h.from
      /\ c = session => \A i \in DOMAIN h.replay : cursor < h.replay[i]

WatchTyped ==
  /\ WatchTypeOK /\ Len(log) <= MaxCommits /\ fan.todo \subseteq subs
  /\ \A c \in Conn : HandlerOK(c)

WatchInv ==
  /\ WatchTyped /\ HubInOrder
  /\ \A c \in subs : SubInOrder(c)
  /\ \A c \in Conn : ReplayInOrder(c)

-----------------------------------------------------------------------------
(* Lists and groups.                                                       *)

LEMMA NumberIsNat == \A n \in Number : n \in Int /\ 0 < n
BY WatchConstants DEF Number

LEMMA Numbered ==
  ASSUME NEW h \in Handler
  PROVE  /\ \A i \in DOMAIN h.sending : h.sending[i].seq \in Int /\ 0 < h.sending[i].seq
         /\ \A i \in DOMAIN h.out : h.out[i].seq \in Int /\ 0 < h.out[i].seq
         /\ \A i \in DOMAIN h.replay : h.replay[i] \in Int /\ 0 < h.replay[i]
<1>1. h.sending \in Seq(Event) /\ h.out \in Seq(Group) /\ h.replay \in Seq(Number)
  BY DEF Handler
<1>2. \A i \in DOMAIN h.sending : h.sending[i].seq \in Number
  <2>1. \A i \in DOMAIN h.sending : h.sending[i] \in Event
    BY <1>1
  <2> QED
    BY <2>1 DEF Event
<1>3. \A i \in DOMAIN h.out : h.out[i].seq \in Number
  <2>1. \A i \in DOMAIN h.out : h.out[i] \in Group
    BY <1>1
  <2> QED
    BY <2>1 DEF Group
<1>4. \A i \in DOMAIN h.replay : h.replay[i] \in Number
  BY <1>1
<1> QED
  BY <1>2, <1>3, <1>4, NumberIsNat

LEMMA Listed ==
  ASSUME NEW S, NEW n \in Nat, NEW f \in [1 .. n -> S]
  PROVE  f \in Seq(S)
OBVIOUS

LEMMA HeadAndTail ==
  ASSUME NEW S, NEW s \in Seq(S), s # << >>
  PROVE  /\ Head(s) \in S /\ Head(s) = s[1] /\ 1 \in DOMAIN s
         /\ Tail(s) \in Seq(S) /\ Len(Tail(s)) = Len(s) - 1
         /\ \A i \in DOMAIN Tail(s) : i + 1 \in DOMAIN s /\ Tail(s)[i] = s[i + 1]
OBVIOUS

LEMMA Appended ==
  ASSUME NEW S, NEW s \in Seq(S), NEW e \in S
  PROVE  /\ Append(s, e) \in Seq(S) /\ Len(Append(s, e)) = Len(s) + 1
         /\ DOMAIN Append(s, e) = DOMAIN s \cup {Len(s) + 1} /\ Len(s) + 1 \notin DOMAIN s
         /\ \A i \in DOMAIN s : Append(s, e)[i] = s[i] /\ i < Len(s) + 1
         /\ Append(s, e)[Len(s) + 1] = e
OBVIOUS

LEMMA Joined ==
  ASSUME NEW S, NEW s \in Seq(S), NEW t \in Seq(S)
  PROVE  /\ s \o t \in Seq(S)
         /\ \A i \in DOMAIN (s \o t) : IF i \in DOMAIN s THEN (s \o t)[i] = s[i]
              ELSE i > Len(s) /\ i - Len(s) \in DOMAIN t /\ (s \o t)[i] = t[i - Len(s)]
         /\ DOMAIN (s \o t) = 1 .. Len(s) + Len(t)
<1>1. /\ s \o t \in Seq(S)
      /\ Len(s \o t) = Len(s) + Len(t)
      /\ \A i \in 1 .. Len(s) + Len(t) : (s \o t)[i] = IF i <= Len(s) THEN s[i] ELSE t[i - Len(s)]
  BY ConcatProperties
<1>2. DOMAIN (s \o t) = 1 .. Len(s) + Len(t) /\ DOMAIN s = 1 .. Len(s) /\ DOMAIN t = 1 .. Len(t)
      /\ Len(s) \in Nat /\ Len(t) \in Nat
  BY <1>1
<1> QED
  BY <1>1, <1>2

\* The events of a group are numbered as the group is.
LEMMA GroupWritten ==
  ASSUME NEW g \in Group
  PROVE  /\ EventsOf(g) \in Seq(Event)
         /\ \A i \in DOMAIN EventsOf(g) : EventsOf(g)[i].seq = g.seq
<1>1. IsFiniteSet(g.paths) /\ g.seq \in Number /\ g.paths \subseteq Path
  BY WatchConstants, FS_Subset DEF Group
<1> DEFINE n == Cardinality(g.paths)
           s == SetToSeq(g.paths)
           e == [i \in 1 .. n |-> [seq |-> g.seq, about |-> s[i]]]
           l == IF g.end THEN <<[seq |-> g.seq, about |-> Summary]>> ELSE << >>
<1>2. n \in Nat /\ \E f \in [1 .. n -> g.paths] : IsInjective(f)
  <2>1. n \in Nat /\ ExistsBijection(1 .. n, g.paths)
    BY <1>1, FS_CardinalityType
  <2> QED
    BY <2>1 DEF ExistsBijection, Bijection, Injection, IsInjective
<1>3. s \in [1 .. n -> g.paths]
  BY <1>2 DEF SetToSeq
<1> HIDE DEF n, s
<1>4. e \in Seq(Event) /\ Len(e) = n /\ \A i \in 1 .. n : e[i].seq = g.seq
  BY <1>1, <1>2, <1>3 DEF Event
<1>5. l \in Seq(Event) /\ \A i \in DOMAIN l : l[i].seq = g.seq
  <2>1. CASE g.end
    <3>1. [seq |-> g.seq, about |-> Summary] \in Event
      BY <1>1 DEF Event
    <3>2. l = <<[seq |-> g.seq, about |-> Summary]>>
      BY <2>1
    <3> QED
      BY <3>1, <3>2
  <2>2. CASE ~ g.end
    BY <2>2
  <2> QED
    BY <2>1, <2>2
<1>6. EventsOf(g) = e \o l
  BY DEF EventsOf, n, s
<1> HIDE DEF e, l
<1>7. /\ e \o l \in Seq(Event)
      /\ \A i \in DOMAIN (e \o l) : IF i \in DOMAIN e THEN (e \o l)[i] = e[i]
           ELSE i > Len(e) /\ i - Len(e) \in DOMAIN l /\ (e \o l)[i] = l[i - Len(e)]
      /\ DOMAIN (e \o l) = 1 .. Len(e) + Len(l)
  BY <1>4, <1>5, Joined
<1>8. DOMAIN e = 1 .. n
  BY <1>2, <1>4
<1>9. \A i \in DOMAIN (e \o l) : (e \o l)[i].seq = g.seq
  BY <1>4, <1>5, <1>7, <1>8
<1> QED
  BY <1>6, <1>7, <1>9

\* What is left of a group after the permissions is a group.
LEMMA Filtered ==
  ASSUME WatchTyped, NEW s \in Number, s <= Len(log)
  PROVE  \A g \in FilterGroup(s) : g \in Group /\ g.seq = s
<1>1. log[s] \subseteq Path
  BY DEF WatchTyped, WatchTypeOK, Number
<1> QED
  BY <1>1 DEF FilterGroup, Group

-----------------------------------------------------------------------------

LEMMA InitWatch == WatchInit => WatchInv
<1> SUFFICES ASSUME WatchInit PROVE WatchInv
  OBVIOUS
<1>1. Free \in Handler
  BY DEF Free, Handler, HandlerStep
<1>2. \A c \in Conn : handler[c] = Free /\ c # session
  BY WatchConstants DEF WatchInit
<1>3. log \in Seq(SUBSET Path) /\ Len(log) = 1
  <2>1. PICK P \in Change : log = <<P>>
    BY DEF WatchInit
  <2>2. P \in SUBSET Path
    BY WatchConstants
  <2> QED
    BY <2>1, <2>2
<1>4. WatchTypeOK
  <2>1. queue \in Seq(Number) /\ Len(queue) = 0
    BY DEF WatchInit
  <2>2. fan \in [seq : Number \cup {0}, todo : SUBSET Conn]
    BY DEF WatchInit, NoGroup
  <2>3. handler \in [Conn -> Handler] /\ \A c \in Conn : Len(handler[c].out) <= OutCap
    BY <1>1, WatchConstants DEF WatchInit, Free
  <2>4. cursor \in Nat /\ session \in Conn \cup {NoConn}
        /\ publishing \in 0 .. Len(log) /\ subs \subseteq Conn
    BY <1>3 DEF WatchInit
  <2> QED
    BY <1>3, <2>1, <2>2, <2>3, <2>4, WatchConstants DEF WatchTypeOK, Handler
<1>5. \A c \in Conn : HandlerOK(c) /\ ReplayInOrder(c)
  BY <1>2 DEF WatchInit, HandlerOK, ReplayInOrder, Free
<1>6. HubInOrder
  BY DEF WatchInit, HubInOrder, NoGroup
<1> QED
  BY <1>3, <1>4, <1>5, <1>6, WatchConstants DEF WatchInit, WatchInv, WatchTyped, NoGroup

-----------------------------------------------------------------------------
(* A step of one handler, with what the hub and the client do in it.       *)

LEMMA OneHandler ==
  ASSUME WatchInv, NEW c \in Conn, NEW h \in Handler, Len(h.out) <= OutCap,
         handler' = [handler EXCEPT ![c] = h],
         UNCHANGED <<repoVars, queue>>,
         fan' = [fan EXCEPT !.todo = fan'.todo], fan'.todo \subseteq fan.todo, fan'.todo \subseteq subs',
         subs' \subseteq Conn, subs' \ {c} = subs \ {c},
         session' \in Conn \cup {NoConn}, cursor' \in Nat,
         \A d \in Conn \ {c} : d = session' => d = session /\ cursor' = cursor,
         HandlerOK(c)', c \in subs' => SubInOrder(c)', ReplayInOrder(c)'
  PROVE  WatchInv'
<1>1. handler \in [Conn -> Handler] /\ fan \in [seq : Number \cup {0}, todo : SUBSET Conn]
  BY DEF WatchInv, WatchTyped, WatchTypeOK, Handler
<1>2. handler'[c] = h /\ \A d \in Conn : d # c => handler'[d] = handler[d]
  BY <1>1
<1>3. handler' \in [Conn -> Handler] /\ \A d \in Conn : Len(handler'[d].out) <= OutCap
  BY <1>1, <1>2 DEF WatchInv, WatchTyped, WatchTypeOK
<1>4. fan'.seq = fan.seq /\ fan' \in [seq : Number \cup {0}, todo : SUBSET Conn]
  BY <1>1
<1>5. WatchTyped'
  <2>1. ASSUME NEW d \in Conn PROVE HandlerOK(d)'
    <3>1. CASE d = c
      BY <3>1
    <3>2. CASE d # c
      <4>1. d \in subs' <=> d \in subs
        BY <3>2
      <4> QED
        BY <1>2, <3>2, <4>1 DEF WatchInv, WatchTyped, HandlerOK
    <3> QED
      BY <3>1, <3>2
  <2>2. WatchTypeOK'
    BY <1>3, <1>4 DEF WatchInv, WatchTyped, WatchTypeOK, Handler, repoVars
  <2> QED
    BY <2>1, <2>2 DEF WatchInv, WatchTyped, repoVars
<1>6. HubInOrder'
  BY <1>4 DEF WatchInv, HubInOrder, repoVars
<1>7. ASSUME NEW d \in subs' PROVE SubInOrder(d)'
  <2>1. CASE d = c
    BY <2>1
  <2>2. CASE d # c
    <3>1. d \in subs /\ d \in Conn /\ handler'[d] = handler[d] /\ (d \in fan'.todo => d \in fan.todo)
      BY <1>2, <2>2
    <3> QED
      BY <1>4, <3>1 DEF WatchInv, SubInOrder, Ahead, repoVars
  <2> QED
    BY <2>1, <2>2
<1>8. ASSUME NEW d \in Conn PROVE ReplayInOrder(d)'
  <2>1. CASE d = c
    BY <2>1
  <2>2. CASE d # c
    BY <1>2, <2>2 DEF WatchInv, ReplayInOrder, repoVars
  <2> QED
    BY <2>1, <2>2
<1> QED
  BY <1>5, <1>6, <1>7, <1>8 DEF WatchInv
-----------------------------------------------------------------------------
(* The steps of the pusher and of the hub.                                 *)

LEMMA PusherSteps ==
  ASSUME WatchInv, Store \/ Publish \/ PublishNothing \/ Disconnect
  PROVE  WatchInv'
<1>1. CASE Store
  <2>1. PICK P \in Change : log' = Append(log, P)
    BY <1>1 DEF Store
  <2>2. log \in Seq(SUBSET Path) /\ P \in SUBSET Path /\ Len(log) \in Nat /\ MaxCommits \in Nat
    BY WatchConstants DEF WatchInv, WatchTyped, WatchTypeOK
  <2>3. log' \in Seq(SUBSET Path) /\ Len(log') = Len(log) + 1
    BY <2>1, <2>2
  <2>4. WatchTyped'
    <3>1. WatchTypeOK'
      BY <1>1, <2>2, <2>3 DEF Store, WatchInv, WatchTyped, WatchTypeOK, hubVars, clientVars
    <3>2. Len(log') <= MaxCommits
      BY <1>1, <2>2, <2>3 DEF Store
    <3> QED
      BY <1>1, <3>1, <3>2 DEF Store, WatchInv, WatchTyped, HandlerOK, hubVars
  <2>5. HubInOrder'
    <3>1. /\ publishing = 0 /\ publishing' = Len(log') /\ queue' = queue /\ fan' = fan
          /\ Len(log) \in Int /\ Len(log') = Len(log) + 1
      BY <1>1, <2>2, <2>3 DEF Store, hubVars
    <3>2. \A i \in DOMAIN queue : queue[i] \in Int /\ queue[i] <= Len(log)
      <4>1. \A i \in DOMAIN queue : queue[i] \in Number
        BY DEF WatchInv, WatchTyped, WatchTypeOK
      <4> QED
        BY <4>1, NumberIsNat DEF WatchInv, HubInOrder
    <3>3. fan.todo # {} => fan.seq \in Int /\ fan.seq <= Len(log)
      <4>1. fan.seq \in Number \cup {0}
        BY DEF WatchInv, WatchTyped, WatchTypeOK
      <4> QED
        BY <4>1, NumberIsNat DEF WatchInv, HubInOrder
    <3>4. \A i \in DOMAIN queue : queue[i] <= Len(log') /\ queue[i] < publishing'
      BY <3>1, <3>2
    <3>5. fan.todo # {} => fan.seq <= Len(log') /\ fan.seq < publishing'
      BY <3>1, <3>3
    <3> QED
      BY <3>1, <3>4, <3>5 DEF WatchInv, HubInOrder
  <2>6. ASSUME NEW c \in subs' PROVE SubInOrder(c)'
    <3>1. c \in subs /\ handler[c] \in Handler
      BY <1>1 DEF Store, hubVars, WatchInv, WatchTyped, WatchTypeOK, Handler
    <3>2. \A i \in DOMAIN handler[c].sending : handler[c].sending[i].seq \in Int
      BY <3>1, Numbered
    <3>3. \A i \in DOMAIN handler[c].out : handler[c].out[i].seq \in Int
      BY <3>1, Numbered
    <3> QED
      BY <1>1, <2>2, <2>3, <3>1, <3>2, <3>3 DEF Store, WatchInv, SubInOrder, Ahead, hubVars
  <2>7. ASSUME NEW c \in Conn PROVE ReplayInOrder(c)'
    <3>1. handler[c] \in Handler
      BY DEF WatchInv, WatchTyped, WatchTypeOK, Handler
    <3>2. \A i \in DOMAIN handler[c].replay : handler[c].replay[i] \in Int
      BY <3>1, Numbered
    <3> QED
      BY <1>1, <2>2, <2>3, <3>2 DEF Store, WatchInv, ReplayInOrder, clientVars
  <2> QED
    BY <2>4, <2>5, <2>6, <2>7 DEF WatchInv
<1>2. CASE Publish
  <2>1. queue \in Seq(Number) /\ publishing \in Number /\ Len(log) \in Nat /\ publishing \in 0 .. Len(log)
    BY <1>2, WatchConstants DEF Publish, WatchInv, WatchTyped, WatchTypeOK, Number
  <2>2. /\ queue' \in Seq(Number) /\ Len(queue') = Len(queue) + 1
        /\ DOMAIN queue' = DOMAIN queue \cup {Len(queue) + 1} /\ Len(queue) + 1 \notin DOMAIN queue
        /\ \A i \in DOMAIN queue : queue'[i] = queue[i] /\ i < Len(queue) + 1
        /\ queue'[Len(queue) + 1] = publishing
    BY <1>2, <2>1, Appended DEF Publish
  <2>3. \A i \in DOMAIN queue : i \in Int /\ queue[i] \in Number
    BY <2>1
  <2>4. WatchTyped'
    <3>1. Len(queue') <= PublishCap
      BY <1>2, <2>1, <2>2, WatchConstants DEF Publish
    <3>2. WatchTypeOK'
      BY <1>2, <2>1, <2>2, <3>1 DEF Publish, WatchInv, WatchTyped, WatchTypeOK, clientVars
    <3> QED
      BY <1>2, <3>2 DEF Publish, WatchInv, WatchTyped, HandlerOK
  <2>5. HubInOrder'
    <3>1. publishing = Len(log) /\ publishing' = 0 /\ log' = log /\ fan' = fan
      BY <1>2 DEF Publish, WatchInv, HubInOrder
    <3>2. \A i \in DOMAIN queue' : queue'[i] <= Len(log')
      BY <2>1, <2>2, <3>1 DEF WatchInv, HubInOrder
    <3>3. \A i, j \in DOMAIN queue' : i < j => queue'[i] < queue'[j]
      <4>1. ASSUME NEW i \in DOMAIN queue', NEW j \in DOMAIN queue', i < j PROVE queue'[i] < queue'[j]
        <5>1. i \in DOMAIN queue
          BY <2>1, <2>2, <2>3, <4>1
        <5>2. CASE j \in DOMAIN queue
          BY <2>2, <4>1, <5>1, <5>2 DEF WatchInv, HubInOrder
        <5>3. CASE j = Len(queue) + 1
          BY <1>2, <2>2, <5>1, <5>3 DEF Publish, WatchInv, HubInOrder
        <5> QED
          BY <2>2, <5>2, <5>3
      <4> QED
        BY <4>1
    <3>4. fan.todo # {} => 0 < fan.seq /\ fan.seq <= Len(log) /\ \A i \in DOMAIN queue' : fan.seq < queue'[i]
      BY <1>2, <2>2 DEF Publish, WatchInv, HubInOrder
    <3> QED
      BY <3>1, <3>2, <3>3, <3>4 DEF HubInOrder
  <2>6. ASSUME NEW c \in subs' PROVE SubInOrder(c)'
    <3>1. c \in subs
      BY <1>2 DEF Publish
    <3> QED
      BY <1>2, <2>2, <3>1 DEF Publish, WatchInv, SubInOrder, Ahead
  <2> QED
    BY <1>2, <2>4, <2>5, <2>6 DEF Publish, WatchInv, ReplayInOrder, clientVars
<1>3. CASE PublishNothing
  <2>1. WatchTyped'
    BY <1>3 DEF PublishNothing, WatchInv, WatchTyped, WatchTypeOK, HandlerOK, hubVars, clientVars
  <2> QED
    BY <1>3, <2>1 DEF PublishNothing, WatchInv, HubInOrder, SubInOrder, Ahead, ReplayInOrder, hubVars, clientVars
<1>4. CASE Disconnect
  <2>1. WatchTyped'
    BY <1>4 DEF Disconnect, WatchInv, WatchTyped, WatchTypeOK, HandlerOK, repoVars, hubVars
  <2>2. \A c \in Conn : c # session'
    BY <1>4, WatchConstants DEF Disconnect
  <2> QED
    BY <1>4, <2>1, <2>2 DEF Disconnect, WatchInv, HubInOrder, SubInOrder, Ahead, ReplayInOrder, repoVars, hubVars
<1> QED
  BY <1>1, <1>2, <1>3, <1>4

LEMMA TakeGroupStep == ASSUME WatchInv, TakeGroup PROVE WatchInv'
<1>1. queue \in Seq(Number) /\ queue # << >>
  BY DEF WatchInv, WatchTyped, WatchTypeOK, TakeGroup
<1>2. /\ Head(queue) \in Number /\ Head(queue) = queue[1] /\ 1 \in DOMAIN queue
      /\ queue' \in Seq(Number) /\ Len(queue') = Len(queue) - 1
      /\ \A i \in DOMAIN queue' : i + 1 \in DOMAIN queue /\ queue'[i] = queue[i + 1]
  BY <1>1, HeadAndTail DEF TakeGroup
<1>3. fan'.seq = queue[1] /\ fan'.todo = subs /\ subs' = subs
  BY <1>2 DEF TakeGroup
<1>4. \A i \in DOMAIN queue' : 1 < i + 1 /\ i \in Int
  BY <1>2
<1>5. WatchTyped'
  <2>1. Len(queue') <= PublishCap
    BY <1>1, <1>2, WatchConstants DEF WatchInv, WatchTyped, WatchTypeOK
  <2>2. fan' \in [seq : Number \cup {0}, todo : SUBSET Conn]
    BY <1>2 DEF TakeGroup, WatchInv, WatchTyped, WatchTypeOK
  <2>3. WatchTypeOK'
    BY <1>2, <2>1, <2>2 DEF TakeGroup, WatchInv, WatchTyped, WatchTypeOK, repoVars, clientVars
  <2> QED
    BY <1>3, <2>3 DEF TakeGroup, WatchInv, WatchTyped, HandlerOK, repoVars
<1>6. HubInOrder'
  <2>1. \A i, j \in DOMAIN queue' : i < j => i + 1 < j + 1
    BY <1>4
  <2>2. 0 < queue[1]
    BY <1>2, NumberIsNat
  <2> QED
    BY <1>2, <1>3, <1>4, <2>1, <2>2 DEF TakeGroup, WatchInv, HubInOrder, repoVars
<1>7. ASSUME NEW c \in subs' PROVE SubInOrder(c)'
  BY <1>2, <1>3 DEF TakeGroup, WatchInv, SubInOrder, Ahead, repoVars
<1> QED
  BY <1>5, <1>6, <1>7 DEF TakeGroup, WatchInv, ReplayInOrder, repoVars, clientVars

LEMMA CrashStep == ASSUME WatchInv, Crash PROVE WatchInv'
<1>1. Free \in Handler
  BY DEF Free, Handler, HandlerStep
<1>2. handler' \in [Conn -> Handler] /\ \A c \in Conn : handler'[c] = Free /\ c # session'
  BY <1>1, WatchConstants DEF Crash
<1>3. Free.out = << >> /\ Free.sending = << >> /\ Free.replay = << >> /\ Free.step = "free"
  BY DEF Free
<1>4. WatchTyped'
  <2>1. \A c \in Conn : Len(handler'[c].out) <= OutCap
    BY <1>2, <1>3, WatchConstants
  <2>2. publishing' \in 0 .. Len(log') /\ log' \in Seq(SUBSET Path) /\ queue' \in Seq(Number) /\ Len(queue') <= PublishCap
    BY WatchConstants DEF Crash, WatchInv, WatchTyped, WatchTypeOK
  <2>3. WatchTypeOK'
    BY <1>2, <2>1, <2>2 DEF Crash, WatchInv, WatchTyped, WatchTypeOK, NoGroup, Handler
  <2> QED
    BY <1>2, <1>3, <2>3 DEF Crash, WatchInv, WatchTyped, HandlerOK, NoGroup
<1>5. HubInOrder'
  BY DEF Crash, HubInOrder, NoGroup
<1> QED
  BY <1>2, <1>3, <1>4, <1>5 DEF Crash, WatchInv, ReplayInOrder

-----------------------------------------------------------------------------
(* The steps that move one handler.                                        *)

LEMMA HandlerIsTyped ==
  ASSUME WatchInv, NEW c \in Conn
  PROVE  handler[c] \in Handler /\ Len(handler[c].out) <= OutCap /\ HandlerOK(c) /\ ReplayInOrder(c)
         /\ (c \in subs => SubInOrder(c))
BY DEF WatchInv, WatchTyped, WatchTypeOK, Handler

LEMMA HandlerReplaced ==
  ASSUME WatchInv, NEW c \in Conn, NEW h, handler' = [handler EXCEPT ![c] = h]
  PROVE  handler'[c] = h
BY DEF WatchInv, WatchTyped, WatchTypeOK

\* A step that leaves the client, the hub and the log alone.
LEMMA HandlerAlone ==
  ASSUME WatchInv, NEW c \in Conn, NEW h \in Handler, Len(h.out) <= OutCap,
         handler' = [handler EXCEPT ![c] = h],
         UNCHANGED <<repoVars, hubVars, clientVars>>,
         HandlerOK(c)', c \in subs => SubInOrder(c)', ReplayInOrder(c)'
  PROVE  WatchInv'
<1>1. /\ UNCHANGED <<repoVars, queue>>
      /\ fan' = fan /\ subs' = subs /\ fan.todo \subseteq subs /\ subs \subseteq Conn
      /\ session' = session /\ cursor' = cursor
      /\ session \in Conn \cup {NoConn} /\ cursor \in Nat
      /\ fan \in [seq : Number \cup {0}, todo : SUBSET Conn]
  BY DEF WatchInv, WatchTyped, WatchTypeOK, hubVars, clientVars
<1>2. fan' = [fan EXCEPT !.todo = fan'.todo]
  BY <1>1
<1> QED
  BY <1>1, <1>2, OneHandler

LEMMA RegisterStep == ASSUME WatchInv, NEW c \in Conn, Register(c) PROVE WatchInv'
<1> DEFINE h == [handler[c] EXCEPT !.step = "live"]
<1>1. handler[c] \in Handler /\ Len(handler[c].out) <= OutCap /\ HandlerOK(c) /\ ReplayInOrder(c)
  BY HandlerIsTyped
<1>2. h \in Handler /\ h.step = "live" /\ h.sending = << >> /\ h.out = << >> /\ h.replay = << >>
  BY <1>1 DEF Register, HandlerOK, Handler, HandlerStep
<1>3. handler' = [handler EXCEPT ![c] = h]
  BY DEF Register, WatchInv, WatchTyped, WatchTypeOK
<1> HIDE DEF h
<1>4. handler'[c] = h
  BY <1>3, HandlerReplaced
<1>5. /\ UNCHANGED <<repoVars, queue>>
      /\ fan' = fan /\ fan.todo = {} /\ subs' = subs \cup {c} /\ subs \subseteq Conn
      /\ session' = session /\ cursor' = cursor
      /\ session \in Conn \cup {NoConn} /\ cursor \in Nat
      /\ fan \in [seq : Number \cup {0}, todo : SUBSET Conn]
  BY DEF Register, HubIdle, WatchInv, WatchTyped, WatchTypeOK, clientVars
<1>6. HandlerOK(c)' /\ SubInOrder(c)' /\ ReplayInOrder(c)'
  BY <1>2, <1>4, <1>5 DEF HandlerOK, SubInOrder, Ahead, ReplayInOrder
<1>7. Len(h.out) <= OutCap /\ fan' = [fan EXCEPT !.todo = fan'.todo]
  BY <1>1, <1>2, <1>5, WatchConstants
<1> QED
  BY <1>2, <1>3, <1>5, <1>6, <1>7, OneHandler

LEMMA UnregisterStep == ASSUME WatchInv, NEW c \in Conn, Unregister(c) PROVE WatchInv'
<1>1. Free \in Handler /\ Free.step = "free" /\ Free.sending = << >> /\ Free.out = << >> /\ Free.replay = << >>
  BY DEF Free, Handler, HandlerStep
<1>2. handler' = [handler EXCEPT ![c] = Free]
  BY DEF Unregister
<1>3. handler'[c] = Free
  BY <1>2, HandlerReplaced
<1>4. /\ UNCHANGED <<repoVars, queue>>
      /\ fan' = fan /\ fan.todo = {} /\ subs' = subs \ {c} /\ subs \subseteq Conn
      /\ session' = session /\ cursor' = cursor
      /\ session \in Conn \cup {NoConn} /\ cursor \in Nat
      /\ fan \in [seq : Number \cup {0}, todo : SUBSET Conn]
  BY DEF Unregister, HubIdle, WatchInv, WatchTyped, WatchTypeOK, clientVars
<1>5. HandlerOK(c)' /\ ReplayInOrder(c)' /\ c \notin subs'
  BY <1>1, <1>3, <1>4 DEF HandlerOK, ReplayInOrder
<1>6. Len(Free.out) <= OutCap /\ fan' = [fan EXCEPT !.todo = fan'.todo]
  BY <1>1, <1>4, WatchConstants
<1> QED
  BY <1>1, <1>2, <1>4, <1>5, <1>6, OneHandler

LEMMA DeliverStep == ASSUME WatchInv, NEW c \in Conn, Deliver(c) PROVE WatchInv'
<1> DEFINE o == handler[c].out
<1>0. PICK g \in FilterGroup(fan.seq) :
        handler' = [handler EXCEPT ![c].out = IF ~ IsEmpty(g) /\ Len(o) < OutCap THEN Append(o, g) ELSE o]
  BY DEF Deliver, WatchInv, WatchTyped, WatchTypeOK
<1> DEFINE room == ~ IsEmpty(g) /\ Len(o) < OutCap
           h == [handler[c] EXCEPT !.out = IF room THEN Append(o, g) ELSE o]
<1>1. handler[c] \in Handler /\ Len(o) <= OutCap /\ HandlerOK(c) /\ ReplayInOrder(c)
  BY HandlerIsTyped
<1>2. /\ UNCHANGED <<repoVars, queue>> /\ subs' = subs /\ subs \subseteq Conn
      /\ fan \in [seq : Number \cup {0}, todo : SUBSET Conn] /\ fan' = [fan EXCEPT !.todo = fan.todo \ {c}]
      /\ c \in fan.todo /\ fan.todo \subseteq subs
      /\ session' = session /\ cursor' = cursor
      /\ session \in Conn \cup {NoConn} /\ cursor \in Nat
  BY DEF Deliver, WatchInv, WatchTyped, WatchTypeOK, clientVars
<1>3. fan'.seq = fan.seq /\ fan'.todo = fan.todo \ {c} /\ fan' = [fan EXCEPT !.todo = fan'.todo] /\ c \in subs
  BY <1>2
<1>4. SubInOrder(c) /\ fan.seq \in Number /\ fan.seq <= Len(log)
      /\ (publishing # 0 => fan.seq < publishing) /\ \A i \in DOMAIN queue : fan.seq < queue[i]
  BY <1>2, <1>3 DEF WatchInv, HubInOrder
<1>5. g \in Group /\ g.seq = fan.seq
  BY <1>0, <1>4, Filtered DEF WatchInv
<1>6. handler' = [handler EXCEPT ![c] = h]
  BY <1>0 DEF WatchInv, WatchTyped, WatchTypeOK
<1>7. o \in Seq(Group)
  BY <1>1 DEF Handler
<1>8. CASE room
  <2>1. h = [handler[c] EXCEPT !.out = Append(o, g)]
    BY <1>8
  <2> DEFINE p == Append(o, g)
  <2>2. /\ p \in Seq(Group) /\ Len(p) = Len(o) + 1
        /\ DOMAIN p = DOMAIN o \cup {Len(o) + 1} /\ Len(o) + 1 \notin DOMAIN o
        /\ \A i \in DOMAIN o : p[i] = o[i] /\ i < Len(o) + 1
        /\ p[Len(o) + 1] = g
    BY <1>5, <1>7, Appended
  <2>3. Len(p) <= OutCap
    BY <1>7, <1>8, <2>2, WatchConstants
  <2> HIDE DEF p
  <2>4. h \in Handler /\ h.out = p /\ h.step = handler[c].step /\ h.sending = handler[c].sending
        /\ h.replay = handler[c].replay /\ h.from = handler[c].from
    BY <1>1, <2>1, <2>2 DEF p, Handler
  <2> HIDE DEF h, room
  <2>5. handler'[c] = h
    BY <1>6, HandlerReplaced
  <2>6. HandlerOK(c)'
    BY <1>1, <1>2, <1>3, <2>4, <2>5 DEF HandlerOK
  <2>7. ReplayInOrder(c)'
    BY <1>1, <1>2, <2>4, <2>5 DEF ReplayInOrder, repoVars
  <2>8. SubInOrder(c)'
    <3>1. \A i \in DOMAIN o : o[i].seq < fan.seq
      BY <1>2, <1>4 DEF SubInOrder, Ahead
    <3>2. \A i, j \in DOMAIN p : i < j => p[i].seq < p[j].seq
      <4>1. ASSUME NEW i \in DOMAIN p, NEW j \in DOMAIN p, i < j PROVE p[i].seq < p[j].seq
        <5>1. i \in DOMAIN o
          BY <1>7, <2>2, <4>1
        <5>2. CASE j \in DOMAIN o
          BY <1>4, <2>2, <4>1, <5>1, <5>2 DEF SubInOrder
        <5>3. CASE j = Len(o) + 1
          BY <1>5, <2>2, <3>1, <5>1, <5>3
        <5> QED
          BY <2>2, <5>2, <5>3
      <4> QED
        BY <4>1
    <3>3. \A i \in DOMAIN h.sending, j \in DOMAIN p : h.sending[i].seq < p[j].seq
      BY <1>2, <1>4, <1>5, <2>2, <2>4 DEF SubInOrder, Ahead
    <3>4. Ahead(c, Len(log) + 1)'
      <4>1. Len(log) + 1 \in Int /\ fan.seq < Len(log) + 1 /\ Len(log') = Len(log)
        BY <1>2, <1>4, NumberIsNat DEF repoVars, WatchInv, WatchTyped, WatchTypeOK
      <4>2. Ahead(c, Len(log) + 1)
        BY <1>4 DEF SubInOrder
      <4> HIDE DEF Ahead
      <4>3. \A i \in DOMAIN h.sending : h.sending[i].seq < Len(log) + 1
        BY <4>2, <2>4 DEF Ahead
      <4>4. \A j \in DOMAIN p : p[j].seq < Len(log) + 1
        BY <1>5, <2>2, <4>1, <4>2 DEF Ahead
      <4> QED
        BY <2>4, <2>5, <4>1, <4>3, <4>4 DEF Ahead
    <3>5. \A i \in DOMAIN queue' : \A j \in DOMAIN h.sending : h.sending[j].seq < queue'[i]
      BY <1>2, <1>4, <2>4 DEF SubInOrder, Ahead
    <3>6. \A i \in DOMAIN queue' : \A j \in DOMAIN p : p[j].seq < queue'[i]
      BY <1>2, <1>4, <1>5, <2>2 DEF SubInOrder, Ahead
    <3>7. publishing' # 0 => Ahead(c, publishing)'
      BY <1>2, <1>4, <1>5, <2>2, <2>4, <2>5 DEF SubInOrder, Ahead, repoVars
    <3> QED
      BY <1>3, <2>4, <2>5, <3>2, <3>3, <3>4, <3>5, <3>6, <3>7 DEF SubInOrder, Ahead
  <2>9. fan'.todo \subseteq fan.todo /\ fan'.todo \subseteq subs'
    BY <1>2, <1>3
  <2> QED
    BY <1>2, <1>3, <1>6, <2>3, <2>4, <2>6, <2>7, <2>8, <2>9, OneHandler
<1>9. CASE ~ room
  <2>1. h = handler[c]
    BY <1>1, <1>9 DEF Handler
  <2> HIDE DEF h, room
  <2>2. handler'[c] = handler[c]
    BY <1>6, <2>1, HandlerReplaced
  <2>3. HandlerOK(c)' /\ ReplayInOrder(c)'
    BY <1>1, <1>2, <2>2 DEF HandlerOK, ReplayInOrder, repoVars
  <2>4. SubInOrder(c)'
    BY <1>2, <1>3, <1>4, <2>2 DEF SubInOrder, Ahead, repoVars
  <2>5. fan'.todo \subseteq fan.todo /\ fan'.todo \subseteq subs'
    BY <1>2, <1>3
  <2> QED
    BY <1>1, <1>2, <1>3, <1>6, <2>1, <2>3, <2>4, <2>5, OneHandler
<1> QED
  BY <1>8, <1>9

LEMMA ConnectStep == ASSUME WatchInv, NEW c \in Conn, Connect(c) PROVE WatchInv'
<1> DEFINE t == IF cursor > 0 THEN "catchUp" ELSE "subscribe"
           h == [handler[c] EXCEPT !.from = cursor, !.step = t]
<1>1. handler[c] \in Handler /\ Len(handler[c].out) <= OutCap /\ HandlerOK(c) /\ ReplayInOrder(c)
  BY HandlerIsTyped
<1>2. /\ UNCHANGED <<repoVars, queue>> /\ fan' = fan /\ subs' = subs /\ fan.todo \subseteq subs
      /\ subs \subseteq Conn /\ fan \in [seq : Number \cup {0}, todo : SUBSET Conn]
      /\ session' = c /\ session = NoConn /\ cursor' = cursor
      /\ cursor \in Nat /\ handler[c].step = "free"
  BY DEF Connect, WatchInv, WatchTyped, WatchTypeOK, hubVars
<1>3. t \in {"catchUp", "subscribe"}
  OBVIOUS
<1> HIDE DEF t
<1>4. h \in Handler /\ h.step = t /\ h.from = cursor /\ h.out = handler[c].out
      /\ h.sending = << >> /\ h.replay = << >>
  BY <1>1, <1>2, <1>3 DEF HandlerOK, Handler, HandlerStep
<1>5. handler' = [handler EXCEPT ![c] = h]
  BY <1>1 DEF Connect, WatchInv, WatchTyped, WatchTypeOK, Handler, t
<1> HIDE DEF h
<1>6. handler'[c] = h
  BY <1>5, HandlerReplaced
<1>7. HandlerOK(c)' /\ ReplayInOrder(c)' /\ c \notin subs'
  BY <1>1, <1>2, <1>3, <1>4, <1>6 DEF HandlerOK, ReplayInOrder
<1>8. fan' = [fan EXCEPT !.todo = fan'.todo]
  BY <1>2
<1> QED
  BY <1>1, <1>2, <1>4, <1>5, <1>7, <1>8, OneHandler

LEMMA ReadLogStep == ASSUME WatchInv, NEW c \in Conn, ReadLog(c) PROVE WatchInv'
<1> DEFINE f == handler[c].from
           r == [i \in 1 .. Len(log) - f |-> f + i]
           h == [handler[c] EXCEPT !.step = "replay", !.replay = r]
<1>1. handler[c] \in Handler /\ Len(handler[c].out) <= OutCap /\ HandlerOK(c) /\ ReplayInOrder(c)
  BY HandlerIsTyped
<1>2. handler[c].step = "catchUp" /\ UNCHANGED <<repoVars, hubVars, clientVars>>
      /\ handler' = [handler EXCEPT ![c] = h]
  BY DEF ReadLog, WatchInv, WatchTyped, WatchTypeOK
<1>3. f \in Nat /\ Len(log) \in Nat /\ Len(log) <= MaxCommits /\ MaxCommits \in Nat
  BY <1>1, WatchConstants DEF Handler, WatchInv, WatchTyped, WatchTypeOK
<1>4. /\ r \in Seq(Number)
      /\ \A i \in DOMAIN r : r[i] = f + i /\ i \in Int /\ 0 < i /\ f + i <= Len(log)
  <2>1. \A i \in 1 .. Len(log) - f : f + i \in 1 .. MaxCommits
    BY <1>3
  <2>2. Len(log) - f \in Int
    BY <1>3
  <2>3. r \in Seq(Number)
    <3>1. PICK n \in Nat : 1 .. Len(log) - f = 1 .. n
      <4>1. CASE Len(log) - f \in Nat
        BY <4>1
      <4>2. CASE Len(log) - f < 0
        <5>1. 1 .. Len(log) - f = 1 .. 0
          BY <1>3, <4>2
        <5> QED
          BY <5>1
      <4> QED
        BY <2>2, <4>1, <4>2
    <3>2. r \in [1 .. n -> Number]
      BY <2>1, <3>1 DEF Number
    <3> QED
      BY <3>2, Listed
  <2> QED
    BY <1>3, <2>3
<1> HIDE DEF r
<1>5. h \in Handler /\ h.step = "replay" /\ h.from = f /\ h.out = handler[c].out
      /\ h.sending = << >> /\ h.replay = r
  BY <1>1, <1>2, <1>4 DEF HandlerOK, Handler, HandlerStep
<1> HIDE DEF h
<1>6. handler'[c] = h
  BY <1>2, HandlerReplaced
<1>7. log' = log /\ subs' = subs /\ session' = session /\ cursor' = cursor /\ c \notin subs
  BY <1>1, <1>2 DEF repoVars, hubVars, clientVars, HandlerOK
<1>8. HandlerOK(c)'
  BY <1>1, <1>2, <1>5, <1>6, <1>7 DEF HandlerOK
<1>9. ReplayInOrder(c)'
  <2>1. c = session => cursor = f
    BY <1>1, <1>2 DEF ReplayInOrder
  <2>2. \A i, j \in DOMAIN r : i < j => r[i] < r[j]
    BY <1>3, <1>4
  <2>3. \A i \in DOMAIN r : r[i] <= Len(log) /\ f < r[i]
    BY <1>3, <1>4
  <2> QED
    BY <1>5, <1>6, <1>7, <2>1, <2>2, <2>3 DEF ReplayInOrder
<1> QED
  BY <1>1, <1>2, <1>5, <1>7, <1>8, <1>9, HandlerAlone

LEMMA ReplayCommitStep == ASSUME WatchInv, NEW c \in Conn, ReplayCommit(c) PROVE WatchInv'
<1> DEFINE r == handler[c].replay
<1>0. PICK g \in FilterGroup(Head(r)) :
        handler' = [handler EXCEPT ![c].replay = Tail(r), ![c].sending = EventsOf(g)]
  BY DEF ReplayCommit, WatchInv, WatchTyped, WatchTypeOK
<1> DEFINE e == EventsOf(g)
           h == [handler[c] EXCEPT !.replay = Tail(r), !.sending = e]
<1>1. handler[c] \in Handler /\ Len(handler[c].out) <= OutCap /\ HandlerOK(c) /\ ReplayInOrder(c)
  BY HandlerIsTyped
<1>2. handler[c].step = "replay" /\ r # << >> /\ UNCHANGED <<repoVars, hubVars, clientVars>>
      /\ handler' = [handler EXCEPT ![c] = h]
  BY <1>0 DEF ReplayCommit, WatchInv, WatchTyped, WatchTypeOK
<1>3. /\ r \in Seq(Number) /\ Head(r) \in Number /\ Head(r) = r[1] /\ 1 \in DOMAIN r
      /\ Tail(r) \in Seq(Number) /\ Len(Tail(r)) = Len(r) - 1
      /\ \A i \in DOMAIN Tail(r) : i + 1 \in DOMAIN r /\ Tail(r)[i] = r[i + 1]
  <2>1. r \in Seq(Number)
    BY <1>1 DEF Handler
  <2> QED
    BY <1>2, <2>1, HeadAndTail
<1>4. g \in Group /\ g.seq = Head(r)
  BY <1>0, <1>1, <1>3, Filtered DEF WatchInv, ReplayInOrder
<1>5. e \in Seq(Event) /\ \A i \in DOMAIN e : e[i].seq = Head(r)
  BY <1>4, GroupWritten
<1>6. \A i \in DOMAIN Tail(r) : i \in Int /\ 0 < i
  BY <1>3
<1> HIDE DEF e
<1>7. h \in Handler /\ h.step = "replay" /\ h.out = handler[c].out /\ h.sending = e /\ h.replay = Tail(r)
  BY <1>1, <1>2, <1>3, <1>5 DEF Handler
<1> DEFINE q == Tail(r)
<1> HIDE DEF h, q
<1>8. handler'[c] = h
  BY <1>2, HandlerReplaced
<1>9. log' = log /\ subs' = subs /\ session' = session /\ cursor' = cursor /\ c \notin subs
  BY <1>1, <1>2 DEF repoVars, hubVars, clientVars, HandlerOK
<1>10. HandlerOK(c)'
  BY <1>1, <1>2, <1>7, <1>8, <1>9 DEF HandlerOK
<1>11. ReplayInOrder(c)'
  <2>1. /\ \A i \in DOMAIN q : q[i] <= Len(log) /\ r[1] < q[i] /\ (c = session => cursor < q[i])
    BY <1>1, <1>3, <1>6 DEF ReplayInOrder, q
  <2>2. \A i, j \in DOMAIN q : i < j => q[i] < q[j]
    <3>1. \A i, j \in DOMAIN q : i < j => i + 1 < j + 1
      BY <1>6 DEF q
    <3> QED
      BY <1>1, <1>3, <3>1 DEF ReplayInOrder, q
  <2>3. \A i \in DOMAIN e, j \in DOMAIN q : e[i].seq < q[j]
    BY <1>3, <1>5, <2>1
  <2> QED
    BY <1>7, <1>8, <1>9, <2>1, <2>2, <2>3 DEF ReplayInOrder, q
<1> QED
  BY <1>1, <1>2, <1>7, <1>9, <1>10, <1>11, HandlerAlone

LEMMA EndReplayStep == ASSUME WatchInv, NEW c \in Conn, EndReplay(c) PROVE WatchInv'
<1> DEFINE h == [handler[c] EXCEPT !.step = "subscribe"]
<1>1. handler[c] \in Handler /\ Len(handler[c].out) <= OutCap /\ HandlerOK(c) /\ ReplayInOrder(c)
  BY HandlerIsTyped
<1>2. handler[c].step = "replay" /\ UNCHANGED <<repoVars, hubVars, clientVars>>
      /\ handler' = [handler EXCEPT ![c] = h]
  BY DEF EndReplay, WatchInv, WatchTyped, WatchTypeOK
<1>3. h \in Handler /\ h.step = "subscribe" /\ h.out = handler[c].out /\ h.sending = << >> /\ h.replay = << >>
  BY <1>1 DEF EndReplay, Handler, HandlerStep
<1> HIDE DEF h
<1>4. handler'[c] = h
  BY <1>2, HandlerReplaced
<1>5. subs' = subs /\ c \notin subs
  BY <1>1, <1>2 DEF hubVars, HandlerOK
<1>6. HandlerOK(c)' /\ ReplayInOrder(c)'
  BY <1>1, <1>3, <1>4, <1>5 DEF HandlerOK, ReplayInOrder
<1> QED
  BY <1>1, <1>2, <1>3, <1>5, <1>6, HandlerAlone

LEMMA DrainStep == ASSUME WatchInv, NEW c \in Conn, Drain(c) PROVE WatchInv'
<1> DEFINE o == handler[c].out
           e == EventsOf(Head(o))
           h == [handler[c] EXCEPT !.sending = e, !.out = Tail(o)]
<1>1. handler[c] \in Handler /\ Len(o) <= OutCap /\ HandlerOK(c) /\ ReplayInOrder(c)
  BY HandlerIsTyped
<1>2. handler[c].step = "live" /\ o # << >> /\ UNCHANGED <<repoVars, hubVars, clientVars>>
      /\ handler' = [handler EXCEPT ![c] = h]
  BY DEF Drain, WatchInv, WatchTyped, WatchTypeOK
<1>3. /\ o \in Seq(Group) /\ Head(o) \in Group /\ Head(o) = o[1] /\ 1 \in DOMAIN o
      /\ Tail(o) \in Seq(Group) /\ Len(Tail(o)) = Len(o) - 1
      /\ \A i \in DOMAIN Tail(o) : i + 1 \in DOMAIN o /\ Tail(o)[i] = o[i + 1]
  <2>1. o \in Seq(Group)
    BY <1>1 DEF Handler
  <2> QED
    BY <1>2, <2>1, HeadAndTail
<1>4. e \in Seq(Event) /\ \A i \in DOMAIN e : e[i].seq = o[1].seq
  BY <1>3, GroupWritten
<1>5. \A i \in DOMAIN Tail(o) : i \in Int /\ 0 < i
  BY <1>3
<1>6. Len(Tail(o)) <= OutCap
  BY <1>1, <1>3, WatchConstants
<1> DEFINE q == Tail(o)
<1> HIDE DEF e
<1>7. h \in Handler /\ h.step = "live" /\ h.out = q /\ h.sending = e /\ h.replay = handler[c].replay
  BY <1>1, <1>2, <1>3, <1>4 DEF Handler
<1> HIDE DEF h, q
<1>8. handler'[c] = h
  BY <1>2, HandlerReplaced
<1>9. /\ log' = log /\ publishing' = publishing /\ fan' = fan /\ queue' = queue
      /\ subs' = subs /\ session' = session /\ cursor' = cursor /\ c \in subs
  BY <1>1, <1>2 DEF repoVars, hubVars, clientVars, HandlerOK
<1>10. HandlerOK(c)'
  BY <1>1, <1>2, <1>7, <1>8, <1>9 DEF HandlerOK
<1>11. ReplayInOrder(c)'
  BY <1>1, <1>2, <1>7, <1>8, <1>9 DEF ReplayInOrder, HandlerOK
<1>12. SubInOrder(c)'
  <2>1. SubInOrder(c)
    BY <1>9 DEF WatchInv
  <2>2. \A i, j \in DOMAIN q : i < j => q[i].seq < q[j].seq
    <3>1. \A i, j \in DOMAIN q : i < j => i + 1 < j + 1
      BY <1>5 DEF q
    <3> QED
      BY <1>3, <2>1, <3>1 DEF SubInOrder, q
  <2>3. \A i \in DOMAIN e, j \in DOMAIN q : e[i].seq < q[j].seq
    <3>1. \A j \in DOMAIN q : 1 < j + 1
      BY <1>5 DEF q
    <3> QED
      BY <1>3, <1>4, <2>1, <3>1 DEF SubInOrder, q
  <2>4. ASSUME NEW n \in Int, \A i \in DOMAIN o : o[i].seq < n
        PROVE  (\A i \in DOMAIN e : e[i].seq < n) /\ \A i \in DOMAIN q : q[i].seq < n
    BY <1>3, <1>4, <2>4 DEF q
  <2>5. /\ \A i \in DOMAIN queue : queue[i] \in Int
        /\ publishing \in Int /\ Len(log) + 1 \in Int /\ fan.seq \in Int
    <3>1. \A i \in DOMAIN queue : queue[i] \in Number
      BY DEF WatchInv, WatchTyped, WatchTypeOK
    <3>2. fan.seq \in Number \cup {0}
      BY DEF WatchInv, WatchTyped, WatchTypeOK
    <3> QED
      BY <3>1, <3>2, NumberIsNat DEF WatchInv, WatchTyped, WatchTypeOK
  <2>6. c \in fan.todo => (\A i \in DOMAIN e : e[i].seq < fan.seq) /\ \A i \in DOMAIN q : q[i].seq < fan.seq
    BY <2>1, <2>4, <2>5 DEF SubInOrder, Ahead
  <2>7. \A k \in DOMAIN queue :
          (\A i \in DOMAIN e : e[i].seq < queue[k]) /\ \A i \in DOMAIN q : q[i].seq < queue[k]
    BY <2>1, <2>4, <2>5 DEF SubInOrder, Ahead
  <2>8. publishing # 0 =>
          (\A i \in DOMAIN e : e[i].seq < publishing) /\ \A i \in DOMAIN q : q[i].seq < publishing
    BY <2>1, <2>4, <2>5 DEF SubInOrder, Ahead
  <2>9. (\A i \in DOMAIN e : e[i].seq < Len(log) + 1) /\ \A i \in DOMAIN q : q[i].seq < Len(log) + 1
    BY <2>1, <2>4, <2>5 DEF SubInOrder, Ahead
  <2> QED
    BY <1>7, <1>8, <1>9, <2>2, <2>3, <2>6, <2>7, <2>8, <2>9 DEF SubInOrder, Ahead
<1> QED
  BY <1>2, <1>6, <1>7, <1>10, <1>11, <1>12, HandlerAlone DEF q

LEMMA WriteEventStep == ASSUME WatchInv, NEW c \in Conn, WriteEvent(c) PROVE WatchInv'
<1> DEFINE s == handler[c].sending
           h == [handler[c] EXCEPT !.sending = Tail(s)]
<1>1. handler[c] \in Handler /\ Len(handler[c].out) <= OutCap /\ HandlerOK(c) /\ ReplayInOrder(c)
      /\ (c \in subs => SubInOrder(c))
  BY HandlerIsTyped
<1>2. c = session /\ s # << >> /\ UNCHANGED <<repoVars, hubVars, session>>
      /\ handler' = [handler EXCEPT ![c] = h]
      /\ cursor' = IF Head(s).seq > cursor THEN Head(s).seq ELSE cursor
  BY DEF WriteEvent, WatchInv, WatchTyped, WatchTypeOK
<1>3. /\ s \in Seq(Event) /\ Head(s) \in Event /\ Head(s) = s[1] /\ 1 \in DOMAIN s
      /\ Tail(s) \in Seq(Event)
      /\ \A i \in DOMAIN Tail(s) : i + 1 \in DOMAIN s /\ Tail(s)[i] = s[i + 1]
  <2>1. s \in Seq(Event)
    BY <1>1 DEF Handler
  <2> QED
    BY <1>2, <2>1, HeadAndTail
<1>4. Head(s).seq \in Int /\ 0 < Head(s).seq
  <2>1. Head(s).seq \in Number
    BY <1>3 DEF Event
  <2> QED
    BY <2>1, NumberIsNat
<1>5. cursor' \in Nat
  BY <1>2, <1>3, <1>4 DEF WatchInv, WatchTyped, WatchTypeOK
<1> DEFINE q == Tail(s)
<1>6. h \in Handler /\ h.step = handler[c].step /\ h.out = handler[c].out /\ h.sending = q
      /\ h.replay = handler[c].replay /\ h.from = handler[c].from
  BY <1>1, <1>3 DEF Handler
<1> HIDE DEF h, q
<1>7. handler'[c] = h
  BY <1>2, HandlerReplaced
<1>8. /\ log' = log /\ publishing' = publishing /\ fan' = fan /\ queue' = queue
      /\ subs' = subs /\ session' = session
  BY <1>2 DEF repoVars, hubVars
<1>9. HandlerOK(c)' /\ handler[c].step \notin {"free", "catchUp", "subscribe"}
  BY <1>1, <1>2, <1>6, <1>7, <1>8 DEF HandlerOK
<1>10. \A i \in DOMAIN q : \E j \in DOMAIN s : q[i] = s[j]
  BY <1>3 DEF q
<1>11. ReplayInOrder(c)'
  <2>1. \A j \in DOMAIN handler[c].replay : cursor' < handler[c].replay[j]
    <3>1. \A j \in DOMAIN handler[c].replay : cursor < handler[c].replay[j]
      BY <1>1, <1>2 DEF ReplayInOrder
    <3>2. handler[c].step = "replay" =>
            \A j \in DOMAIN handler[c].replay : s[1].seq < handler[c].replay[j]
      BY <1>1, <1>3 DEF ReplayInOrder
    <3>3. handler[c].step # "replay" => DOMAIN handler[c].replay = {}
      BY <1>1 DEF HandlerOK
    <3> QED
      BY <1>2, <1>3, <3>1, <3>2, <3>3
  <2>2. \A i \in DOMAIN q, j \in DOMAIN handler[c].replay : handler[c].step = "replay" => q[i].seq < handler[c].replay[j]
    BY <1>1, <1>10 DEF ReplayInOrder
  <2> QED
    BY <1>1, <1>6, <1>7, <1>8, <1>9, <2>1, <2>2 DEF ReplayInOrder
<1>12. c \in subs' => SubInOrder(c)'
  BY <1>1, <1>6, <1>7, <1>8, <1>10 DEF SubInOrder, Ahead
<1>13. /\ fan' = [fan EXCEPT !.todo = fan'.todo] /\ fan'.todo \subseteq fan.todo /\ fan'.todo \subseteq subs'
       /\ subs' \subseteq Conn /\ subs' \ {c} = subs \ {c} /\ session' \in Conn \cup {NoConn}
       /\ Len(h.out) <= OutCap
  BY <1>1, <1>6, <1>8 DEF WatchInv, WatchTyped, WatchTypeOK
<1> QED
  BY <1>2, <1>5, <1>6, <1>8, <1>9, <1>11, <1>12, <1>13, OneHandler

LEMMA HangUpStep == ASSUME WatchInv, NEW c \in Conn, HangUp(c) PROVE WatchInv'
<1>1. handler[c] \in Handler /\ Len(handler[c].out) <= OutCap /\ HandlerOK(c) /\ ReplayInOrder(c)
      /\ (c \in subs => SubInOrder(c))
  BY HandlerIsTyped
<1>2. UNCHANGED <<repoVars, hubVars, clientVars>> /\ c # session
  BY DEF HangUp
<1>3. ASSUME handler[c].step = "replay", handler' = [handler EXCEPT ![c] = Free] PROVE WatchInv'
  <2>1. Free \in Handler /\ Free.step = "free" /\ Free.sending = << >> /\ Free.out = << >> /\ Free.replay = << >>
        /\ Len(Free.out) <= OutCap
    BY WatchConstants DEF Free, Handler, HandlerStep
  <2>2. handler'[c] = Free
    BY <1>3, HandlerReplaced
  <2>3. HandlerOK(c)' /\ ReplayInOrder(c)' /\ c \notin subs
    BY <1>1, <1>2, <1>3, <2>1, <2>2 DEF HandlerOK, ReplayInOrder, hubVars
  <2> QED
    BY <1>2, <1>3, <2>1, <2>3, HandlerAlone
<1>4. ASSUME handler[c].step = "live", handler' = [handler EXCEPT ![c].step = "unsubscribe"] PROVE WatchInv'
  <2> DEFINE h == [handler[c] EXCEPT !.step = "unsubscribe"]
  <2>1. handler' = [handler EXCEPT ![c] = h]
    BY <1>4 DEF WatchInv, WatchTyped, WatchTypeOK
  <2>2. h \in Handler /\ h.step = "unsubscribe" /\ h.sending = handler[c].sending
        /\ h.out = handler[c].out /\ h.replay = handler[c].replay
    BY <1>1 DEF Handler, HandlerStep
  <2> HIDE DEF h
  <2>3. handler'[c] = h
    BY <2>1, HandlerReplaced
  <2>4. HandlerOK(c)' /\ ReplayInOrder(c)'
    BY <1>1, <1>2, <1>4, <2>2, <2>3 DEF HandlerOK, ReplayInOrder, repoVars, hubVars, clientVars
  <2>5. c \in subs => SubInOrder(c)'
    BY <1>1, <1>2, <2>2, <2>3 DEF SubInOrder, Ahead, repoVars, hubVars
  <2> QED
    BY <1>1, <1>2, <2>1, <2>2, <2>4, <2>5, HandlerAlone
<1> QED
  BY <1>3, <1>4 DEF HangUp

-----------------------------------------------------------------------------
(* The pipeline put together from its parts.                               *)

InOrder(s)  == \A i, j \in DOMAIN s : i < j => s[i] < s[j]
Before(s, t) == \A i \in DOMAIN s, j \in DOMAIN t : s[i] < t[j]

LEMMA JoinedInOrder ==
  ASSUME NEW s \in Seq(Int), NEW t \in Seq(Int), InOrder(s), InOrder(t), Before(s, t)
  PROVE  /\ s \o t \in Seq(Int) /\ InOrder(s \o t)
         /\ \A r : Before(s, r) /\ Before(t, r) => Before(s \o t, r)
<1> DEFINE u == s \o t
<1>1. /\ u \in Seq(Int)
      /\ \A i \in DOMAIN u : IF i \in DOMAIN s THEN u[i] = s[i]
           ELSE i > Len(s) /\ i - Len(s) \in DOMAIN t /\ u[i] = t[i - Len(s)]
      /\ DOMAIN u = 1 .. Len(s) + Len(t)
  BY Joined
<1> HIDE DEF u
<1>2. Len(s) \in Nat /\ Len(t) \in Nat /\ DOMAIN s = 1 .. Len(s)
  OBVIOUS
<1>3. ASSUME NEW i \in DOMAIN u, NEW j \in DOMAIN u, i < j PROVE u[i] < u[j]
  <2>1. CASE i \in DOMAIN s /\ j \in DOMAIN s
    BY <1>1, <1>3, <2>1 DEF InOrder
  <2>2. CASE i \in DOMAIN s /\ j \notin DOMAIN s
    BY <1>1, <1>3, <2>2 DEF Before
  <2>3. CASE i \notin DOMAIN s
    <3>1. j \notin DOMAIN s /\ i - Len(s) < j - Len(s)
      BY <1>1, <1>2, <1>3, <2>3
    <3> QED
      BY <1>1, <1>3, <2>3, <3>1 DEF InOrder
  <2> QED
    BY <2>1, <2>2, <2>3
<1>4. ASSUME NEW r, Before(s, r), Before(t, r) PROVE Before(u, r)
  BY <1>1, <1>4 DEF Before
<1> QED
  BY <1>1, <1>3, <1>4 DEF InOrder, u

LEMMA PipelineFromParts == ASSUME WatchInv PROVE PipelineInOrder
<1> SUFFICES ASSUME NEW c \in subs PROVE InOrder(Pipeline(c))
  BY DEF PipelineInOrder, InOrder
<1> DEFINE h == handler[c]
           a == IF h.sending = << >> THEN << >> ELSE <<Head(h.sending).seq>>
           b == [i \in DOMAIN h.out |-> h.out[i].seq]
           d == IF c \in fan.todo THEN <<fan.seq>> ELSE << >>
           e == IF publishing = 0 THEN << >> ELSE <<publishing>>
<1>1. SubInOrder(c) /\ h \in Handler /\ HubInOrder
  BY HandlerIsTyped DEF WatchInv, WatchTyped, WatchTypeOK
<1>2. queue \in Seq(Number) /\ publishing \in Nat /\ fan.seq \in Int
  <2>1. fan.seq \in Number \cup {0}
    BY DEF WatchInv, WatchTyped, WatchTypeOK
  <2> QED
    BY <2>1, NumberIsNat DEF WatchInv, WatchTyped, WatchTypeOK
<1>3. queue \in Seq(Int) /\ InOrder(queue)
  <2>1. Number \subseteq Int
    BY NumberIsNat
  <2>2. queue \in Seq(Int)
    BY <1>2, <2>1, SeqMonotonic
  <2> QED
    BY <1>1, <2>2 DEF HubInOrder, InOrder
<1>4. a \in Seq(Int) /\ InOrder(a)
      /\ \A i \in DOMAIN a : \E j \in DOMAIN h.sending : a[i] = h.sending[j].seq
  <2>1. CASE h.sending = << >>
    BY <2>1 DEF InOrder
  <2>2. CASE h.sending # << >>
    <3>1. h.sending \in Seq(Event)
      BY <1>1 DEF Handler
    <3>2. Head(h.sending) = h.sending[1] /\ 1 \in DOMAIN h.sending
      BY <2>2, <3>1, HeadAndTail
    <3>3. Head(h.sending).seq \in Int
      BY <1>1, <3>2, Numbered
    <3>4. a = <<Head(h.sending).seq>>
      BY <2>2
    <3> HIDE DEF a, h
    <3> QED
      BY <3>2, <3>3, <3>4 DEF InOrder
  <2> QED
    BY <2>1, <2>2
<1>5. b \in Seq(Int) /\ InOrder(b) /\ DOMAIN b = DOMAIN h.out /\ \A i \in DOMAIN b : b[i] = h.out[i].seq
  <2>1. h.out \in Seq(Group) /\ \A i \in DOMAIN h.out : h.out[i].seq \in Int
    BY <1>1, Numbered DEF Handler
  <2>2. DOMAIN h.out = 1 .. Len(h.out) /\ Len(h.out) \in Nat
    BY <2>1
  <2>3. b \in [1 .. Len(h.out) -> Int]
    BY <2>1, <2>2
  <2>4. b \in Seq(Int)
    BY <2>2, <2>3, Listed
  <2> QED
    BY <1>1, <2>4 DEF SubInOrder, InOrder
<1>6. d \in Seq(Int) /\ InOrder(d) /\ \A i \in DOMAIN d : c \in fan.todo /\ d[i] = fan.seq
  BY <1>2 DEF InOrder
<1>7. e \in Seq(Int) /\ InOrder(e) /\ \A i \in DOMAIN e : publishing # 0 /\ e[i] = publishing
  BY <1>2 DEF InOrder
<1>8. Pipeline(c) = a \o b \o d \o queue \o e
  BY DEF Pipeline
<1> HIDE DEF a, b, d, e
<1>9. Before(a, b) /\ Before(a, d) /\ Before(a, queue) /\ Before(a, e)
  BY <1>1, <1>4, <1>5, <1>6, <1>7 DEF Before, SubInOrder, Ahead
<1>10. Before(b, d) /\ Before(b, queue) /\ Before(b, e)
  BY <1>1, <1>5, <1>6, <1>7 DEF Before, SubInOrder, Ahead
<1>11. Before(d, queue) /\ Before(d, e) /\ Before(queue, e)
  BY <1>1, <1>6, <1>7 DEF Before, HubInOrder
<1> DEFINE ab == a \o b
           abd == ab \o d
           abdq == abd \o queue
<1>12. ab \in Seq(Int) /\ InOrder(ab) /\ Before(ab, d) /\ Before(ab, queue) /\ Before(ab, e)
  BY <1>4, <1>5, <1>9, <1>10, JoinedInOrder
<1> HIDE DEF ab
<1>13. abd \in Seq(Int) /\ InOrder(abd) /\ Before(abd, queue) /\ Before(abd, e)
  BY <1>6, <1>11, <1>12, JoinedInOrder
<1> HIDE DEF abd
<1>14. abdq \in Seq(Int) /\ InOrder(abdq) /\ Before(abdq, e)
  BY <1>3, <1>11, <1>13, JoinedInOrder
<1> HIDE DEF abdq
<1>15. InOrder(abdq \o e)
  BY <1>7, <1>14, JoinedInOrder
<1> QED
  BY <1>8, <1>15 DEF ab, abd, abdq

-----------------------------------------------------------------------------

LEMMA StepWatch == WatchInv /\ [WatchNext]_watchVars => WatchInv'
<1> SUFFICES ASSUME WatchInv, [WatchNext]_watchVars PROVE WatchInv'
  OBVIOUS
<1>1. CASE UNCHANGED watchVars
  BY <1>1 DEF watchVars, repoVars, hubVars, clientVars, WatchInv, WatchTyped, WatchTypeOK, HandlerOK,
              HubInOrder, SubInOrder, Ahead, ReplayInOrder
<1>2. CASE Store \/ Publish \/ PublishNothing \/ Disconnect
  BY <1>2, PusherSteps
<1>3. CASE TakeGroup
  BY <1>3, TakeGroupStep
<1>4. CASE Crash
  BY <1>4, CrashStep
<1>5. ASSUME NEW c \in Conn, HubNext(c) PROVE WatchInv'
  BY <1>5, RegisterStep, UnregisterStep, DeliverStep DEF HubNext
<1>6. ASSUME NEW c \in Conn, HandlerNext(c) PROVE WatchInv'
  BY <1>6, ReadLogStep, ReplayCommitStep, EndReplayStep, DrainStep, WriteEventStep, HangUpStep DEF HandlerNext
<1>7. ASSUME NEW c \in Conn, Connect(c) PROVE WatchInv'
  BY <1>7, ConnectStep
<1> QED
  BY <1>1, <1>2, <1>3, <1>4, <1>5, <1>6, <1>7 DEF WatchNext

LEMMA WatchInvAlways == WatchSpec => []WatchInv
BY InitWatch, StepWatch, PTL DEF WatchSpec

\* The hub's channel and the buffers of the subscribers keep to their
\* capacities, however many groups are pushed and however slowly they are read.
THEOREM WatchTyping == WatchSpec => []WatchTypeOK
<1>1. WatchInv => WatchTypeOK
  BY DEF WatchInv, WatchTyped
<1> QED
  BY <1>1, WatchInvAlways, PTL

\* A subscriber is sent the commits in the order of the log: hub.run needs no
\* lock of its own, since groups come in the order in which Publish is called
\* under the write lock, and a group that is dropped leaves a gap only.
THEOREM PipelineAlwaysInOrder == WatchSpec => []PipelineInOrder
BY PipelineFromParts, WatchInvAlways, PTL

\* A replay that breaks off is resumed where it broke off: catchUp goes through
\* the log in ascending order, and the cursor of RunWatch follows it.
THEOREM CatchUpAlwaysInOrder == WatchSpec => []CatchUpInOrder
<1>1. WatchInv => CatchUpInOrder
  BY DEF WatchInv, CatchUpInOrder, ReplayInOrder
<1> QED
  BY <1>1, WatchInvAlways, PTL

-----------------------------------------------------------------------------
(* What the client may take from the events that reach it.                 *)

Told(s, p) == [seq |-> s, about |-> p]

\* An event tells of a commit that is stored, and of a file that it changed.
EventOK(e) == e.seq \in 1 .. Len(log) /\ (e.about = Summary \/ e.about \in log[e.seq])

\* "commit.pushed last as the end of commit marker": when it arrives, all of the
\* commit has arrived, but for files whose permission queries may be answered no.
EndMarksWhole ==
  \A e \in seen : e.about = Summary =>
    \A p \in log[e.seq] \ Unsure : Told(e.seq, p) \in seen

\* The cursor of RunWatch is that of the newest commit it was told of, or the one
\* it was started with, and never beyond the log that it is used in.
CursorNewest ==
  /\ start <= cursor /\ cursor <= Len(log)
  /\ \A e \in seen : e.seq <= cursor
  /\ cursor # start => \E e \in seen : e.seq = cursor

\* A group that was cut to what the client may read.
GroupOK(g) ==
  /\ g.seq \in 1 .. Len(log)
  /\ g.paths \subseteq log[g.seq] /\ log[g.seq] \ Unsure \subseteq g.paths

\* In front of the end of a commit are its files, unless they have arrived.
EndLast(l) ==
  \A i \in DOMAIN l : l[i].about = Summary =>
    \A p \in log[l[i].seq] \ Unsure :
      Told(l[i].seq, p) \in seen \/ \E j \in DOMAIN l : j < i /\ l[j] = Told(l[i].seq, p)

SendingOK(h) ==
  /\ \A i \in DOMAIN h.out : GroupOK(h.out[i])
  /\ \A i \in DOMAIN h.sending : EventOK(h.sending[i])
  /\ EndLast(h.sending)

SentInv ==
  /\ seen \subseteq Event /\ start \in Nat
  /\ \A e \in seen : EventOK(e)
  /\ EndMarksWhole /\ CursorNewest
  /\ \A c \in Conn : SendingOK(handler[c])

\* A list of a finite set has all of its elements.
LEMMA AllListed ==
  ASSUME NEW S, IsFiniteSet(S)
  PROVE  /\ Cardinality(S) \in Nat /\ SetToSeq(S) \in [1 .. Cardinality(S) -> S]
         /\ \A x \in S : \E i \in 1 .. Cardinality(S) : SetToSeq(S)[i] = x
<1> DEFINE n == Cardinality(S)
           s == SetToSeq(S)
<1>1. n \in Nat /\ \E f \in [1 .. n -> S] : IsInjective(f)
  <2>1. n \in Nat /\ ExistsBijection(1 .. n, S)
    BY FS_CardinalityType
  <2> QED
    BY <2>1 DEF ExistsBijection, Bijection, Injection, IsInjective
<1>2. s \in [1 .. n -> S] /\ IsInjective(s)
  BY <1>1 DEF SetToSeq
<1> HIDE DEF s
<1>3. s \in Injection(1 .. n, S)
  BY <1>2 DEF Injection, IsInjective
<1>4. Cardinality(1 .. n) = n
  BY <1>1, FS_Interval
<1>5. s \in Surjection(1 .. n, S)
  BY <1>3, <1>4, FS_Injection
<1>6. \A x \in S : \E i \in 1 .. n : s[i] = x
  BY <1>5 DEF Surjection
<1> QED
  BY <1>1, <1>2, <1>6 DEF s

\* Written out, a group is an event for each of its files, and then the end.
LEMMA EventsOfGroup ==
  ASSUME NEW g \in Group
  PROVE  /\ \A i \in DOMAIN EventsOf(g) :
              /\ EventsOf(g)[i].seq = g.seq
              /\ EventsOf(g)[i].about \in g.paths \cup {Summary}
              /\ EventsOf(g)[i].about = Summary =>
                   \A p \in g.paths : \E j \in DOMAIN EventsOf(g) : j < i /\ EventsOf(g)[j] = Told(g.seq, p)
<1>1. IsFiniteSet(g.paths) /\ g.seq \in Number /\ g.paths \subseteq Path /\ Summary \notin g.paths
  BY WatchConstants, FS_Subset DEF Group
<1> DEFINE n == Cardinality(g.paths)
           s == SetToSeq(g.paths)
           e == [i \in 1 .. n |-> [seq |-> g.seq, about |-> s[i]]]
           l == IF g.end THEN <<[seq |-> g.seq, about |-> Summary]>> ELSE << >>
<1>2. n \in Nat /\ s \in [1 .. n -> g.paths] /\ \A p \in g.paths : \E i \in 1 .. n : s[i] = p
  BY <1>1, AllListed
<1>3. EventsOf(g) = e \o l
  BY DEF EventsOf
<1> HIDE DEF n, s
<1>4. /\ e \in Seq(Event) /\ Len(e) = n /\ DOMAIN e = 1 .. n
      /\ \A i \in 1 .. n : e[i].seq = g.seq /\ e[i].about = s[i] /\ e[i] = Told(g.seq, s[i])
  BY <1>1, <1>2 DEF Event, Told
<1>5. /\ l \in Seq(Event) /\ Len(l) \in Nat
      /\ \A i \in DOMAIN l : l[i].seq = g.seq /\ l[i].about = Summary
  <2>1. CASE g.end
    <3>1. [seq |-> g.seq, about |-> Summary] \in Event
      BY <1>1 DEF Event
    <3>2. l = <<[seq |-> g.seq, about |-> Summary]>>
      BY <2>1
    <3> QED
      BY <3>1, <3>2
  <2>2. CASE ~ g.end
    BY <2>2
  <2> QED
    BY <2>1, <2>2
<1> HIDE DEF e, l
<1>6. PICK k : k = e \o l
  OBVIOUS
<1>7. /\ \A i \in DOMAIN k : IF i \in DOMAIN e THEN k[i] = e[i]
           ELSE i > Len(e) /\ i - Len(e) \in DOMAIN l /\ k[i] = l[i - Len(e)]
      /\ DOMAIN k = 1 .. n + Len(l)
  <2>1. /\ \A i \in DOMAIN (e \o l) : IF i \in DOMAIN e THEN (e \o l)[i] = e[i]
             ELSE i > Len(e) /\ i - Len(e) \in DOMAIN l /\ (e \o l)[i] = l[i - Len(e)]
        /\ DOMAIN (e \o l) = 1 .. Len(e) + Len(l)
    BY <1>4, <1>5, Joined
  <2> QED
    BY <1>4, <1>5, <1>6, <2>1
<1>8. \A i \in 1 .. n : i \in DOMAIN k /\ k[i] = e[i]
  <2>1. 1 .. n \subseteq 1 .. n + Len(l)
    BY <1>2, <1>5
  <2> QED
    BY <1>4, <1>7, <2>1
<1>9. \A i \in DOMAIN k : i \in Int /\ (i \notin 1 .. n => i > n)
  BY <1>2, <1>4, <1>7
<1>10. ASSUME NEW i \in DOMAIN k
       PROVE  /\ k[i].seq = g.seq /\ k[i].about \in g.paths \cup {Summary}
              /\ k[i].about = Summary => i > n
  <2>1. CASE i \in 1 .. n
    BY <1>1, <1>2, <1>4, <1>8, <2>1
  <2>2. CASE i \notin 1 .. n
    BY <1>4, <1>5, <1>7, <1>9, <2>2
  <2> QED
    BY <2>1, <2>2
<1>11. ASSUME NEW i \in DOMAIN k, k[i].about = Summary, NEW p \in g.paths
       PROVE  \E j \in DOMAIN k : j < i /\ k[j] = Told(g.seq, p)
  <2>1. PICK j \in 1 .. n : s[j] = p
    BY <1>2
  <2>2. i > n /\ i \in Int
    BY <1>9, <1>10, <1>11
  <2>3. j < i
    BY <1>2, <2>2
  <2> QED
    BY <1>4, <1>8, <2>1, <2>3
<1> QED
  BY <1>3, <1>6, <1>10, <1>11

\* What the permission queries may leave of a stored commit.
LEMMA FilteredWell ==
  ASSUME WatchTyped, NEW s \in Number, s <= Len(log)
  PROVE  \A g \in FilterGroup(s) : GroupOK(g)
<1>1. s \in 1 .. Len(log)
  BY DEF WatchTyped, WatchTypeOK, Number
<1> QED
  BY <1>1 DEF FilterGroup, GroupOK

\* What is left of a group is sent with its end last.
LEMMA GroupSent ==
  ASSUME NEW g \in Group, GroupOK(g)
  PROVE  (\A i \in DOMAIN EventsOf(g) : EventOK(EventsOf(g)[i])) /\ EndLast(EventsOf(g))
<1>1. PICK l : l = EventsOf(g)
  OBVIOUS
<1>2. \A i \in DOMAIN l :
        /\ l[i].seq = g.seq /\ l[i].about \in g.paths \cup {Summary}
        /\ l[i].about = Summary => \A p \in g.paths : \E j \in DOMAIN l : j < i /\ l[j] = Told(g.seq, p)
  BY <1>1, EventsOfGroup
<1>3. \A i \in DOMAIN l : EventOK(l[i])
  BY <1>2 DEF EventOK, GroupOK
<1>4. EndLast(l)
  BY <1>2 DEF EndLast, GroupOK
<1> QED
  BY <1>1, <1>3, <1>4

LEMMA InitSent == AuditInit => SentInv
<1> SUFFICES ASSUME AuditInit PROVE SentInv
  OBVIOUS
<1>1. log \in Seq(SUBSET Path) /\ Len(log) = 1
  <2>1. PICK P \in Change : log = <<P>>
    BY DEF AuditInit, WatchInit
  <2>2. P \in SUBSET Path
    BY WatchConstants
  <2> QED
    BY <2>1, <2>2
<1>2. CursorNewest
  BY <1>1 DEF AuditInit, WatchInit, CursorNewest
<1>3. \A c \in Conn : handler[c].out = << >> /\ handler[c].sending = << >>
  BY DEF AuditInit, WatchInit, Free
<1>4. start \in Nat
  BY DEF AuditInit, WatchInit
<1> QED
  BY <1>2, <1>3, <1>4 DEF AuditInit, WatchInit, SentInv, EndMarksWhole, SendingOK, EndLast

LEMMA NothingToSend == ASSUME NEW h, h.out = << >>, h.sending = << >> PROVE SendingOK(h)
BY DEF SendingOK, EndLast

\* A step of one handler that sends nothing.
LEMMA SentByOne ==
  ASSUME WatchInv, SentInv, NEW c \in Conn, NEW h, SendingOK(h), handler' = [handler EXCEPT ![c] = h],
         UNCHANGED <<log, start, cursor, seen>>
  PROVE  SentInv'
<1>1. \A d \in Conn : SendingOK(handler'[d])
  <2>1. handler'[c] = h /\ \A d \in Conn : d # c => handler'[d] = handler[d]
    BY DEF WatchInv, WatchTyped, WatchTypeOK
  <2> QED
    BY <2>1 DEF SentInv
<1>2. \A d \in Conn : SendingOK(handler[d])'
  BY <1>1 DEF SendingOK, EndLast, EventOK, GroupOK
<1> QED
  BY <1>2 DEF SentInv, EventOK, EndMarksWhole, CursorNewest

\* A step that leaves what the handler sends as it is.
LEMMA SentAsBefore ==
  ASSUME SentInv, NEW c \in Conn, NEW h, h.out = handler[c].out, h.sending = handler[c].sending
  PROVE  SendingOK(h)
BY DEF SentInv, SendingOK, EndLast

LEMMA SentStore == ASSUME WatchInv, SentInv, Store, UNCHANGED <<start, seen>> PROVE SentInv'
<1>1. PICK P \in Change : log' = Append(log, P)
  BY DEF Store
<1>2. log \in Seq(SUBSET Path) /\ P \in SUBSET Path /\ Len(log) \in Nat
  BY WatchConstants DEF WatchInv, WatchTyped, WatchTypeOK
<1>3. Len(log') = Len(log) + 1 /\ \A s \in 1 .. Len(log) : s \in 1 .. Len(log') /\ log'[s] = log[s]
  BY <1>1, <1>2
<1>4. UNCHANGED <<handler, start, cursor, seen>>
  BY DEF Store, clientVars
<1>5. \A e : EventOK(e) => EventOK(e)' /\ (e.seq \in 1 .. Len(log) /\ log'[e.seq] = log[e.seq])
  BY <1>3 DEF EventOK
<1>6. ASSUME NEW c \in Conn PROVE SendingOK(handler[c])'
  <2>1. PICK h : h = handler[c] /\ h = handler'[c]
    BY <1>4
  <2>2. SendingOK(h)
    BY <2>1 DEF SentInv
  <2>3. \A i \in DOMAIN h.out : GroupOK(h.out[i])'
    BY <1>3, <2>2 DEF SendingOK, GroupOK
  <2>4. \A i \in DOMAIN h.sending : EventOK(h.sending[i])' /\ log'[h.sending[i].seq] = log[h.sending[i].seq]
    BY <1>5, <2>2 DEF SendingOK
  <2>5. EndLast(h.sending)'
    BY <1>4, <2>2, <2>4 DEF SendingOK, EndLast
  <2> QED
    BY <2>1, <2>3, <2>4, <2>5 DEF SendingOK, EndLast, EventOK, GroupOK
<1>7. CursorNewest'
  <2>1. cursor \in Nat
    BY DEF WatchInv, WatchTyped, WatchTypeOK
  <2> QED
    BY <1>2, <1>3, <1>4, <2>1 DEF SentInv, CursorNewest
<1>8. EndMarksWhole' /\ \A e \in seen' : EventOK(e)'
  BY <1>4, <1>5 DEF SentInv, EndMarksWhole
<1> QED
  BY <1>4, <1>6, <1>7, <1>8 DEF SentInv, EventOK

LEMMA SentWrite ==
  ASSUME WatchInv, SentInv, NEW c \in Conn, WriteEvent(c),
         start' = start, seen' = seen \cup {Head(handler[c].sending)}
  PROVE  SentInv'
<1>1. PICK s : s = handler[c].sending
  OBVIOUS
<1>2. handler[c] \in Handler
  BY HandlerIsTyped
<1>3. s \in Seq(Event) /\ s # << >>
  BY <1>1, <1>2 DEF Handler, WriteEvent
<1>4. PICK q : q = Tail(s)
  OBVIOUS
<1>5. /\ Head(s) = s[1] /\ 1 \in DOMAIN s /\ DOMAIN s = 1 .. Len(s) /\ Len(s) \in Nat
      /\ q \in Seq(Event) /\ Len(q) = Len(s) - 1 /\ DOMAIN q = 1 .. Len(s) - 1
      /\ \A i \in DOMAIN q : i + 1 \in DOMAIN s /\ q[i] = s[i + 1]
  <2>1. /\ Head(s) = s[1] /\ 1 \in DOMAIN s
        /\ Tail(s) \in Seq(Event) /\ Len(Tail(s)) = Len(s) - 1
        /\ \A i \in DOMAIN Tail(s) : i + 1 \in DOMAIN s /\ Tail(s)[i] = s[i + 1]
    BY <1>3, HeadAndTail
  <2> QED
    BY <1>3, <1>4, <2>1
<1>6. /\ UNCHANGED <<log, start>>
      /\ seen' = seen \cup {s[1]} /\ cursor' = IF s[1].seq > cursor THEN s[1].seq ELSE cursor
      /\ \A d \in Conn : d # c => handler'[d] = handler[d]
      /\ handler'[c].out = handler[c].out /\ handler'[c].sending = q
  BY <1>1, <1>2, <1>4, <1>5 DEF WriteEvent, repoVars, WatchInv, WatchTyped, WatchTypeOK, Handler
<1>7. (\A i \in DOMAIN s : EventOK(s[i])) /\ EndLast(s) /\ \A i \in DOMAIN handler[c].out : GroupOK(handler[c].out[i])
  BY <1>1 DEF SentInv, SendingOK
<1>8. \A e : EventOK(e) => EventOK(e)'
  BY <1>6 DEF EventOK
<1>9. EventOK(s[1]) /\ EventOK(s[1])'
  BY <1>5, <1>7, <1>8
<1>10. \A e \in seen' : EventOK(e)'
  BY <1>6, <1>8, <1>9 DEF SentInv
<1>11. EndMarksWhole'
  <2>1. \A i \in DOMAIN s : ~ (i < 1)
    BY <1>5
  <2>2. s[1].about = Summary => \A p \in log[s[1].seq] \ Unsure : Told(s[1].seq, p) \in seen
    BY <1>5, <1>7, <2>1 DEF EndLast
  <2>3. \A e \in seen : e.about = Summary => \A p \in log[e.seq] \ Unsure : Told(e.seq, p) \in seen
    BY DEF SentInv, EndMarksWhole
  <2> QED
    BY <1>6, <2>2, <2>3 DEF EndMarksWhole, Told
<1>12. CursorNewest'
  <2>1. cursor \in Nat /\ start \in Nat /\ Len(log) \in Nat /\ s[1].seq \in Int /\ s[1].seq <= Len(log)
    BY <1>9 DEF EventOK, SentInv, WatchInv, WatchTyped, WatchTypeOK
  <2>2. \A e \in seen : e.seq \in Int
    <3>1. \A e \in seen : e.seq \in Number
      BY DEF SentInv, Event
    <3> QED
      BY <3>1, NumberIsNat
  <2>3. CASE s[1].seq > cursor
    <3>1. cursor' = s[1].seq
      BY <1>6, <2>3
    <3> QED
      BY <1>6, <2>1, <2>2, <2>3, <3>1 DEF SentInv, CursorNewest
  <2>4. CASE ~ (s[1].seq > cursor)
    <3>1. cursor' = cursor
      BY <1>6, <2>4
    <3> QED
      BY <1>6, <2>1, <2>2, <2>4, <3>1 DEF SentInv, CursorNewest
  <2> QED
    BY <2>3, <2>4
<1>13. ASSUME NEW i \in DOMAIN q, q[i].about = Summary, NEW p \in log[q[i].seq] \ Unsure
       PROVE  Told(q[i].seq, p) \in seen' \/ \E j \in DOMAIN q : j < i /\ q[j] = Told(q[i].seq, p)
  <2>1. i + 1 \in DOMAIN s /\ q[i] = s[i + 1]
    BY <1>5
  <2>2. Told(q[i].seq, p) \in seen \/ \E j \in DOMAIN s : j < i + 1 /\ s[j] = Told(q[i].seq, p)
    BY <1>7, <1>13, <2>1 DEF EndLast
  <2>3. ASSUME NEW j \in DOMAIN s, j < i + 1, s[j] = Told(q[i].seq, p), j # 1
        PROVE  j - 1 \in DOMAIN q /\ j - 1 < i /\ q[j - 1] = s[j]
    <3>1. j - 1 \in DOMAIN q /\ j - 1 < i /\ (j - 1) + 1 = j
      BY <1>5, <2>3
    <3> QED
      BY <1>5, <3>1
  <2> QED
    BY <1>6, <2>2, <2>3
<1>14. ASSUME NEW d \in Conn PROVE SendingOK(handler[d])'
  <2>1. CASE d = c
    <3>1. \A i \in DOMAIN q : EventOK(q[i])'
      BY <1>5, <1>7, <1>8
    <3>2. \A i \in DOMAIN handler[c].out : GroupOK(handler[c].out[i]) /\ log' = log
      BY <1>6, <1>7
    <3> QED
      BY <1>6, <1>13, <2>1, <3>1, <3>2 DEF SendingOK, EndLast, EventOK, GroupOK, Told
  <2>2. CASE d # c
    <3>1. handler'[d] = handler[d] /\ SendingOK(handler[d])
      BY <1>6, <2>2 DEF SentInv
    <3> QED
      BY <1>6, <3>1 DEF SendingOK, EndLast, EventOK, GroupOK
  <2> QED
    BY <2>1, <2>2
<1>15. seen' \subseteq Event /\ start' \in Nat
  <2>1. s[1] \in Event
    BY <1>3, <1>5
  <2> QED
    BY <1>6, <2>1 DEF SentInv
<1> QED
  BY <1>10, <1>11, <1>12, <1>14, <1>15 DEF SentInv

\* The hub and the handler send on only what the log holds.
LEMMA SentHandler ==
  ASSUME WatchInv, SentInv, NEW c \in Conn,
         Connect(c) \/ HubNext(c) \/ ReadLog(c) \/ ReplayCommit(c) \/ EndReplay(c) \/ Drain(c) \/ HangUp(c),
         UNCHANGED <<start, seen>>
  PROVE  SentInv'
<1>1. handler[c] \in Handler /\ handler \in [Conn -> Handler] /\ SendingOK(handler[c])
  BY HandlerIsTyped DEF WatchInv, WatchTyped, WatchTypeOK, Handler, SentInv
<1>2. UNCHANGED <<log, start, cursor, seen>>
  BY DEF Connect, HubNext, Register, Unregister, Deliver, ReadLog, ReplayCommit, EndReplay, Drain, HangUp,
         repoVars, clientVars
<1>3. SendingOK(Free)
  BY NothingToSend DEF Free
<1>4. ASSUME NEW h, h.out = handler[c].out, h.sending = handler[c].sending, handler' = [handler EXCEPT ![c] = h]
      PROVE  SentInv'
  BY <1>2, <1>4, SentAsBefore, SentByOne
<1>5. CASE handler' = [handler EXCEPT ![c] = Free]
  BY <1>2, <1>3, <1>5, SentByOne
<1>6. CASE Connect(c)
  <2> DEFINE t == IF cursor > 0 THEN "catchUp" ELSE "subscribe"
             h == [handler[c] EXCEPT !.from = cursor, !.step = t]
  <2>1. h.out = handler[c].out /\ h.sending = handler[c].sending
    BY <1>1 DEF Handler
  <2>2. handler' = [handler EXCEPT ![c] = h]
    BY <1>1, <1>6 DEF Connect, Handler
  <2> QED
    BY <1>4, <2>1, <2>2
<1>7. CASE Register(c) \/ EndReplay(c) \/ (HangUp(c) /\ handler[c].step = "live")
  <2>1. PICK t : handler' = [handler EXCEPT ![c].step = t]
    BY <1>7 DEF Register, EndReplay, HangUp
  <2> DEFINE h == [handler[c] EXCEPT !.step = t]
  <2>2. h.out = handler[c].out /\ h.sending = handler[c].sending
    BY <1>1 DEF Handler
  <2>3. handler' = [handler EXCEPT ![c] = h]
    BY <1>1, <2>1
  <2> QED
    BY <1>4, <2>2, <2>3
<1>8. CASE Unregister(c) \/ (HangUp(c) /\ handler[c].step # "live")
  BY <1>5, <1>8 DEF Unregister, HangUp
<1>9. CASE ReadLog(c)
  <2>1. PICK r : handler' = [handler EXCEPT ![c].step = "replay", ![c].replay = r]
    BY <1>9, Zenon DEF ReadLog
  <2> DEFINE h == [handler[c] EXCEPT !.step = "replay", !.replay = r]
  <2>2. h.out = handler[c].out /\ h.sending = handler[c].sending
    BY <1>1 DEF Handler
  <2>3. handler' = [handler EXCEPT ![c] = h]
    BY <1>1, <2>1
  <2> QED
    BY <1>4, <2>2, <2>3
<1>10. CASE ReplayCommit(c)
  <2> DEFINE r == handler[c].replay
  <2>0. PICK g \in FilterGroup(Head(r)) :
          handler' = [handler EXCEPT ![c].replay = Tail(r), ![c].sending = EventsOf(g)]
    BY <1>1, <1>10 DEF ReplayCommit
  <2> DEFINE e == EventsOf(g)
             h == [handler[c] EXCEPT !.replay = Tail(r), !.sending = e]
  <2>1. handler' = [handler EXCEPT ![c] = h]
    BY <1>1, <2>0
  <2>2. h.out = handler[c].out /\ h.sending = e
    BY <1>1 DEF Handler
  <2>3. Head(r) \in Number /\ Head(r) <= Len(log)
    <3>1. r \in Seq(Number) /\ r # << >>
      BY <1>1, <1>10 DEF Handler, ReplayCommit
    <3>2. Head(r) \in Number /\ Head(r) = r[1] /\ 1 \in DOMAIN r
      BY <3>1, HeadAndTail
    <3> QED
      BY <3>2, HandlerIsTyped DEF ReplayInOrder
  <2>4. g \in Group /\ GroupOK(g)
    BY <2>0, <2>3, Filtered, FilteredWell DEF WatchInv
  <2>5. (\A i \in DOMAIN e : EventOK(e[i])) /\ EndLast(e)
    BY <2>4, GroupSent
  <2> HIDE DEF h, e
  <2>6. SendingOK(h)
    BY <1>1, <2>2, <2>5 DEF SendingOK
  <2> QED
    BY <1>2, <2>1, <2>6, SentByOne
<1>11. CASE Drain(c)
  <2> DEFINE o == handler[c].out
             e == EventsOf(Head(o))
             h == [handler[c] EXCEPT !.sending = e, !.out = Tail(o)]
  <2>1. handler' = [handler EXCEPT ![c] = h]
    BY <1>1, <1>11 DEF Drain
  <2>2. h.out = Tail(o) /\ h.sending = e
    BY <1>1 DEF Handler
  <2>3. /\ Head(o) \in Group /\ Head(o) = o[1] /\ 1 \in DOMAIN o
        /\ \A i \in DOMAIN Tail(o) : i + 1 \in DOMAIN o /\ Tail(o)[i] = o[i + 1]
    <3>1. o \in Seq(Group) /\ o # << >>
      BY <1>1, <1>11 DEF Handler, Drain
    <3> QED
      BY <3>1, HeadAndTail
  <2>4. GroupOK(Head(o)) /\ \A i \in DOMAIN Tail(o) : GroupOK(Tail(o)[i])
    BY <1>1, <2>3 DEF SendingOK
  <2>5. (\A i \in DOMAIN e : EventOK(e[i])) /\ EndLast(e)
    BY <2>3, <2>4, GroupSent
  <2> HIDE DEF h, e
  <2>6. SendingOK(h)
    BY <2>2, <2>4, <2>5 DEF SendingOK
  <2> QED
    BY <1>2, <2>1, <2>6, SentByOne
<1>12. CASE Deliver(c)
  <2> DEFINE o == handler[c].out
  <2>0. PICK g \in FilterGroup(fan.seq) :
          handler' = [handler EXCEPT ![c].out = IF ~ IsEmpty(g) /\ Len(o) < OutCap THEN Append(o, g) ELSE o]
    BY <1>1, <1>12 DEF Deliver
  <2> DEFINE p == IF ~ IsEmpty(g) /\ Len(o) < OutCap THEN Append(o, g) ELSE o
             h == [handler[c] EXCEPT !.out = p]
  <2>1. handler' = [handler EXCEPT ![c] = h]
    BY <1>1, <2>0
  <2>2. h.out = p /\ h.sending = handler[c].sending
    BY <1>1 DEF Handler
  <2>3. fan.seq \in Number /\ fan.seq <= Len(log)
    BY <1>12 DEF Deliver, WatchInv, WatchTyped, WatchTypeOK, HubInOrder
  <2>4. g \in Group /\ GroupOK(g)
    BY <2>0, <2>3, Filtered, FilteredWell DEF WatchInv
  <2>5. \A i \in DOMAIN p : GroupOK(p[i])
    <3>1. o \in Seq(Group) /\ \A i \in DOMAIN o : GroupOK(o[i])
      BY <1>1 DEF Handler, SendingOK
    <3>2. CASE p = Append(o, g)
      BY <2>4, <3>1, <3>2, Appended
    <3>3. CASE p = o
      BY <3>1, <3>3
    <3> QED
      BY <3>2, <3>3
  <2> HIDE DEF h, p
  <2>6. SendingOK(h)
    BY <1>1, <2>2, <2>5 DEF SendingOK
  <2> QED
    BY <1>2, <2>1, <2>6, SentByOne
<1> QED
  BY <1>6, <1>7, <1>8, <1>9, <1>10, <1>11, <1>12 DEF HubNext

\* Only an event that is written and read is seen.
LEMMA Observed ==
  ASSUME Observe
  PROVE  /\ \A c \in Conn : WriteEvent(c) => seen' = seen \cup {Head(handler[c].sending)}
         /\ (\A c \in Conn : ~ WriteEvent(c)) => seen' = seen
<1>1. PICK W : W = {d \in Conn : WriteEvent(d)}
  OBVIOUS
<1>2. seen' = seen \cup {Head(handler[c].sending) : c \in W}
  BY <1>1 DEF Observe
<1>3. \A c \in W : c = session
  BY <1>1 DEF WriteEvent
<1>4. \A c \in Conn : WriteEvent(c) => W = {c}
  BY <1>1, <1>3
<1>5. (\A c \in Conn : ~ WriteEvent(c)) => W = {}
  BY <1>1
<1> QED
  BY <1>2, <1>4, <1>5

LEMMA StepSent == WatchInv /\ SentInv /\ [AuditNext]_auditVars => SentInv'
<1> SUFFICES ASSUME WatchInv, SentInv, [AuditNext]_auditVars PROVE SentInv'
  OBVIOUS
<1>1. ASSUME UNCHANGED <<log, handler, start, cursor, seen>> PROVE SentInv'
  BY <1>1 DEF SentInv, EventOK, EndMarksWhole, CursorNewest, SendingOK, EndLast, GroupOK
<1>2. CASE UNCHANGED auditVars
  BY <1>1, <1>2 DEF auditVars, watchVars, repoVars, clientVars
<1>3. ASSUME AuditNext, NEW c \in Conn, WriteEvent(c) PROVE SentInv'
  <2>1. start' = start /\ seen' = seen \cup {Head(handler[c].sending)}
    BY <1>3, Observed DEF AuditNext, Observe
  <2> QED
    BY <1>3, <2>1, SentWrite
<1>4. ASSUME AuditNext, \A c \in Conn : ~ WriteEvent(c) PROVE SentInv'
  <2>1. WatchNext /\ start' = start /\ seen' = seen
    BY <1>4, Observed DEF AuditNext, Observe
  <2>2. CASE Publish \/ PublishNothing \/ TakeGroup \/ Disconnect
    BY <1>1, <2>1, <2>2 DEF Publish, PublishNothing, TakeGroup, Disconnect, repoVars, clientVars
  <2>3. CASE Crash
    <3>1. \A c \in Conn : handler'[c] = Free
      BY <2>3 DEF Crash
    <3>2. \A c \in Conn : SendingOK(handler[c])'
      BY <3>1 DEF Free, SendingOK, EndLast
    <3> QED
      BY <2>1, <2>3, <3>2 DEF Crash, SentInv, EventOK, EndMarksWhole, CursorNewest
  <2>4. CASE Store
    BY <2>1, <2>4, SentStore
  <2>5. ASSUME NEW c \in Conn, Connect(c) \/ HubNext(c) \/ HandlerNext(c) PROVE SentInv'
    BY <1>4, <2>1, <2>5, SentHandler DEF HandlerNext
  <2> QED
    BY <2>1, <2>2, <2>3, <2>4, <2>5 DEF WatchNext
<1> QED
  BY <1>2, <1>3, <1>4

\* The audit only observes: what is true of Watch is true under it.
LEMMA AuditWatches == AuditSpec => []WatchInv
<1>1. AuditInit => WatchInv
  BY InitWatch DEF AuditInit
<1>2. WatchInv /\ [AuditNext]_auditVars => WatchInv'
  BY StepWatch DEF AuditNext, auditVars
<1> QED
  BY <1>1, <1>2, PTL DEF AuditSpec

LEMMA SentInvAlways == AuditSpec => []SentInv
BY InitSent, StepSent, AuditWatches, PTL DEF AuditSpec

\* Whatever a subscriber is told, by a replay or by the hub, before or after a
\* crash, and however its permission queries are answered: the commit is stored, and
\* changed the file.
THEOREM EventsTellLog == AuditSpec => [](\A e \in seen : EventOK(e))
<1>1. SentInv => \A e \in seen : EventOK(e)
  BY DEF SentInv
<1> QED
  BY <1>1, SentInvAlways, PTL

\* Groups are dropped whole, and a handler that breaks off leaves the end marker
\* unsent: a commit whose marker has come (architecture.md: "commit.pushed last
\* as the end of commit marker") has come with every file none of whose permission
\* queries may be answered no.  The queries of hub.go:99 and 113 are separate, and
\* a failed one is a no: of the other files the marker promises nothing.
THEOREM EndAlwaysMarksWhole == AuditSpec => []EndMarksWhole
<1>1. SentInv => EndMarksWhole
  BY DEF SentInv
<1> QED
  BY <1>1, SentInvAlways, PTL

\* RunWatch resumes from the newest commit it was told of, which is in the log.
THEOREM CursorAlwaysNewest == AuditSpec => []CursorNewest
<1>1. SentInv => CursorNewest
  BY DEF SentInv
<1> QED
  BY <1>1, SentInvAlways, PTL
=============================================================================
