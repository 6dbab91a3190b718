-------------------------- MODULE LogReadingProofs --------------------------
(***************************************************************************)
(* Proofs about how logs are read.                                         *)
(*                                                                         *)
(* LogBroker: the broker never sends on a closed channel and closes none   *)
(* twice, and a tail shows its project's batches in order and each once,   *)
(* for any number of projects, viewers and concurrent uploads, and buffers *)
(* of any size.                                                            *)
(*                                                                         *)
(* LogScreens: lists and exports lose and repeat nothing and never mix two *)
(* queries, the inspector agrees with its list and its address, and what   *)
(* is counted is there, for any logs, queries, page sizes and windows,     *)
(* while uploads, retention and renamed users change the table.            *)
(***************************************************************************)
EXTENDS LogBroker, LogScreens, FiniteSetTheorems, SequenceTheorems, TLAPS

----------------------------------------------------------------------------
(* The broker: types.                                                      *)

\* A request has a project from the moment it is accepted.
Routed ==
  \A v \in Viewers : viewer[v].pc # "idle" => viewer[v].project \in Projects

LEMMA TypeInit == Init => TypeOK /\ Routed
BY LogBrokerAssumption
DEF Init, TypeOK, ChanType, ViewerType, PublisherType, Phases, Routed

\* A step that changes one viewer's pc and keeps its project.
LEMMA MovedViewer ==
  ASSUME viewer \in [Viewers -> ViewerType], Routed,
         NEW v \in Viewers, viewer[v].pc # "idle",
         NEW pc \in {"connected", "streaming", "leaving", "done"},
         viewer' = [viewer EXCEPT ![v].pc = pc]
  PROVE  viewer' \in [Viewers -> ViewerType] /\ Routed'
BY DEF ViewerType, Routed

\* A channel that is opened or closed keeps its queue.
LEMMA SwitchedChannel ==
  ASSUME chan \in [Viewers -> ChanType], NEW v \in Viewers,
         NEW open \in BOOLEAN,
         chan' = [chan EXCEPT ![v].open = open]
  PROVE  chan' \in [Viewers -> ChanType]
<1> DEFINE c == [chan[v] EXCEPT !.open = open]
<1>1. c \in ChanType
  BY DEF ChanType
<1>2. chan' = [chan EXCEPT ![v] = c]
  OBVIOUS
<1> HIDE DEF c
<1>3. QED
  BY <1>1, <1>2

LEMMA TypeStep == TypeOK /\ Routed /\ [Next]_vars => (TypeOK /\ Routed)'
<1> SUFFICES ASSUME TypeOK, Routed, [Next]_vars
             PROVE  TypeOK' /\ Routed'
  OBVIOUS
<1>1. ASSUME NEW v \in Viewers, NEW p \in Projects, Connect(v, p)
      PROVE  TypeOK' /\ Routed'
  <2> DEFINE x == [viewer[v] EXCEPT !.pc = "connected", !.project = p]
  <2>0. viewer \in [Viewers -> ViewerType] /\ viewer' = [viewer EXCEPT ![v] = x]
    BY <1>1 DEF Connect, TypeOK
  <2>a. x \in ViewerType /\ x.project \in Projects
    BY <2>0 DEF ViewerType
  <2> HIDE DEF x
  <2>1. viewer' \in [Viewers -> ViewerType] /\ Routed'
    BY <2>0, <2>a DEF Routed
  <2>2. QED
    BY <1>1, <2>1 DEF Connect, TypeOK
<1>2. ASSUME NEW v \in Viewers, Subscribe(v)
      PROVE  TypeOK' /\ Routed'
  <2> DEFINE p == viewer[v].project
  <2>1. p \in Projects /\ viewer[v].pc # "idle"
    BY <1>2 DEF Subscribe, Routed
  <2>2. CASE HasRoom(p)
    <3>1. subscribers' \in [Projects -> SUBSET Viewers]
      BY <1>2, <2>1, <2>2 DEF Subscribe, TypeOK
    <3>2. chan' \in [Viewers -> ChanType]
      BY <1>2, <2>2, SwitchedChannel DEF Subscribe, TypeOK
    <3>3. published[p] \in Nat
      BY <2>1 DEF TypeOK
    <3>4. viewer' = [viewer EXCEPT ![v].pc = "streaming",
                                   ![v].joined = published[p]]
      BY <1>2, <2>2 DEF Subscribe
    <3> DEFINE x == [viewer[v] EXCEPT !.pc = "streaming", !.joined = published[p]]
    <3>a. viewer \in [Viewers -> ViewerType] /\ viewer' = [viewer EXCEPT ![v] = x]
      BY <3>4 DEF TypeOK
    <3>b. x \in ViewerType /\ x.project = p
      BY <3>3, <3>a DEF ViewerType
    <3> HIDE DEF x
    <3>5. viewer' \in [Viewers -> ViewerType] /\ Routed'
      BY <2>1, <3>a, <3>b DEF Routed
    <3>6. QED
      BY <1>2, <3>1, <3>2, <3>5 DEF Subscribe, TypeOK
  <2>3. CASE ~HasRoom(p)
    BY <1>2, <2>1, <2>3, MovedViewer DEF Subscribe, TypeOK
  <2>4. QED
    BY <2>2, <2>3
<1>3. ASSUME NEW v \in Viewers, Receive(v)
      PROVE  TypeOK' /\ Routed'
  <2>1. /\ Tail(chan[v].buf) \in Seq(Nat)
        /\ Append(viewer[v].sent, Head(chan[v].buf)) \in Seq(Nat)
    BY <1>3 DEF Receive, TypeOK, ChanType, ViewerType
  <2>2. chan' \in [Viewers -> ChanType]
    BY <1>3, <2>1 DEF Receive, TypeOK, ChanType
  <2>3. viewer' \in [Viewers -> ViewerType] /\ Routed'
    BY <1>3, <2>1 DEF Receive, TypeOK, ViewerType, Routed
  <2>4. QED
    BY <1>3, <2>2, <2>3 DEF Receive, TypeOK
<1>4. ASSUME NEW v \in Viewers, Stop(v)
      PROVE  TypeOK' /\ Routed'
  BY <1>4, MovedViewer DEF Stop, TypeOK
<1>5. ASSUME NEW v \in Viewers, Unsubscribe(v)
      PROVE  TypeOK' /\ Routed'
  <2>1. viewer[v].project \in Projects
    BY <1>5 DEF Unsubscribe, Routed
  <2>2. subscribers' \in [Projects -> SUBSET Viewers]
    BY <1>5, <2>1 DEF Unsubscribe, TypeOK
  <2>3. chan' \in [Viewers -> ChanType]
    BY <1>5, SwitchedChannel DEF Unsubscribe, TypeOK
  <2>4. viewer' \in [Viewers -> ViewerType] /\ Routed'
    BY <1>5, MovedViewer DEF Unsubscribe, TypeOK
  <2>5. QED
    BY <1>5, <2>2, <2>3, <2>4 DEF Unsubscribe, TypeOK
<1>6. ASSUME NEW v \in Viewers, Disconnect(v)
      PROVE  TypeOK' /\ Routed'
  <2>1. viewer' \in [Viewers -> ViewerType] /\ Routed'
    BY <1>6 DEF Disconnect, TypeOK, ViewerType, Routed
  <2>2. QED
    BY <1>6, <2>1 DEF Disconnect, TypeOK
<1>7. ASSUME NEW u \in Uploads, NEW p \in Projects, Publish(u, p)
      PROVE  TypeOK' /\ Routed'
  <2>1. published[p] + 1 \in Nat /\ subscribers[p] \in SUBSET Viewers
    BY DEF TypeOK
  <2>2. publisher' \in [Uploads -> PublisherType]
    BY <1>7, <2>1 DEF Publish, TypeOK, PublisherType
  <2>3. published' \in [Projects -> Nat]
    BY <1>7, <2>1 DEF Publish, TypeOK
  <2>4. \A w \in Uploads : publisher[w].batch \in Nat
    BY DEF TypeOK, PublisherType
  <2>5. overlapped' \subseteq Projects \X Nat \X Nat
    BY <1>7, <2>1, <2>4 DEF Publish, TypeOK
  <2>6. QED
    BY <1>7, <2>2, <2>3, <2>5 DEF Publish, TypeOK, Routed
<1>8. ASSUME NEW u \in Uploads, NEW v \in Viewers, Deliver(u, v)
      PROVE  TypeOK' /\ Routed'
  <2>1. publisher' \in [Uploads -> PublisherType]
    BY <1>8 DEF Deliver, TypeOK, PublisherType
  <2>2. Queue(v, publisher[u].batch) \in Seq(Nat)
    BY DEF Queue, TypeOK, ChanType, PublisherType
  <2>3. chan' \in [Viewers -> ChanType]
    BY <1>8, <2>2 DEF Deliver, TypeOK, ChanType
  <2> DEFINE x == [viewer[v] EXCEPT !.lossy = @ \/ Len(chan[v].buf) >= BufferSize]
  <2>a. viewer \in [Viewers -> ViewerType] /\ viewer' = [viewer EXCEPT ![v] = x]
    BY <1>8 DEF Deliver, TypeOK
  <2>b. x \in ViewerType /\ x.project = viewer[v].project /\ x.pc = viewer[v].pc
    BY <2>a DEF ViewerType
  <2> HIDE DEF x
  <2>4. viewer' \in [Viewers -> ViewerType] /\ Routed'
    BY <2>a, <2>b DEF Routed
  <2>5. QED
    BY <1>8, <2>1, <2>3, <2>4 DEF Deliver, TypeOK
<1>9. CASE Signal \/ Shutdown
  BY <1>9 DEF Signal, Shutdown, TypeOK, Phases, Routed
<1>10. CASE Close
  <2>1. chan' \in [Viewers -> ChanType]
    BY <1>10 DEF Close, TypeOK, ChanType
  <2>2. QED
    BY <1>10, <2>1 DEF Close, TypeOK, Phases, Routed
<1>11. CASE UNCHANGED vars
  BY <1>11 DEF vars, TypeOK, Routed
<1>12. QED
  BY <1>1, <1>2, <1>3, <1>4, <1>5, <1>6, <1>7, <1>8, <1>9, <1>10, <1>11
  DEF Next, Stream

\* Every variable of the live tail keeps its type, and every accepted request
\* has a project.
THEOREM BrokerTypes == Spec => [](TypeOK /\ Routed)
BY TypeInit, TypeStep, PTL DEF Spec

----------------------------------------------------------------------------
(* Channels are sent on while they are open.                               *)

\* The two halves of RegisteredIsOpen.
Matched ==
  \A v \in Viewers, p \in Projects :
    v \in subscribers[p]
      <=> chan[v].open /\ viewer[v].project = p
            /\ viewer[v].pc \in {"streaming", "leaving"}

Pinned ==
  \A u \in Uploads : \A v \in publisher[u].left :
    v \in subscribers[publisher[u].project]

\* Once Shutdown has returned nobody is publishing.
Quiet ==
  server \in {"drained", "closed"} => \A u \in Uploads : ~Publishing(u)

LEMMA QuietStep == TypeOK /\ Quiet /\ [Next]_vars => Quiet'
<1> SUFFICES ASSUME TypeOK, Quiet, [Next]_vars
             PROVE  Quiet'
  OBVIOUS
<1>1. CASE UNCHANGED <<publisher, server>>
  BY <1>1 DEF Quiet, Publishing
<1>2. ASSUME NEW u \in Uploads, NEW p \in Projects, Publish(u, p)
      PROVE  Quiet'
  BY <1>2 DEF Publish, Up, Quiet
<1>3. ASSUME NEW u \in Uploads, NEW v \in Viewers, Deliver(u, v)
      PROVE  Quiet'
  BY <1>3 DEF Deliver, Up, Quiet
<1>4. CASE Signal \/ Shutdown \/ Close
  BY <1>4 DEF Signal, Shutdown, Close, HandlersDone, Quiet, Publishing
<1>5. QED
  BY <1>1, <1>2, <1>3, <1>4
  DEF Next, Stream, vars, Connect, Subscribe, Receive, Stop, Unsubscribe,
      Disconnect

\* A viewer's part in Matched does not change.
Same(v) ==
  /\ chan'[v].open = chan[v].open
  /\ viewer'[v].project = viewer[v].project
  /\ viewer'[v].pc = viewer[v].pc

\* Matched for one viewer and one project.
Matches(v, p) ==
  v \in subscribers[p]
    <=> chan[v].open /\ viewer[v].project = p
          /\ viewer[v].pc \in {"streaming", "leaving"}

LEMMA MatchedStep == TypeOK /\ Routed /\ Matched /\ [Next]_vars => Matched'
<1> SUFFICES ASSUME TypeOK, Routed, Matched, [Next]_vars
             PROVE  Matched'
  OBVIOUS
<1>0. ASSUME UNCHANGED subscribers, \A v \in Viewers : Same(v)
      PROVE  Matched'
  BY <1>0 DEF Matched, Same
<1>1. ASSUME NEW v \in Viewers, NEW q \in Projects, Connect(v, q)
      PROVE  Matched'
  <2>1. \A w \in Viewers \ {v} : Same(w)
    BY <1>1 DEF Connect, Same, TypeOK, ViewerType
  <2>2. viewer[v].pc = "idle" /\ viewer'[v].pc = "connected"
    BY <1>1 DEF Connect, TypeOK, ViewerType
  <2>3. UNCHANGED subscribers
    BY <1>1 DEF Connect
  <2>4. ASSUME NEW w \in Viewers, NEW p \in Projects
        PROVE  Matches(w, p)'
    <3>1. Matches(w, p)
      BY DEF Matched, Matches
    <3>2. CASE w = v
      BY <2>2, <2>3, <3>1, <3>2 DEF Matches
    <3>3. CASE w # v
      BY <2>1, <2>3, <3>1, <3>3 DEF Matches, Same
    <3>4. QED
      BY <3>2, <3>3
  <2>5. QED
    BY <2>4 DEF Matched, Matches
<1>2. ASSUME NEW v \in Viewers, Subscribe(v)
      PROVE  Matched'
  <2> DEFINE q == viewer[v].project
  <2>1. \A w \in Viewers \ {v} : Same(w)
    BY <1>2 DEF Subscribe, Same, TypeOK, ViewerType, ChanType
  <2>2. q \in Projects /\ viewer[v].pc = "connected" /\ viewer'[v].project = q
    BY <1>2 DEF Subscribe, Routed, TypeOK, ViewerType
  <2>3. CASE HasRoom(q)
    <3>1. chan'[v].open /\ viewer'[v].pc = "streaming"
      BY <1>2, <2>3 DEF Subscribe, TypeOK, ViewerType, ChanType
    <3>2. \A p \in Projects :
            subscribers'[p] = IF p = q THEN subscribers[p] \cup {v}
                                       ELSE subscribers[p]
      BY <1>2, <2>3 DEF Subscribe, TypeOK
    <3>3. \A p \in Projects : v \notin subscribers[p]
      BY <2>2 DEF Matched
    <3>4. ASSUME NEW w \in Viewers, NEW p \in Projects
          PROVE  Matches(w, p)'
      <4>1. CASE w = v
        BY <2>2, <3>1, <3>2, <3>3, <4>1 DEF Matches
      <4>2. CASE w # v
        <5>1. Matches(w, p)
          BY DEF Matched, Matches
        <5>2. w \in subscribers'[p] <=> w \in subscribers[p]
          BY <3>2, <4>2
        <5>3. QED
          BY <2>1, <4>2, <5>1, <5>2 DEF Matches, Same
      <4>3. QED
        BY <4>1, <4>2
    <3>5. QED
      BY <3>4 DEF Matched, Matches
  <2>4. CASE ~HasRoom(q)
    <3>1. viewer'[v].pc = "done"
      BY <1>2, <2>4 DEF Subscribe, TypeOK, ViewerType
    <3>2. UNCHANGED subscribers
      BY <1>2, <2>4 DEF Subscribe
    <3>3. QED
      BY <2>1, <2>2, <3>1, <3>2 DEF Matched, Same
  <2>5. QED
    BY <2>3, <2>4
<1>3. ASSUME NEW v \in Viewers, Receive(v) \/ Disconnect(v)
      PROVE  Matched'
  <2>1. CASE Receive(v)
    <3>1. \A w \in Viewers : chan'[w].open = chan[w].open
      BY <2>1 DEF Receive, TypeOK, ChanType
    <3>2. \A w \in Viewers : /\ viewer'[w].project = viewer[w].project
                             /\ viewer'[w].pc = viewer[w].pc
      BY <2>1 DEF Receive, TypeOK, ViewerType
    <3>3. QED
      BY <1>0, <2>1, <3>1, <3>2 DEF Receive, Same
  <2>2. CASE Disconnect(v)
    <3>1. \A w \in Viewers : /\ viewer'[w].project = viewer[w].project
                             /\ viewer'[w].pc = viewer[w].pc
      BY <2>2 DEF Disconnect, TypeOK, ViewerType
    <3>2. QED
      BY <1>0, <2>2, <3>1 DEF Disconnect, Same
  <2>3. QED
    BY <1>3, <2>1, <2>2
<1>4. ASSUME NEW v \in Viewers, Stop(v)
      PROVE  Matched'
  <2>1. \A w \in Viewers \ {v} : Same(w)
    BY <1>4 DEF Stop, Same, TypeOK, ViewerType
  <2>2. /\ viewer[v].pc = "streaming" /\ viewer'[v].pc = "leaving"
        /\ viewer'[v].project = viewer[v].project
    BY <1>4 DEF Stop, TypeOK, ViewerType
  <2>3. QED
    BY <1>4, <2>1, <2>2 DEF Stop, Matched, Same
<1>5. ASSUME NEW v \in Viewers, Unsubscribe(v)
      PROVE  Matched'
  <2> DEFINE q == viewer[v].project
  <2>1. \A w \in Viewers \ {v} : Same(w)
    BY <1>5 DEF Unsubscribe, Same, TypeOK, ViewerType, ChanType
  <2>2. viewer'[v].pc = "done"
    BY <1>5 DEF Unsubscribe, TypeOK, ViewerType
  <2>3. \A p \in Projects : v \in subscribers[p] => p = q
    BY DEF Matched
  <2>4. q \in Projects
    BY <1>5 DEF Unsubscribe, Routed
  <2>5. \A p \in Projects : subscribers'[p] = subscribers[p] \ {v}
    BY <1>5, <2>3, <2>4 DEF Unsubscribe, TypeOK
  <2>6. QED
    BY <2>1, <2>2, <2>5 DEF Matched, Same
<1>6. ASSUME NEW u \in Uploads, NEW v \in Viewers, Deliver(u, v)
      PROVE  Matched'
  <2>1. \A w \in Viewers : Same(w)
    BY <1>6 DEF Deliver, Same, TypeOK, ViewerType, ChanType
  <2>2. QED
    BY <1>0, <1>6, <2>1 DEF Deliver
<1>7. CASE Close
  <2>1. \A v \in Viewers :
          chan'[v].open => chan[v].open /\ \A p \in Projects : v \notin subscribers[p]
    BY <1>7 DEF Close, TypeOK, ChanType
  <2>2. QED
    BY <1>7, <2>1 DEF Close, Matched
<1>8. CASE UNCHANGED <<subscribers, chan, viewer>>
  BY <1>8 DEF Matched
<1>9. QED
  BY <1>1, <1>2, <1>3, <1>4, <1>5, <1>6, <1>7, <1>8
  DEF Next, Stream, vars, Publish, Signal, Shutdown

LEMMA PinnedStep == TypeOK /\ Quiet /\ Pinned /\ [Next]_vars => Pinned'
<1> SUFFICES ASSUME TypeOK, Quiet, Pinned, [Next]_vars
             PROVE  Pinned'
  OBVIOUS
<1>1. CASE UNCHANGED <<publisher, subscribers>>
  BY <1>1 DEF Pinned
<1>2. ASSUME UNCHANGED publisher, \A u \in Uploads : ~Publishing(u)
      PROVE  Pinned'
  BY <1>2 DEF Pinned, Publishing
<1>3. ASSUME NEW u \in Uploads, NEW p \in Projects, Publish(u, p)
      PROVE  Pinned'
  <2>1. publisher'[u].left = subscribers[p] /\ publisher'[u].project = p
    BY <1>3 DEF Publish, TypeOK
  <2>2. \A w \in Uploads \ {u} : publisher'[w] = publisher[w]
    BY <1>3 DEF Publish, TypeOK
  <2>3. QED
    BY <1>3, <2>1, <2>2 DEF Publish, Pinned
<1>4. ASSUME NEW u \in Uploads, NEW v \in Viewers, Deliver(u, v)
      PROVE  Pinned'
  <2>1. \A w \in Uploads : /\ publisher'[w].left \subseteq publisher[w].left
                           /\ publisher'[w].project = publisher[w].project
    BY <1>4 DEF Deliver, TypeOK, PublisherType
  <2>2. QED
    BY <1>4, <2>1 DEF Deliver, Pinned
<1>5. CASE Close
  BY <1>2, <1>5 DEF Close, Quiet
<1>6. ASSUME NEW v \in Viewers, Subscribe(v) \/ Unsubscribe(v)
      PROVE  Pinned'
  BY <1>2, <1>6 DEF Subscribe, Unsubscribe, Unlocked
<1>7. QED
  BY <1>1, <1>3, <1>4, <1>5, <1>6
  DEF Next, Stream, vars, Connect, Receive, Stop, Disconnect, Signal, Shutdown

\* The broker never sends on a closed channel and closes none twice: the
\* registered channels are the open ones, and neither Unsubscribe nor Close
\* takes one away from a publication that still has to send to it.
THEOREM NoSendOnClosed == Spec => []RegisteredIsOpen
<1>1. Init => Quiet /\ Matched /\ Pinned
  BY DEF Init, Quiet, Matched, Pinned
<1>2. TypeOK /\ Routed /\ Quiet /\ Matched /\ Pinned /\ [Next]_vars
        => (Quiet /\ Matched /\ Pinned)'
  BY QuietStep, MatchedStep, PinnedStep
<1>3. Matched /\ Pinned => RegisteredIsOpen
  BY DEF Matched, Pinned, RegisteredIsOpen
<1>4. QED
  BY <1>1, <1>2, <1>3, BrokerTypes, PTL DEF Spec

----------------------------------------------------------------------------
(* The tail is faithful.                                                   *)

Got(v) == viewer[v].sent \o chan[v].buf

Coming(v) == {publisher[u].batch : u \in {w \in Uploads : v \in publisher[w].left}}

\* Nothing is shown before it was published; a viewer who has not subscribed has
\* nothing, and as long as the process lives a subscribed one's channel is open.
Bounded ==
  \A v \in Viewers :
    /\ \A i \in 1 .. Len(Got(v)) : Got(v)[i] <= published[viewer[v].project]
    /\ viewer[v].pc \in {"idle", "connected"} => Got(v) = <<>>
    /\ viewer[v].pc = "streaming" /\ Up => chan[v].open
    /\ viewer[v].pc = "streaming" =>
         viewer[v].joined <= published[viewer[v].project]

\* A batch on its way has a number of its own, has not been queued for those who
\* are still to get it, and overlaps every batch published since.
Numbered ==
  /\ \A u \in Uploads : Publishing(u) =>
       /\ publisher[u].project \in Projects
       /\ publisher[u].batch \in 1 .. published[publisher[u].project]
       /\ \A m \in publisher[u].batch + 1 .. published[publisher[u].project] :
            <<publisher[u].project, publisher[u].batch, m>> \in overlapped
  /\ \A u, w \in Uploads :
       /\ Publishing(u) /\ Publishing(w) /\ u # w
       /\ publisher[u].project = publisher[w].project
       => publisher[u].batch # publisher[w].batch
  /\ \A u \in Uploads : \A v \in publisher[u].left :
       \A i \in 1 .. Len(Got(v)) : Got(v)[i] # publisher[u].batch

InOrder ==
  \A v \in Viewers : \A i, j \in 1 .. Len(Got(v)) :
    i < j => Got(v)[i] < Got(v)[j]
               \/ <<viewer[v].project, Got(v)[j], Got(v)[i]>> \in overlapped

Complete ==
  \A v \in Viewers : viewer[v].pc = "streaming" /\ ~viewer[v].lossy =>
    {Got(v)[i] : i \in 1 .. Len(Got(v))} \cup Coming(v)
      = viewer[v].joined + 1 .. published[viewer[v].project]

Faithful == Bounded /\ Numbered /\ InOrder /\ Complete

LEMMA FaithfulIsProperty == Faithful => TailIsFaithful
BY DEF Faithful, InOrder, Complete, TailIsFaithful, Got, Coming

\* Moving an event from the channel to the browser changes nothing of the two
\* together, queueing one appends it.
LEMMA TailMoved ==
  ASSUME NEW s \in Seq(Nat), NEW b \in Seq(Nat), b # <<>>
  PROVE  Append(s, Head(b)) \o Tail(b) = s \o b
OBVIOUS

LEMMA TailGrown ==
  ASSUME NEW s \in Seq(Nat), NEW b \in Seq(Nat), NEW n \in Nat
  PROVE  /\ s \o b \in Seq(Nat) /\ Len(s \o Append(b, n)) = Len(s \o b) + 1
         /\ \A i \in 1 .. Len(s \o b) : (s \o Append(b, n))[i] = (s \o b)[i]
         /\ (s \o Append(b, n))[Len(s \o b) + 1] = n
OBVIOUS

\* What a viewer was sent, and where it stands, is left as it is.
Keeps(v) ==
  /\ Got(v)' = Got(v)
  /\ viewer'[v].pc = viewer[v].pc /\ viewer'[v].project = viewer[v].project
  /\ viewer'[v].joined = viewer[v].joined /\ viewer'[v].lossy = viewer[v].lossy

\* Steps of one viewer that leave the publications alone: what the others have is
\* untouched, and the viewer has what it had.
LEMMA ViewerKeepsFaithful ==
  ASSUME TypeOK, Faithful, NEW v \in Viewers,
         UNCHANGED <<publisher, published, overlapped>>,
         server' = server,
         \A w \in Viewers \ {v} : Keeps(w) /\ (chan[w].open => chan'[w].open),
         Got(v)' = Got(v),
         viewer'[v].project = viewer[v].project \/ viewer[v].pc = "idle",
         viewer'[v].pc \in {"idle", "connected"} => viewer[v].pc \in {"idle", "connected"},
         viewer[v].pc = "idle" => v \notin UNION {publisher[u].left : u \in Uploads},
         \/ viewer'[v].pc # "streaming"
         \/ /\ viewer[v].pc = "connected" /\ Unlocked /\ chan'[v].open
            /\ viewer'[v].project \in Projects
            /\ viewer'[v].joined = published[viewer'[v].project]
         \/ /\ viewer[v].pc = "streaming" /\ viewer'[v].project = viewer[v].project
            /\ (chan[v].open => chan'[v].open)
            /\ viewer'[v].joined = viewer[v].joined
            /\ viewer'[v].lossy = viewer[v].lossy
  PROVE  Faithful'
<1>1. ASSUME NEW w \in Viewers
      PROVE  /\ \A i \in 1 .. Len(Got(w)') : Got(w)'[i] <= published'[viewer'[w].project]
             /\ viewer'[w].pc \in {"idle", "connected"} => Got(w)' = <<>>
             /\ viewer'[w].pc = "streaming" /\ Up' => chan'[w].open
             /\ viewer'[w].pc = "streaming" =>
                  viewer'[w].joined <= published'[viewer'[w].project]
  <2>1. CASE w # v
    BY <2>1 DEF Faithful, Bounded, Keeps, Up
  <2>2. CASE w = v
    <3>1. \A i \in 1 .. Len(Got(v)) : Got(v)[i] <= published[viewer'[v].project]
      BY DEF Faithful, Bounded
    <3>2. viewer'[v].pc = "streaming" =>
            /\ Up' => chan'[v].open
            /\ viewer'[v].joined <= published[viewer'[v].project]
      BY DEF Faithful, Bounded, Up, TypeOK
    <3>3. viewer'[v].pc \in {"idle", "connected"} => Got(v) = <<>>
      BY DEF Faithful, Bounded
    <3> QED BY <2>2, <3>1, <3>2, <3>3
  <2> QED BY <2>1, <2>2
<1>2. Numbered'
  BY DEF Faithful, Numbered, Keeps, Publishing, TypeOK, PublisherType
<1>3. ASSUME NEW w \in Viewers, NEW i \in 1 .. Len(Got(w)'), NEW j \in 1 .. Len(Got(w)'), i < j
      PROVE  Got(w)'[i] < Got(w)'[j]
               \/ <<viewer'[w].project, Got(w)'[j], Got(w)'[i]>> \in overlapped'
  <2>1. Got(w)' = Got(w)
    BY DEF Keeps
  <2>2. viewer'[w].project = viewer[w].project \/ Got(w) = <<>>
    BY DEF Keeps, Faithful, Bounded
  <2>3. Got(w) # <<>>
    BY <1>3, <2>1
  <2> QED BY <1>3, <2>1, <2>2, <2>3 DEF Faithful, InOrder
<1>4. ASSUME NEW w \in Viewers, viewer'[w].pc = "streaming", ~viewer'[w].lossy
      PROVE  {Got(w)'[i] : i \in 1 .. Len(Got(w)')} \cup Coming(w)'
               = viewer'[w].joined + 1 .. published'[viewer'[w].project]
  <2>1. UNCHANGED Coming(w)
    BY DEF Coming
  <2>2. CASE w # v \/ viewer[v].pc = "streaming"
    <3>1. /\ Got(w)' = Got(w) /\ viewer[w].pc = "streaming" /\ ~viewer[w].lossy
          /\ viewer'[w].joined = viewer[w].joined
          /\ viewer'[w].project = viewer[w].project
      BY <1>4, <2>2 DEF Keeps
    <3>2. {Got(w)[i] : i \in 1 .. Len(Got(w))} \cup Coming(w)
            = viewer[w].joined + 1 .. published[viewer[w].project]
      BY <3>1 DEF Faithful, Complete
    <3> QED BY <2>1, <3>1, <3>2
  <2>3. CASE w = v /\ viewer[v].pc = "connected" /\ Unlocked
               /\ viewer'[v].project \in Projects
               /\ viewer'[v].joined = published[viewer'[v].project]
    <3>1. Got(w)' = <<>>
      BY <2>3 DEF Faithful, Bounded
    <3>2. Coming(w)' = {}
      BY <2>1, <2>3 DEF Coming, Unlocked, Publishing
    <3>3. viewer'[w].joined + 1 .. published'[viewer'[w].project] = {}
      BY <2>3 DEF TypeOK
    <3> QED BY <3>1, <3>2, <3>3
  <2> QED BY <1>4, <2>2, <2>3
<1> QED BY <1>1, <1>2, <1>3, <1>4 DEF Faithful, Bounded, InOrder, Complete

LEMMA ViewerSteps ==
  ASSUME TypeOK, Routed, Matched, Pinned, Faithful,
         NEW v \in Viewers, Stream(v) \/ Disconnect(v) \/ \E p \in Projects : Connect(v, p)
  PROVE  Faithful'
<1>0. /\ viewer \in [Viewers -> ViewerType] /\ chan \in [Viewers -> ChanType]
      /\ viewer[v].sent \in Seq(Nat) /\ chan[v].buf \in Seq(Nat)
  BY DEF TypeOK, ViewerType, ChanType
<1>1. viewer[v].pc = "idle" => v \notin UNION {publisher[u].left : u \in Uploads}
  <2>1. \A u \in Uploads : v \in publisher[u].left => Publishing(u)
    BY DEF Publishing
  <2>2. \A u \in Uploads : Publishing(u) => publisher[u].project \in Projects
    BY DEF Faithful, Numbered
  <2> QED BY <2>1, <2>2 DEF Matched, Pinned
<1>2. CASE \E p \in Projects : Connect(v, p)
  <2>1. UNCHANGED <<publisher, published, overlapped, server, chan>>
        /\ viewer[v].pc = "idle"
    BY <1>2 DEF Connect
  <2>0. PICK q \in Projects :
          viewer' = [viewer EXCEPT ![v] = [viewer[v] EXCEPT !.pc = "connected", !.project = q]]
    BY <1>2 DEF Connect
  <2>2. viewer'[v].pc = "connected" /\ viewer'[v].sent = viewer[v].sent
    <3>1. viewer'[v] = [viewer[v] EXCEPT !.pc = "connected", !.project = q]
      BY <1>0, <2>0
    <3> QED BY <1>0, <3>1 DEF ViewerType
  <2>3. \A w \in Viewers \ {v} : viewer'[w] = viewer[w]
    BY <1>0, <2>0
  <2> QED BY <1>1, <2>1, <2>2, <2>3, ViewerKeepsFaithful DEF Keeps, Got
<1>3. CASE Subscribe(v)
  <2> DEFINE p == viewer[v].project
  <2>1. UNCHANGED <<publisher, published, overlapped, server>>
        /\ viewer[v].pc = "connected" /\ Unlocked
    BY <1>3 DEF Subscribe
  <2>2. p \in Projects
    BY <1>3 DEF Subscribe, Routed
  <2>3. viewer'[v].sent = viewer[v].sent /\ viewer'[v].project = p
    BY <1>0, <1>3 DEF Subscribe, ViewerType
  <2>4. chan'[v].buf = chan[v].buf /\ \A w \in Viewers \ {v} : chan'[w] = chan[w]
    BY <1>0, <1>3 DEF Subscribe, ChanType
  <2>5. \A w \in Viewers \ {v} : viewer'[w] = viewer[w]
    BY <1>0, <1>3 DEF Subscribe
  <2>6. \/ viewer'[v].pc = "done"
        \/ viewer'[v].pc = "streaming" /\ chan'[v].open /\ viewer'[v].joined = published[p]
    BY <1>0, <1>3 DEF Subscribe, ViewerType, ChanType
  <2> QED BY <1>1, <2>1, <2>2, <2>3, <2>4, <2>5, <2>6, ViewerKeepsFaithful DEF Keeps, Got
<1>4. CASE Receive(v)
  <2>1. UNCHANGED <<publisher, published, overlapped, server>>
        /\ viewer[v].pc = "streaming" /\ chan[v].buf # <<>>
    BY <1>4 DEF Receive
  <2>2. /\ viewer'[v].sent = Append(viewer[v].sent, Head(chan[v].buf))
        /\ viewer'[v].pc = viewer[v].pc /\ viewer'[v].project = viewer[v].project
        /\ viewer'[v].joined = viewer[v].joined /\ viewer'[v].lossy = viewer[v].lossy
    BY <1>0, <1>4 DEF Receive, ViewerType
  <2>3. chan'[v].buf = Tail(chan[v].buf) /\ chan'[v].open = chan[v].open
    BY <1>0, <1>4 DEF Receive, ChanType
  <2>4. \A w \in Viewers \ {v} : chan'[w] = chan[w] /\ viewer'[w] = viewer[w]
    BY <1>0, <1>4 DEF Receive
  <2>5. Got(v)' = Got(v)
    BY <1>0, <2>1, <2>2, <2>3, TailMoved DEF Got
  <2> QED BY <1>1, <2>1, <2>2, <2>3, <2>4, <2>5, ViewerKeepsFaithful DEF Keeps, Got
<1>5. CASE Stop(v) \/ Unsubscribe(v)
  <2>1. UNCHANGED <<publisher, published, overlapped, server>>
        /\ viewer[v].pc \in {"streaming", "leaving"}
    BY <1>5 DEF Stop, Unsubscribe
  <2>2. /\ viewer'[v].pc \in {"leaving", "done"}
        /\ viewer'[v].sent = viewer[v].sent /\ viewer'[v].project = viewer[v].project
    BY <1>0, <1>5 DEF Stop, Unsubscribe, ViewerType
  <2>3. chan'[v].buf = chan[v].buf /\ \A w \in Viewers \ {v} : chan'[w] = chan[w]
    BY <1>0, <1>5 DEF Stop, Unsubscribe, ChanType
  <2>4. \A w \in Viewers \ {v} : viewer'[w] = viewer[w]
    BY <1>0, <1>5 DEF Stop, Unsubscribe
  <2> QED BY <1>1, <2>1, <2>2, <2>3, <2>4, ViewerKeepsFaithful DEF Keeps, Got
<1>6. CASE Disconnect(v)
  <2>1. UNCHANGED <<publisher, published, overlapped, server, chan>>
        /\ viewer[v].pc \in {"connected", "streaming"}
    BY <1>6 DEF Disconnect
  <2>2. /\ viewer'[v].sent = viewer[v].sent
        /\ viewer'[v].pc = viewer[v].pc /\ viewer'[v].project = viewer[v].project
        /\ viewer'[v].joined = viewer[v].joined /\ viewer'[v].lossy = viewer[v].lossy
    BY <1>0, <1>6 DEF Disconnect, ViewerType
  <2>3. \A w \in Viewers \ {v} : viewer'[w] = viewer[w]
    BY <1>0, <1>6 DEF Disconnect
  <2> QED BY <1>1, <2>1, <2>2, <2>3, ViewerKeepsFaithful DEF Keeps, Got
<1> QED BY <1>2, <1>3, <1>4, <1>5, <1>6 DEF Stream

\* A publication begins: the batch is new to everybody, is on its way to every
\* tail of the project, and overlaps the publications still under way.
LEMMA PublishKeepsFaithful ==
  ASSUME TypeOK, Routed, Matched, Pinned, Faithful,
         NEW u \in Uploads, NEW p \in Projects, Publish(u, p)
  PROVE  Faithful'
<1> DEFINE n == published[p] + 1
<1>0. /\ published \in [Projects -> Nat] /\ publisher \in [Uploads -> PublisherType]
      /\ published[p] \in Nat /\ ~Publishing(u) /\ Up
      /\ UNCHANGED <<subscribers, chan, viewer, server>>
  BY DEF TypeOK, Publish
<1>1. \A q \in Projects : published'[q] = IF q = p THEN n ELSE published[q]
  BY <1>0 DEF Publish
<1>2. \A w \in Uploads :
        publisher'[w] = IF w = u THEN [project |-> p, batch |-> n, left |-> subscribers[p]]
                        ELSE publisher[w]
  BY <1>0 DEF Publish
<1>3. /\ overlapped \subseteq overlapped'
      /\ \A w \in Uploads : Publishing(w) /\ publisher[w].project = p
            => <<p, publisher[w].batch, n>> \in overlapped'
  BY DEF Publish
<1>4. \A v \in Viewers : Got(v)' = Got(v)
  BY <1>0 DEF Got
<1>a. ASSUME NEW v \in Viewers
      PROVE  viewer[v].joined \in Nat /\ \A i \in 1 .. Len(Got(v)) : Got(v)[i] \in Nat
  <2>1. /\ viewer[v].joined \in Nat
        /\ viewer[v].sent \in Seq(Nat) /\ chan[v].buf \in Seq(Nat)
    BY DEF TypeOK, ViewerType, ChanType
  <2>2. Got(v) \in Seq(Nat)
    BY <2>1, TailGrown DEF Got
  <2> QED BY <2>1, <2>2
<1>5. Bounded'
  <2>1. ASSUME NEW v \in Viewers
        PROVE  /\ \A i \in 1 .. Len(Got(v)) : Got(v)[i] <= published'[viewer[v].project]
               /\ viewer[v].pc = "streaming" =>
                    viewer[v].joined <= published'[viewer[v].project]
    <3>1. CASE viewer[v].pc = "idle"
      BY <3>1 DEF Faithful, Bounded
    <3>2. CASE viewer[v].pc # "idle"
      <4> DEFINE q == viewer[v].project
      <4>1. q \in Projects
        BY <3>2 DEF Routed
      <4>2. published[q] \in Nat /\ published'[q] \in Nat /\ published[q] <= published'[q]
        <5>1. published[q] \in Nat /\ published'[q] = IF q = p THEN n ELSE published[q]
          BY <1>0, <1>1, <4>1
        <5> QED BY <1>0, <5>1
      <4>3. /\ \A i \in 1 .. Len(Got(v)) : Got(v)[i] <= published[q]
            /\ viewer[v].pc = "streaming" => viewer[v].joined <= published[q]
        BY DEF Faithful, Bounded
      <4> HIDE DEF q
      <4>4. /\ \A i \in 1 .. Len(Got(v)) : Got(v)[i] <= published'[q]
            /\ viewer[v].pc = "streaming" => viewer[v].joined <= published'[q]
        BY <1>a, <4>2, <4>3
      <4> QED BY <4>4 DEF q
    <3> QED BY <3>1, <3>2
  <2> QED BY <1>0, <1>4, <2>1 DEF Faithful, Bounded, Up
<1>6. Numbered'
  <2>1. ASSUME NEW w \in Uploads, Publishing(w)'
        PROVE  /\ publisher'[w].project \in Projects
               /\ publisher'[w].batch \in 1 .. published'[publisher'[w].project]
               /\ \A m \in publisher'[w].batch + 1 .. published'[publisher'[w].project] :
                    <<publisher'[w].project, publisher'[w].batch, m>> \in overlapped'
    <3>1. CASE w = u
      BY <1>0, <1>1, <1>2, <3>1
    <3>2. CASE w # u
      <4>1. publisher'[w] = publisher[w] /\ Publishing(w)
        BY <1>2, <2>1, <3>2 DEF Publishing
      <4>2. /\ publisher[w].project \in Projects
            /\ publisher[w].batch \in 1 .. published[publisher[w].project]
            /\ \A m \in publisher[w].batch + 1 .. published[publisher[w].project] :
                 <<publisher[w].project, publisher[w].batch, m>> \in overlapped
        BY <4>1 DEF Faithful, Numbered
      <4>3. CASE publisher[w].project = p
        <5>1. <<p, publisher[w].batch, n>> \in overlapped'
          BY <1>3, <4>1, <4>3
        <5> QED BY <1>0, <1>1, <1>3, <4>1, <4>2, <4>3, <5>1
      <4>4. CASE publisher[w].project # p
        BY <1>0, <1>1, <1>3, <4>1, <4>2, <4>4
      <4> QED BY <4>3, <4>4
    <3> QED BY <3>1, <3>2
  <2>2. ASSUME NEW w \in Uploads, NEW x \in Uploads, Publishing(w)', Publishing(x)', w # x,
               publisher'[w].project = publisher'[x].project
        PROVE  publisher'[w].batch # publisher'[x].batch
    <3>1. ASSUME NEW y \in Uploads \ {u}, Publishing(y)', publisher'[y].project = p
          PROVE  publisher'[y].batch <= published[p] /\ publisher'[y].batch \in Int
      BY <3>1, <1>0, <1>2 DEF Faithful, Numbered, Publishing
    <3>2. CASE w = u \/ x = u
      BY <1>0, <1>2, <2>2, <3>1, <3>2
    <3>3. CASE w # u /\ x # u
      BY <1>2, <2>2, <3>3 DEF Faithful, Numbered, Publishing
    <3> QED BY <3>2, <3>3
  <2>3. ASSUME NEW w \in Uploads, NEW v \in publisher'[w].left
        PROVE  \A i \in 1 .. Len(Got(v)') : Got(v)'[i] # publisher'[w].batch
    <3>1. CASE w = u
      <4>1. v \in Viewers /\ viewer[v].project = p
        BY <1>2, <2>3, <3>1 DEF Matched, TypeOK
      <4>2. \A i \in 1 .. Len(Got(v)) : Got(v)[i] <= published[p] /\ Got(v)[i] \in Nat
        BY <1>a, <4>1 DEF Faithful, Bounded
      <4> QED BY <1>0, <1>2, <1>4, <3>1, <4>1, <4>2
    <3>2. CASE w # u
      <4>1. v \in Viewers /\ v \in publisher[w].left
        BY <1>0, <1>2, <2>3, <3>2 DEF PublisherType
      <4> QED BY <1>2, <1>4, <3>2, <4>1 DEF Faithful, Numbered
    <3> QED BY <3>1, <3>2
  <2> QED BY <2>1, <2>2, <2>3 DEF Numbered
<1>7. InOrder'
  BY <1>0, <1>3, <1>4 DEF Faithful, InOrder
<1>8. ASSUME NEW v \in Viewers, viewer'[v].pc = "streaming", ~viewer'[v].lossy
      PROVE  {Got(v)'[i] : i \in 1 .. Len(Got(v)')} \cup Coming(v)'
               = viewer'[v].joined + 1 .. published'[viewer'[v].project]
  <2>0. {Got(v)[i] : i \in 1 .. Len(Got(v))} \cup Coming(v)
           = viewer[v].joined + 1 .. published[viewer[v].project]
    BY <1>0, <1>8 DEF Faithful, Complete
  <2>1. v \in subscribers[p] <=> viewer[v].project = p
    BY <1>0, <1>8 DEF Matched, Faithful, Bounded
  <2>2. CASE viewer[v].project = p
    <3>1. Coming(v)' = Coming(v) \cup {n}
      BY <1>0, <1>2, <2>1, <2>2 DEF Coming, Publishing
    <3>2. viewer[v].joined + 1 .. n = (viewer[v].joined + 1 .. published[p]) \cup {n}
      BY <1>0, <1>8, <1>a, <2>2 DEF Faithful, Bounded
    <3> QED BY <1>0, <1>1, <1>4, <2>0, <2>2, <3>1, <3>2
  <2>3. CASE viewer[v].project # p
    <3>1. Coming(v)' = Coming(v)
      BY <1>0, <1>2, <2>1, <2>3 DEF Coming, Publishing
    <3>2. viewer[v].project \in Projects
      BY <1>0, <1>8 DEF Routed
    <3> QED BY <1>0, <1>1, <1>4, <2>0, <2>3, <3>1, <3>2
  <2> QED BY <2>2, <2>3
<1> QED BY <1>5, <1>6, <1>7, <1>8 DEF Faithful, Complete

\* A send: the batch is queued, in order but for the batches it overlapped, or the
\* buffer was full and the viewer has lost something.
LEMMA DeliverKeepsFaithful ==
  ASSUME TypeOK, Routed, Matched, Pinned, Faithful,
         NEW u \in Uploads, NEW v \in Viewers, Deliver(u, v)
  PROVE  Faithful'
<1> DEFINE n == publisher[u].batch
           p == publisher[u].project
<1>0. /\ chan \in [Viewers -> ChanType] /\ viewer \in [Viewers -> ViewerType]
      /\ publisher \in [Uploads -> PublisherType]
      /\ viewer[v].sent \in Seq(Nat) /\ chan[v].buf \in Seq(Nat) /\ n \in Nat
      /\ UNCHANGED <<subscribers, published, overlapped, server>>
      /\ Publishing(u) /\ v \in publisher[u].left
  BY DEF TypeOK, ChanType, ViewerType, PublisherType, Deliver, Publishing
<1>1. /\ p \in Projects /\ n \in 1 .. published[p]
      /\ viewer[v].project = p /\ viewer[v].pc \in {"streaming", "leaving"}
      /\ \A m \in n + 1 .. published[p] : <<p, n, m>> \in overlapped
      /\ \A i \in 1 .. Len(Got(v)) : Got(v)[i] # n
  <2>1. /\ p \in Projects /\ n \in 1 .. published[p]
        /\ \A m \in n + 1 .. published[p] : <<p, n, m>> \in overlapped
        /\ \A i \in 1 .. Len(Got(v)) : Got(v)[i] # n
    BY <1>0 DEF Faithful, Numbered
  <2>2. viewer[v].project = p /\ viewer[v].pc \in {"streaming", "leaving"}
    BY <1>0, <2>1 DEF Matched, Pinned
  <2> QED BY <2>1, <2>2
<1>2. \A w \in Uploads :
        /\ publisher'[w].project = publisher[w].project
        /\ publisher'[w].batch = publisher[w].batch
        /\ publisher'[w].left = IF w = u THEN publisher[w].left \ {v} ELSE publisher[w].left
  BY <1>0 DEF Deliver, PublisherType
<1>3. /\ \A w \in Viewers \ {v} : chan'[w] = chan[w] /\ viewer'[w] = viewer[w]
      /\ chan'[v].open = chan[v].open /\ chan'[v].buf = Queue(v, n)
      /\ viewer'[v].sent = viewer[v].sent /\ viewer'[v].pc = viewer[v].pc
      /\ viewer'[v].project = viewer[v].project /\ viewer'[v].joined = viewer[v].joined
      /\ viewer'[v].lossy <=> viewer[v].lossy \/ Len(chan[v].buf) >= BufferSize
  BY <1>0 DEF Deliver, ChanType, ViewerType
<1>4. \A w \in Viewers \ {v} : Got(w)' = Got(w)
  BY <1>3 DEF Got
<1>5. /\ Got(v) \in Seq(Nat) /\ Got(v)' \in Seq(Nat)
      /\ \A i \in 1 .. Len(Got(v)) : Got(v)'[i] = Got(v)[i]
      /\ \/ Len(Got(v)') = Len(Got(v)) /\ viewer'[v].lossy
         \/ Len(Got(v)') = Len(Got(v)) + 1 /\ Got(v)'[Len(Got(v)) + 1] = n
            /\ (viewer'[v].lossy <=> viewer[v].lossy)
  <2>0. BufferSize \in Nat
    BY LogBrokerAssumption
  <2>1. CASE Len(chan[v].buf) < BufferSize
    <3>1. Got(v)' = viewer[v].sent \o Append(chan[v].buf, n)
      BY <1>3, <2>1 DEF Got, Queue
    <3>2. ~(Len(chan[v].buf) >= BufferSize)
      BY <1>0, <2>0, <2>1
    <3>3. Append(chan[v].buf, n) \in Seq(Nat)
      BY <1>0
    <3>4. viewer[v].sent \o Append(chan[v].buf, n) \in Seq(Nat)
      BY <1>0, <3>3, TailGrown
    <3> DEFINE a == viewer[v].sent \o chan[v].buf
               b == viewer[v].sent \o Append(chan[v].buf, n)
    <3>5. /\ a \in Seq(Nat) /\ Len(b) = Len(a) + 1
          /\ \A i \in 1 .. Len(a) : b[i] = a[i]
          /\ b[Len(a) + 1] = n
      <4>1. PICK s \in Seq(Nat), c \in Seq(Nat), m \in Nat :
              s = viewer[v].sent /\ c = chan[v].buf /\ m = n
        BY <1>0
      <4> HIDE DEF n
      <4>2. /\ s \o c \in Seq(Nat) /\ Len(s \o Append(c, m)) = Len(s \o c) + 1
            /\ \A i \in 1 .. Len(s \o c) : (s \o Append(c, m))[i] = (s \o c)[i]
            /\ (s \o Append(c, m))[Len(s \o c) + 1] = m
        BY TailGrown
      <4>3. a = s \o c /\ b = s \o Append(c, m)
        BY <4>1
      <4> HIDE DEF a, b
      <4> QED BY <4>1, <4>2, <4>3
    <3>6. b \in Seq(Nat) /\ Got(v)' = b
      BY <3>1, <3>4
    <3>7. Got(v) = a
      BY DEF Got
    <3>8. viewer'[v].lossy <=> viewer[v].lossy
      BY <1>3, <3>2
    <3> HIDE DEF a, b
    <3> QED BY <3>5, <3>6, <3>7, <3>8
  <2>2. CASE ~(Len(chan[v].buf) < BufferSize)
    <3>1. Got(v)' = Got(v)
      BY <1>3, <2>2 DEF Got, Queue
    <3>0. Len(chan[v].buf) >= BufferSize
      BY <1>0, <2>0, <2>2
    <3>2. viewer'[v].lossy
      BY <1>3, <3>0
    <3> QED BY <1>0, <3>1, <3>2, TailGrown DEF Got
  <2> QED BY <2>1, <2>2
<1>6. \A i \in 1 .. Len(Got(v)') :
        i \in 1 .. Len(Got(v)) \/ (i = Len(Got(v)) + 1 /\ Got(v)'[i] = n)
  <2>1. Len(Got(v)) \in Nat
    BY <1>5
  <2>2. CASE Len(Got(v)') = Len(Got(v))
    BY <2>1, <2>2
  <2>3. CASE Len(Got(v)') = Len(Got(v)) + 1 /\ Got(v)'[Len(Got(v)) + 1] = n
    BY <2>1, <2>3
  <2> QED BY <1>5, <2>2, <2>3
<1>7. Bounded'
  <2>1. ASSUME NEW w \in Viewers
        PROVE  /\ \A i \in 1 .. Len(Got(w)') : Got(w)'[i] <= published[viewer[w].project]
               /\ viewer[w].pc \in {"idle", "connected"} => Got(w)' = <<>>
    <3>1. CASE w = v
      <4>1. \A i \in 1 .. Len(Got(v)) : Got(v)[i] <= published[p]
        BY <1>1 DEF Faithful, Bounded
      <4>2. ASSUME NEW i \in 1 .. Len(Got(v)')
            PROVE  Got(v)'[i] <= published[p]
        <5>0. n <= published[p]
          BY <1>1
        <5>1. CASE i \in 1 .. Len(Got(v))
          <6>1. Got(v)'[i] = Got(v)[i]
            BY <1>5, <5>1
          <6> QED BY <4>1, <5>1, <6>1
        <5>2. CASE i = Len(Got(v)) + 1 /\ Got(v)'[i] = n
          BY <5>0, <5>2
        <5> QED BY <1>6, <5>1, <5>2
      <4> QED BY <1>1, <3>1, <4>2
    <3>2. CASE w # v
      BY <1>4, <3>2 DEF Faithful, Bounded
    <3> QED BY <3>1, <3>2
  <2>2. ASSUME NEW w \in Viewers, viewer'[w].pc = "streaming"
        PROVE  /\ Up' => chan'[w].open
               /\ viewer'[w].joined <= published'[viewer'[w].project]
    <3>1. /\ viewer[w].pc = "streaming" /\ chan'[w].open = chan[w].open
          /\ viewer'[w].joined = viewer[w].joined
          /\ viewer'[w].project = viewer[w].project
      BY <1>3, <2>2
    <3> QED BY <1>0, <3>1 DEF Faithful, Bounded, Up
  <2>3. \A w \in Viewers : /\ viewer'[w].project = viewer[w].project
                           /\ viewer'[w].pc = viewer[w].pc
    BY <1>3
  <2> QED BY <1>0, <2>1, <2>2, <2>3 DEF Bounded
<1>8. Numbered'
  <2>0. \A w \in Uploads : Publishing(w)' => Publishing(w)
    BY <1>2 DEF Publishing
  <2>1. ASSUME NEW w \in Uploads, Publishing(w)'
        PROVE  /\ publisher'[w].project \in Projects
               /\ publisher'[w].batch \in 1 .. published'[publisher'[w].project]
               /\ \A m \in publisher'[w].batch + 1 .. published'[publisher'[w].project] :
                    <<publisher'[w].project, publisher'[w].batch, m>> \in overlapped'
    <3>1. /\ publisher[w].project \in Projects
          /\ publisher[w].batch \in 1 .. published[publisher[w].project]
          /\ \A m \in publisher[w].batch + 1 .. published[publisher[w].project] :
               <<publisher[w].project, publisher[w].batch, m>> \in overlapped
      BY <2>0, <2>1 DEF Faithful, Numbered
    <3>2. /\ publisher'[w].project = publisher[w].project
          /\ publisher'[w].batch = publisher[w].batch
          /\ published' = published /\ overlapped' = overlapped
      BY <1>0, <1>2
    <3> QED BY <3>1, <3>2
  <2>2. ASSUME NEW w \in Uploads, NEW x \in Uploads, Publishing(w)', Publishing(x)', w # x,
               publisher'[w].project = publisher'[x].project
        PROVE  publisher'[w].batch # publisher'[x].batch
    <3>1. /\ publisher'[w].batch = publisher[w].batch
          /\ publisher'[x].batch = publisher[x].batch
          /\ publisher[w].project = publisher[x].project
      BY <1>2, <2>2
    <3>2. Publishing(w) /\ Publishing(x)
      BY <2>0, <2>2
    <3>3. publisher[w].batch # publisher[x].batch
      BY <2>2, <3>1, <3>2 DEF Faithful, Numbered
    <3> QED BY <3>1, <3>3
  <2>3. ASSUME NEW w \in Uploads, NEW x \in publisher'[w].left
        PROVE  \A i \in 1 .. Len(Got(x)') : Got(x)'[i] # publisher'[w].batch
    <3>1. x \in Viewers /\ x \in publisher[w].left
      BY <1>0, <1>2 DEF PublisherType
    <3>2. \A i \in 1 .. Len(Got(x)) : Got(x)[i] # publisher[w].batch
      BY <3>1 DEF Faithful, Numbered
    <3>3. CASE x = v
      <4>1. w # u /\ Publishing(w)
        BY <1>2, <3>1, <3>3 DEF Publishing
      <4>2. publisher[w].project = p
        <5>1. publisher[w].project \in Projects
          BY <4>1 DEF Faithful, Numbered
        <5> QED BY <1>1, <3>1, <3>3, <5>1 DEF Matched, Pinned
      <4>3. publisher[w].batch # n
        BY <1>0, <4>1, <4>2 DEF Faithful, Numbered
      <4>4. ASSUME NEW i \in 1 .. Len(Got(v)')
            PROVE  Got(v)'[i] # publisher[w].batch
        <5>1. CASE i \in 1 .. Len(Got(v))
          <6>1. Got(v)'[i] = Got(v)[i]
            BY <1>5, <5>1
          <6> QED BY <3>2, <3>3, <5>1, <6>1
        <5>2. CASE i = Len(Got(v)) + 1 /\ Got(v)'[i] = n
          BY <4>3, <5>2
        <5> QED BY <1>6, <5>1, <5>2
      <4> QED BY <1>2, <3>3, <4>4
    <3>4. CASE x # v
      <4>1. Got(x)' = Got(x)
        BY <1>4, <3>1, <3>4
      <4>2. publisher'[w].batch = publisher[w].batch
        BY <1>2
      <4> QED BY <3>2, <4>1, <4>2
    <3> QED BY <3>3, <3>4
  <2> QED BY <2>1, <2>2, <2>3 DEF Numbered
<1>9. ASSUME NEW w \in Viewers, NEW i \in 1 .. Len(Got(w)'), NEW j \in 1 .. Len(Got(w)'), i < j
      PROVE  Got(w)'[i] < Got(w)'[j]
               \/ <<viewer'[w].project, Got(w)'[j], Got(w)'[i]>> \in overlapped'
  <2>1. CASE w # v
    BY <1>0, <1>3, <1>4, <1>9, <2>1 DEF Faithful, InOrder
  <2>2. CASE w = v /\ j \in 1 .. Len(Got(v))
    <3>1. i \in 1 .. Len(Got(v))
      BY <1>5, <1>9, <2>2
    <3> QED BY <1>0, <1>3, <1>5, <1>9, <2>2, <3>1 DEF Faithful, InOrder
  <2>3. CASE w = v /\ j = Len(Got(v)) + 1 /\ Got(v)'[j] = n
    <3>1. i \in 1 .. Len(Got(v))
      BY <1>5, <1>9, <2>3
    <3>2. Got(v)[i] \in Nat /\ Got(v)[i] # n /\ Got(v)[i] <= published[p]
      BY <1>1, <1>5, <3>1 DEF Faithful, Bounded
    <3>3. CASE Got(v)[i] < n
      BY <1>5, <2>3, <3>1, <3>3
    <3>4. CASE Got(v)[i] > n
      <4>1. Got(v)[i] \in n + 1 .. published[p]
        BY <1>0, <1>1, <3>2, <3>4
      <4> QED BY <1>0, <1>1, <1>3, <1>5, <2>3, <3>1, <4>1
    <3> QED BY <1>0, <3>2, <3>3, <3>4
  <2> QED BY <1>6, <2>1, <2>2, <2>3
<1>10. ASSUME NEW w \in Viewers, viewer'[w].pc = "streaming", ~viewer'[w].lossy
       PROVE  {Got(w)'[i] : i \in 1 .. Len(Got(w)')} \cup Coming(w)'
                = viewer'[w].joined + 1 .. published'[viewer'[w].project]
  <2>1. /\ viewer[w].pc = "streaming" /\ ~viewer[w].lossy
        /\ viewer'[w].joined = viewer[w].joined
        /\ viewer'[w].project = viewer[w].project
    BY <1>3, <1>5, <1>10
  <2>2. {Got(w)[i] : i \in 1 .. Len(Got(w))} \cup Coming(w)
          = viewer[w].joined + 1 .. published[viewer[w].project]
    BY <2>1 DEF Faithful, Complete
  <2>3. CASE w # v
    <3>0. \A x \in Uploads : w \in publisher'[x].left <=> w \in publisher[x].left
      BY <1>2, <2>3
    <3>1. Coming(w)' = Coming(w)
      BY <1>2, <3>0 DEF Coming
    <3>2. Got(w)' = Got(w) /\ published' = published
      BY <1>0, <1>4, <2>3
    <3>3. {Got(w)'[i] : i \in 1 .. Len(Got(w)')} = {Got(w)[i] : i \in 1 .. Len(Got(w))}
      BY <3>2, Zenon
    <3>4. viewer'[w].joined + 1 .. published'[viewer'[w].project]
            = viewer[w].joined + 1 .. published[viewer[w].project]
      BY <2>1, <3>2, Zenon
    <3> QED BY <2>2, <3>1, <3>3, <3>4, Zenon
  <2>4. CASE w = v
    <3>0. n \in Coming(v)
      BY <1>0 DEF Coming
    <3>a. \A m \in Coming(v)' : m \in Coming(v)
      BY <1>2 DEF Coming
    <3>b. ASSUME NEW x \in Uploads, v \in publisher[x].left
          PROVE  publisher[x].batch \in Coming(v)' \cup {n}
      <4>1. CASE x = u
        BY <4>1
      <4>2. CASE x # u
        BY <1>2, <3>b, <4>2 DEF Coming
      <4> QED BY <4>1, <4>2
    <3>1. Coming(v)' \cup {n} = Coming(v)
      BY <3>0, <3>a, <3>b DEF Coming
    <3>2. Len(Got(v)') = Len(Got(v)) + 1 /\ Got(v)'[Len(Got(v)) + 1] = n
      BY <1>5, <1>10, <2>4
    <3>3. {Got(v)'[i] : i \in 1 .. Len(Got(v)')}
            = {Got(v)[i] : i \in 1 .. Len(Got(v))} \cup {n}
      <4>1. /\ Len(Got(v)) \in Nat
            /\ \A i \in 1 .. Len(Got(v)) :
                 i \in 1 .. Len(Got(v)') /\ Got(v)'[i] = Got(v)[i]
            /\ Len(Got(v)) + 1 \in 1 .. Len(Got(v)')
        BY <1>5, <3>2
      <4>2. \A i \in 1 .. Len(Got(v)') :
              Got(v)'[i] = n \/ Got(v)'[i] \in {Got(v)[k] : k \in 1 .. Len(Got(v))}
        BY <1>6, <4>1
      <4>3. n \in {Got(v)'[i] : i \in 1 .. Len(Got(v)')}
        BY <3>2, <4>1
      <4>4. \A i \in 1 .. Len(Got(v)) :
              Got(v)[i] \in {Got(v)'[k] : k \in 1 .. Len(Got(v)')}
        BY <4>1
      <4> QED BY <4>2, <4>3, <4>4
    <3>4. {Got(v)'[i] : i \in 1 .. Len(Got(v)')} \cup Coming(v)'
            = {Got(v)[i] : i \in 1 .. Len(Got(v))} \cup Coming(v)
      BY <3>1, <3>3
    <3> QED BY <1>0, <2>1, <2>2, <2>4, <3>4
  <2> QED BY <2>3, <2>4
<1> QED BY <1>7, <1>8, <1>9, <1>10 DEF Faithful, InOrder, Complete

LEMMA FaithfulStep ==
  TypeOK /\ Routed /\ Matched /\ Pinned /\ Faithful /\ [Next]_vars => Faithful'
<1> SUFFICES ASSUME TypeOK, Routed, Matched, Pinned, Faithful, [Next]_vars
             PROVE  Faithful'
  OBVIOUS
<1>1. ASSUME UNCHANGED <<viewer, publisher, published, overlapped>>,
             Up' => Up,
             \A v \in Viewers : chan'[v].buf = chan[v].buf /\ (Up' => chan'[v].open = chan[v].open)
      PROVE  Faithful'
  <2>1. \A v \in Viewers : Got(v)' = Got(v) /\ Coming(v)' = Coming(v)
    BY <1>1 DEF Got, Coming
  <2>2. Bounded'
    BY <1>1, <2>1 DEF Faithful, Bounded
  <2>3. Numbered'
    BY <1>1, <2>1 DEF Faithful, Numbered, Publishing, TypeOK, PublisherType
  <2>4. InOrder' /\ Complete'
    BY <1>1, <2>1 DEF Faithful, InOrder, Complete
  <2> QED BY <2>2, <2>3, <2>4 DEF Faithful
<1>2. CASE Signal \/ Shutdown
  BY <1>1, <1>2 DEF Signal, Shutdown, Up
<1>3. CASE Close
  <2>1. \A v \in Viewers : chan'[v].buf = chan[v].buf
    BY <1>3 DEF Close, TypeOK, ChanType
  <2>2. ~Up' /\ UNCHANGED <<viewer, publisher, published, overlapped>>
    BY <1>3 DEF Close, Up
  <2> QED BY <1>1, <2>1, <2>2
<1>4. CASE UNCHANGED vars
  BY <1>1, <1>4 DEF vars, Up
<1> QED BY <1>2, <1>3, <1>4, ViewerSteps, PublishKeepsFaithful, DeliverKeepsFaithful DEF Next

LEMMA FaithfulInit == Init => Faithful
<1> SUFFICES ASSUME Init PROVE Faithful
  OBVIOUS
<1>1. \A v \in Viewers : Got(v) = <<>> /\ viewer[v].pc = "idle"
  BY DEF Init, Got
<1>2. \A u \in Uploads : publisher[u].left = {}
  BY DEF Init
<1> QED BY <1>1, <1>2 DEF Faithful, Bounded, Numbered, InOrder, Complete, Publishing

\* The live tail is faithful: no batch twice, order kept but for publications that
\* overlapped, and nothing missing unless the viewer's own buffer was full.
THEOREM TailSafe == Spec => []TailIsFaithful
<1>1. Init => Quiet /\ Matched /\ Pinned /\ Faithful
  BY FaithfulInit DEF Init, Quiet, Matched, Pinned
<1>2. TypeOK /\ Routed /\ Quiet /\ Matched /\ Pinned /\ Faithful /\ [Next]_vars
        => (Quiet /\ Matched /\ Pinned /\ Faithful)'
  BY QuietStep, MatchedStep, PinnedStep, FaithfulStep
<1> QED BY <1>1, <1>2, FaithfulIsProperty, BrokerTypes, PTL DEF Spec

-----------------------------------------------------------------------------
(* The log screens.  Sets, numbers and sequences.                          *)

\* Every set of subsets of a finite set has a smallest member: what stands in
\* for induction below.
LEMMA SmallestSubset ==
  ASSUME NEW S, IsFiniteSet(S), NEW W \in SUBSET (SUBSET S), W # {}
  PROVE  \E T \in W : \A U \in W : ~(U \subseteq T /\ U # T)
<1> DEFINE R == StrictSubsetOrdering(S)
           F == FiniteSubsetsOf(S)
<1>1. W \subseteq F
  BY FS_FiniteSubsetsOfFinite
<1>2. IsWellFoundedOn(R, F)
  BY FS_StrictSubsetOrderingWellFounded
<1>3. PICK T \in W : \A U \in W : <<U, T>> \notin R
  <2> HIDE DEF R, F
  <2> QED BY <1>1, <1>2, WFMin
<1>4. \A U \in W : ~(U \subseteq T /\ U # T)
  BY <1>3 DEF StrictSubsetOrdering
<1> QED BY <1>4

\* So has every set of numbers.
LEMMA SmallestNumber ==
  ASSUME NEW T, T \subseteq Nat, T # {}
  PROVE  \E x \in T : \A y \in T : x <= y
<1>1. PICK n \in T : TRUE
  OBVIOUS
<1> DEFINE S == 1..n
           W == {1..k : k \in {m \in T : m <= n}}
<1>2. W \in SUBSET (SUBSET S) /\ W # {}
  OBVIOUS
<1>3. IsFiniteSet(S)
  BY FS_Interval
<1>4. PICK D \in W : \A U \in W : ~(U \subseteq D /\ U # D)
  <2> HIDE DEF S, W
  <2> QED BY <1>2, <1>3, SmallestSubset
<1>5. PICK x \in T : x <= n /\ D = 1..x
  BY <1>4
<1>6. ASSUME NEW y \in T, y < x PROVE FALSE
  <2>1. 1..y \in W
    BY <1>5, <1>6
  <2>2. 1..y \subseteq D /\ x \in D /\ x \notin 1..y
    BY <1>5, <1>6
  <2> QED BY <1>4, <2>1, <2>2
<1> QED BY <1>6

LEMMA MinNumber ==
  ASSUME NEW T, T \subseteq Nat, T # {}
  PROVE  Min(T) \in T /\ \A y \in T : Min(T) <= y
BY SmallestNumber DEF Min

LEMMA MaxNumber ==
  ASSUME NEW n \in Nat, NEW T \in SUBSET (1..n), T # {}
  PROVE  Max(T) \in T /\ \A y \in T : y <= Max(T)
<1> DEFINE U == {n - t : t \in T}
<1>0. \A t \in T : t \in Nat /\ t <= n /\ n - t \in Nat
  OBVIOUS
<1>1. U \subseteq Nat /\ U # {}
  BY <1>0
<1>2. \E u \in U : \A v \in U : u <= v
  <2> HIDE DEF U
  <2> QED BY <1>1, SmallestNumber
<1>3. PICK t \in T : \A v \in U : n - t <= v
  BY <1>2
<1>4. \A y \in T : t >= y
  <2> SUFFICES ASSUME NEW y \in T PROVE t >= y
    OBVIOUS
  <2>1. n - t <= n - y
    BY <1>3
  <2> QED BY <1>0, <2>1
<1>5. \E x \in T : \A y \in T : x >= y
  BY <1>4
<1>6. Max(T) \in T /\ \A y \in T : Max(T) >= y
  BY <1>5 DEF Max
<1> QED BY <1>6

\* An injection between finite sets of one size reaches everything.
LEMMA InjectionIsOnto ==
  ASSUME NEW S, IsFiniteSet(S), NEW T, IsFiniteSet(T), Cardinality(S) = Cardinality(T),
         NEW f \in [S -> T], \A a, b \in S : f[a] = f[b] => a = b
  PROVE  \A t \in T : \E s \in S : f[s] = t
<1>1. f \in Injection(S, T)
  BY DEF Injection, IsInjective
<1>2. f \in Surjection(S, T)
  BY <1>1, FS_Injection
<1> QED BY <1>2 DEF Surjection

\* A finite set can be written down, each element once.
LEMMA Listing ==
  ASSUME NEW S, IsFiniteSet(S)
  PROVE  /\ Cardinality(S) \in Nat
         /\ \E f \in [1..Cardinality(S) -> S] :
              /\ \A i, j \in 1..Cardinality(S) : f[i] = f[j] => i = j
              /\ \A x \in S : \E i \in 1..Cardinality(S) : f[i] = x
<1>1. Cardinality(S) \in Nat /\ ExistsBijection(1..Cardinality(S), S)
  BY FS_CardinalityType
<1>2. PICK f \in Bijection(1..Cardinality(S), S) : TRUE
  BY <1>1 DEF ExistsBijection
<1>3. /\ f \in [1..Cardinality(S) -> S]
      /\ \A i, j \in 1..Cardinality(S) : f[i] = f[j] => i = j
      /\ \A x \in S : \E i \in 1..Cardinality(S) : f[i] = x
  BY <1>2 DEF Bijection, Injection, Surjection, IsInjective
<1> QED BY <1>1, <1>3

\* A finite set can be written down in any total order.
LEMMA Sorting ==
  ASSUME NEW S, IsFiniteSet(S), NEW R,
         \A x, y \in S : <<x, y>> \in R \/ <<y, x>> \in R,
         \A x, y, z \in S : <<x, y>> \in R /\ <<y, z>> \in R => <<x, z>> \in R
  PROVE  \E s \in SetToSeqs(S) : \A i, j \in DOMAIN s : i < j => <<s[i], s[j]>> \in R
<1> DEFINE n == Cardinality(S)
           D == 1..n
<1>1. n \in Nat
  BY Listing
<1>2. PICK e \in [D -> S] :
        /\ \A i, j \in D : e[i] = e[j] => i = j
        /\ \A x \in S : \E i \in D : e[i] = x
  BY Listing
<1> DEFINE Lt(i, j) == <<e[i], e[j]>> \in R /\ (<<e[j], e[i]>> \in R => i < j)
           Below(j) == {i \in D : i # j /\ Lt(i, j)}
           r == [j \in D |-> Cardinality(Below(j)) + 1]
<1>3. \A i, j \in D : i # j => Lt(i, j) \/ Lt(j, i)
  BY <1>1, <1>2
<1>4. \A i, j \in D : i # j => ~(Lt(i, j) /\ Lt(j, i))
  BY <1>1, <1>2
<1>5. \A i, j, k \in D : Lt(i, j) /\ Lt(j, k) => Lt(i, k)
  <2> SUFFICES ASSUME NEW i \in D, NEW j \in D, NEW k \in D, Lt(i, j), Lt(j, k)
               PROVE  Lt(i, k)
    OBVIOUS
  <2>1. e[i] \in S /\ e[j] \in S /\ e[k] \in S
    BY <1>2
  <2>2. <<e[i], e[k]>> \in R
    BY <2>1
  <2>3. <<e[k], e[i]>> \in R => i < k
    <3> SUFFICES ASSUME <<e[k], e[i]>> \in R PROVE i < k
      OBVIOUS
    <3>1. <<e[k], e[j]>> \in R /\ <<e[j], e[i]>> \in R
      BY <2>1
    <3>2. i < j /\ j < k
      BY <3>1
    <3> QED BY <3>2, <1>1
  <2> QED BY <2>2, <2>3
<1>6. IsFiniteSet(D) /\ Cardinality(D) = n
  BY <1>1, FS_Interval
<1>7. \A j \in D : Below(j) \in SUBSET D /\ IsFiniteSet(Below(j)) /\ Cardinality(Below(j)) \in Nat
  <2> SUFFICES ASSUME NEW j \in D
               PROVE  Below(j) \in SUBSET D /\ IsFiniteSet(Below(j)) /\ Cardinality(Below(j)) \in Nat
    OBVIOUS
  <2>1. Below(j) \in SUBSET D
    OBVIOUS
  <2> HIDE DEF Below, D
  <2> QED BY <2>1, <1>6, FS_Subset, FS_CardinalityType
<1>8. \A j \in D : Cardinality(Below(j)) < n
  <2> SUFFICES ASSUME NEW j \in D PROVE Cardinality(Below(j)) < n
    OBVIOUS
  <2>1. Below(j) # D /\ Below(j) \in SUBSET D
    OBVIOUS
  <2> HIDE DEF Below, D
  <2>2. Cardinality(Below(j)) <= Cardinality(D) /\ Cardinality(Below(j)) # Cardinality(D)
    BY <2>1, <1>6, FS_Subset
  <2> QED BY <2>2, <1>1, <1>6, <1>7
<1>9. \A i, j \in D : i # j /\ Lt(i, j) => Cardinality(Below(i)) < Cardinality(Below(j))
  <2> SUFFICES ASSUME NEW i \in D, NEW j \in D, i # j, Lt(i, j)
               PROVE  Cardinality(Below(i)) < Cardinality(Below(j))
    OBVIOUS
  <2>1. Below(i) \subseteq Below(j)
    <3> SUFFICES ASSUME NEW k \in Below(i) PROVE k \in Below(j)
      OBVIOUS
    <3>1. k \in D /\ k # i /\ Lt(k, i)
      OBVIOUS
    <3> HIDE DEF Lt
    <3>2. Lt(k, j) /\ k # j
      BY <3>1, <1>4, <1>5
    <3> QED BY <3>1, <3>2
  <2>2. i \in Below(j) /\ i \notin Below(i)
    OBVIOUS
  <2>3. Below(i) \in SUBSET Below(j) /\ Below(i) # Below(j)
    BY <2>1, <2>2
  <2> HIDE DEF Below, D
  <2>4. Cardinality(Below(i)) <= Cardinality(Below(j)) /\ Cardinality(Below(i)) # Cardinality(Below(j))
    BY <2>3, <1>7, FS_Subset
  <2> QED BY <2>4, <1>7
<1>10. r \in [D -> D]
  <2> SUFFICES ASSUME NEW j \in D PROVE Cardinality(Below(j)) + 1 \in D
    OBVIOUS
  <2> HIDE DEF Below
  <2> QED BY <1>1, <1>7, <1>8
<1>11. \A i, j \in D : r[i] = r[j] => i = j
  <2> SUFFICES ASSUME NEW i \in D, NEW j \in D, r[i] = r[j], i # j PROVE FALSE
    OBVIOUS
  <2>1. Cardinality(Below(i)) = Cardinality(Below(j))
    <3> HIDE DEF Below, D
    <3> QED BY <1>7
  <2> HIDE DEF Below, D, Lt, r
  <2> QED BY <2>1, <1>3, <1>7, <1>9
<1>12. \A k \in D : \E i \in D : r[i] = k
  <2> HIDE DEF D, r
  <2> QED BY <1>6, <1>10, <1>11, InjectionIsOnto
<1>13. \A i, j \in D : r[i] < r[j] => i # j /\ Lt(i, j)
  <2> SUFFICES ASSUME NEW i \in D, NEW j \in D, r[i] < r[j] PROVE i # j /\ Lt(i, j)
    OBVIOUS
  <2>1. Cardinality(Below(i)) < Cardinality(Below(j))
    <3> HIDE DEF Below, D
    <3> QED BY <1>7
  <2> HIDE DEF Below, D, Lt, r
  <2> QED BY <2>1, <1>3, <1>7, <1>9
<1> DEFINE q == [k \in D |-> CHOOSE i \in D : r[i] = k]
           s == [k \in D |-> e[q[k]]]
<1> HIDE DEF r, Below
<1>14. \A k \in D : q[k] \in D /\ r[q[k]] = k
  BY <1>12
<1> HIDE DEF q
<1>15. s \in [D -> S] /\ DOMAIN s = D
  BY <1>2, <1>14
<1>16. \A i, j \in D : i # j => s[i] # s[j]
  BY <1>2, <1>14
<1>17. \A i, j \in D : i < j => <<s[i], s[j]>> \in R
  <2> SUFFICES ASSUME NEW i \in D, NEW j \in D, i < j PROVE <<s[i], s[j]>> \in R
    OBVIOUS
  <2>1. Lt(q[i], q[j])
    <3> HIDE DEF Lt
    <3> QED BY <1>13, <1>14
  <2> QED BY <2>1
<1>18. s \in SetToSeqs(S)
  BY <1>15, <1>16 DEF SetToSeqs
<1> QED BY <1>15, <1>17, <1>18

Unread == [ok |-> TRUE, filter |-> NoFilter]

\* A query is read token by token.
LEMMA ParseSteps ==
  ASSUME NEW X, NEW q \in Seq(X)
  PROVE  \E r : /\ r[0] = Unread
                /\ \A i \in 1..Len(q) : r[i] = ReadToken(r[i - 1], q[i])
                /\ ReadTokens(q) = r[Len(q)]
<1> DEFINE n == Len(q)
           D == 1..n
           Rec(g, s) == IF s = {} THEN Unread ELSE ReadToken(g[s \ {Max(s)}], q[Max(s)])
           Good(T) == \E g : g = [s \in SUBSET T |-> Rec(g, s)]
<1>1. n \in Nat /\ DOMAIN q = D
  BY LenProperties
<1>2. IsFiniteSet(D)
  BY <1>1, FS_Interval
<1>3. Good(D)
  <2> DEFINE W == {T \in SUBSET D : ~Good(T)}
  <2> SUFFICES ASSUME W # {} PROVE FALSE
    OBVIOUS
  <2>1. PICK T \in W : \A U \in W : ~(U \subseteq T /\ U # T)
    <3>1. W \in SUBSET (SUBSET D)
      OBVIOUS
    <3> HIDE DEF W, D
    <3> QED BY <1>2, <3>1, SmallestSubset
  <2>2. T \in SUBSET D /\ ~Good(T)
    OBVIOUS
  <2>3. T # {}
    <3> SUFFICES ASSUME T = {} PROVE FALSE
      OBVIOUS
    <3> DEFINE g == [s \in SUBSET T |-> Unread]
    <3>1. g = [s \in SUBSET T |-> Rec(g, s)]
      BY Zenon
    <3> QED BY <2>2, <3>1
  <2> DEFINE m == Max(T)
             V == T \ {m}
  <2>4. m \in T /\ \A y \in T : y <= m
    BY <1>1, <2>2, <2>3, MaxNumber
  <2>5. Good(V)
    <3>1. V \subseteq T /\ V # T /\ V \in SUBSET D
      BY <2>2, <2>4
    <3>2. V \notin W
      BY <2>1, <3>1
    <3> HIDE DEF Good, V
    <3> QED BY <3>1, <3>2
  <2>6. PICK g : g = [s \in SUBSET V |-> Rec(g, s)]
    BY <2>5
  <2> DEFINE h == [s \in SUBSET T |-> IF m \in s THEN ReadToken(g[s \ {m}], q[m]) ELSE g[s]]
  <2>7. \A s \in SUBSET T : h[s] = Rec(h, s)
    <3> SUFFICES ASSUME NEW s \in SUBSET T PROVE h[s] = Rec(h, s)
      OBVIOUS
    <3>1. CASE m \in s
      <4>1. Max(s) = m
        <5>1. Max(s) \in s /\ \A y \in s : y <= Max(s)
          BY <1>1, <2>2, <3>1, MaxNumber
        <5>2. Max(s) \in T /\ m \in D /\ Max(s) \in D
          BY <5>1, <2>4, <2>2
        <5>3. Max(s) <= m /\ m <= Max(s)
          BY <5>1, <5>2, <3>1, <2>4
        <5> HIDE DEF m
        <5> QED BY <5>2, <5>3
      <4>2. s \ {m} \in SUBSET T /\ s \ {m} \in SUBSET V /\ m \notin s \ {m}
        OBVIOUS
      <4>3. h[s \ {m}] = g[s \ {m}]
        BY <4>2
      <4>4. h[s] = ReadToken(g[s \ {m}], q[m])
        BY <3>1
      <4> HIDE DEF h, V, m
      <4> QED BY <3>1, <4>1, <4>3, <4>4
    <3>2. CASE m \notin s
      <4>1. s \in SUBSET V
        BY <3>2
      <4>2. g[s] = Rec(g, s)
        <5> HIDE DEF Rec, V
        <5> QED BY <2>6, <4>1
      <4>3. h[s] = g[s]
        BY <3>2
      <4>4. s # {} => h[s \ {Max(s)}] = g[s \ {Max(s)}]
        <5>1. s \ {Max(s)} \in SUBSET T /\ m \notin s \ {Max(s)}
          BY <3>2
        <5> QED BY <5>1
      <4> HIDE DEF h, V, m
      <4> QED BY <4>2, <4>3, <4>4
    <3> QED BY <3>1, <3>2
  <2>8. h = [s \in SUBSET T |-> Rec(h, s)]
    <3>1. h = [s \in SUBSET T |-> h[s]]
      OBVIOUS
    <3> HIDE DEF h, Rec
    <3> QED BY <3>1, <2>7, Zenon
  <2> HIDE DEF h, Rec, V, m
  <2> QED BY <2>2, <2>8
<1> DEFINE iter == CHOOSE g : g = [s \in SUBSET D |-> Rec(g, s)]
<1>4. iter = [s \in SUBSET D |-> Rec(iter, s)]
  <2> HIDE DEF Rec, D
  <2> QED BY <1>3
<1>5. ReadTokens(q) = iter[D]
  BY <1>1 DEF ReadTokens, FoldLeft, MapThenFoldSet, Unread
<1> HIDE DEF iter
<1> DEFINE r == [i \in 0..n |-> iter[1..i]]
<1>6. r[0] = Unread
  <2>1. 1..0 = {} /\ {} \in SUBSET D
    OBVIOUS
  <2>2. iter[{}] = Unread
    BY <1>4, <2>1
  <2> QED BY <1>1, <2>1, <2>2
<1>7. ASSUME NEW i \in D PROVE r[i] = ReadToken(r[i - 1], q[i])
  <2>1. i \in Nat /\ i - 1 \in 0..n /\ i \in 0..n
    BY <1>1
  <2> DEFINE s == 1..i
  <2>2. s \in SUBSET D /\ i \in s /\ s \ {i} = 1..(i - 1)
    BY <1>1
  <2>3. Max(s) = i
    <3>1. Max(s) \in s /\ \A y \in s : y <= Max(s)
      <4> HIDE DEF s, D
      <4> QED BY <1>1, <2>2, MaxNumber DEF D
    <3>2. Max(s) \in Nat /\ Max(s) <= i /\ i <= Max(s)
      BY <3>1, <2>1
    <3> QED BY <3>2, <2>1
  <2>4. iter[s] = ReadToken(iter[s \ {i}], q[i])
    <3>1. iter[s] = Rec(iter, s)
      <4> HIDE DEF Rec
      <4> QED BY <1>4, <2>2
    <3> HIDE DEF s
    <3> QED BY <3>1, <2>2, <2>3
  <2> QED BY <2>1, <2>2, <2>4
<1>8. ReadTokens(q) = r[n]
  BY <1>1, <1>5
<1> HIDE DEF r
<1> QED BY <1>6, <1>7, <1>8

IsRead(r) == r \in [ok : BOOLEAN, filter : Filters] /\ IsFilter(r.filter)

LEMMA NoFilterType == IsFilter(NoFilter)
BY FS_EmptySet DEF NoFilter, IsFilter, Filters

LEMMA UnreadType == IsRead(Unread)
BY NoFilterType DEF Unread, IsRead, IsFilter

LEMMA ReadTokenType ==
  ASSUME NEW r, IsRead(r), NEW t \in Tokens
  PROVE  IsRead(ReadToken(r, t))
<1> DEFINE f == r.filter
           with(field, value) == [r EXCEPT !.filter[field] = value]
<1>1. r \in [ok : BOOLEAN, filter : Filters] /\ f \in Filters
      /\ IsFiniteSet(f.tags) /\ IsFiniteSet(f.hidden)
  BY DEF IsRead, IsFilter
<1>2. t.words \in Values /\ t.words \in Seq(Words) /\ t.neg \in BOOLEAN /\ t.lead \in BOOLEAN
  BY DEF Tokens, Values
<1>3. IsRead(Refused)
  BY NoFilterType DEF Refused, IsRead, IsFilter
<1>4. IsRead(with("text", f.text \o t.words))
  <2>1. f.text \o t.words \in Seq(Words)
    BY <1>1, <1>2, ConcatProperties DEF Filters
  <2> QED BY <1>1, <2>1 DEF IsRead, IsFilter, Filters
<1>5. t.words[1] \in Levels => IsRead(with("levels", f.levels \cup {t.words[1]}))
  BY <1>1 DEF IsRead, IsFilter, Filters
<1>6. IsFiniteSet(f.hidden \cup {t.words}) /\ IsFiniteSet(f.tags \cup {t.words})
  BY <1>1, FS_AddElement
<1>7. IsRead(with("hidden", f.hidden \cup {t.words}))
  BY <1>1, <1>2, <1>6 DEF IsRead, IsFilter, Filters
<1>8. IsRead(with("tags", f.tags \cup {t.words}))
  BY <1>1, <1>2, <1>6 DEF IsRead, IsFilter, Filters
<1>9. t.words[1] \in Labels => IsRead(with("last", t.words[1]))
  BY <1>1 DEF IsRead, IsFilter, Filters
<1>10. IsRead(with("network", TRUE))
  BY <1>1 DEF IsRead, IsFilter, Filters
<1>11. IsRead(with("print", t.words)) /\ IsRead(with("user", t.words))
  BY <1>1, <1>2 DEF IsRead, IsFilter, Filters
<1> HIDE DEF with
<1>12. \/ ReadToken(r, t) \in {r, Refused, with("text", f.text \o t.words),
            with("hidden", f.hidden \cup {t.words}), with("tags", f.tags \cup {t.words}),
            with("network", TRUE), with("print", t.words), with("user", t.words)}
       \/ t.words[1] \in Levels /\ ReadToken(r, t) = with("levels", f.levels \cup {t.words[1]})
       \/ t.words[1] \in Labels /\ ReadToken(r, t) = with("last", t.words[1])
  BY DEF ReadToken, with
<1> QED BY <1>3, <1>4, <1>5, <1>7, <1>8, <1>9, <1>10, <1>11, <1>12

\* What has been read after any number of steps.
LEMMA ReadsType ==
  ASSUME NEW q \in Seq(Tokens), NEW r, r[0] = Unread,
         \A i \in 1..Len(q) : r[i] = ReadToken(r[i - 1], q[i])
  PROVE  \A i \in 0..Len(q) : IsRead(r[i])
<1> DEFINE W == {i \in 0..Len(q) : ~IsRead(r[i])}
<1> SUFFICES ASSUME W # {} PROVE FALSE
  OBVIOUS
<1>1. PICK i \in W : \A j \in W : i <= j
  <2>1. W \subseteq Nat
    BY LenProperties
  <2> HIDE DEF W
  <2> QED BY <2>1, SmallestNumber
<1>2. i \in 0..Len(q) /\ ~IsRead(r[i])
  OBVIOUS
<1>3. i # 0
  BY <1>2, UnreadType
<1>4. i \in 1..Len(q) /\ i - 1 \in 0..Len(q) /\ i - 1 < i
  BY <1>2, <1>3, LenProperties
<1>5. IsRead(r[i - 1])
  BY <1>1, <1>4
<1>6. q[i] \in Tokens
  BY <1>4, ElementOfSeq
<1> QED BY <1>2, <1>4, <1>5, <1>6, ReadTokenType

LEMMA ReadTokensType ==
  ASSUME NEW q \in Seq(Tokens)
  PROVE  IsRead(ReadTokens(q))
<1>1. PICK r : /\ r[0] = Unread
               /\ \A i \in 1..Len(q) : r[i] = ReadToken(r[i - 1], q[i])
               /\ ReadTokens(q) = r[Len(q)]
  BY ParseSteps
<1>2. Len(q) \in 0..Len(q)
  BY LenProperties
<1> QED BY <1>1, <1>2, ReadsType

\* Whatever loose words are taken for, a query reads as a filter or as an error.
LEMMA ParseStrayType == ASSUME NEW q PROVE IsRead(ParseStray(q))
<1> DEFINE g == Garbled(q)
<1>1. CASE IsFilter(g)
  <2>1. ParseStray(q) = [ok |-> TRUE, filter |-> g]
    BY <1>1 DEF ParseStray
  <2> HIDE DEF g
  <2> QED BY <1>1, <2>1 DEF IsRead, IsFilter
<1>2. CASE ~IsFilter(g)
  <2>1. ParseStray(q) = Refused
    BY <1>2 DEF ParseStray
  <2> QED BY <2>1, NoFilterType DEF Refused, IsRead, IsFilter
<1> QED BY <1>1, <1>2

LEMMA ParseType ==
  ASSUME NEW q \in Seq(Tokens)
  PROVE  IsRead(Parse(q))
<1>1. Parse(q) \in {ParseStray(q), ReadTokens(q)}
  BY Zenon DEF Parse
<1> QED BY <1>1, ReadTokensType, ParseStrayType

LEMMA ParseEmpty == Parse(<<>>) = Unread
<1>1. <<>> \in Seq(Tokens) /\ Len(<<>>) = 0 /\ DOMAIN <<>> = {}
  BY EmptySeq
<1>2. PICK r : r[0] = Unread /\ ReadTokens(<<>>) = r[Len(<<>>)]
  BY <1>1, ParseSteps
<1>3. Strays(<<>>) = FALSE
  BY <1>1 DEF Strays
<1>4. Parse(<<>>) = ReadTokens(<<>>)
  BY <1>3, Zenon DEF Parse
<1> QED BY <1>1, <1>2, <1>4

\* The fields, and a token that is no loose word.
Known == Names \ {"stray", "stray tag"}
Whole(t) == t.field \notin {"stray", "stray tag"}

LEMMA WholeToken ==
  ASSUME NEW lead, NEW neg, NEW words,
         NEW field \in Known \cup {Nil}
  PROVE  Whole(Token(lead, neg, field, words))
<1>1. "stray" \in Names /\ "stray tag" \in Names /\ Nil \notin Names
  BY LogScreensAssumption DEF Names
<1>2. Token(lead, neg, field, words).field = field
  BY DEF Token
<1> QED BY <1>1, <1>2 DEF Whole, Known

LEMMA ParseOne ==
  ASSUME NEW t \in Tokens, Whole(t)
  PROVE  Parse(<<t>>) = ReadToken(Unread, t)
<1>1. <<t>> \in Seq(Tokens) /\ Len(<<t>>) = 1 /\ <<t>>[1] = t /\ DOMAIN <<t>> = {1}
  OBVIOUS
<1> DEFINE q == <<t>>
<1>2. PICK r : /\ r[0] = Unread /\ ReadTokens(q) = r[Len(q)]
               /\ \A i \in 1..Len(q) : r[i] = ReadToken(r[i - 1], q[i])
  BY <1>1, ParseSteps
<1>3. r[1] = ReadToken(r[0], q[1])
  BY <1>1, <1>2
<1>4. Strays(q) = FALSE
  BY <1>1 DEF Strays, Whole
<1>5. Parse(q) = ReadTokens(q)
  BY <1>4, Zenon DEF Parse
<1> QED BY <1>1, <1>2, <1>3, <1>5

\* A function on 1..n is a sequence, and a sequence into a set is one into a larger set.
LEMMA IntoSeq ==
  ASSUME NEW X, NEW n \in Nat, NEW s \in [1..n -> X]
  PROVE  s \in Seq(X) /\ Len(s) = n
<1>1. s \in Seq(X)
  <2>1. [1..n -> X] \in {[1..k -> X] : k \in Nat}
    BY Zenon
  <2> QED BY <2>1, SeqDef, Zenon
<1>2. Len(s) \in Nat /\ DOMAIN s = 1..Len(s) /\ DOMAIN s = 1..n
  BY <1>1, LenProperties
<1> QED BY <1>1, <1>2

LEMMA SeqGrows ==
  ASSUME NEW X, NEW Y, NEW s \in Seq(X), \A i \in 1..Len(s) : s[i] \in Y
  PROVE  s \in Seq(Y)
<1>1. Len(s) \in Nat /\ s \in [1..Len(s) -> X]
  BY LenProperties
<1>2. s \in [1..Len(s) -> Y]
  BY <1>1
<1> QED BY <1>1, <1>2, IntoSeq

LEMMA OneElement ==
  ASSUME NEW X, NEW x \in X
  PROVE  <<x>> \in Seq(X) /\ <<x>> # <<>> /\ Len(<<x>>) = 1 /\ <<x>>[1] = x
OBVIOUS

LEMMA TokenType ==
  ASSUME NEW lead \in BOOLEAN, NEW neg \in BOOLEAN, NEW field \in Names \cup {Nil},
         NEW words \in Values
  PROVE  Token(lead, neg, field, words) \in Tokens
BY DEF Token, Tokens

LEMMA WordType ==
  ASSUME NEW w \in Words
  PROVE  Word(w) \in Tokens
<1>1. <<w>> \in Values
  BY OneElement DEF Values
<1>2. (w \in Dashed) \in BOOLEAN
  OBVIOUS
<1>3. (IF w \in Odd THEN "stray" ELSE Nil) \in Names \cup {Nil}
  <2>1. "stray" \in Names
    BY DEF Names
  <2> QED BY <2>1, Zenon
<1> QED BY <1>1, <1>2, <1>3, TokenType DEF Word

\* What Query writes.
LEMMA UnquotedType ==
  ASSUME NEW neg \in BOOLEAN, NEW name \in Names, NEW value \in Values
  PROVE  Unquoted(neg, name, value) \in Seq(Tokens) \ {<<>>}
<1>1. value \in Seq(Words) /\ value # <<>> /\ Len(value) \in Nat \ {0}
  BY EmptySeq DEF Values
<1>2. <<Head(value)>> \in Values
  BY <1>1, HeadTailProperties DEF Values
<1> DEFINE field == IF Head(value) \in Torn THEN "stray tag" ELSE name
<1>3. Token(FALSE, neg, field, <<Head(value)>>) \in Tokens
  <2>1. "stray tag" \in Names
    BY DEF Names
  <2>2. field \in Names \cup {Nil}
    BY <2>1, Zenon
  <2> HIDE DEF field
  <2> QED BY <1>2, <2>2, TokenType
<1>4. ASSUME NEW i \in 1..(Len(value) - 1) PROVE Word(value[i + 1]) \in Tokens
  <2>1. value[i + 1] \in Words
    BY <1>1, ElementOfSeq
  <2> QED BY <2>1, WordType
<1> DEFINE a == <<Token(FALSE, neg, field, <<Head(value)>>)>>
           b == [i \in 1..(Len(value) - 1) |-> Word(value[i + 1])]
<1>5. a \in Seq(Tokens) /\ a # <<>> /\ Len(a) = 1
  <2> DEFINE t == Token(FALSE, neg, field, <<Head(value)>>)
  <2>1. t \in Tokens
    BY <1>3
  <2> HIDE DEF t
  <2> QED BY <2>1, OneElement DEF a, t
<1>6. b \in Seq(Tokens)
  <2>1. Len(value) - 1 \in Nat
    BY <1>1
  <2>2. b \in [1..(Len(value) - 1) -> Tokens]
    BY <1>4
  <2> HIDE DEF b
  <2> QED BY <2>1, <2>2, IntoSeq
<1> HIDE DEF a, b
<1>7. a \o b \in Seq(Tokens) /\ Len(a \o b) = Len(a) + Len(b) /\ Len(b) \in Nat
  BY <1>5, <1>6, ConcatProperties, LenProperties
<1>8. a \o b # <<>>
  BY <1>5, <1>7, EmptySeq
<1> QED BY <1>7, <1>8 DEF Unquoted, a, b

LEMMA QuoteValueType ==
  ASSUME NEW name \in Names \cup {Nil}, NEW value \in Values
  PROVE  QuoteValue(name, value) \in Seq(Tokens) \ {<<>>}
<1>1. value \in Seq(Words) /\ value # <<>> /\ Len(value) \in Nat \ {0}
  BY EmptySeq DEF Values
<1>2. value[1] \in Words
  BY <1>1, ElementOfSeq
<1>4. \A b \in BOOLEAN : Token(b, FALSE, name, value) \in Tokens
  BY TokenType
<1>5. Word(value[1]) \in Tokens
  BY <1>2, WordType
<1>6. \E t \in Tokens : QuoteValue(name, value) = <<t>>
  BY <1>4, <1>5 DEF QuoteValue
<1> QED BY <1>6

\* g[i]: the first i sequences, one after the other.
LaidEndToEnd(X, n, seqs, g) ==
  /\ FlattenSeq(seqs) = g[n]
  /\ \A i \in 1..n : /\ g[i] \in Seq(X) \ {<<>>}
                     /\ g[i] = IF i = 1 THEN seqs[i] ELSE g[i - 1] \o seqs[i]

LEMMA FlattenSteps ==
  ASSUME NEW X, NEW n \in Nat \ {0}, NEW seqs \in [1..n -> Seq(X) \ {<<>>}]
  PROVE  \E g : LaidEndToEnd(X, n, seqs, g)
<1>a. seqs \in Seq(Seq(X)) /\ Len(seqs) = n /\ n \in Nat
  <2>1. seqs \in [1..n -> Seq(X)]
    OBVIOUS
  <2> QED BY <2>1, IntoSeq
<1> DEFINE D == 1..n
           Rec(g, i) == IF i = 1 THEN seqs[i] ELSE g[i - 1] \o seqs[i]
           Good(m) == \E g : /\ g = [i \in 1..m |-> Rec(g, i)]
                             /\ \A i \in 1..m : g[i] \in Seq(X) \ {<<>>}
<1>1. Good(n)
  <2> DEFINE W == {m \in 0..n : ~Good(m)}
  <2>0. n \notin W => Good(n)
    <3> HIDE DEF Good
    <3> QED OBVIOUS
  <2> SUFFICES ASSUME n \in W PROVE FALSE
    BY <2>0
  <2>1. PICK m \in W : \A k \in W : m <= k
    <3> HIDE DEF Good
    <3>1. W \subseteq Nat /\ W # {}
      BY <1>a
    <3> HIDE DEF W
    <3> QED BY <3>1, SmallestNumber
  <2>2. m \in 0..n /\ ~Good(m)
    OBVIOUS
  <2>3. m # 0
    <3> SUFFICES ASSUME m = 0 PROVE FALSE
      OBVIOUS
    <3> DEFINE g == [i \in 1..0 |-> <<>>]
    <3>1. 1..0 = {}
      OBVIOUS
    <3>2. g = [i \in 1..0 |-> Rec(g, i)]
      BY <3>1
    <3>3. \A i \in 1..0 : g[i] \in Seq(X) \ {<<>>}
      BY <3>1
    <3> HIDE DEF g, Rec
    <3> QED BY <2>2, <3>2, <3>3
  <2>4. Good(m - 1)
    <3>1. m - 1 \in 0..n /\ m - 1 < m
      BY <2>2, <2>3
    <3> HIDE DEF Good
    <3>2. m - 1 \notin W
      BY <2>1, <2>2, <3>1
    <3> QED BY <3>1, <3>2
  <2>5. PICK g : /\ g = [i \in 1..(m - 1) |-> Rec(g, i)]
                 /\ \A i \in 1..(m - 1) : g[i] \in Seq(X) \ {<<>>}
    BY <2>4
  <2> DEFINE h == [i \in 1..m |-> IF i = m THEN Rec(g, m) ELSE g[i]]
  <2>6. \A i \in 1..(m - 1) : g[i] = Rec(g, i)
    <3> HIDE DEF Rec
    <3> QED BY <2>5
  <2>7. \A i \in 1..m : h[i] = Rec(h, i)
    <3> SUFFICES ASSUME NEW i \in 1..m PROVE h[i] = Rec(h, i)
      OBVIOUS
    <3>1. CASE i = m
      <4>1. m # 1 => m - 1 \in 1..m /\ m - 1 # m
        BY <2>2, <2>3
      <4>2. m # 1 => h[m - 1] = g[m - 1]
        BY <4>1
      <4> QED BY <3>1, <4>2
    <3>2. CASE i # m
      <4>1. i \in 1..(m - 1)
        BY <2>2, <3>2
      <4>2. i # 1 => i - 1 \in 1..m /\ i - 1 # m
        BY <2>2, <3>2
      <4>3. i # 1 => h[i - 1] = g[i - 1]
        BY <4>2
      <4>4. h[i] = g[i]
        BY <3>2
      <4> QED BY <2>6, <4>1, <4>3, <4>4
    <3> QED BY <3>1, <3>2
  <2>8. h = [i \in 1..m |-> Rec(h, i)]
    <3>1. h = [i \in 1..m |-> h[i]]
      OBVIOUS
    <3> HIDE DEF h, Rec
    <3> QED BY <3>1, <2>7, Zenon
  <2>9. \A i \in 1..m : h[i] \in Seq(X) \ {<<>>}
    <3>1. seqs[m] \in Seq(X) \ {<<>>}
      BY <2>2, <2>3
    <3>2. CASE m = 1
      BY <3>1, <3>2
    <3>3. CASE m # 1
      <4>1. m - 1 \in 1..(m - 1)
        BY <2>2, <2>3, <3>3
      <4>2. g[m - 1] \in Seq(X) \ {<<>>}
        BY <2>5, <4>1
      <4>3. g[m - 1] \o seqs[m] \in Seq(X) \ {<<>>}
        BY <3>1, <4>2, ConcatProperties, LenProperties, EmptySeq
      <4>4. \A i \in 1..m : i # m => i \in 1..(m - 1)
        BY <2>2
      <4> QED BY <2>5, <3>3, <4>3, <4>4
    <3> QED BY <3>2, <3>3
  <2> HIDE DEF h, Rec
  <2> QED BY <2>2, <2>8, <2>9
<1> DEFINE flatten == CHOOSE g : g = [i \in 1..n |-> Rec(g, i)]
<1>2. flatten = [i \in 1..n |-> Rec(flatten, i)]
  <2> HIDE DEF Rec
  <2> QED BY <1>1
<1>3. FlattenSeq(seqs) = flatten[n]
  BY <1>a DEF FlattenSeq
<1> HIDE DEF flatten
<1>4. \A i \in 1..n : flatten[i] \in Seq(X) \ {<<>>}
  <2> DEFINE W == {i \in 1..n : flatten[i] \notin Seq(X) \ {<<>>}}
  <2> SUFFICES ASSUME W # {} PROVE FALSE
    OBVIOUS
  <2>1. PICK i \in W : \A j \in W : i <= j
    <3>1. W \subseteq Nat
      OBVIOUS
    <3> HIDE DEF W
    <3> QED BY <3>1, SmallestNumber
  <2>2. i \in 1..n /\ flatten[i] \notin Seq(X) \ {<<>>} /\ seqs[i] \in Seq(X) \ {<<>>}
    OBVIOUS
  <2>3. flatten[i] = Rec(flatten, i)
    <3> HIDE DEF Rec
    <3> QED BY <1>2, <2>2
  <2>4. i # 1
    BY <2>2, <2>3
  <2>5. i - 1 \in 1..n /\ i - 1 < i
    BY <2>2, <2>4
  <2>6. flatten[i - 1] \in Seq(X) \ {<<>>}
    BY <2>1, <2>5
  <2>7. flatten[i - 1] \o seqs[i] \in Seq(X) \ {<<>>}
    BY <2>2, <2>6, ConcatProperties, LenProperties, EmptySeq
  <2> QED BY <2>2, <2>3, <2>4, <2>7
<1>5. \A i \in 1..n : flatten[i] = IF i = 1 THEN seqs[i] ELSE flatten[i - 1] \o seqs[i]
  BY <1>2
<1> HIDE DEF Rec, D, Good
<1>6. LaidEndToEnd(X, n, seqs, flatten)
  BY <1>3, <1>4, <1>5 DEF LaidEndToEnd
<1> QED BY <1>6

LEMMA FlattenType ==
  ASSUME NEW X, NEW n \in Nat, NEW seqs \in [1..n -> Seq(X) \ {<<>>}]
  PROVE  /\ FlattenSeq(seqs) \in Seq(X)
         /\ n > 0 => FlattenSeq(seqs) # <<>>
         /\ n = 0 => FlattenSeq(seqs) = <<>>
<1>1. CASE n = 0
  <2>1. seqs \in [1..n -> Seq(X)]
    OBVIOUS
  <2>2. seqs \in Seq(Seq(X)) /\ Len(seqs) = n
    BY <2>1, IntoSeq
  <2>3. seqs = <<>>
    BY <1>1, <2>2, EmptySeq
  <2>4. FlattenSeq(seqs) = <<>>
    BY <1>1, <2>2, <2>3 DEF FlattenSeq
  <2> QED BY <1>1, <2>4, EmptySeq
<1>2. CASE n # 0
  <2>1. n \in 1..n
    BY <1>2
  <2>2. PICK g : LaidEndToEnd(X, n, seqs, g)
    BY <1>2, FlattenSteps
  <2>3. FlattenSeq(seqs) = g[n] /\ \A i \in 1..n : g[i] \in Seq(X) \ {<<>>}
    BY <2>2 DEF LaidEndToEnd
  <2> QED BY <1>2, <2>1, <2>3
<1> QED BY <1>1, <1>2

LEMMA SetToSeqType ==
  ASSUME NEW S, IsFiniteSet(S)
  PROVE  /\ Cardinality(S) \in Nat
         /\ SetToSeq(S) \in [1..Cardinality(S) -> S]
         /\ \A i, j \in 1..Cardinality(S) : SetToSeq(S)[i] = SetToSeq(S)[j] => i = j
         /\ \A x \in S : \E i \in 1..Cardinality(S) : SetToSeq(S)[i] = x
<1> DEFINE n == Cardinality(S)
           f == SetToSeq(S)
<1>1. n \in Nat
  BY Listing
<1>2. \E g \in [1..n -> S] : IsInjective(g)
  BY Listing DEF IsInjective
<1>3. f \in [1..n -> S] /\ IsInjective(f)
  BY <1>2 DEF SetToSeq
<1> HIDE DEF f
<1>4. \A i, j \in 1..n : f[i] = f[j] => i = j
  BY <1>3 DEF IsInjective
<1>5. IsFiniteSet(1..n) /\ Cardinality(1..n) = n
  BY <1>1, FS_Interval
<1>6. \A x \in S : \E i \in 1..n : f[i] = x
  <2> DEFINE D == 1..n
  <2>1. IsFiniteSet(D) /\ Cardinality(D) = Cardinality(S) /\ f \in [D -> S]
        /\ \A i, j \in D : f[i] = f[j] => i = j
    BY <1>3, <1>4, <1>5
  <2> HIDE DEF D
  <2>2. \A x \in S : \E i \in D : f[i] = x
    BY <2>1, InjectionIsOnto
  <2> QED BY <2>2 DEF D
<1>7. SetToSeq(S) = f
  BY DEF f
<1> HIDE DEF f
<1> QED BY <1>1, <1>3, <1>4, <1>6, <1>7

LEMMA TermsType ==
  ASSUME NEW neg \in BOOLEAN, NEW name \in Names, NEW values \in SUBSET Values, IsFiniteSet(values)
  PROVE  /\ Terms(neg, name, values) \in Seq(Tokens)
         /\ Terms(neg, name, values) = <<>> <=> values = {}
<1> DEFINE n == Cardinality(values)
           seqs == [i \in 1..n |-> Unquoted(neg, name, SetToSeq(values)[i])]
<1>1. n \in Nat /\ SetToSeq(values) \in [1..n -> values]
  BY SetToSeqType
<1>2. \A i \in 1..n : Unquoted(neg, name, SetToSeq(values)[i]) \in Seq(Tokens) \ {<<>>}
  <2> SUFFICES ASSUME NEW i \in 1..n
               PROVE  Unquoted(neg, name, SetToSeq(values)[i]) \in Seq(Tokens) \ {<<>>}
    OBVIOUS
  <2>1. SetToSeq(values)[i] \in Values
    BY <1>1
  <2> QED BY <2>1, UnquotedType
<1>3. seqs \in [1..n -> Seq(Tokens) \ {<<>>}]
  BY <1>2
<1>4. Terms(neg, name, values) = FlattenSeq(seqs)
  BY DEF Terms
<1>5. n = 0 <=> values = {}
  BY FS_EmptySet
<1> HIDE DEF seqs, n
<1> QED BY <1>1, <1>3, <1>4, <1>5, FlattenType

\* The parts of a query, each of them empty only where the filter asks for nothing.
LEMMA QueryParts ==
  ASSUME NEW f, IsFilter(f)
  PROVE  LET a == Terms(FALSE, "level", {<<v>> : v \in f.levels})
             b == Terms(FALSE, "tag", f.tags)
             c == Terms(TRUE, "tag", f.hidden)
             d == IF f.network THEN Unquoted(FALSE, "is", <<"network">>) ELSE <<>>
             e == IF f.last # Nil THEN Unquoted(FALSE, "last", <<f.last>>) ELSE <<>>
             g == IF f.print # <<>> THEN QuoteValue("fingerprint", f.print) ELSE <<>>
             h == IF f.user # <<>> THEN QuoteValue("user", f.user) ELSE <<>>
             k == IF f.text # <<>> THEN QuoteValue(Nil, f.text) ELSE <<>>
         IN  /\ a \in Seq(Tokens) /\ (a = <<>> => f.levels = {})
             /\ b \in Seq(Tokens) /\ (b = <<>> => f.tags = {})
             /\ c \in Seq(Tokens) /\ (c = <<>> => f.hidden = {})
             /\ d \in Seq(Tokens) /\ (d = <<>> => ~f.network)
             /\ e \in Seq(Tokens) /\ (e = <<>> => f.last = Nil)
             /\ g \in Seq(Tokens) /\ (g = <<>> => f.print = <<>>)
             /\ h \in Seq(Tokens) /\ (h = <<>> => f.user = <<>>)
             /\ k \in Seq(Tokens) /\ (k = <<>> => f.text = <<>>)
<1>1. f \in Filters /\ IsFiniteSet(f.tags) /\ IsFiniteSet(f.hidden)
  BY DEF IsFilter
<1>2. /\ Levels \subseteq Words /\ IsFiniteSet(Levels) /\ Labels \subseteq Words /\ "network" \in Words
      /\ {"level", "tag", "is", "last", "fingerprint", "user"} \subseteq Names
  BY LogScreensAssumption DEF Names
<1> DEFINE levels == {<<v>> : v \in f.levels}
           a == Terms(FALSE, "level", levels)
           b == Terms(FALSE, "tag", f.tags)
           c == Terms(TRUE, "tag", f.hidden)
           d == IF f.network THEN Unquoted(FALSE, "is", <<"network">>) ELSE <<>>
           e == IF f.last # Nil THEN Unquoted(FALSE, "last", <<f.last>>) ELSE <<>>
           g == IF f.print # <<>> THEN QuoteValue("fingerprint", f.print) ELSE <<>>
           h == IF f.user # <<>> THEN QuoteValue("user", f.user) ELSE <<>>
           k == IF f.text # <<>> THEN QuoteValue(Nil, f.text) ELSE <<>>
<1>3. a \in Seq(Tokens) /\ (a = <<>> => f.levels = {})
  <2>1. f.levels \subseteq Levels /\ IsFiniteSet(f.levels)
    BY <1>1, <1>2, FS_Subset DEF Filters
  <2>2. \A v \in f.levels : <<v>> \in Values
    BY <2>1, <1>2, OneElement DEF Values
  <2>3. IsFiniteSet(levels)
    <3> DEFINE m == [v \in f.levels |-> <<v>>]
    <3>1. m \in Surjection(f.levels, levels)
      BY DEF Surjection
    <3> HIDE DEF m, levels
    <3> QED BY <2>1, <3>1, FS_Surjection
  <2>4. levels \in SUBSET Values /\ (levels = {} => f.levels = {})
    BY <2>2
  <2> HIDE DEF levels
  <2> QED BY <1>2, <2>3, <2>4, TermsType
<1>4. b \in Seq(Tokens) /\ (b = <<>> => f.tags = {})
  BY <1>1, <1>2, TermsType DEF Filters
<1>5. c \in Seq(Tokens) /\ (c = <<>> => f.hidden = {})
  BY <1>1, <1>2, TermsType DEF Filters
<1>6. d \in Seq(Tokens) /\ (d = <<>> => ~f.network)
  <2>1. <<"network">> \in Values
    BY <1>2, OneElement DEF Values
  <2>2. Unquoted(FALSE, "is", <<"network">>) \in Seq(Tokens) \ {<<>>}
    BY <1>2, <2>1, UnquotedType
  <2> QED BY <2>2, EmptySeq
<1>7. e \in Seq(Tokens) /\ (e = <<>> => f.last = Nil)
  <2> SUFFICES ASSUME f.last # Nil PROVE e \in Seq(Tokens) \ {<<>>}
    BY EmptySeq
  <2>1. <<f.last>> \in Values
    BY <1>1, <1>2, OneElement DEF Values, Filters
  <2> QED BY <1>2, <2>1, UnquotedType
<1>8. \A v \in Seq(Words) : v # <<>> => v \in Values
  BY DEF Values
<1>9. f.print \in Seq(Words) /\ f.user \in Seq(Words) /\ f.text \in Seq(Words)
  BY <1>1 DEF Filters
<1>10. g \in Seq(Tokens) /\ (g = <<>> => f.print = <<>>)
  BY <1>2, <1>8, <1>9, QuoteValueType, EmptySeq
<1>11. h \in Seq(Tokens) /\ (h = <<>> => f.user = <<>>)
  BY <1>2, <1>8, <1>9, QuoteValueType, EmptySeq
<1>12. k \in Seq(Tokens) /\ (k = <<>> => f.text = <<>>)
  BY <1>8, <1>9, QuoteValueType, EmptySeq
<1> HIDE DEF a, b, c, d, e, g, h, k
<1>13. /\ a \in Seq(Tokens) /\ (a = <<>> => f.levels = {})
       /\ b \in Seq(Tokens) /\ (b = <<>> => f.tags = {})
       /\ c \in Seq(Tokens) /\ (c = <<>> => f.hidden = {})
       /\ d \in Seq(Tokens) /\ (d = <<>> => ~f.network)
       /\ e \in Seq(Tokens) /\ (e = <<>> => f.last = Nil)
       /\ g \in Seq(Tokens) /\ (g = <<>> => f.print = <<>>)
       /\ h \in Seq(Tokens) /\ (h = <<>> => f.user = <<>>)
       /\ k \in Seq(Tokens) /\ (k = <<>> => f.text = <<>>)
  BY <1>3, <1>4, <1>5, <1>6, <1>7, <1>10, <1>11, <1>12
<1> QED BY <1>13 DEF a, b, c, d, e, g, h, k

LEMMA QueryType ==
  ASSUME NEW f, IsFilter(f)
  PROVE  /\ Query(f) \in Seq(Tokens)
         /\ IsEmpty(f) => /\ f.levels = {} /\ f.tags = {} /\ f.hidden = {} /\ ~f.network
                          /\ f.last = Nil /\ f.print = <<>> /\ f.user = <<>> /\ f.text = <<>>
<1> DEFINE a == Terms(FALSE, "level", {<<v>> : v \in f.levels})
           b == Terms(FALSE, "tag", f.tags)
           c == Terms(TRUE, "tag", f.hidden)
           d == IF f.network THEN Unquoted(FALSE, "is", <<"network">>) ELSE <<>>
           e == IF f.last # Nil THEN Unquoted(FALSE, "last", <<f.last>>) ELSE <<>>
           g == IF f.print # <<>> THEN QuoteValue("fingerprint", f.print) ELSE <<>>
           h == IF f.user # <<>> THEN QuoteValue("user", f.user) ELSE <<>>
           k == IF f.text # <<>> THEN QuoteValue(Nil, f.text) ELSE <<>>
<1>1. /\ a \in Seq(Tokens) /\ (a = <<>> => f.levels = {})
      /\ b \in Seq(Tokens) /\ (b = <<>> => f.tags = {})
      /\ c \in Seq(Tokens) /\ (c = <<>> => f.hidden = {})
      /\ d \in Seq(Tokens) /\ (d = <<>> => ~f.network)
      /\ e \in Seq(Tokens) /\ (e = <<>> => f.last = Nil)
      /\ g \in Seq(Tokens) /\ (g = <<>> => f.print = <<>>)
      /\ h \in Seq(Tokens) /\ (h = <<>> => f.user = <<>>)
      /\ k \in Seq(Tokens) /\ (k = <<>> => f.text = <<>>)
  BY QueryParts
<1>2. Query(f) = a \o b \o c \o d \o e \o g \o h \o k
  BY DEF Query
<1> HIDE DEF a, b, c, d, e, g, h, k
<1>3. \A x, y \in Seq(Tokens) : x \o y \in Seq(Tokens) /\ (x \o y = <<>> => x = <<>> /\ y = <<>>)
  <2> SUFFICES ASSUME NEW x \in Seq(Tokens), NEW y \in Seq(Tokens)
               PROVE  x \o y \in Seq(Tokens) /\ (x \o y = <<>> => x = <<>> /\ y = <<>>)
    OBVIOUS
  <2>1. x \o y \in Seq(Tokens) /\ Len(x \o y) = Len(x) + Len(y) /\ Len(x) \in Nat /\ Len(y) \in Nat
    BY ConcatProperties, LenProperties
  <2>2. Len(x) = 0 => x = <<>>
    BY EmptySeq
  <2>3. Len(y) = 0 => y = <<>>
    BY EmptySeq
  <2>4. x \o y = <<>> => Len(x) + Len(y) = 0
    BY <2>1, EmptySeq
  <2> QED BY <2>1, <2>2, <2>3, <2>4
<1> DEFINE p1 == a \o b
           p2 == p1 \o c
           p3 == p2 \o d
           p4 == p3 \o e
           p5 == p4 \o g
           p6 == p5 \o h
           p7 == p6 \o k
<1>4. p1 \in Seq(Tokens) /\ (p1 = <<>> => a = <<>> /\ b = <<>>)
  BY <1>1, <1>3
<1>5. p2 \in Seq(Tokens) /\ (p2 = <<>> => p1 = <<>> /\ c = <<>>)
  <2> HIDE DEF p1
  <2> QED BY <1>1, <1>3, <1>4
<1>6. p3 \in Seq(Tokens) /\ (p3 = <<>> => p2 = <<>> /\ d = <<>>)
  <2> HIDE DEF p2
  <2> QED BY <1>1, <1>3, <1>5
<1>7. p4 \in Seq(Tokens) /\ (p4 = <<>> => p3 = <<>> /\ e = <<>>)
  <2> HIDE DEF p3
  <2> QED BY <1>1, <1>3, <1>6
<1>8. p5 \in Seq(Tokens) /\ (p5 = <<>> => p4 = <<>> /\ g = <<>>)
  <2> HIDE DEF p4
  <2> QED BY <1>1, <1>3, <1>7
<1>9. p6 \in Seq(Tokens) /\ (p6 = <<>> => p5 = <<>> /\ h = <<>>)
  <2> HIDE DEF p5
  <2> QED BY <1>1, <1>3, <1>8
<1>10. p7 \in Seq(Tokens) /\ (p7 = <<>> => p6 = <<>> /\ k = <<>>)
  <2> HIDE DEF p6
  <2> QED BY <1>1, <1>3, <1>9
<1>11. Query(f) = p7
  BY <1>2
<1> HIDE DEF p1, p2, p3, p4, p5, p6, p7
<1>12. IsEmpty(f) => p7 = <<>>
  BY <1>11 DEF IsEmpty
<1> QED BY <1>1, <1>4, <1>5, <1>6, <1>7, <1>8, <1>9, <1>10, <1>11, <1>12

-----------------------------------------------------------------------------
(* Lists.                                                                  *)

InUse(ids) == {l \in Logs : ids[l] > 0}
PlaceOf(ids, l) == [at |-> Fact[l].at, id |-> ids[l]]

\* Rows have ids of their own.
HasIds(ids) ==
  /\ ids \in [Logs -> Nat]
  /\ \A l, m \in Logs : ids[l] = ids[m] /\ ids[l] > 0 => l = m

Descends(ids, items) ==
  \A i, j \in DOMAIN items : i < j => Before(PlaceOf(ids, items[j]), PlaceOf(ids, items[i]))

\* A page of what comes after cursor, of all that is wanted.
Continues(ids, pg, cursor, wanted) ==
  /\ pg.items \in Seq(InUse(ids)) /\ Descends(ids, pg.items)
  /\ \A i \in DOMAIN pg.items : cursor = Nil \/ Before(PlaceOf(ids, pg.items[i]), cursor)
  /\ pg.more # Nil => pg.items # <<>> /\ pg.more = PlaceOf(ids, pg.items[Len(pg.items)])
  /\ \A l \in wanted : cursor = Nil \/ Before(PlaceOf(ids, l), cursor) =>
       \/ \E i \in DOMAIN pg.items : pg.items[i] = l
       \/ pg.more # Nil /\ Before(PlaceOf(ids, l), pg.more)

LEMMA FactAge == \A l \in Logs : Fact[l].at \in Nat /\ Fact[l].at <= LastTime
<1>1. \A l \in Logs : Fact[l].at \in 0..LastTime
  BY LogScreensAssumption
<1>2. LastTime \in Nat
  BY LogScreensAssumption
<1> QED BY <1>1, <1>2

LEMMA NilIsNoPlace == Nil \notin [at : Nat, id : Nat]
<1>1. Nil \notin Labels \cup Launches \cup Names \cup [at : Nat, id : Nat]
  BY LogScreensAssumption
<1> QED BY <1>1

LEMMA PlaceType ==
  ASSUME NEW ids, HasIds(ids), NEW l \in Logs
  PROVE  /\ PlaceOf(ids, l) \in [at : Nat, id : Nat] /\ PlaceOf(ids, l) # Nil
         /\ PlaceOf(ids, l).at = Fact[l].at /\ PlaceOf(ids, l).id = ids[l]
<1>1. Fact[l].at \in Nat /\ Nil \notin [at : Nat, id : Nat]
  BY FactAge, NilIsNoPlace
<1> QED BY <1>1 DEF PlaceOf, HasIds

LEMMA BeforeTransitive ==
  ASSUME NEW p \in [at : Nat, id : Nat], NEW q \in [at : Nat, id : Nat], NEW r \in [at : Nat, id : Nat],
         Before(p, q), Before(q, r)
  PROVE  Before(p, r)
BY DEF Before

LEMMA NewestFirstSorts ==
  ASSUME HasIds(stored), NEW S \in SUBSET InUse(stored)
  PROVE  /\ IsFiniteSet(S) /\ Cardinality(S) \in Nat
         /\ NewestFirst(S) \in [1..Cardinality(S) -> S]
         /\ \A l \in S : \E i \in 1..Cardinality(S) : NewestFirst(S)[i] = l
         /\ Descends(stored, NewestFirst(S))
<1> DEFINE newer(a, b) == Fact[a].at > Fact[b].at \/ (Fact[a].at = Fact[b].at /\ stored[a] > stored[b])
           R == {p \in S \X S : p[1] = p[2] \/ newer(p[1], p[2])}
           n == Cardinality(S)
<1>1. IsFiniteSet(S) /\ n \in Nat
  BY LogScreensAssumption, FS_Subset, FS_CardinalityType DEF InUse
<1>2. \A l \in S : l \in Logs /\ Fact[l].at \in Nat /\ stored[l] \in Nat /\ stored[l] > 0
  BY FactAge DEF InUse, HasIds
<1>3. \A x, y \in S : <<x, y>> \in R <=> x = y \/ newer(x, y)
  <2> HIDE DEF newer
  <2> QED OBVIOUS
<1>4. \A x, y \in S : x = y \/ newer(x, y) \/ newer(y, x)
  BY <1>2 DEF HasIds
<1>5. \A x, y, z \in S : newer(x, y) /\ newer(y, z) => newer(x, z)
  BY <1>2
<1>6. \E s \in SetToSeqs(S) : \A i, j \in DOMAIN s : i < j => <<s[i], s[j]>> \in R
  <2>1. \A x, y \in S : <<x, y>> \in R \/ <<y, x>> \in R
    <3> HIDE DEF newer, R
    <3> QED BY <1>3, <1>4
  <2>2. \A x, y, z \in S : <<x, y>> \in R /\ <<y, z>> \in R => <<x, z>> \in R
    <3> HIDE DEF newer, R
    <3> QED BY <1>3, <1>5
  <2> HIDE DEF R
  <2> QED BY <1>1, <2>1, <2>2, Sorting
<1>7. \A s \in SetToSeqs(S) :
        /\ s \in [1..n -> S] /\ DOMAIN s = 1..n
        /\ \A i, j \in 1..n : i # j => s[i] # s[j]
  BY DEF SetToSeqs
<1>8. \E s \in SetToSeqs(S) : \A i, j \in DOMAIN s : i < j => newer(s[i], s[j])
  <2>1. PICK s \in SetToSeqs(S) : \A i, j \in DOMAIN s : i < j => <<s[i], s[j]>> \in R
    BY <1>6
  <2>2. ASSUME NEW i \in DOMAIN s, NEW j \in DOMAIN s, i < j PROVE newer(s[i], s[j])
    <3>1. i \in 1..n /\ j \in 1..n /\ i # j /\ s[i] \in S /\ s[j] \in S
      BY <1>1, <1>7, <2>2
    <3>2. s[i] # s[j] /\ <<s[i], s[j]>> \in R
      BY <1>7, <2>1, <2>2, <3>1
    <3> HIDE DEF newer, R
    <3> QED BY <1>3, <3>1, <3>2
  <2> HIDE DEF newer
  <2> QED BY <2>2
<1> DEFINE s == NewestFirst(S)
<1>9. s \in SetToSeqs(S) /\ \A i, j \in DOMAIN s : i < j => newer(s[i], s[j])
  BY <1>8 DEF NewestFirst
<1> HIDE DEF s
<1>10. s \in [1..n -> S] /\ DOMAIN s = 1..n /\ \A i, j \in 1..n : i # j => s[i] # s[j]
  BY <1>7, <1>9
<1>11. \A l \in S : \E i \in 1..n : s[i] = l
  <2> DEFINE D == 1..n
  <2>1. IsFiniteSet(D) /\ Cardinality(D) = Cardinality(S) /\ s \in [D -> S]
        /\ \A i, j \in D : s[i] = s[j] => i = j
    BY <1>1, <1>10, FS_Interval
  <2> HIDE DEF D
  <2>2. \A x \in S : \E i \in D : s[i] = x
    BY <1>1, <2>1, InjectionIsOnto
  <2> QED BY <2>2 DEF D
<1>12. Descends(stored, s)
  <2> SUFFICES ASSUME NEW i \in 1..n, NEW j \in 1..n, i < j
               PROVE  Before(PlaceOf(stored, s[j]), PlaceOf(stored, s[i]))
    BY <1>10 DEF Descends
  <2>1. newer(s[i], s[j]) /\ s[i] \in S /\ s[j] \in S
    BY <1>9, <1>10
  <2> QED BY <1>2, <2>1 DEF Before, PlaceOf
<1>13. s = NewestFirst(S)
  BY DEF s
<1> HIDE DEF s
<1> QED BY <1>1, <1>10, <1>11, <1>12, <1>13

LEMMA ListContinues ==
  ASSUME HasIds(stored), NEW f, NEW since, NEW limit \in Nat \ {0},
         NEW cursor, cursor = Nil \/ cursor \in [at : Nat, id : Nat]
  PROVE  Continues(stored, List(f, since, cursor, limit), cursor, Matching(f, since))
<1> DEFINE found == {l \in Matching(f, since) : cursor = Nil \/ Before(PlaceOf(stored, l), cursor)}
           n == Cardinality(found)
           all == NewestFirst(found)
           cut == n > limit
           items == IF cut THEN SubSeq(all, 1, limit) ELSE all
           m == IF cut THEN limit ELSE n
           more == IF cut THEN PlaceOf(stored, items[limit]) ELSE Nil
<1>1. found \in SUBSET InUse(stored)
  BY DEF Matching, Visible, InUse
<1>2. /\ n \in Nat /\ all \in [1..n -> found] /\ Descends(stored, all)
      /\ \A l \in found : \E i \in 1..n : all[i] = l
  <2> HIDE DEF found
  <2> QED BY <1>1, NewestFirstSorts
<1>3. Len(all) = n /\ all \in Seq(found)
  <2> HIDE DEF all, n, found
  <2> QED BY <1>2, IntoSeq
<1>4. List(f, since, cursor, limit) = [items |-> items, more |-> more]
  BY <1>3 DEF List, Place, PlaceOf
<1>5. m \in Nat /\ m <= n /\ items \in [1..m -> found] /\ Len(items) = m
      /\ \A i \in 1..m : items[i] = all[i]
  <2>1. CASE cut
    <3>1. items = [i \in 1..limit |-> all[i]]
      BY <1>2, <1>3, <2>1
    <3> HIDE DEF items, all, found
    <3>2. \A i \in 1..limit : all[i] \in found
      BY <1>2, <2>1
    <3>3. items \in [1..limit -> found]
      BY <3>1, <3>2
    <3>4. Len(items) = limit
      BY <3>3, IntoSeq
    <3> QED BY <1>2, <2>1, <3>1, <3>3, <3>4
  <2>2. CASE ~cut
    <3> HIDE DEF all, found
    <3> QED BY <1>2, <1>3, <2>2
  <2> QED BY <2>1, <2>2
<1> HIDE DEF found, all, items, n
<1>6. DOMAIN items = 1..m /\ DOMAIN all = 1..n
  BY <1>2, <1>5
<1>7. \A l \in found : l \in Logs /\ l \in InUse(stored)
  BY <1>1 DEF InUse
<1>8. items \in Seq(InUse(stored)) /\ Descends(stored, items)
  <2>1. items \in [1..m -> InUse(stored)]
    BY <1>5, <1>7
  <2>3. items \in Seq(InUse(stored))
    BY <1>5, <2>1, IntoSeq
  <2>2. Descends(stored, items)
    BY <1>2, <1>5, <1>6 DEF Descends
  <2> QED BY <2>2, <2>3
<1>9. \A i \in DOMAIN items : cursor = Nil \/ Before(PlaceOf(stored, items[i]), cursor)
  BY <1>5, <1>6 DEF found
<1>10. more # Nil => items # <<>> /\ more = PlaceOf(stored, items[Len(items)])
  BY <1>5, <1>8, EmptySeq
<1>11. ASSUME NEW l \in Matching(f, since), cursor = Nil \/ Before(PlaceOf(stored, l), cursor)
       PROVE  \/ \E i \in DOMAIN items : items[i] = l
              \/ more # Nil /\ Before(PlaceOf(stored, l), more)
  <2>1. l \in found
    BY <1>11 DEF found
  <2>2. PICK i \in 1..n : all[i] = l
    BY <1>2, <2>1
  <2>3. CASE i <= m
    <3>1. i \in 1..m
      BY <1>5, <2>3
    <3> QED BY <1>5, <1>6, <2>2, <3>1
  <2>4. CASE ~(i <= m)
    <3>1. cut /\ m = limit /\ m \in 1..n /\ m < i
      BY <1>2, <1>5, <2>4
    <3>2. Before(PlaceOf(stored, all[i]), PlaceOf(stored, all[m]))
      BY <1>2, <1>6, <3>1 DEF Descends
    <3>3. m \in 1..m /\ items[m] = all[m] /\ items[m] \in Logs
      BY <1>5, <1>7, <3>1
    <3>4. more = PlaceOf(stored, all[m]) /\ more # Nil
      BY <3>1, <3>3, PlaceType
    <3> QED BY <2>2, <3>2, <3>4
  <2> QED BY <2>3, <2>4
<1> HIDE DEF more
<1> QED BY <1>4, <1>8, <1>9, <1>10, <1>11 DEF Continues

\* A page put at the end of the list it continues.
LEMMA Extended ==
  ASSUME NEW ids, HasIds(ids), NEW items, NEW more, more # Nil, NEW wanted \in SUBSET Logs, NEW pg,
         Continues(ids, [items |-> items, more |-> more], Nil, wanted), Continues(ids, pg, more, wanted)
  PROVE  Continues(ids, [items |-> items \o pg.items, more |-> pg.more], Nil, wanted)
<1> DEFINE a == items
           b == pg.items
           c == a \o b
<1>1. /\ a \in Seq(InUse(ids)) /\ Descends(ids, a) /\ a # <<>> /\ more = PlaceOf(ids, a[Len(a)])
      /\ \A l \in wanted : (\E i \in DOMAIN a : a[i] = l) \/ Before(PlaceOf(ids, l), more)
  BY DEF Continues
<1>2. /\ b \in Seq(InUse(ids)) /\ Descends(ids, b) /\ \A i \in DOMAIN b : Before(PlaceOf(ids, b[i]), more)
      /\ pg.more # Nil => b # <<>> /\ pg.more = PlaceOf(ids, b[Len(b)])
      /\ \A l \in wanted : Before(PlaceOf(ids, l), more) =>
           (\E i \in DOMAIN b : b[i] = l) \/ (pg.more # Nil /\ Before(PlaceOf(ids, l), pg.more))
  BY DEF Continues
<1> HIDE DEF a, b
<1>3. /\ Len(a) \in Nat /\ Len(b) \in Nat /\ DOMAIN a = 1..Len(a) /\ DOMAIN b = 1..Len(b)
      /\ Len(a) > 0
  <2>1. Len(a) \in Nat /\ Len(b) \in Nat /\ DOMAIN a = 1..Len(a) /\ DOMAIN b = 1..Len(b)
    BY <1>1, <1>2, LenProperties
  <2>2. Len(a) # 0
    BY <1>1, EmptySeq
  <2> QED BY <2>1, <2>2
<1>4. /\ c \in Seq(InUse(ids)) /\ Len(c) = Len(a) + Len(b) /\ DOMAIN c = 1..Len(c)
      /\ \A i \in 1..Len(c) : c[i] = IF i <= Len(a) THEN a[i] ELSE b[i - Len(a)]
  BY <1>1, <1>2, <1>3, ConcatProperties, LenProperties
<1> HIDE DEF c
<1>5. \A i \in DOMAIN a : a[i] \in Logs /\ PlaceOf(ids, a[i]) \in [at : Nat, id : Nat]
  BY <1>1, <1>3, ElementOfSeq, PlaceType DEF InUse
<1>6. \A i \in DOMAIN b : b[i] \in Logs /\ PlaceOf(ids, b[i]) \in [at : Nat, id : Nat]
  BY <1>2, <1>3, ElementOfSeq, PlaceType DEF InUse
<1>7. Descends(ids, c)
  <2> SUFFICES ASSUME NEW i \in 1..Len(c), NEW j \in 1..Len(c), i < j
               PROVE  Before(PlaceOf(ids, c[j]), PlaceOf(ids, c[i]))
    BY <1>4 DEF Descends
  <2>1. CASE j <= Len(a)
    <3>1. i \in DOMAIN a /\ j \in DOMAIN a /\ c[i] = a[i] /\ c[j] = a[j]
      BY <1>3, <1>4, <2>1
    <3> QED BY <1>1, <3>1 DEF Descends
  <2>2. CASE i > Len(a)
    <3>1. /\ i - Len(a) \in DOMAIN b /\ j - Len(a) \in DOMAIN b /\ i - Len(a) < j - Len(a)
          /\ c[i] = b[i - Len(a)] /\ c[j] = b[j - Len(a)]
      BY <1>3, <1>4, <2>2
    <3> QED BY <1>2, <3>1 DEF Descends
  <2>3. CASE i <= Len(a) /\ j > Len(a)
    <3>1. /\ i \in DOMAIN a /\ Len(a) \in DOMAIN a /\ c[i] = a[i]
          /\ j - Len(a) \in DOMAIN b /\ c[j] = b[j - Len(a)]
      BY <1>3, <1>4, <2>3
    <3>2. Before(PlaceOf(ids, c[j]), more)
      BY <1>2, <3>1
    <3>3. i = Len(a) \/ Before(more, PlaceOf(ids, a[i]))
      BY <1>1, <1>3, <3>1 DEF Descends
    <3>4. CASE i = Len(a)
      BY <1>1, <3>1, <3>2, <3>4
    <3>5. CASE Before(more, PlaceOf(ids, a[i]))
      <4>1. more \in [at : Nat, id : Nat] /\ PlaceOf(ids, c[j]) \in [at : Nat, id : Nat]
            /\ PlaceOf(ids, a[i]) \in [at : Nat, id : Nat]
        BY <1>1, <1>5, <1>6, <3>1
      <4> QED BY <3>1, <3>2, <3>5, <4>1, BeforeTransitive
    <3> QED BY <3>3, <3>4, <3>5
  <2> QED BY <1>3, <1>4, <2>1, <2>2, <2>3
<1>8. \A i \in DOMAIN a : i \in DOMAIN c /\ c[i] = a[i]
  BY <1>3, <1>4
<1>9. \A i \in DOMAIN b : i + Len(a) \in DOMAIN c /\ c[i + Len(a)] = b[i]
  BY <1>3, <1>4
<1>10. pg.more # Nil => c # <<>> /\ pg.more = PlaceOf(ids, c[Len(c)])
  <2> SUFFICES ASSUME pg.more # Nil PROVE c # <<>> /\ pg.more = PlaceOf(ids, c[Len(c)])
    OBVIOUS
  <2>1. b # <<>> /\ Len(b) # 0
    BY <1>2, EmptySeq
  <2>2. Len(b) \in DOMAIN b
    BY <1>3, <2>1
  <2>3. c[Len(c)] = b[Len(b)] /\ Len(c) # 0
    BY <1>3, <1>4, <1>9, <2>2
  <2> QED BY <1>2, <2>3, EmptySeq
<1>11. ASSUME NEW l \in wanted
       PROVE  (\E i \in DOMAIN c : c[i] = l) \/ (pg.more # Nil /\ Before(PlaceOf(ids, l), pg.more))
  BY <1>1, <1>2, <1>8, <1>9
<1> QED BY <1>4, <1>7, <1>10, <1>11 DEF Continues, a, b, c

Places == [at : Nat, id : Nat]

\* A page stays one while rows are added and fewer are wanted.
LEMMA ContinuesStays ==
  ASSUME NEW ids, HasIds(ids), NEW later, HasIds(later), \A l \in InUse(ids) : later[l] = ids[l],
         NEW pg, NEW cursor, NEW wanted \in SUBSET InUse(ids), NEW less \in SUBSET wanted,
         Continues(ids, pg, cursor, wanted)
  PROVE  Continues(later, pg, cursor, less)
<1>1. InUse(ids) \subseteq InUse(later)
  BY DEF InUse, HasIds
<1>2. \A l \in InUse(ids) : PlaceOf(later, l) = PlaceOf(ids, l)
  BY DEF PlaceOf
<1> DEFINE items == pg.items
           n == Len(items)
<1>3. items \in Seq(InUse(ids)) /\ Descends(ids, items)
  BY DEF Continues
<1>4. n \in Nat /\ DOMAIN items = 1..n /\ items \in Seq(InUse(later))
      /\ \A i \in DOMAIN items : items[i] \in InUse(ids)
  <2> HIDE DEF items
  <2>1. n \in Nat /\ DOMAIN items = 1..n /\ \A i \in DOMAIN items : items[i] \in InUse(ids)
    BY <1>3, LenProperties, ElementOfSeq
  <2>2. \A i \in 1..Len(items) : items[i] \in InUse(later)
    BY <1>1, <2>1
  <2> QED BY <1>3, <2>1, <2>2, SeqGrows
<1>5. Descends(later, items)
  BY <1>2, <1>3, <1>4 DEF Descends
<1>6. \A i \in DOMAIN items : cursor = Nil \/ Before(PlaceOf(later, items[i]), cursor)
  BY <1>2, <1>4 DEF Continues
<1>7. pg.more # Nil => items # <<>> /\ pg.more = PlaceOf(later, items[n])
  <2> SUFFICES ASSUME pg.more # Nil PROVE items # <<>> /\ pg.more = PlaceOf(later, items[n])
    OBVIOUS
  <2>1. items # <<>> /\ pg.more = PlaceOf(ids, items[n])
    BY DEF Continues
  <2>2. n \in DOMAIN items
    BY <1>3, <1>4, <2>1, EmptySeq
  <2> QED BY <1>2, <1>4, <2>1, <2>2
<1>8. \A l \in less : cursor = Nil \/ Before(PlaceOf(later, l), cursor) =>
       \/ \E i \in DOMAIN items : items[i] = l
       \/ pg.more # Nil /\ Before(PlaceOf(later, l), pg.more)
  BY <1>2 DEF Continues
<1> QED BY <1>4, <1>5, <1>6, <1>7, <1>8 DEF Continues

LEMMA EmptyContinues ==
  ASSUME NEW ids
  PROVE  Continues(ids, [items |-> <<>>, more |-> Nil], Nil, {})
BY DEF Continues, Descends

-----------------------------------------------------------------------------
(* The table.                                                              *)

TableOK ==
  /\ HasIds(stored) /\ \A l \in Logs : stored[l] <= Cardinality(InUse(stored))
  /\ expired \subseteq Logs
  /\ user \in [Launches -> People \cup {<<>>}]
  /\ now \in FirstTime..LastTime

\* Rows keep their ids.
RowsStay == \A l \in InUse(stored) : stored'[l] = stored[l]

LEMMA Times == FirstTime \in Nat /\ LastTime \in Nat /\ FirstTime <= LastTime
<1>1. LastTime \in Nat
  BY LogScreensAssumption
<1>2. FirstTime \in 0..LastTime
  BY LogScreensAssumption
<1> QED BY <1>1, <1>2

LEMMA InUseFinite ==
  ASSUME NEW ids
  PROVE  IsFiniteSet(InUse(ids)) /\ Cardinality(InUse(ids)) \in Nat
         /\ Cardinality(InUse(ids)) <= Cardinality(Logs) /\ Cardinality(Logs) \in Nat
<1>1. IsFiniteSet(Logs) /\ InUse(ids) \subseteq Logs
  BY LogScreensAssumption DEF InUse
<1> QED BY <1>1, FS_Subset, FS_CardinalityType

LEMMA TableInit == LogScreensInit => TableOK
<1> SUFFICES ASSUME LogScreensInit PROVE TableOK
  OBVIOUS
<1> DEFINE n == Len(Uploaded)
           at(l) == {i \in 1..n : Uploaded[i] = l}
<1>1. Uploaded \in [1..n -> Logs] /\ n \in Nat
      /\ \A i, j \in 1..n : Uploaded[i] = Uploaded[j] => i = j
  <2>1. Uploaded \in Seq(Logs) /\ IsInjective(Uploaded)
    BY LogScreensAssumption
  <2>2. Uploaded \in [1..n -> Logs] /\ n \in Nat /\ DOMAIN Uploaded = 1..n
    BY <2>1, LenProperties
  <2> QED BY <2>1, <2>2 DEF IsInjective
<1>2. \A l \in Logs : stored[l] = IF at(l) # {} THEN Min(at(l)) ELSE 0
  BY DEF LogScreensInit, SelectInSeq
<1>3. DOMAIN stored = Logs
  BY DEF LogScreensInit
<1>4. \A l \in Logs : \/ stored[l] = 0
                      \/ stored[l] \in 1..n /\ Uploaded[stored[l]] = l
  <2> TAKE l \in Logs
  <2>1. CASE at(l) # {}
    <3>1. at(l) \subseteq Nat
      BY <1>1
    <3> HIDE DEF at
    <3>2. stored[l] \in at(l)
      BY <1>2, <2>1, <3>1, MinNumber
    <3> QED BY <3>2 DEF at
  <2>2. CASE at(l) = {}
    BY <1>2, <2>2
  <2> QED BY <2>1, <2>2
<1>5. \A i \in 1..n : stored[Uploaded[i]] = i
  <2> TAKE i \in 1..n
  <2>1. Uploaded[i] \in Logs /\ i \in at(Uploaded[i])
    BY <1>1
  <2>2. at(Uploaded[i]) \subseteq Nat /\ at(Uploaded[i]) # {}
    BY <1>1, <2>1
  <2>3. stored[Uploaded[i]] \in at(Uploaded[i])
    <3> HIDE DEF at
    <3> QED BY <1>2, <2>1, <2>2, MinNumber
  <2> QED BY <1>1, <2>3
<1>6. HasIds(stored)
  <2>1. stored \in [Logs -> Nat]
    <3>1. \A l \in Logs : stored[l] \in Nat
      BY <1>1, <1>4
    <3>2. stored = [l \in Logs |-> stored[l]]
      BY <1>3 DEF LogScreensInit
    <3> QED BY <3>1, <3>2
  <2> QED BY <1>4, <2>1 DEF HasIds
<1>7. \A l \in Logs : stored[l] <= Cardinality(InUse(stored))
  <2>1. n <= Cardinality(InUse(stored))
    <3> DEFINE D == 1..n
    <3>1. IsFiniteSet(D) /\ Cardinality(D) = n
      <4>1. n \in Nat
        BY <1>1
      <4>2. 1 \in Int /\ n \in Int /\ (IF 1 > n THEN 0 ELSE n - 1 + 1) = n
        BY <4>1
      <4> HIDE DEF n
      <4> QED BY <4>2, FS_Interval
    <3>2. Uploaded \in [D -> InUse(stored)]
      <4>1. \A i \in D : Uploaded[i] \in InUse(stored)
        BY <1>1, <1>5 DEF InUse
      <4>2. DOMAIN Uploaded = D /\ Uploaded = [i \in D |-> Uploaded[i]]
        BY <1>1
      <4> HIDE DEF D
      <4> QED BY <4>1, <4>2
    <3>3. Uploaded \in Injection(D, InUse(stored))
      BY <1>1, <3>2 DEF Injection, IsInjective
    <3> HIDE DEF D
    <3>4. Cardinality(D) <= Cardinality(InUse(stored))
      BY <3>1, <3>3, InUseFinite, FS_Injection
    <3> QED BY <3>1, <3>4
  <2> QED BY <1>1, <1>4, <2>1, InUseFinite
<1>8. FirstTime \in FirstTime..LastTime
  BY Times
<1> QED BY <1>6, <1>7, <1>8 DEF TableOK, LogScreensInit

LEMMA TableStep ==
  ASSUME TableOK, [LogScreensNext]_logScreensVars
  PROVE  TableOK' /\ RowsStay /\ HasIds(stored)'
<1>1. CASE \E l \in Logs : Upload(l)
  <2>1. PICK l \in Logs : Upload(l)
    BY <1>1
  <2> DEFINE n == Cardinality(InUse(stored))
  <2>2. stored' = [stored EXCEPT ![l] = n + 1] /\ stored[l] = 0 /\ UNCHANGED <<expired, user, now>>
    BY <2>1 DEF Upload, InUse
  <2>3. n \in Nat /\ IsFiniteSet(InUse(stored))
    BY InUseFinite
  <2>4. stored \in [Logs -> Nat] /\ stored' \in [Logs -> Nat] /\ stored'[l] = n + 1
        /\ \A m \in Logs \ {l} : stored'[m] = stored[m] /\ stored[m] <= n
    BY <2>2, <2>3 DEF TableOK, HasIds
  <2>5. InUse(stored') = InUse(stored) \cup {l} /\ l \notin InUse(stored)
    BY <2>2, <2>3, <2>4 DEF InUse
  <2>6. Cardinality(InUse(stored')) = n + 1
    BY <2>3, <2>5, FS_AddElement
  <2>7. HasIds(stored')
    BY <2>3, <2>4 DEF HasIds, TableOK
  <2>8. RowsStay
    BY <2>2, <2>4 DEF RowsStay, InUse
  <2>9. \A m \in Logs : stored'[m] <= n + 1
    BY <2>3, <2>4
  <2> QED BY <2>2, <2>6, <2>7, <2>8, <2>9 DEF TableOK
<1>2. CASE stored' = stored
  <2>1. expired' \subseteq Logs /\ user' \in [Launches -> People \cup {<<>>}] /\ now' \in FirstTime..LastTime
    <3>1. CASE UNCHANGED <<expired, user, now>>
      BY <3>1 DEF TableOK
    <3>2. CASE \E s \in Launches, u \in People : SetUser(s, u)
      BY <3>2 DEF SetUser, TableOK
    <3>3. CASE Cleanup
      BY <3>3 DEF Cleanup, TableOK, Visible
    <3>4. CASE Tick
      <4>1. now' \in FirstTime..LastTime
        BY <3>4, Times DEF Tick, TableOK
      <4> QED BY <3>4, <4>1 DEF Tick, TableOK
    <3>5. CASE \E l \in Logs : Upload(l)
      BY <3>5 DEF Upload, TableOK
    <3> QED BY <3>1, <3>2, <3>3, <3>4, <3>5
        DEF LogScreensNext, logScreensVars, table, OpenLogs, Type, Follow, ViewInLogs, LogViewer, LogsPartial, DrawSearch,
            ScrollDown, LogRows, ExportLogs, ExportPage, OpenNetwork, NetworkToolbar, OpenCall,
            OpenTab, CloseInspector, NetworkInspector, GetNetworkRequest, DrawInspector
  <2> QED BY <1>2, <2>1 DEF TableOK, RowsStay
<1> QED BY <1>1, <1>2
    DEF LogScreensNext, logScreensVars, table, OpenLogs, Type, Follow, ViewInLogs, LogViewer, LogsPartial, DrawSearch,
        ScrollDown, LogRows, ExportLogs, ExportPage, OpenNetwork, NetworkToolbar, OpenCall,
        OpenTab, CloseInspector, NetworkInspector, GetNetworkRequest, DrawInspector, SetUser, Cleanup, Tick

-----------------------------------------------------------------------------
(* The readers: the log viewer, its search box and its scroll.             *)

ListMatch == Matching(rows.filter, Since(rows.filter))

\* What the text in the box last asked for.
Asked == Parse(box.last)
BoxMatch == Matching(Asked.filter, Since(Asked.filter))
ExportMatch == Matching(download.filter, download.since)
BoxWanted == UNION {Matching(a.filter, Since(a.filter)) : a \in box.answer}

PageOK ==
  /\ page.screen \in {"none", "logs", "network"} /\ page.query \in Seq(Tokens)
  /\ IsFilter(page.filter) /\ page.tags \subseteq Values

PastOK == past \in [list : SUBSET Logs, box : SUBSET Logs, export : SUBSET Logs]

RowsOK ==
  /\ rows \in [query : Seq(Tokens), filter : Filters, of : SUBSET Filters, items : Seq(Logs),
               more : Places \cup {Nil}, fired : BOOLEAN]
  /\ rows.filter = Parse(rows.query).filter /\ rows.of \subseteq {rows.filter}
  /\ Continues(stored, [items |-> rows.items, more |-> rows.more], Nil, past.list)
  /\ past.list \subseteq ListMatch

\* A page under way comes after the rows there are, and is of their query.
ScrollOK ==
  scroll # Nil =>
    /\ scroll.filter = rows.filter /\ rows.more # Nil
    /\ Continues(stored, scroll.page, rows.more, past.list)

AnswersRead == \A a \in box.answer : a.ok = Asked.ok /\ a.filter = Asked.filter

BoxOK ==
  /\ box = [typed |-> box.typed, last |-> box.last, answer |-> box.answer]
  /\ box.typed \in Seq(Tokens) /\ box.last \in Seq(Tokens)
  /\ AnswersRead
  /\ \A a \in box.answer : a.ok => Continues(stored, a.page, Nil, past.box)
  /\ (\E a \in box.answer : a.ok) => past.box \subseteq BoxMatch
  /\ page.screen = "logs" /\ Asked.ok /\ box.answer = {} => rows.filter = Asked.filter

ListingOK == PageOK /\ PastOK /\ RowsOK /\ ScrollOK /\ BoxOK

LEMMA MatchingInUse ==
  ASSUME NEW f, NEW since
  PROVE  Matching(f, since) \subseteq InUse(stored) /\ Matching(f, since) \subseteq Logs
BY DEF Matching, Visible, InUse

LEMMA Limits == PageLimit \in Nat \ {0} /\ ExportLimit \in Nat \ {0} /\ NetworkLimit \in Nat \ {0}
                /\ Keep \in Nat \ {0}
<1>1. {PageLimit, ExportLimit, NetworkLimit, Keep} \subseteq Nat \ {0}
  BY LogScreensAssumption
<1> QED BY <1>1

LEMMA ListLogsContinues ==
  ASSUME HasIds(stored), NEW query, NEW cursor \in Places \cup {Nil}
  PROVE  LET got == ListLogs(query, cursor)
             f == Parse(query).filter
         IN  /\ got.ok = Parse(query).ok /\ got.filter = f
             /\ Continues(stored, got.page, cursor, Matching(f, Since(f)))
<1> DEFINE f == Parse(query).filter
           pg == List(f, Since(f), cursor, PageLimit)
<1>1. Continues(stored, pg, cursor, Matching(f, Since(f)))
  <2> HIDE DEF f
  <2> QED BY Limits, ListContinues DEF Places
<1>2. ListLogs(query, cursor) = [ok |-> Parse(query).ok, filter |-> f, page |-> pg]
  BY DEF ListLogs
<1> HIDE DEF pg
<1> QED BY <1>1, <1>2

\* Fewer logs asked of the same page.
LEMMA ContinuesFewer ==
  ASSUME NEW ids, HasIds(ids), NEW pg, NEW cursor, NEW wanted \in SUBSET InUse(ids),
         NEW less \in SUBSET wanted, Continues(ids, pg, cursor, wanted)
  PROVE  Continues(ids, pg, cursor, less)
BY DEF Continues

LEMMA ContinuesType ==
  ASSUME NEW ids, HasIds(ids), NEW pg, NEW cursor, NEW wanted, Continues(ids, pg, cursor, wanted)
  PROVE  pg.items \in Seq(Logs) /\ pg.more \in Places \cup {Nil}
<1>1. pg.items \in Seq(InUse(ids))
  BY DEF Continues
<1>2. pg.items \in Seq(Logs) /\ \A i \in DOMAIN pg.items : pg.items[i] \in Logs
  <2> DEFINE items == pg.items
  <2>1. items \in Seq(InUse(ids))
    BY <1>1
  <2> HIDE DEF items
  <2>2. DOMAIN items = 1..Len(items) /\ \A i \in DOMAIN items : items[i] \in InUse(ids)
    BY <2>1, LenProperties, ElementOfSeq
  <2>3. \A i \in 1..Len(items) : items[i] \in Logs
    BY <2>2 DEF InUse
  <2>4. items \in Seq(Logs)
    BY <2>1, <2>3, SeqGrows
  <2> QED BY <2>2, <2>3, <2>4 DEF items
<1>3. pg.more # Nil => pg.more \in Places
  <2> SUFFICES ASSUME pg.more # Nil PROVE pg.more \in Places
    OBVIOUS
  <2>1. pg.items # <<>> /\ pg.more = PlaceOf(ids, pg.items[Len(pg.items)])
    BY DEF Continues
  <2>2. Len(pg.items) \in DOMAIN pg.items
    BY <1>1, <2>1, EmptySeq, LenProperties
  <2> QED BY <1>2, <2>1, <2>2, PlaceType DEF Places
<1> QED BY <1>2, <1>3

\* The first page of a list.
LEMMA FirstPageOK ==
  ASSUME TableOK, NEW query \in Seq(Tokens), NEW found, NEW wanted \in SUBSET Logs,
         Continues(stored, found, Nil, wanted)
  PROVE  LET r == FirstPage(query, Parse(query).filter, found)
         IN  /\ r \in [query : Seq(Tokens), filter : Filters, of : SUBSET Filters, items : Seq(Logs),
                       more : Places \cup {Nil}, fired : BOOLEAN]
             /\ r.query = query /\ r.filter = Parse(query).filter /\ r.of \subseteq {r.filter}
             /\ Continues(stored, [items |-> r.items, more |-> r.more], Nil, wanted)
<1>1. IsRead(Parse(query)) /\ Parse(query).filter \in Filters
  BY ParseType DEF IsRead, IsFilter
<1>2. found.items \in Seq(Logs) /\ found.more \in Places \cup {Nil}
  BY ContinuesType DEF TableOK
<1>3. Continues(stored, [items |-> found.items, more |-> found.more], Nil, wanted)
  BY DEF Continues
<1> QED BY <1>1, <1>2, <1>3 DEF FirstPage

LEMMA NoListOK ==
  /\ NoList \in [query : Seq(Tokens), filter : Filters, of : SUBSET Filters, items : Seq(Logs),
                 more : Places \cup {Nil}, fired : BOOLEAN]
  /\ NoList.filter = Parse(NoList.query).filter /\ NoList.of \subseteq {NoList.filter}
  /\ \A ids : Continues(ids, [items |-> NoList.items, more |-> NoList.more], Nil, {})
<1>1. NoFilter \in Filters
  BY NoFilterType DEF IsFilter
<1>2. Parse(<<>>).filter = NoFilter
  BY ParseEmpty DEF Unread
<1>3. <<>> \in Seq(Tokens) /\ <<>> \in Seq(Logs)
  OBVIOUS
<1> QED BY <1>1, <1>2, <1>3, EmptyContinues DEF NoList

LEMMA ListingInit == LogScreensInit => ListingOK
<1> SUFFICES ASSUME LogScreensInit PROVE ListingOK
  OBVIOUS
<1>0. /\ page = Screen("none") /\ rows = NoList /\ box = NoBox /\ scroll = Nil
      /\ past = [list |-> {}, box |-> {}, export |-> {}]
  BY Zenon DEF LogScreensInit
<1>a. page.screen = "none" /\ page.query = <<>> /\ page.filter = NoFilter /\ page.tags = {}
  BY <1>0 DEF Screen
<1>b. <<>> \in Seq(Tokens)
  OBVIOUS
<1>c. box = [typed |-> <<>>, last |-> <<>>, answer |-> {}]
  BY <1>0 DEF NoBox
<1>1. PageOK
  BY <1>a, <1>b, NoFilterType DEF PageOK
<1>2. PastOK /\ past.list = {}
  BY <1>0 DEF PastOK
<1>3. RowsOK
  BY <1>0, <1>2, NoListOK DEF RowsOK
<1>4. ScrollOK
  BY <1>0 DEF ScrollOK
<1>5. BoxOK
  BY <1>a, <1>b, <1>c DEF BoxOK, AnswersRead
<1> QED BY <1>1, <1>2, <1>3, <1>4, <1>5 DEF ListingOK

LEMMA LogViewerListing ==
  ASSUME TableOK, ListingOK, NEW query \in Seq(Tokens), NEW by, LogViewer(query, by)
  PROVE  ListingOK'
<1> DEFINE read == Parse(query)
           f == read.filter
           found == List(f, Since(f), Nil, PageLimit)
           wanted == Matching(f, Since(f))
<1>1. IsRead(read) /\ IsFilter(f) /\ f \in Filters
  BY ParseType DEF IsRead, IsFilter
<1>2. Continues(stored, found, Nil, wanted) /\ wanted \subseteq Logs
  <2> HIDE DEF f
  <2> QED BY Limits, ListContinues, MatchingInUse DEF TableOK
<1>3. /\ page'.screen = "logs" /\ page'.query = query /\ page'.filter = f
      /\ page'.tags = TagCounts(Since(f))
  BY DEF LogViewer, Screen
<1>4. /\ rows' = FirstPage(query, f, found)
      /\ box' = [NoBox EXCEPT !.typed = query, !.last = query] /\ scroll' = Nil
      /\ past' = [past EXCEPT !.list = wanted, !.box = {}] /\ UNCHANGED <<stored, expired, user, now>>
  BY DEF LogViewer, table
<1>5. TagCounts(Since(f)) \subseteq Values
  <2>1. \A l \in Logs : Fact[l].tags \subseteq Values
    BY LogScreensAssumption
  <2> QED BY <2>1 DEF TagCounts, Visible
<1> HIDE DEF found
<1>6. PastOK' /\ past'.list = wanted
  <2> HIDE DEF wanted
  <2> QED BY <1>2, <1>4 DEF PastOK, ListingOK
<1>7. PageOK'
  <2> HIDE DEF f
  <2> QED BY <1>1, <1>3, <1>5 DEF PageOK
<1>8. /\ rows' \in [query : Seq(Tokens), filter : Filters, of : SUBSET Filters, items : Seq(Logs),
                       more : Places \cup {Nil}, fired : BOOLEAN]
      /\ rows'.query = query /\ rows'.filter = f /\ rows'.of \subseteq {rows'.filter}
      /\ Continues(stored, [items |-> rows'.items, more |-> rows'.more], Nil, wanted)
  <2> HIDE DEF wanted
  <2> QED BY <1>2, <1>4, FirstPageOK
<1>9. RowsOK'
  <2>1. stored' = stored /\ expired' = expired /\ user' = user /\ now' = now /\ rows'.filter = f
    BY <1>4, <1>8
  <2>2. ListMatch' = Matching(f, Since(f))
    <3> HIDE DEF f, wanted, read
    <3>1. Since(f)' = Since(f) /\ Visible' = Visible
      BY <2>1 DEF Since, Visible
    <3> QED BY <2>1, <3>1 DEF ListMatch, Matching, Since, Visible, Says
  <2>3. ListMatch' = wanted
    BY <2>2
  <2>4. /\ rows'.query = query /\ rows'.filter = Parse(rows'.query).filter
        /\ past'.list \subseteq ListMatch'
    BY <1>6, <1>8, <2>3
  <2> HIDE DEF wanted, f, read
  <2> QED BY <1>4, <1>6, <1>8, <2>4 DEF RowsOK
<1>10. ScrollOK'
  BY <1>4 DEF ScrollOK
<1>11. BoxOK'
  <2>1. box' = [typed |-> query, last |-> query, answer |-> {}]
    BY <1>4 DEF NoBox
  <2>2. Asked' = read
    BY <2>1 DEF Asked
  <2>3. rows'.filter = Asked'.filter
    BY <1>8, <2>2
  <2> QED BY <2>1, <2>3 DEF BoxOK, AnswersRead
<1> QED BY <1>6, <1>7, <1>9, <1>10, <1>11 DEF ListingOK

LEMMA OpenNetworkListing ==
  ASSUME TableOK, ListingOK, NEW address, OpenNetwork(address)
  PROVE  ListingOK'
<1>1. /\ page'.screen = "network" /\ page'.query = <<>> /\ page'.filter = NoFilter /\ page'.tags = {}
      /\ rows' = NoList /\ box' = NoBox /\ scroll' = Nil
      /\ past' = [past EXCEPT !.list = {}, !.box = {}]
  BY DEF OpenNetwork, Screen
<1>2. PageOK'
  BY <1>1, NoFilterType DEF PageOK
<1>3. PastOK' /\ past'.list = {}
  BY <1>1 DEF PastOK, ListingOK
<1>4. RowsOK'
  BY <1>1, <1>3, NoListOK DEF RowsOK
<1>5. ScrollOK'
  BY <1>1 DEF ScrollOK
<1>6. BoxOK'
  BY <1>1 DEF BoxOK, NoBox, AnswersRead
<1> QED BY <1>2, <1>3, <1>4, <1>5, <1>6 DEF ListingOK

LEMMA TypeListing ==
  ASSUME TableOK, ListingOK, NEW query \in Seq(Tokens), Type(query)
  PROVE  ListingOK'
<1>1. /\ box' = [box EXCEPT !.typed = query]
      /\ UNCHANGED <<stored, expired, user, now, page, rows, scroll, past>>
  BY DEF Type, table
<1>2. box' = [typed |-> query, last |-> box.last, answer |-> box.answer]
  BY <1>1 DEF ListingOK, BoxOK
<1>3. PageOK' /\ PastOK' /\ ScrollOK'
  BY <1>1 DEF ListingOK, PageOK, PastOK, ScrollOK
<1>4. RowsOK'
  <2>1. ListMatch' = ListMatch
    BY <1>1 DEF ListMatch, Matching, Since, Visible, Says
  <2> QED BY <1>1, <2>1 DEF ListingOK, RowsOK
<1>5. Asked' = Asked
  BY <1>2 DEF Asked
<1>6. BoxMatch' = BoxMatch
  BY <1>1, <1>5 DEF BoxMatch, Matching, Since, Visible, Says
<1>7. BoxOK'
  BY <1>1, <1>2, <1>5, <1>6 DEF ListingOK, BoxOK, AnswersRead
<1> QED BY <1>3, <1>4, <1>7 DEF ListingOK

LEMMA LogsPartialListing ==
  ASSUME TableOK, ListingOK, LogsPartial
  PROVE  ListingOK'
<1> DEFINE got == ListLogs(box.typed, Nil)
           f == Parse(box.typed).filter
           wanted == Matching(f, Since(f))
<1>1. /\ box' = [box EXCEPT !.last = box.typed, !.answer = {got}]
      /\ past' = [past EXCEPT !.box = IF got.ok THEN Matching(got.filter, Since(got.filter)) ELSE {}]
      /\ UNCHANGED <<stored, expired, user, now, page, rows, scroll>>
  BY DEF LogsPartial, table
<1>2. got.ok = Parse(box.typed).ok /\ got.filter = f /\ Continues(stored, got.page, Nil, wanted)
  BY ListLogsContinues DEF TableOK
<1> HIDE DEF got
<1>3. box' = [typed |-> box.typed, last |-> box.typed, answer |-> {got}]
  BY <1>1 DEF ListingOK, BoxOK
<1>4. past' = [past EXCEPT !.box = IF got.ok THEN wanted ELSE {}]
  BY <1>1, <1>2
<1>5. wanted \subseteq Logs
  BY MatchingInUse
<1>6. Asked' = Parse(box.typed)
  BY <1>3 DEF Asked
<1>7. BoxMatch' = wanted
  BY <1>1, <1>6 DEF BoxMatch, Matching, Since, Visible, Says
<1> HIDE DEF f, wanted
<1>8. PastOK' /\ past'.list = past.list /\ past'.box = IF got.ok THEN wanted ELSE {}
  BY <1>4, <1>5 DEF PastOK, ListingOK
<1>9. PageOK' /\ ScrollOK'
  BY <1>1, <1>8 DEF ListingOK, PageOK, ScrollOK
<1>10. RowsOK'
  <2>1. ListMatch' = ListMatch
    BY <1>1 DEF ListMatch, Matching, Since, Visible, Says
  <2> QED BY <1>1, <1>8, <2>1 DEF ListingOK, RowsOK
<1>11. BoxOK'
  <2>1. AnswersRead'
    <3>1. Asked'.filter = f /\ Asked'.ok = got.ok
      BY <1>2, <1>6 DEF f
    <3> QED BY <1>2, <1>3, <3>1 DEF AnswersRead
  <2>2. \A a \in box'.answer : a.ok => Continues(stored', a.page, Nil, past'.box)
    BY <1>1, <1>2, <1>3, <1>8
  <2>3. past'.box \subseteq BoxMatch'
    BY <1>7, <1>8
  <2>4. box.typed \in Seq(Tokens)
    BY DEF ListingOK, BoxOK
  <2> QED BY <1>3, <2>1, <2>2, <2>3, <2>4 DEF BoxOK
<1> QED BY <1>8, <1>9, <1>10, <1>11 DEF ListingOK

LEMMA DrawSearchListing ==
  ASSUME TableOK, ListingOK, NEW a \in box.answer, DrawSearch(a)
  PROVE  ListingOK'
<1>1. box' = [box EXCEPT !.answer = {}] /\ UNCHANGED <<stored, expired, user, now, page>>
  BY DEF DrawSearch, table
<1>2. box' = [typed |-> box.typed, last |-> box.last, answer |-> {}]
      /\ box.typed \in Seq(Tokens) /\ box.last \in Seq(Tokens)
  BY <1>1 DEF ListingOK, BoxOK
<1>3. Asked' = Asked /\ a.ok = Asked.ok /\ a.filter = Asked.filter
  BY <1>2 DEF Asked, ListingOK, BoxOK, AnswersRead
<1>4. AnswersRead'
  BY <1>2 DEF AnswersRead
<1>5. PageOK'
  BY <1>1 DEF ListingOK, PageOK
<1>6. CASE a.ok
  <2>1. /\ rows' = FirstPage(box.last, a.filter, a.page) /\ scroll' = Nil
        /\ past' = [past EXCEPT !.list = past.box, !.box = {}]
    BY <1>6 DEF DrawSearch, Detached
  <2>2. PastOK' /\ past'.list = past.box /\ past'.box = {} /\ past.box \subseteq Logs
    BY <2>1 DEF ListingOK, PastOK
  <2>3. Continues(stored, a.page, Nil, past.box)
    BY <1>6 DEF ListingOK, BoxOK
  <2>4. /\ rows' \in [query : Seq(Tokens), filter : Filters, of : SUBSET Filters, items : Seq(Logs),
                         more : Places \cup {Nil}, fired : BOOLEAN]
        /\ rows'.query = box.last /\ rows'.filter = Asked.filter /\ rows'.of \subseteq {rows'.filter}
        /\ Continues(stored, [items |-> rows'.items, more |-> rows'.more], Nil, past.box)
    <3>1. rows' = FirstPage(box.last, Parse(box.last).filter, a.page)
      BY <1>3, <2>1 DEF Asked
    <3> QED BY <1>2, <2>2, <2>3, <3>1, FirstPageOK DEF Asked
  <2>5. ListMatch' = BoxMatch
    BY <1>1, <2>4 DEF ListMatch, BoxMatch, Matching, Since, Visible, Says
  <2>6. past.box \subseteq BoxMatch
    BY <1>6 DEF ListingOK, BoxOK
  <2>7. RowsOK'
    BY <1>1, <2>2, <2>4, <2>5, <2>6 DEF RowsOK, Asked
  <2>8. ScrollOK'
    BY <2>1 DEF ScrollOK
  <2>9. BoxOK'
    BY <1>2, <1>3, <1>4, <2>4 DEF BoxOK
  <2> QED BY <1>5, <2>2, <2>7, <2>8, <2>9 DEF ListingOK
<1>7. CASE ~a.ok
  <2>1. UNCHANGED <<rows, scroll, past>>
    BY <1>7 DEF DrawSearch
  <2>2. PastOK' /\ ScrollOK'
    BY <1>1, <2>1 DEF ListingOK, PastOK, ScrollOK
  <2>3. ListMatch' = ListMatch
    BY <1>1, <2>1 DEF ListMatch, Matching, Since, Visible, Says
  <2>4. RowsOK'
    BY <1>1, <2>1, <2>3 DEF ListingOK, RowsOK
  <2>5. ~Asked'.ok
    BY <1>3, <1>7
  <2>6. BoxOK'
    BY <1>2, <1>4, <2>5 DEF BoxOK
  <2> QED BY <1>5, <2>2, <2>4, <2>6 DEF ListingOK
<1> QED BY <1>6, <1>7

\* A step that leaves the box and what its answer has to hold alone.
LEMMA BoxStays ==
  ASSUME BoxOK, UNCHANGED <<stored, expired, user, now, page, box>>, past'.box = past.box,
         rows'.filter = rows.filter
  PROVE  BoxOK'
<1>1. Asked' = Asked
  BY DEF Asked
<1>2. BoxMatch' = BoxMatch
  BY <1>1 DEF BoxMatch, Matching, Since, Visible, Says
<1> QED BY <1>1, <1>2 DEF BoxOK, AnswersRead

LEMMA ScrollDownListing ==
  ASSUME TableOK, ListingOK, ScrollDown
  PROVE  ListingOK'
<1>1. /\ rows.more # Nil /\ scroll' = ListLogs(rows.query, rows.more)
      /\ rows' = [rows EXCEPT !.fired = TRUE]
      /\ UNCHANGED <<stored, expired, user, now, page, box, past>>
  BY DEF ScrollDown, table
<1>2. RowsOK
  BY DEF ListingOK
<1>3. /\ rows' \in [query : Seq(Tokens), filter : Filters, of : SUBSET Filters, items : Seq(Logs),
                       more : Places \cup {Nil}, fired : BOOLEAN]
      /\ rows'.query = rows.query /\ rows'.filter = rows.filter /\ rows'.of = rows.of
      /\ rows'.items = rows.items /\ rows'.more = rows.more
  BY <1>1, <1>2 DEF RowsOK
<1>4. PageOK' /\ PastOK'
  BY <1>1 DEF ListingOK, PageOK, PastOK
<1>5. ListMatch' = ListMatch
  BY <1>1, <1>3 DEF ListMatch, Matching, Since, Visible, Says
<1>6. RowsOK'
  BY <1>1, <1>2, <1>3, <1>5 DEF RowsOK
<1>7. BoxOK'
  BY <1>1, <1>3, BoxStays DEF ListingOK
<1>8. ScrollOK'
  <2>1. rows.more \in Places \cup {Nil} /\ rows.filter = Parse(rows.query).filter
        /\ past.list \subseteq ListMatch
    BY <1>2 DEF RowsOK
  <2>2. /\ scroll'.filter = rows.filter
        /\ Continues(stored, scroll'.page, rows.more, ListMatch)
    BY <1>1, <2>1, ListLogsContinues DEF TableOK, ListMatch
  <2>3. ListMatch \subseteq InUse(stored)
    BY MatchingInUse DEF ListMatch
  <2>4. Continues(stored, scroll'.page, rows.more, past.list)
    BY <2>1, <2>2, <2>3, ContinuesFewer DEF TableOK
  <2> QED BY <1>1, <1>3, <2>2, <2>4 DEF ScrollOK
<1> QED BY <1>4, <1>6, <1>7, <1>8 DEF ListingOK

LEMMA LogRowsListing ==
  ASSUME TableOK, ListingOK, LogRows
  PROVE  ListingOK'
<1>1. scroll # Nil /\ scroll' = Nil /\ UNCHANGED <<stored, expired, user, now, page, box, past>>
  BY DEF LogRows, table
<1>2. /\ scroll.filter = rows.filter /\ rows.more # Nil
      /\ Continues(stored, scroll.page, rows.more, past.list)
  BY <1>1 DEF ListingOK, ScrollOK
<1>3. RowsOK /\ past.list \subseteq Logs
  BY DEF ListingOK, PastOK
<1>4. PageOK' /\ PastOK'
  BY <1>1 DEF ListingOK, PageOK, PastOK
<1>5. ScrollOK'
  BY <1>1 DEF ScrollOK
<1>6. CASE ~scroll.ok
  <2>1. rows' = rows
    BY <1>6 DEF LogRows
  <2>2. ListMatch' = ListMatch
    BY <1>1, <2>1 DEF ListMatch, Matching, Since, Visible, Says
  <2>3. RowsOK'
    BY <1>1, <1>3, <2>1, <2>2 DEF RowsOK
  <2>4. BoxOK'
    BY <1>1, <2>1, BoxStays DEF ListingOK
  <2> QED BY <1>4, <1>5, <2>3, <2>4 DEF ListingOK
<1>7. CASE scroll.ok
  <2> DEFINE items == rows.items \o scroll.page.items
             more == scroll.page.more
  <2>1. rows' = [rows EXCEPT !.items = items, !.more = more, !.of = rows.of \cup {scroll.filter},
                             !.fired = FALSE]
    BY <1>7 DEF LogRows
  <2>2. /\ rows \in [query : Seq(Tokens), filter : Filters, of : SUBSET Filters, items : Seq(Logs),
                       more : Places \cup {Nil}, fired : BOOLEAN]
        /\ rows.filter = Parse(rows.query).filter /\ rows.of \subseteq {rows.filter}
        /\ Continues(stored, [items |-> rows.items, more |-> rows.more], Nil, past.list)
        /\ past.list \subseteq ListMatch
    BY <1>3 DEF RowsOK
  <2>3. Continues(stored, [items |-> items, more |-> more], Nil, past.list)
    BY <1>2, <1>3, <2>2, Extended DEF TableOK
  <2>4. items \in Seq(Logs) /\ more \in Places \cup {Nil}
    <3> DEFINE pg == [items |-> items, more |-> more]
    <3>1. Continues(stored, pg, Nil, past.list)
      BY <2>3
    <3>2. pg.items \in Seq(Logs) /\ pg.more \in Places \cup {Nil}
      <4> HIDE DEF pg
      <4> QED BY <3>1, ContinuesType DEF TableOK
    <3> QED BY <3>2
  <2> HIDE DEF items, more
  <2>5. rows.of \cup {scroll.filter} \in SUBSET Filters /\ rows.of \cup {scroll.filter} \subseteq {rows.filter}
    BY <1>2, <2>2
  <2>6. /\ rows' \in [query : Seq(Tokens), filter : Filters, of : SUBSET Filters, items : Seq(Logs),
                       more : Places \cup {Nil}, fired : BOOLEAN]
        /\ rows'.query = rows.query /\ rows'.filter = rows.filter /\ rows'.of \subseteq {rows.filter}
        /\ rows'.items = items /\ rows'.more = more
    BY <2>1, <2>2, <2>4, <2>5
  <2>7. ListMatch' = ListMatch
    BY <1>1, <2>6 DEF ListMatch, Matching, Since, Visible, Says
  <2>8. RowsOK'
    BY <1>1, <2>2, <2>3, <2>6, <2>7 DEF RowsOK
  <2>9. BoxOK'
    BY <1>1, <2>6, BoxStays DEF ListingOK
  <2> QED BY <1>4, <1>5, <2>8, <2>9 DEF ListingOK
<1> QED BY <1>6, <1>7

\* What the export and the inspector do.
LEMMA OtherListing ==
  ASSUME TableOK, ListingOK, PastOK', UNCHANGED <<stored, expired, user, now, page, rows, box, scroll>>,
         past'.list = past.list, past'.box = past.box
  PROVE  ListingOK'
<1>1. PageOK' /\ ScrollOK'
  BY DEF ListingOK, PageOK, ScrollOK
<1>2. ListMatch' = ListMatch
  BY DEF ListMatch, Matching, Since, Visible, Says
<1>3. RowsOK'
  BY <1>2 DEF ListingOK, RowsOK
<1>4. BoxOK'
  BY BoxStays DEF ListingOK
<1> QED BY <1>1, <1>3, <1>4 DEF ListingOK

WantedIsAsked == BoxWanted \subseteq BoxMatch

LEMMA AnswersWanted == AnswersRead => WantedIsAsked
BY DEF AnswersRead, BoxWanted, BoxMatch, WantedIsAsked

\* Uploads, setUser(), retention and time.
LEMMA TableListing ==
  ASSUME TableOK, RowsStay, HasIds(stored'), ListingOK, UNCHANGED listing, past' = Still(Wanted')
  PROVE  ListingOK'
<1>1. UNCHANGED <<page, rows, box, scroll>>
  BY DEF listing
<1>2. /\ past'.list = past.list \cap ListMatch' /\ past'.box = past.box \cap BoxWanted'
      /\ past'.export = past.export \cap ExportMatch'
      /\ past' = [list |-> past'.list, box |-> past'.box, export |-> past'.export]
  BY DEF Still, Wanted, ListMatch, BoxWanted, ExportMatch
<1>3. PastOK'
  BY <1>2 DEF ListingOK, PastOK
<1>4. PageOK'
  BY <1>1 DEF ListingOK, PageOK
<1>5. /\ HasIds(stored) /\ \A l \in InUse(stored) : stored'[l] = stored[l]
      /\ past.list \subseteq InUse(stored)
  BY MatchingInUse DEF TableOK, RowsStay, ListingOK, RowsOK, ListMatch
<1>6. RowsOK'
  <2>1. Continues(stored', [items |-> rows.items, more |-> rows.more], Nil, past'.list)
    BY <1>2, <1>5, ContinuesStays DEF ListingOK, RowsOK
  <2> QED BY <1>1, <1>2, <2>1 DEF ListingOK, RowsOK
<1>7. ScrollOK'
  <2> SUFFICES ASSUME scroll # Nil
               PROVE  /\ scroll.filter = rows.filter /\ rows.more # Nil
                      /\ Continues(stored', scroll.page, rows.more, past'.list)
    BY <1>1 DEF ScrollOK
  <2>1. /\ scroll.filter = rows.filter /\ rows.more # Nil
        /\ Continues(stored, scroll.page, rows.more, past.list)
    BY DEF ListingOK, ScrollOK
  <2> QED BY <1>2, <1>5, <2>1, ContinuesStays
<1>8. BoxOK'
  <2>1. Asked' = Asked
    BY <1>1 DEF Asked
  <2>2. AnswersRead' /\ BoxWanted' \subseteq BoxMatch'
    <3>1. AnswersRead'
      BY <1>1, <2>1 DEF ListingOK, BoxOK, AnswersRead
    <3>2. AnswersRead' => WantedIsAsked'
      BY AnswersWanted, PTL
    <3> QED BY <3>1, <3>2 DEF WantedIsAsked
  <2>3. ASSUME NEW a \in box.answer, a.ok
        PROVE  Continues(stored', a.page, Nil, past'.box) /\ past'.box \subseteq BoxMatch'
    <3>1. Continues(stored, a.page, Nil, past.box) /\ past.box \subseteq InUse(stored)
      BY <2>3, MatchingInUse DEF ListingOK, BoxOK, BoxMatch
    <3>2. Continues(stored', a.page, Nil, past'.box)
      BY <1>2, <1>5, <3>1, ContinuesStays
    <3> QED BY <1>2, <2>2, <3>2
  <2> QED BY <1>1, <2>1, <2>2, <2>3 DEF ListingOK, BoxOK
<1> QED BY <1>3, <1>4, <1>6, <1>7, <1>8 DEF ListingOK

-----------------------------------------------------------------------------
(* The export.                                                             *)

\* The file is empty, or a list read so far.
Written ==
  \/ download.items = <<>> /\ download.more = Nil /\ download.state # "complete"
  \/ /\ Continues(stored, [items |-> download.items, more |-> download.more], Nil, past.export)
     /\ download.state = "running" => download.more # Nil

DownloadOK ==
  /\ download = [state |-> download.state, filter |-> download.filter, since |-> download.since,
                 items |-> download.items, more |-> download.more]
  /\ download.state \in {"none", "running", "complete"} /\ IsFilter(download.filter)
  /\ past.export \subseteq ExportMatch
  /\ Written

LEMMA DownloadInit == LogScreensInit => DownloadOK
<1> SUFFICES ASSUME LogScreensInit PROVE DownloadOK
  OBVIOUS
<1>1. download = NotStarted /\ past = [list |-> {}, box |-> {}, export |-> {}]
  BY Zenon DEF LogScreensInit
<1>2. /\ download.state = "none" /\ download.filter = NoFilter /\ download.since = Nil
      /\ download.items = <<>> /\ download.more = Nil /\ past.export = {}
      /\ download = [state |-> download.state, filter |-> download.filter, since |-> download.since,
                     items |-> download.items, more |-> download.more]
  BY <1>1 DEF NotStarted
<1> QED BY <1>2, NoFilterType DEF DownloadOK, Written

LEMMA ExportLogsDownload ==
  ASSUME TableOK, ListingOK, ExportLogs
  PROVE  DownloadOK' /\ PastOK' /\ past'.list = past.list /\ past'.box = past.box
<1> DEFINE read == Parse(page.query)
           f == read.filter
           since == Since(f)
<1>1. IsRead(read) /\ IsFilter(f)
  BY ParseType DEF IsRead, ListingOK, PageOK
<1>2. /\ download' = [NotStarted EXCEPT !.state = "running", !.filter = f, !.since = since]
      /\ past' = [past EXCEPT !.export = Matching(f, since)]
      /\ UNCHANGED <<stored, expired, user, now>>
  BY DEF ExportLogs, table
<1> HIDE DEF f, since
<1>3. /\ download'.state = "running" /\ download'.filter = f /\ download'.since = since
      /\ download'.items = <<>> /\ download'.more = Nil
      /\ download' = [state |-> download'.state, filter |-> download'.filter, since |-> download'.since,
                     items |-> download'.items, more |-> download'.more]
  BY <1>2 DEF NotStarted
<1>4. Matching(f, since) \subseteq Logs
  BY MatchingInUse
<1>5. PastOK' /\ past'.list = past.list /\ past'.box = past.box /\ past'.export = Matching(f, since)
  BY <1>2, <1>4 DEF ListingOK, PastOK
<1>6. ExportMatch' = Matching(f, since)
  BY <1>2, <1>3 DEF ExportMatch, Matching, Visible, Says
<1> QED BY <1>1, <1>3, <1>5, <1>6 DEF DownloadOK, Written

LEMMA ExportPageDownload ==
  ASSUME TableOK, ListingOK, DownloadOK, ExportPage
  PROVE  DownloadOK'
<1> DEFINE got == List(download.filter, download.since, download.more, ExportLimit)
<1>1. /\ download.state = "running"
      /\ download' = [download EXCEPT !.items = download.items \o got.items, !.more = got.more,
                                      !.state = IF got.more = Nil THEN "complete" ELSE "running"]
      /\ UNCHANGED <<stored, expired, user, now, past>>
  BY DEF ExportPage, table
<1>2. HasIds(stored) /\ past.export \subseteq ExportMatch /\ ExportMatch \subseteq InUse(stored)
      /\ past.export \subseteq Logs
  BY MatchingInUse DEF TableOK, DownloadOK, ExportMatch, ListingOK, PastOK
<1>3. download.more \in Places \cup {Nil}
  <2>1. CASE download.more = Nil
    BY <2>1
  <2>2. CASE Continues(stored, [items |-> download.items, more |-> download.more], Nil, past.export)
    <3> DEFINE pg == [items |-> download.items, more |-> download.more]
    <3>1. Continues(stored, pg, Nil, past.export)
      BY <2>2
    <3>2. pg.more \in Places \cup {Nil}
      <4> HIDE DEF pg
      <4> QED BY <1>2, <3>1, ContinuesType
    <3> QED BY <3>2
  <2> QED BY <2>1, <2>2 DEF DownloadOK, Written
<1>4. Continues(stored, got, download.more, ExportMatch)
  BY <1>2, <1>3, Limits, ListContinues DEF ExportMatch, Places
<1>5. Continues(stored, got, download.more, past.export)
  BY <1>2, <1>4, ContinuesFewer
<1> HIDE DEF got
<1>6. /\ download'.state = IF got.more = Nil THEN "complete" ELSE "running"
      /\ download'.filter = download.filter /\ download'.since = download.since
      /\ download'.items = download.items \o got.items /\ download'.more = got.more
      /\ download' = [state |-> download'.state, filter |-> download'.filter, since |-> download'.since,
                     items |-> download'.items, more |-> download'.more]
  BY <1>1 DEF DownloadOK
<1>7. Continues(stored, [items |-> download.items \o got.items, more |-> got.more], Nil, past.export)
  <2>1. CASE download.items = <<>> /\ download.more = Nil
    <3>1. got.items \in Seq(Logs)
      BY <1>2, <1>5, ContinuesType
    <3>2. download.items \o got.items = got.items
      BY <2>1, <3>1, ConcatEmptySeq
    <3> QED BY <1>5, <2>1, <3>2 DEF Continues
  <2>2. CASE /\ Continues(stored, [items |-> download.items, more |-> download.more], Nil, past.export)
             /\ download.more # Nil
    BY <1>2, <1>5, <2>2, Extended
  <2> QED BY <1>1, <2>1, <2>2 DEF DownloadOK, Written
<1>8. ExportMatch' = ExportMatch
  BY <1>1, <1>6 DEF ExportMatch, Matching, Visible, Says
<1>9. Written'
  BY <1>1, <1>6, <1>7 DEF Written
<1>10. IsFilter(download'.filter) /\ past'.export \subseteq ExportMatch'
  BY <1>1, <1>6, <1>8 DEF DownloadOK
<1> QED BY <1>6, <1>9, <1>10 DEF DownloadOK

LEMMA TableDownload ==
  ASSUME TableOK, RowsStay, HasIds(stored'), ListingOK, DownloadOK, download' = download,
         past' = Still(Wanted')
  PROVE  DownloadOK'
<1>1. past'.export = past.export \cap ExportMatch'
  BY DEF Still, Wanted, ExportMatch
<1>2. /\ HasIds(stored) /\ \A l \in InUse(stored) : stored'[l] = stored[l]
      /\ past.export \subseteq InUse(stored)
  BY MatchingInUse DEF TableOK, RowsStay, DownloadOK, ExportMatch
<1>3. Written'
  <2>1. CASE download.items = <<>> /\ download.more = Nil /\ download.state # "complete"
    BY <2>1 DEF Written
  <2>2. CASE /\ Continues(stored, [items |-> download.items, more |-> download.more], Nil, past.export)
             /\ download.state = "running" => download.more # Nil
    <3>1. Continues(stored', [items |-> download.items, more |-> download.more], Nil, past'.export)
      BY <1>1, <1>2, <2>2, ContinuesStays
    <3> QED BY <2>2, <3>1 DEF Written
  <2> QED BY <2>1, <2>2 DEF DownloadOK, Written
<1> QED BY <1>1, <1>3 DEF DownloadOK

LEMMA OtherDownload ==
  ASSUME DownloadOK, UNCHANGED <<stored, expired, user, now, download>>, past'.export = past.export
  PROVE  DownloadOK'
<1>1. ExportMatch' = ExportMatch
  BY DEF ExportMatch, Matching, Visible, Says
<1> QED BY <1>1 DEF DownloadOK, Written

-----------------------------------------------------------------------------
(* Network calls.                                                          *)

LEMMA CallStays ==
  ASSUME Visible' = Visible, NEW c
  PROVE  NetworkCall(c)' = NetworkCall(c) /\ PhasesOf(c)' = PhasesOf(c)
<1>1. PhaseLogs(c)' = PhaseLogs(c)
  BY DEF PhaseLogs
<1>2. PhasesOf(c)' = PhasesOf(c)
  BY <1>1 DEF PhasesOf
<1>3. {Fact[l].at : l \in PhaseLogs(c)}' = {Fact[l].at : l \in PhaseLogs(c)}
  BY <1>1
<1>4. Earliest({Fact[l].at : l \in PhaseLogs(c)})' = Earliest({Fact[l].at : l \in PhaseLogs(c)})
  BY <1>3
<1>5. (\E l \in PhaseLogs(c) : Fact[l].phase = "error" \/ Fact[l].failed)'
        = (\E l \in PhaseLogs(c) : Fact[l].phase = "error" \/ Fact[l].failed)
  BY <1>1
<1> QED BY <1>1, <1>2, <1>4, <1>5 DEF NetworkCall

NewestCalls(kept) ==
  CHOOSE s \in SetToSeqs(kept) : \A i, j \in DOMAIN s : i < j => s[i].started >= s[j].started
CallIds(scope) == {Fact[l].call : l \in {m \in Visible : scope \in {Nil, Fact[m].launch}}} \ {Nil}
Kept(scope, show) == {c \in {NetworkCall(id) : id \in CallIds(scope)} : show = "failed" => c.failed}
Top(sorted) == IF Len(sorted) > NetworkLimit THEN SubSeq(sorted, 1, NetworkLimit) ELSE sorted

LEMMA ListNetworkCallsIs ==
  \A scope, show : ListNetworkCalls(scope, show) = Top(NewestCalls(Kept(scope, show)))
BY DEF ListNetworkCalls, Top, NewestCalls, Kept, CallIds

LEMMA ListStays ==
  ASSUME Visible' = Visible, NEW scope, NEW show
  PROVE  ListNetworkCalls(scope, show)' = ListNetworkCalls(scope, show)
<1>1. CallIds(scope)' = CallIds(scope)
  BY DEF CallIds
<1>2. Kept(scope, show)' = Kept(scope, show)
  BY <1>1, CallStays DEF Kept
<1>3. ListNetworkCalls(scope, show) = Top(NewestCalls(Kept(scope, show)))
  BY ListNetworkCallsIs
<1>4. ListNetworkCalls(scope, show)' = Top(NewestCalls(Kept(scope, show)))'
  BY DEF ListNetworkCalls, Top, NewestCalls, Kept, CallIds
<1>5. Top(NewestCalls(Kept(scope, show)))' = Top(NewestCalls(Kept(scope, show)'))
  OBVIOUS
<1> QED BY <1>2, <1>3, <1>4, <1>5

LEMMA ImageFinite ==
  ASSUME NEW S, IsFiniteSet(S), NEW T, NEW f \in [S -> T], \A t \in T : \E s \in S : f[s] = t
  PROVE  IsFiniteSet(T) /\ Cardinality(T) <= Cardinality(S)
<1>1. f \in Surjection(S, T)
  BY DEF Surjection
<1> QED BY <1>1, FS_Surjection

LEMMA KeptFinite ==
  ASSUME NEW scope, NEW show
  PROVE  IsFiniteSet(Kept(scope, show))
<1> DEFINE seen == {m \in Visible : scope \in {Nil, Fact[m].launch}}
           ids == {Fact[l].call : l \in seen}
           calls == {NetworkCall(id) : id \in CallIds(scope)}
<1>1. IsFiniteSet(seen)
  <2>1. IsFiniteSet(Logs) /\ seen \subseteq Logs
    BY LogScreensAssumption DEF Visible
  <2> HIDE DEF seen
  <2> QED BY <2>1, FS_Subset
<1>2. IsFiniteSet(ids)
  <2> DEFINE f == [l \in seen |-> Fact[l].call]
  <2>1. f \in [seen -> ids]
    OBVIOUS
  <2>2. \A t \in ids : \E s \in seen : f[s] = t
    OBVIOUS
  <2> HIDE DEF seen, ids, f
  <2> QED BY <1>1, <2>1, <2>2, ImageFinite
<1>3. IsFiniteSet(CallIds(scope))
  <2>1. CallIds(scope) \subseteq ids
    BY DEF CallIds
  <2> HIDE DEF ids
  <2> QED BY <1>2, <2>1, FS_Subset
<1>4. IsFiniteSet(calls)
  <2> DEFINE f == [id \in CallIds(scope) |-> NetworkCall(id)]
  <2>1. f \in [CallIds(scope) -> calls]
    OBVIOUS
  <2>2. \A t \in calls : \E s \in CallIds(scope) : f[s] = t
    OBVIOUS
  <2> HIDE DEF calls, f
  <2> QED BY <1>3, <2>1, <2>2, ImageFinite
<1>5. Kept(scope, show) \subseteq calls
  BY DEF Kept
<1> HIDE DEF calls
<1> QED BY <1>4, <1>5, FS_Subset

LEMMA KeptStarted ==
  ASSUME NEW scope, NEW show, NEW c \in Kept(scope, show)
  PROVE  c.started \in Nat
<1>1. PICK id \in CallIds(scope) : c = NetworkCall(id)
  BY DEF Kept
<1> DEFINE times == {Fact[l].at : l \in PhaseLogs(id)}
<1>2. PICK l \in Visible : Fact[l].call = id
  BY DEF CallIds
<1>3. times \subseteq Nat /\ times # {}
  BY <1>2, FactAge DEF PhaseLogs, Visible
<1>4. Earliest(times) \in times
  <2> HIDE DEF times
  <2> QED BY <1>3, SmallestNumber DEF Earliest
<1>5. c.started = Earliest(times)
  BY <1>1 DEF NetworkCall
<1> QED BY <1>3, <1>4, <1>5

LEMMA NewestCallsListed ==
  ASSUME NEW scope, NEW show
  PROVE  NewestCalls(Kept(scope, show)) \in SetToSeqs(Kept(scope, show))
<1> DEFINE S == Kept(scope, show)
           n == Cardinality(S)
           R == {p \in S \X S : p[1].started >= p[2].started}
           s == NewestCalls(S)
<1>1. IsFiniteSet(S) /\ \A c \in S : c.started \in Nat
  BY KeptFinite, KeptStarted
<1>2. n \in Nat
  <2> HIDE DEF S
  <2> QED BY <1>1, FS_CardinalityType
<1> HIDE DEF S
<1>3. \A x, y \in S : <<x, y>> \in R <=> x.started >= y.started
  OBVIOUS
<1> HIDE DEF R
<1>4. \A x, y \in S : <<x, y>> \in R \/ <<y, x>> \in R
  <2> TAKE x, y \in S
  <2>1. x.started \in Nat /\ y.started \in Nat
    BY <1>1
  <2> QED BY <1>3, <2>1
<1>5. \A x, y, z \in S : <<x, y>> \in R /\ <<y, z>> \in R => <<x, z>> \in R
  <2> TAKE x, y, z \in S
  <2>1. x.started \in Nat /\ y.started \in Nat /\ z.started \in Nat
    BY <1>1
  <2> QED BY <1>3, <2>1
<1>6. \A t \in SetToSeqs(S) : t \in [1..n -> S] /\ DOMAIN t = 1..n
  BY DEF SetToSeqs
<1>7. \E t \in SetToSeqs(S) : \A i, j \in DOMAIN t : i < j => t[i].started >= t[j].started
  <2>1. PICK t \in SetToSeqs(S) : \A i, j \in DOMAIN t : i < j => <<t[i], t[j]>> \in R
    BY <1>1, <1>4, <1>5, Sorting
  <2>2. \A i \in DOMAIN t : t[i] \in S
    BY <1>6
  <2>3. \A i, j \in DOMAIN t : i < j => t[i].started >= t[j].started
    BY <1>3, <2>1, <2>2
  <2> QED BY <2>3
<1>8. s \in SetToSeqs(S)
  BY <1>7 DEF NewestCalls
<1> QED BY <1>8 DEF s, S

\* The list of the screen is a sequence.
LEMMA CallsListed ==
  ASSUME NEW scope, NEW show
  PROVE  ListNetworkCalls(scope, show) \in Seq(Kept(scope, show))
<1> DEFINE S == Kept(scope, show)
           s == NewestCalls(S)
<1>1. s \in SetToSeqs(S) /\ Cardinality(S) \in Nat
  BY NewestCallsListed, KeptFinite, FS_CardinalityType
<1>2. s \in Seq(S) /\ Len(s) \in Nat
  <2>1. s \in [1..Cardinality(S) -> S]
    BY <1>1 DEF SetToSeqs
  <2> HIDE DEF s, S
  <2> QED BY <1>1, <2>1, IntoSeq
<1> HIDE DEF s, S
<1>3. Top(s) \in Seq(S)
  <2>1. CASE Len(s) > NetworkLimit
    <3>1. NetworkLimit \in Nat
      BY Limits
    <3>2. SubSeq(s, 1, NetworkLimit) \in Seq(S)
      BY <1>2, <2>1, <3>1, SubSeqProperties
    <3> QED BY <2>1, <3>2 DEF Top
  <2>2. CASE ~(Len(s) > NetworkLimit)
    BY <1>2, <2>2 DEF Top
  <2> QED BY <2>1, <2>2
<1> QED BY <1>3, ListNetworkCallsIs DEF s, S

LEMMA SelectedIsListed ==
  ASSUME NEW calls, NEW X, calls \in Seq(X), NEW rid, SelectedCall(calls, rid) # Nil
  PROVE  \E i \in DOMAIN calls : calls[i].id = SelectedCall(calls, rid)
<1> DEFINE named == {i \in DOMAIN calls : rid = Nil \/ calls[i].id = rid}
<1>1. named \subseteq Nat
  BY LenProperties
<1>2. named # {} /\ SelectedCall(calls, rid) = calls[Min(named)].id
  BY DEF SelectedCall
<1>3. Min(named) \in named
  <2> HIDE DEF named
  <2> QED BY <1>1, <1>2, MinNumber
<1> QED BY <1>2, <1>3

-----------------------------------------------------------------------------
(* The pane of the inspector.                                              *)

PaneOK(pane) ==
  IF pane.phases = {} THEN pane.tab = "" ELSE pane.tab \in AvailableTabs(pane.phases)

LEMMA DefaultTabType ==
  ASSUME NEW phases
  PROVE  IF phases = {} THEN DefaultTab(phases) = "" ELSE DefaultTab(phases) \in AvailableTabs(phases)
<1> SUFFICES ASSUME phases # {} PROVE DefaultTab(phases) \in AvailableTabs(phases)
  BY DEF DefaultTab
<1> DEFINE order == <<"error", "response", "payload", "headers">>
           T == {i \in 1..4 : order[i] \in AvailableTabs(phases)}
<1>1. 4 \in T /\ T \subseteq Nat
  BY DEF AvailableTabs
<1>2. Min(T) \in T
  <2> HIDE DEF T
  <2> QED BY <1>1, MinNumber
<1>3. DefaultTab(phases) = order[Min(T)]
  BY DEF DefaultTab
<1> QED BY <1>2, <1>3

LEMMA PaneType ==
  ASSUME NEW call, NEW phases, NEW tab
  PROVE  PaneOK(Pane(call, phases, tab)) /\ Pane(call, phases, tab).call = call
<1>1. phases = {} => AvailableTabs(phases) = {}
  BY DEF AvailableTabs
<1> QED BY <1>1, DefaultTabType DEF Pane, PaneOK

LEMMA NoPaneType == PaneOK(NoPane) /\ NoPane.call = Nil
BY DEF NoPane, PaneOK

LEMMA PaneSays ==
  ASSUME NEW pane, PaneOK(pane)
  PROVE  /\ PhaseBody(pane) \notin {"never recorded", "did not fail"}
         /\ PhaseBody(pane) = "nothing" <=> pane.phases = {}
         /\ pane.tab \in {"", "error", "response", "payload", "headers"}
<1>1. CASE pane.phases = {}
  BY <1>1 DEF PaneOK, PhaseBody
<1>2. CASE pane.phases # {}
  <2>1. \/ pane.tab = "headers"
        \/ pane.tab = "payload" /\ "request" \in pane.phases
        \/ pane.tab = "response" /\ "response" \in pane.phases
        \/ pane.tab = "error" /\ "error" \in pane.phases
    BY <1>2 DEF PaneOK, AvailableTabs
  <2> QED BY <1>2, <2>1 DEF PhaseBody, HeadersTab, BodyTab, ErrorTab
<1> QED BY <1>1, <1>2

-----------------------------------------------------------------------------
(* The network screen and the answers under way to it.                     *)

Listed(calls, id) == id # Nil => \E i \in DOMAIN calls : calls[i].id = id

\* What the screen shows agrees with itself.
ShownOK(n) ==
  /\ n = [scope |-> n.scope, show |-> n.show, address |-> n.address, calls |-> n.calls, lit |-> n.lit,
          pane |-> n.pane, start |-> n.start, fresh |-> n.fresh]
  /\ n.lit = n.pane.call /\ PaneOK(n.pane) /\ Listed(n.calls, n.lit)
  /\ n.scope # Nil => n.show = ""

\* ... and with the table.
ShownIsCurrent(n) ==
  LET again == NetworkView(n.address)
  IN  /\ again.calls = n.calls /\ again.lit = n.lit
      /\ again.pane = n.pane /\ again.start = n.start

\* An answer is to a click on this screen.
AnswerOK(o, scope, show) ==
  /\ o = [scope |-> o.scope, show |-> o.show, tab |-> o.tab, calls |-> o.calls, address |-> o.address,
          lit |-> o.lit, pane |-> o.pane, fresh |-> o.fresh]
  /\ o.scope = scope /\ o.show = show
  /\ o.address = Address(scope, show, o.address.rid, o.tab)
  /\ Listed(o.calls, o.lit)
  /\ o.pane # Nil => o.pane.call = o.lit /\ PaneOK(o.pane)

PaneOf(selected, tab) == IF selected = Nil THEN NoPane ELSE Pane(selected, PhasesOf(selected), tab)

AnswerIsCurrent(o) ==
  /\ o.calls = ListNetworkCalls(o.scope, o.show) /\ o.lit = SelectedCall(o.calls, o.address.rid)
  /\ o.pane # Nil => o.pane = PaneOf(o.lit, o.tab)

OpeningOK ==
  /\ IsFiniteSet(opening) /\ Cardinality(opening) <= MaxOpen
  /\ \A o \in opening : AnswerOK(o, net.scope, net.show) /\ (o.fresh => AnswerIsCurrent(o))

InspectorOK == ShownOK(net) /\ (net.fresh => ShownIsCurrent(net)) /\ OpeningOK

LEMMA MaxOpenType == MaxOpen \in Nat
BY LogScreensAssumption

LEMMA NothingOpen ==
  ASSUME NEW O, O = {}
  PROVE  IsFiniteSet(O) /\ Cardinality(O) <= MaxOpen
BY FS_EmptySet, MaxOpenType

LEMMA NoNetOK == ShownOK(NoNet) /\ ~NoNet.fresh
<1>1. PaneOK(NoPane) /\ NoPane.call = Nil
  BY NoPaneType
<1>2. NoNet.lit = Nil /\ NoNet.pane = NoPane /\ NoNet.scope = Nil /\ NoNet.fresh = FALSE
  BY DEF NoNet
<1>3. NoNet = [scope |-> NoNet.scope, show |-> NoNet.show, address |-> NoNet.address, calls |-> NoNet.calls,
               lit |-> NoNet.lit, pane |-> NoNet.pane, start |-> NoNet.start, fresh |-> NoNet.fresh]
  BY DEF NoNet
<1> QED BY <1>1, <1>2, <1>3 DEF ShownOK, Listed

LEMMA PaneOfType ==
  ASSUME NEW selected, NEW tab
  PROVE  PaneOK(PaneOf(selected, tab)) /\ PaneOf(selected, tab).call = selected
BY PaneType, NoPaneType DEF PaneOf

LEMMA ViewOK ==
  ASSUME NEW address, address.scope # Nil => address.show = ""
  PROVE  LET n == NetworkView(address)
         IN  ShownOK(n) /\ n.scope = address.scope /\ n.show = address.show
             /\ n.address = address
<1> DEFINE calls == ListNetworkCalls(address.scope, address.show)
           selected == SelectedCall(calls, address.rid)
           start == SessionStart(address.scope, calls)
           n == NetworkView(address)
<1>1. n = [scope |-> address.scope, show |-> address.show, address |-> address, calls |-> calls,
           lit |-> selected, pane |-> PaneOf(selected, address.tab), start |-> start, fresh |-> TRUE]
  BY DEF NetworkView, PaneOf
<1>2. Listed(calls, selected)
  BY CallsListed, SelectedIsListed DEF Listed
<1> HIDE DEF calls, selected, start, n
<1>3. PaneOK(PaneOf(selected, address.tab)) /\ PaneOf(selected, address.tab).call = selected
  BY PaneOfType
<1>4. ShownOK(n) /\ n.scope = address.scope /\ n.show = address.show /\ n.address = address
  BY <1>1, <1>2, <1>3 DEF ShownOK
<1> QED BY <1>4 DEF n

\* The screens read the table only through what is visible in it.
LEMMA ViewStays ==
  ASSUME UNCHANGED <<stored, expired>>
  PROVE  /\ \A a : NetworkView(a)' = NetworkView(a)
         /\ \A n : ShownIsCurrent(n) => ShownIsCurrent(n)'
         /\ \A o : AnswerIsCurrent(o) => AnswerIsCurrent(o)'
<1>1. Visible' = Visible
  BY DEF Visible
<1>2. \A scope, show : ListNetworkCalls(scope, show)' = ListNetworkCalls(scope, show)
  BY <1>1, ListStays
<1>3. \A c : PhasesOf(c)' = PhasesOf(c)
  BY <1>1, CallStays
<1>4. \A a : NetworkView(a)' = NetworkView(a)
  BY <1>2, <1>3 DEF NetworkView
<1>5. \A n : ShownIsCurrent(n) => ShownIsCurrent(n)'
  BY <1>4 DEF ShownIsCurrent
<1>6. \A selected, tab : PaneOf(selected, tab)' = PaneOf(selected, tab)
  BY <1>3 DEF PaneOf
<1>7. \A o : AnswerIsCurrent(o) => AnswerIsCurrent(o)'
  BY <1>2, <1>6 DEF AnswerIsCurrent
<1> QED BY <1>4, <1>5, <1>7

LEMMA InspectorInit == LogScreensInit => InspectorOK
<1> SUFFICES ASSUME LogScreensInit PROVE InspectorOK
  OBVIOUS
<1>1. net = NoNet /\ opening = {}
  BY Zenon DEF LogScreensInit
<1> QED BY <1>1, NoNetOK, NothingOpen DEF InspectorOK, OpeningOK

LEMMA LogViewerInspector ==
  ASSUME NEW query, NEW by, LogViewer(query, by)
  PROVE  InspectorOK'
<1>1. net' = NoNet /\ opening' = {}
  BY DEF LogViewer
<1> QED BY <1>1, NoNetOK, NothingOpen DEF InspectorOK, OpeningOK

LEMMA OpenNetworkInspector ==
  ASSUME NEW address, address.scope # Nil => address.show = "", OpenNetwork(address)
  PROVE  InspectorOK'
<1>1. net' = NetworkView(address) /\ opening' = {} /\ UNCHANGED <<stored, expired>>
  BY DEF OpenNetwork, table
<1>2. ShownOK(net') /\ net'.address = address
  BY <1>1, ViewOK
<1>3. OpeningOK'
  BY <1>1, NothingOpen DEF OpeningOK
<1>4. NetworkView(address)' = net'
  BY <1>1, ViewStays
<1>5. ShownIsCurrent(net)'
  BY <1>2, <1>4 DEF ShownIsCurrent
<1> QED BY <1>2, <1>3, <1>5 DEF InspectorOK

LEMMA ClickInspector ==
  ASSUME InspectorOK, NEW rid, NEW tab, NetworkInspector(rid, tab)
  PROVE  InspectorOK'
<1> DEFINE calls == ListNetworkCalls(net.scope, net.show)
           o == [scope |-> net.scope, show |-> net.show, tab |-> tab, calls |-> calls,
                 address |-> PageHref(Address(net.scope, net.show, rid, tab)),
                 lit |-> SelectedCall(calls, rid), pane |-> Nil, fresh |-> TRUE]
<1>1. /\ Cardinality(opening) < MaxOpen /\ opening' = opening \cup {o}
      /\ UNCHANGED <<stored, expired, net>>
  BY DEF NetworkInspector, table
<1>2. PageHref(Address(net.scope, net.show, rid, tab)) = Address(net.scope, net.show, rid, tab)
  BY DEF PageHref, Address, InspectorOK, ShownOK
<1>3. AnswerOK(o, net.scope, net.show)
  <2>1. Listed(calls, SelectedCall(calls, rid))
    BY CallsListed, SelectedIsListed DEF Listed
  <2>2. Address(net.scope, net.show, rid, tab).rid = rid
    BY DEF Address
  <2> HIDE DEF calls
  <2> QED BY <1>2, <2>1, <2>2 DEF AnswerOK
<1>4. AnswerIsCurrent(o)
  <2>1. Address(net.scope, net.show, rid, tab).rid = rid
    BY DEF Address
  <2> QED BY <1>2, <2>1 DEF AnswerIsCurrent
<1> HIDE DEF o
<1>5. IsFiniteSet(opening') /\ Cardinality(opening') <= MaxOpen
  <2>1. IsFiniteSet(opening) /\ Cardinality(opening) \in Nat
    BY FS_CardinalityType DEF InspectorOK, OpeningOK
  <2> QED BY <1>1, <2>1, MaxOpenType, FS_AddElement
<1>6. OpeningOK'
  BY <1>1, <1>3, <1>4, <1>5, ViewStays DEF InspectorOK, OpeningOK
<1> QED BY <1>1, <1>6, ViewStays DEF InspectorOK

LEMMA RequestInspector ==
  ASSUME InspectorOK, NEW o \in opening, GetNetworkRequest(o)
  PROVE  InspectorOK'
<1> DEFINE pane == PaneOf(o.lit, o.tab)
           o2 == [o EXCEPT !.pane = pane]
<1>1. o.pane = Nil /\ opening' = (opening \ {o}) \cup {o2} /\ UNCHANGED <<stored, expired, net>>
  BY DEF GetNetworkRequest, PaneOf, table
<1>2. AnswerOK(o, net.scope, net.show) /\ (o.fresh => AnswerIsCurrent(o))
  BY DEF InspectorOK, OpeningOK
<1>3. PaneOK(pane) /\ pane.call = o.lit
  BY PaneOfType
<1>4. /\ o2 = [scope |-> o.scope, show |-> o.show, tab |-> o.tab, calls |-> o.calls,
               address |-> o.address, lit |-> o.lit, pane |-> pane, fresh |-> o.fresh]
  <2> HIDE DEF pane
  <2> QED BY <1>2 DEF AnswerOK
<1> HIDE DEF o2
<1>5. AnswerOK(o2, net.scope, net.show)
  <2> HIDE DEF pane
  <2> QED BY <1>2, <1>3, <1>4 DEF AnswerOK
<1>6. o2.fresh => AnswerIsCurrent(o2)
  BY <1>2, <1>4 DEF AnswerIsCurrent
<1>7. IsFiniteSet(opening') /\ Cardinality(opening') <= MaxOpen
  <2> DEFINE rest == opening \ {o}
  <2>1. IsFiniteSet(opening) /\ Cardinality(opening) <= MaxOpen /\ Cardinality(opening) \in Nat
    BY FS_CardinalityType DEF InspectorOK, OpeningOK
  <2>2. IsFiniteSet(rest) /\ Cardinality(rest) = Cardinality(opening) - 1
    BY <2>1, FS_RemoveElement
  <2> HIDE DEF rest
  <2>3. IsFiniteSet(rest \cup {o2}) /\ Cardinality(rest \cup {o2}) <= Cardinality(opening)
    <3>1. /\ IsFiniteSet(rest \cup {o2})
          /\ Cardinality(rest \cup {o2}) = IF o2 \in rest THEN Cardinality(rest) ELSE Cardinality(rest) + 1
      BY <2>2, FS_AddElement
    <3> QED BY <2>1, <2>2, <3>1
  <2>4. opening' = rest \cup {o2}
    BY <1>1 DEF rest
  <2> QED BY <2>1, <2>3, <2>4, MaxOpenType, FS_CardinalityType
<1>8. OpeningOK'
  BY <1>1, <1>5, <1>6, <1>7, ViewStays DEF InspectorOK, OpeningOK
<1> QED BY <1>1, <1>8, ViewStays DEF InspectorOK

LEMMA DrawInspectorStep ==
  ASSUME InspectorOK, NEW o \in opening, DrawInspector(o)
  PROVE  InspectorOK'
<1>1. /\ o.pane # Nil /\ opening' = opening \ {o} /\ UNCHANGED <<stored, expired>>
      /\ net' = [net EXCEPT !.calls = o.calls, !.lit = o.lit, !.pane = o.pane, !.address = o.address,
                            !.start = SessionStart(o.scope, o.calls), !.fresh = o.fresh]
  BY DEF DrawInspector, NetworkRowsOOB, table
<1>2. AnswerOK(o, net.scope, net.show) /\ (o.fresh => AnswerIsCurrent(o))
  BY DEF InspectorOK, OpeningOK
<1> DEFINE start == SessionStart(o.scope, o.calls)
<1> HIDE DEF start
<1>3. net' = [scope |-> net.scope, show |-> net.show, address |-> o.address, calls |-> o.calls,
              lit |-> o.lit, pane |-> o.pane, start |-> start, fresh |-> o.fresh]
  BY <1>1 DEF InspectorOK, ShownOK, start
<1>4. ShownOK(net')
  BY <1>1, <1>2, <1>3 DEF AnswerOK, ShownOK, InspectorOK
<1>5. o.fresh => ShownIsCurrent(net')
  <2> SUFFICES ASSUME o.fresh PROVE ShownIsCurrent(net')
    OBVIOUS
  <2>1. /\ o.calls = ListNetworkCalls(net.scope, net.show) /\ o.lit = SelectedCall(o.calls, o.address.rid)
        /\ o.pane = PaneOf(o.lit, o.tab)
    BY <1>1, <1>2 DEF AnswerIsCurrent, AnswerOK
  <2>2. o.address.scope = net.scope /\ o.address.show = net.show /\ o.address.tab = o.tab
        /\ o.scope = net.scope
    BY <1>2 DEF AnswerOK, Address
  <2>3. /\ NetworkView(o.address).calls = o.calls /\ NetworkView(o.address).lit = o.lit
        /\ NetworkView(o.address).pane = o.pane /\ NetworkView(o.address).start = start
    BY <2>1, <2>2 DEF NetworkView, PaneOf, start
  <2> QED BY <1>3, <2>3 DEF ShownIsCurrent
<1>6. net'.fresh => ShownIsCurrent(net)'
  BY <1>1, <1>3, <1>5, ViewStays DEF ShownIsCurrent
<1>7. OpeningOK'
  <2>1. IsFiniteSet(opening) /\ Cardinality(opening) <= MaxOpen /\ Cardinality(opening) \in Nat
    BY FS_CardinalityType DEF InspectorOK, OpeningOK
  <2>2. IsFiniteSet(opening') /\ Cardinality(opening') <= MaxOpen
    BY <1>1, <2>1, MaxOpenType, FS_RemoveElement
  <2>3. net'.scope = net.scope /\ net'.show = net.show
    BY <1>3
  <2> QED BY <1>1, <2>2, <2>3, ViewStays DEF InspectorOK, OpeningOK
<1> QED BY <1>4, <1>6, <1>7 DEF InspectorOK

\* A change of the table leaves every answer stale.
LEMMA RememberInspector ==
  ASSUME InspectorOK, Remember
  PROVE  InspectorOK'
<1>1. net' = [net EXCEPT !.fresh = FALSE] /\ opening' = {[o EXCEPT !.fresh = FALSE] : o \in opening}
  BY DEF Remember
<1>2. net' = [scope |-> net.scope, show |-> net.show, address |-> net.address, calls |-> net.calls,
              lit |-> net.lit, pane |-> net.pane, start |-> net.start, fresh |-> FALSE]
  BY <1>1 DEF InspectorOK, ShownOK
<1>3. ShownOK(net') /\ net'.fresh = FALSE
  BY <1>2 DEF InspectorOK, ShownOK
<1>4. IsFiniteSet(opening') /\ Cardinality(opening') <= MaxOpen
  <2> DEFINE f == [o \in opening |-> [o EXCEPT !.fresh = FALSE]]
  <2>1. f \in [opening -> opening'] /\ \A p \in opening' : \E o \in opening : f[o] = p
    BY <1>1
  <2>2. IsFiniteSet(opening) /\ Cardinality(opening) <= MaxOpen
    BY DEF InspectorOK, OpeningOK
  <2> HIDE DEF f
  <2>3. IsFiniteSet(opening') /\ Cardinality(opening') <= Cardinality(opening)
    BY <2>1, <2>2, ImageFinite
  <2>4. Cardinality(opening') \in Nat /\ Cardinality(opening) \in Nat
    BY <2>2, <2>3, FS_CardinalityType
  <2> QED BY <2>2, <2>3, <2>4, MaxOpenType
<1>5. ASSUME NEW p \in opening'
      PROVE  AnswerOK(p, net'.scope, net'.show) /\ p.fresh = FALSE
  <2>1. PICK o \in opening : p = [o EXCEPT !.fresh = FALSE]
    BY <1>1
  <2>2. AnswerOK(o, net.scope, net.show)
    BY DEF InspectorOK, OpeningOK
  <2>3. p = [scope |-> o.scope, show |-> o.show, tab |-> o.tab, calls |-> o.calls, address |-> o.address,
          lit |-> o.lit, pane |-> o.pane, fresh |-> FALSE]
    BY <2>1, <2>2 DEF AnswerOK
  <2> QED BY <1>2, <2>2, <2>3 DEF AnswerOK
<1>6. OpeningOK'
  BY <1>4, <1>5 DEF OpeningOK
<1> QED BY <1>3, <1>6 DEF InspectorOK

LEMMA OtherInspector ==
  ASSUME InspectorOK, UNCHANGED <<stored, expired, net, opening>>
  PROVE  InspectorOK'
BY ViewStays DEF InspectorOK, OpeningOK

-----------------------------------------------------------------------------
(* Every step.                                                             *)

ClicksOK == clicks \in 0..MaxClicks

\* The inductive invariant: the table, the list with its search and its scroll, the
\* export, the inspector with the answers on their way to it.
LogScreensIInv == TableOK /\ ListingOK /\ DownloadOK /\ InspectorOK /\ ClicksOK

LEMMA LevelsFinite == IsFiniteSet(Levels)
BY LogScreensAssumption

LEMMA PeopleType == People \subseteq Values
BY LogScreensAssumption

LEMMA TypedType == Typed \subseteq Seq(Tokens)
BY LogScreensAssumption

LEMMA AddressType == \A a \in Addresses : a.scope # Nil => a.show = ""
BY LogScreensAssumption

LEMMA FactType == \A l \in Logs : Fact[l].tags \subseteq Values /\ Fact[l].print \in Values \cup {<<>>}
BY LogScreensAssumption

LEMMA ControlType ==
  ASSUME NEW f, IsFilter(f), NEW tags \in SUBSET Values, NEW c \in LogFilters(f, tags)
  PROVE  IsFilter(c.to)
<1>1. f \in Filters /\ IsFiniteSet(f.tags) /\ IsFiniteSet(f.hidden)
  BY DEF IsFilter
<1>2. \A tag : /\ IsFiniteSet(f.tags \ {tag}) /\ IsFiniteSet(f.hidden \ {tag})
               /\ IsFiniteSet(f.tags \cup {tag}) /\ IsFiniteSet(f.hidden \cup {tag})
  BY <1>1, FS_AddElement, FS_RemoveElement
<1>3. CASE \E v \in Levels : c = LevelToggle(f, v)
  <2>1. PICK v \in Levels : c.to = WithLevelToggled(f, v)
    BY <1>3 DEF LevelToggle, Control
  <2> DEFINE L == IF v \in f.levels THEN f.levels \ {v} ELSE f.levels \cup {v}
  <2>2. L \in SUBSET Levels
    <3>1. f.levels \subseteq Levels
      BY <1>1 DEF Filters
    <3> QED BY <3>1
  <2>3. c.to = [f EXCEPT !.levels = L]
    BY <2>1 DEF WithLevelToggled
  <2> HIDE DEF L
  <2>4. c.to \in Filters /\ c.to.tags = f.tags /\ c.to.hidden = f.hidden
    BY <1>1, <2>2, <2>3 DEF Filters
  <2> QED BY <1>1, <2>4 DEF IsFilter
<1>4. CASE \E v \in tags : c = TagChip(f, v)
  <2>1. PICK v \in Values : c.to = WithTagCycled(f, v)
    BY <1>4 DEF TagChip, Control
  <2> DEFINE a == [f EXCEPT !.tags = @ \ {v}, !.hidden = @ \cup {v}]
             b == [f EXCEPT !.hidden = @ \ {v}]
             d == [f EXCEPT !.tags = @ \cup {v}]
  <2>2. IsFilter(a) /\ IsFilter(b) /\ IsFilter(d)
    BY <1>1, <1>2 DEF IsFilter, Filters
  <2>3. c.to = a \/ c.to = b \/ c.to = d
    <3> HIDE DEF a, b, d
    <3> QED BY <2>1 DEF WithTagCycled, a, b, d
  <2> HIDE DEF a, b, d
  <2> QED BY <2>2, <2>3
<1>5. CASE \E s \in Labels : c = WindowChip(f, s)
  <2>1. PICK s \in Labels : c.to = WithWindow(f, s)
    BY <1>5 DEF WindowChip, Control
  <2> QED BY <1>1, <2>1 DEF WithWindow, IsFilter, Filters
<1>6. CASE c = NetworkChip(f)
  <2>1. c.to = WithNetworkOnly(f)
    BY <1>6 DEF NetworkChip, Control
  <2> QED BY <1>1, <2>1 DEF WithNetworkOnly, IsFilter, Filters
<1>7. CASE \E u : c = SessionChip(f, u)
  <2>1. c.to = [f EXCEPT !.user = <<>>]
    BY <1>7 DEF SessionChip, WithoutSessionField, Control
  <2>2. <<>> \in Seq(Words)
    OBVIOUS
  <2> QED BY <1>1, <2>1, <2>2 DEF IsFilter, Filters
<1>8. \/ \E v \in Levels : c = LevelToggle(f, v)
      \/ \E v \in tags : c = TagChip(f, v)
      \/ \E s \in Labels : c = WindowChip(f, s)
      \/ c = NetworkChip(f)
      \/ \E u : c = SessionChip(f, u)
  BY DEF LogFilters
<1> QED BY <1>3, <1>4, <1>5, <1>6, <1>7, <1>8

LEMMA GroupLinkType ==
  ASSUME NEW g \in ErrorGroups
  PROVE  g.print \in Values /\ IsFilter([NoFilter EXCEPT !.print = g.print])
<1>1. g.print \in {Fact[l].print : l \in Visible} \ {<<>>}
  <2> DEFINE prints == {Fact[l].print : l \in Visible} \ {<<>>}
             of(p) == Cardinality({l \in Visible : Fact[l].print = p})
  <2>1. g \in {[print |-> p, count |-> of(p)] : p \in prints}
    BY DEF ErrorGroups
  <2> HIDE DEF prints, of
  <2>2. g.print \in prints
    BY <2>1
  <2> QED BY <2>2 DEF prints
<1>2. g.print \in Values /\ g.print \in Seq(Words)
  BY <1>1, FactType DEF Visible, Values
<1>3. NoFilter \in Filters /\ IsFiniteSet(NoFilter.tags) /\ IsFiniteSet(NoFilter.hidden)
  BY NoFilterType DEF IsFilter
<1> QED BY <1>2, <1>3 DEF IsFilter, Filters

LEMMA LogScreensInitIInv == LogScreensInit => LogScreensIInv
<1> SUFFICES ASSUME LogScreensInit PROVE LogScreensIInv
  OBVIOUS
<1>1. clicks = 0
  BY Zenon DEF LogScreensInit
<1>2. MaxClicks \in Nat
  BY LogScreensAssumption
<1>3. ClicksOK
  BY <1>1, <1>2 DEF ClicksOK
<1> QED BY <1>3, TableInit, ListingInit, DownloadInit, InspectorInit DEF LogScreensIInv

LEMMA ClicksStep ==
  ASSUME ClicksOK, clicks' = clicks \/ Click
  PROVE  ClicksOK'
<1>1. MaxClicks \in Nat
  BY LogScreensAssumption
<1> QED BY <1>1 DEF ClicksOK, Click

\* A page load.
LEMMA LogViewerStep ==
  ASSUME LogScreensIInv, NEW query \in Seq(Tokens), NEW by, LogViewer(query, by)
  PROVE  ListingOK' /\ DownloadOK' /\ InspectorOK' /\ ClicksOK'
<1>1. ListingOK'
  BY LogViewerListing DEF LogScreensIInv
<1>2. UNCHANGED <<stored, expired, user, now, download>> /\ past'.export = past.export /\ Click
  BY DEF LogViewer, table, LogScreensIInv, ListingOK, PastOK
<1> QED BY <1>1, <1>2, OtherDownload, LogViewerInspector, ClicksStep DEF LogScreensIInv

LEMMA OpenNetworkStep ==
  ASSUME LogScreensIInv, NEW address, address.scope # Nil => address.show = "", OpenNetwork(address)
  PROVE  ListingOK' /\ DownloadOK' /\ InspectorOK' /\ ClicksOK'
<1>1. ListingOK'
  BY OpenNetworkListing DEF LogScreensIInv
<1>2. UNCHANGED <<stored, expired, user, now, download>> /\ past'.export = past.export /\ Click
  BY DEF OpenNetwork, table, LogScreensIInv, ListingOK, PastOK
<1> QED BY <1>1, <1>2, OtherDownload, OpenNetworkInspector, ClicksStep DEF LogScreensIInv

\* A step of the list alone.
LEMMA ListStep ==
  ASSUME LogScreensIInv, ListingOK', UNCHANGED <<stored, expired, user, now, download, net, opening>>,
         past'.export = past.export, clicks' = clicks \/ Click
  PROVE  ListingOK' /\ DownloadOK' /\ InspectorOK' /\ ClicksOK'
BY OtherDownload, OtherInspector, ClicksStep DEF LogScreensIInv

\* A step of the inspector alone.
LEMMA InspectorStep ==
  ASSUME LogScreensIInv, InspectorOK', UNCHANGED <<table, listing, download, past>>,
         clicks' = clicks \/ Click
  PROVE  ListingOK' /\ DownloadOK' /\ InspectorOK' /\ ClicksOK'
<1>1. UNCHANGED <<stored, expired, user, now, page, rows, box, scroll, download, past>>
  BY DEF table, listing
<1>2. PastOK'
  BY <1>1 DEF LogScreensIInv, ListingOK, PastOK
<1> QED BY <1>1, <1>2, OtherListing, OtherDownload, ClicksStep DEF LogScreensIInv

\* A change of the table, or of the clock.
LEMMA TableChange ==
  ASSUME LogScreensIInv, TableOK', RowsStay, HasIds(stored)', InspectorOK',
         UNCHANGED <<listing, download, clicks>>, past' = Still(Wanted')
  PROVE  ListingOK' /\ DownloadOK' /\ InspectorOK' /\ ClicksOK'
<1>1. ListingOK'
  BY TableListing DEF LogScreensIInv
<1>2. DownloadOK'
  BY TableDownload DEF LogScreensIInv
<1> QED BY <1>1, <1>2, ClicksStep DEF LogScreensIInv

LEMMA LogScreensIInvStep ==
  ASSUME LogScreensIInv, [LogScreensNext]_logScreensVars
  PROVE  LogScreensIInv'
<1>1. TableOK' /\ RowsStay /\ HasIds(stored)'
  BY TableStep DEF LogScreensIInv
<1>2. PastOK
  BY DEF LogScreensIInv, ListingOK
<1> SUFFICES ListingOK' /\ DownloadOK' /\ InspectorOK' /\ ClicksOK'
  BY <1>1 DEF LogScreensIInv
<1>3. ASSUME NEW q \in Typed, OpenLogs(q)
      PROVE  ListingOK' /\ DownloadOK' /\ InspectorOK' /\ ClicksOK'
  BY <1>3, LogViewerStep, TypedType DEF OpenLogs
<1>4. ASSUME NEW q \in Typed, Type(q)
      PROVE  ListingOK' /\ DownloadOK' /\ InspectorOK' /\ ClicksOK'
  <2>1. ListingOK'
    BY <1>4, TypeListing, TypedType DEF LogScreensIInv
  <2> QED BY <1>4, <2>1, ListStep DEF Type, table
<1>5. ASSUME NEW c \in LogFilters(page.filter, page.tags), Follow(c)
      PROVE  ListingOK' /\ DownloadOK' /\ InspectorOK' /\ ClicksOK'
  <2>1. IsFilter(c.to)
    BY ControlType DEF LogScreensIInv, ListingOK, PageOK
  <2>2. Query(c.to) \in Seq(Tokens)
    BY <2>1, QueryType
  <2> QED BY <1>5, <2>2, LogViewerStep DEF Follow
<1>6. ASSUME NEW g \in ErrorGroups, ViewInLogs(g)
      PROVE  ListingOK' /\ DownloadOK' /\ InspectorOK' /\ ClicksOK'
  <2>1. Query([NoFilter EXCEPT !.print = g.print]) \in Seq(Tokens)
    BY GroupLinkType, QueryType
  <2> QED BY <1>6, <2>1, LogViewerStep DEF ViewInLogs
<1>7. ASSUME LogsPartial
      PROVE  ListingOK' /\ DownloadOK' /\ InspectorOK' /\ ClicksOK'
  <2>1. ListingOK'
    BY <1>7, LogsPartialListing DEF LogScreensIInv
  <2>2. past'.export = past.export
    BY <1>2, <1>7 DEF LogsPartial, PastOK
  <2> QED BY <1>7, <2>1, <2>2, ListStep DEF LogsPartial, table
<1>8. ASSUME NEW a \in box.answer, DrawSearch(a)
      PROVE  ListingOK' /\ DownloadOK' /\ InspectorOK' /\ ClicksOK'
  <2>1. ListingOK'
    BY <1>8, DrawSearchListing DEF LogScreensIInv
  <2>2. past'.export = past.export
    BY <1>2, <1>8 DEF DrawSearch, PastOK
  <2> QED BY <1>8, <2>1, <2>2, ListStep DEF DrawSearch, table
<1>9. ASSUME ScrollDown
      PROVE  ListingOK' /\ DownloadOK' /\ InspectorOK' /\ ClicksOK'
  <2>1. ListingOK'
    BY <1>9, ScrollDownListing DEF LogScreensIInv
  <2> QED BY <1>9, <2>1, ListStep DEF ScrollDown, table
<1>10. ASSUME LogRows
       PROVE  ListingOK' /\ DownloadOK' /\ InspectorOK' /\ ClicksOK'
  <2>1. ListingOK'
    BY <1>10, LogRowsListing DEF LogScreensIInv
  <2> QED BY <1>10, <2>1, ListStep DEF LogRows, table
<1>11. ASSUME ExportLogs
       PROVE  ListingOK' /\ DownloadOK' /\ InspectorOK' /\ ClicksOK'
  <2>1. DownloadOK' /\ PastOK' /\ past'.list = past.list /\ past'.box = past.box
    BY <1>11, ExportLogsDownload DEF LogScreensIInv
  <2>2. UNCHANGED <<stored, expired, user, now, page, rows, box, scroll, net, opening>> /\ Click
    BY <1>11 DEF ExportLogs, table, listing
  <2> QED BY <2>1, <2>2, OtherListing, OtherInspector, ClicksStep DEF LogScreensIInv
<1>12. ASSUME ExportPage
       PROVE  ListingOK' /\ DownloadOK' /\ InspectorOK' /\ ClicksOK'
  <2>1. DownloadOK'
    BY <1>12, ExportPageDownload DEF LogScreensIInv
  <2>2. UNCHANGED <<stored, expired, user, now, page, rows, box, scroll, net, opening, clicks, past>>
    BY <1>12 DEF ExportPage, table, listing
  <2>3. PastOK'
    BY <1>2, <2>2 DEF PastOK
  <2> QED BY <2>1, <2>2, <2>3, OtherListing, OtherInspector, ClicksStep DEF LogScreensIInv
<1>13. ASSUME NEW a \in Addresses, OpenNetwork(a)
       PROVE  ListingOK' /\ DownloadOK' /\ InspectorOK' /\ ClicksOK'
  BY <1>13, AddressType, OpenNetworkStep
<1>14. ASSUME NEW show \in {"", "failed"}, NetworkToolbar(show)
       PROVE  ListingOK' /\ DownloadOK' /\ InspectorOK' /\ ClicksOK'
  <2> DEFINE a == Address(Nil, show, Nil, "")
  <2>1. OpenNetwork(a) /\ a.scope = Nil
    BY <1>14 DEF NetworkToolbar, Address
  <2> HIDE DEF a
  <2> QED BY <2>1, OpenNetworkStep
<1>15. ASSUME NEW rid, NEW tab, NetworkInspector(rid, tab)
       PROVE  ListingOK' /\ DownloadOK' /\ InspectorOK' /\ ClicksOK'
  <2>1. InspectorOK'
    BY <1>15, ClickInspector DEF LogScreensIInv
  <2> QED BY <1>15, <2>1, InspectorStep DEF NetworkInspector
<1>16. ASSUME NEW o \in opening, GetNetworkRequest(o)
       PROVE  ListingOK' /\ DownloadOK' /\ InspectorOK' /\ ClicksOK'
  <2>1. InspectorOK'
    BY <1>16, RequestInspector DEF LogScreensIInv
  <2> QED BY <1>16, <2>1, InspectorStep DEF GetNetworkRequest
<1>17. ASSUME NEW o \in opening, DrawInspector(o)
       PROVE  ListingOK' /\ DownloadOK' /\ InspectorOK' /\ ClicksOK'
  <2>1. InspectorOK'
    BY <1>17, DrawInspectorStep DEF LogScreensIInv
  <2> QED BY <1>17, <2>1, InspectorStep DEF DrawInspector
<1>18. ASSUME Remember
       PROVE  ListingOK' /\ DownloadOK' /\ InspectorOK' /\ ClicksOK'
  <2>1. InspectorOK'
    BY <1>18, RememberInspector DEF LogScreensIInv
  <2> QED BY <1>1, <1>18, <2>1, TableChange DEF Remember
<1>19. ASSUME Tick
       PROVE  ListingOK' /\ DownloadOK' /\ InspectorOK' /\ ClicksOK'
  <2>1. UNCHANGED <<stored, expired, listing, net, opening, download, clicks>> /\ past' = Still(Wanted')
    BY <1>19 DEF Tick
  <2>2. InspectorOK'
    BY <2>1, OtherInspector DEF LogScreensIInv
  <2> QED BY <1>1, <2>1, <2>2, TableChange
<1>20. ASSUME UNCHANGED logScreensVars
       PROVE  ListingOK' /\ DownloadOK' /\ InspectorOK' /\ ClicksOK'
  <2>1. UNCHANGED <<table, listing, net, opening, download, clicks, past>>
    BY <1>20 DEF logScreensVars, table, listing
  <2>2. InspectorOK'
    BY <2>1, OtherInspector DEF LogScreensIInv, table
  <2> QED BY <2>1, <2>2, InspectorStep
<1>21. CASE LogScreensNext
  <2>1. \/ \E q \in Typed : OpenLogs(q) \/ Type(q)
        \/ \E c \in LogFilters(page.filter, page.tags) : Follow(c)
        \/ \E g \in ErrorGroups : ViewInLogs(g)
        \/ LogsPartial \/ (\E a \in box.answer : DrawSearch(a)) \/ ScrollDown \/ LogRows
        \/ ExportLogs \/ ExportPage
        \/ \E a \in Addresses : OpenNetwork(a)
        \/ \E show \in {"", "failed"} : NetworkToolbar(show)
        \/ \E rid, tab : NetworkInspector(rid, tab)
        \/ \E o \in opening : GetNetworkRequest(o) \/ DrawInspector(o)
        \/ Remember \/ Tick
    BY <1>21 DEF LogScreensNext, OpenCall, OpenTab, CloseInspector, Upload, SetUser, Cleanup
  <2> QED BY <2>1, <1>3, <1>4, <1>5, <1>6, <1>7, <1>8, <1>9, <1>10, <1>11, <1>12, <1>13, <1>14,
             <1>15, <1>16, <1>17, <1>18, <1>19
<1> QED BY <1>20, <1>21

LEMMA FilterDomain ==
  ASSUME NEW f, IsFilter(f)
  PROVE  DOMAIN f = Fields
BY DEF IsFilter, Filters, Fields

LEMMA TypeOKFollows == LogScreensIInv => LogScreensTypeOK
<1> SUFFICES ASSUME LogScreensIInv PROVE LogScreensTypeOK
  OBVIOUS
<1>1. stored \in [Logs -> 0..Cardinality(Logs)]
  <2>1. \A l \in Logs : stored[l] \in 0..Cardinality(Logs)
    BY InUseFinite DEF LogScreensIInv, TableOK, HasIds
  <2> QED BY <2>1 DEF LogScreensIInv, TableOK, HasIds
<1>2. \A f \in {page.filter, rows.filter, download.filter} : DOMAIN f = Fields
  <2>1. IsFilter(rows.filter)
    BY ParseType DEF LogScreensIInv, ListingOK, RowsOK, IsRead
  <2> QED BY <2>1, FilterDomain DEF LogScreensIInv, ListingOK, PageOK, DownloadOK
<1>3. net.pane.tab \in {"", "error", "response", "payload", "headers"}
  BY PaneSays DEF LogScreensIInv, InspectorOK, ShownOK
<1>4. Cardinality(opening) <= MaxOpen /\ clicks \in 0..MaxClicks
  BY DEF LogScreensIInv, InspectorOK, OpeningOK, ClicksOK
<1> QED BY <1>1, <1>2, <1>3, <1>4
    DEF LogScreensTypeOK, LogScreensIInv, TableOK, ListingOK, PageOK, DownloadOK

LEMMA ContinuesIsWhole ==
  ASSUME HasIds(stored), NEW items, NEW more, NEW wanted,
         Continues(stored, [items |-> items, more |-> more], Nil, wanted)
  PROVE  NoneLeftOut(items, more, wanted)
<1>1. \A l : Place(l) = PlaceOf(stored, l)
  BY DEF Place, PlaceOf
<1> QED BY <1>1 DEF NoneLeftOut, Continues, Descends

LEMMA WholeFollows == LogScreensIInv => ListingsAreWhole
<1> SUFFICES ASSUME LogScreensIInv PROVE ListingsAreWhole
  OBVIOUS
<1>1. HasIds(stored)
  BY DEF LogScreensIInv, TableOK
<1>2. RowsAreOfOneQuery
  BY DEF LogScreensIInv, ListingOK, RowsOK, BoxOK, Asked, RowsAreOfOneQuery
<1>3. NoneLeftOut(rows.items, rows.more, past.list)
  BY <1>1, ContinuesIsWhole DEF LogScreensIInv, ListingOK, RowsOK
<1>4. download.items # <<>> \/ download.state = "complete" =>
        NoneLeftOut(download.items, download.more, past.export)
  BY <1>1, ContinuesIsWhole DEF LogScreensIInv, DownloadOK, Written
<1> QED BY <1>2, <1>3, <1>4, TypeOKFollows DEF ListingsAreWhole, ListingsLeaveNothingOut

LEMMA AgreesFollows == LogScreensIInv => InspectorAgrees
<1> SUFFICES ASSUME LogScreensIInv PROVE InspectorAgrees
  OBVIOUS
<1>1. OneCallLit
  BY DEF LogScreensIInv, InspectorOK, ShownOK, Listed, OneCallLit
<1>2. AddressRebuilds
  BY DEF LogScreensIInv, InspectorOK, ShownIsCurrent, AddressRebuilds
<1>3. TabHasSomething
  BY PaneSays DEF LogScreensIInv, InspectorOK, ShownOK, TabHasSomething
<1> QED BY <1>1, <1>2, <1>3 DEF InspectorAgrees

\* Whatever is clicked, typed, scrolled or answered late, every screen, request under
\* way and row of the table keeps its shape; the pane is on one of its four tabs or none.
THEOREM LogScreensTypes == LogScreensSpec => []LogScreensTypeOK
<1>1. LogScreensInit => LogScreensIInv
  BY LogScreensInitIInv
<1>2. LogScreensIInv /\ [LogScreensNext]_logScreensVars => LogScreensIInv'
  BY LogScreensIInvStep
<1>3. LogScreensIInv => LogScreensTypeOK
  BY TypeOKFollows
<1> QED BY <1>1, <1>2, <1>3, PTL DEF LogScreensSpec

\* Page after page of LogRepo.List, the log viewer and the export show every log that
\* matched when they began and still does, each once, newest first, and never rows of
\* two queries, whatever uploads and retention do between the pages.
THEOREM ListingsWhole == LogScreensSpec => []ListingsAreWhole
<1>1. LogScreensInit => LogScreensIInv
  BY LogScreensInitIInv
<1>2. LogScreensIInv /\ [LogScreensNext]_logScreensVars => LogScreensIInv'
  BY LogScreensIInvStep
<1>3. LogScreensIInv => ListingsAreWhole
  BY WholeFollows
<1> QED BY <1>1, <1>2, <1>3, PTL DEF LogScreensSpec

\* However late an answer is drawn: the row that is lit is in the list, the address
\* rebuilds what is shown, and the tab of NetworkDetailPane has something in it.
THEOREM InspectorSafe == LogScreensSpec => []InspectorAgrees
<1>1. LogScreensInit => LogScreensIInv
  BY LogScreensInitIInv
<1>2. LogScreensIInv /\ [LogScreensNext]_logScreensVars => LogScreensIInv'
  BY LogScreensIInvStep
<1>3. LogScreensIInv => InspectorAgrees
  BY AgreesFollows
<1> QED BY <1>1, <1>2, <1>3, PTL DEF LogScreensSpec

-----------------------------------------------------------------------------
(* The counts.                                                             *)

\* An empty first page: nothing matches.
LEMMA EmptyListIsEmpty ==
  ASSUME NEW ids, NEW pg, NEW wanted, Continues(ids, pg, Nil, wanted), pg.items = <<>>
  PROVE  wanted = {}
<1>1. pg.more = Nil /\ \A l \in wanted : \E i \in DOMAIN pg.items : pg.items[i] = l
  BY DEF Continues
<1>2. DOMAIN pg.items = {}
  OBVIOUS
<1> QED BY <1>1, <1>2

\* An empty list of calls: there is none to list.
LEMMA AllListed ==
  ASSUME NEW scope, NEW show, ListNetworkCalls(scope, show) = <<>>
  PROVE  Kept(scope, show) = {}
<1> DEFINE S == Kept(scope, show)
           s == NewestCalls(S)
<1>1. s \in SetToSeqs(S) /\ Cardinality(S) \in Nat /\ IsFiniteSet(S)
  BY NewestCallsListed, KeptFinite, FS_CardinalityType
<1>2. s \in Seq(S) /\ Len(s) = Cardinality(S)
  <2>1. s \in [1..Cardinality(S) -> S]
    BY <1>1 DEF SetToSeqs
  <2> HIDE DEF s, S
  <2> QED BY <1>1, <2>1, IntoSeq
<1>3. Top(s) = <<>>
  BY ListNetworkCallsIs
<1> HIDE DEF s, S
<1>4. Len(s) = 0
  <2>1. CASE Len(s) > NetworkLimit
    <3>1. NetworkLimit \in Nat \ {0}
      BY Limits
    <3>2. Len(SubSeq(s, 1, NetworkLimit)) = NetworkLimit
      BY <1>1, <1>2, <2>1, <3>1, SubSeqProperties
    <3> QED BY <1>3, <2>1, <3>1, <3>2 DEF Top
  <2>2. CASE ~(Len(s) > NetworkLimit)
    <3>1. s = <<>>
      BY <1>3, <2>2 DEF Top
    <3> QED BY <3>1
  <2> QED BY <2>1, <2>2
<1> QED BY <1>1, <1>2, <1>4, FS_EmptySet DEF S

LEMMA NoTerms ==
  ASSUME NEW neg, NEW name
  PROVE  Terms(neg, name, {}) = <<>>
<1>1. Cardinality({}) = 0 /\ 1..0 = {}
  BY FS_EmptySet
<1> DEFINE seqs == [i \in 1..0 |-> Unquoted(neg, name, SetToSeq({})[i])]
<1>2. seqs = <<>>
  OBVIOUS
<1>3. Terms(neg, name, {}) = FlattenSeq(seqs)
  BY <1>1 DEF Terms
<1>4. FlattenSeq(<<>>) = <<>>
  BY DEF FlattenSeq
<1> HIDE DEF seqs
<1> QED BY <1>2, <1>3, <1>4

LEMMA EmptyFilterMatchesAll ==
  ASSUME NEW f, IsFilter(f), IsEmpty(f)
  PROVE  Matching(f, Since(f)) = Visible
<1>1. /\ f.levels = {} /\ f.tags = {} /\ f.hidden = {} /\ ~f.network
      /\ f.last = Nil /\ f.print = <<>> /\ f.user = <<>> /\ f.text = <<>>
  BY QueryType
<1> QED BY <1>1 DEF Matching, Since

LEMMA LogViewerHonest ==
  ASSUME TableOK, NEW query \in Seq(Tokens), NEW by, LogViewer(query, by)
  PROVE  EmptyIsHonest'
<1> DEFINE f == Parse(query).filter
           found == List(f, Since(f), Nil, PageLimit)
<1>1. IsFilter(f)
  BY ParseType DEF IsRead
<1>2. Continues(stored, found, Nil, Matching(f, Since(f)))
  <2> HIDE DEF f
  <2> QED BY Limits, ListContinues DEF TableOK
<1>3. /\ page'.empty = IF found.items = <<>> THEN LogViewerEmpty(f) ELSE ""
      /\ page'.had = (Visible # {})
  BY DEF LogViewer, Screen
<1> HIDE DEF found
<1> SUFFICES ASSUME page'.empty = "none" PROVE Visible = {}
  BY <1>3 DEF EmptyIsHonest
<1>4. found.items = <<>> /\ LogViewerEmpty(f) = "none"
  BY <1>3
<1>5. IsEmpty(f)
  BY <1>4 DEF LogViewerEmpty
<1> HIDE DEF f
<1> QED BY <1>1, <1>2, <1>4, <1>5, EmptyListIsEmpty, EmptyFilterMatchesAll

LEMMA OpenNetworkHonest ==
  ASSUME NEW address, OpenNetwork(address)
  PROVE  EmptyIsHonest'
<1> DEFINE calls == ListNetworkCalls(address.scope, address.show)
           had == \E l \in Visible : Fact[l].call # Nil
           kept == Kept(address.scope, address.show)
<1>1. /\ page'.empty = IF calls = <<>> THEN NetworkEmpty(address.scope, address.show) ELSE ""
      /\ page'.had = had
  BY DEF OpenNetwork, Screen, NetworkView
<1> SUFFICES ASSUME page'.empty = "none" PROVE ~had
  BY <1>1, Zenon DEF EmptyIsHonest
<1>2. calls = <<>> /\ address.scope = Nil /\ address.show = ""
  BY <1>1 DEF NetworkEmpty
<1>3. kept = {}
  BY <1>2, CallsListed, AllListed
<1>4. CallIds(Nil) = {}
  BY <1>2, <1>3 DEF Kept
<1> QED BY <1>4 DEF CallIds

LEMMA EmptyStep ==
  ASSUME LogScreensIInv, EmptyIsHonest, [LogScreensNext]_logScreensVars
  PROVE  EmptyIsHonest'
<1>1. ASSUME page' = page PROVE EmptyIsHonest'
  BY <1>1 DEF EmptyIsHonest
<1>2. ASSUME NEW query \in Seq(Tokens), NEW by, LogViewer(query, by) PROVE EmptyIsHonest'
  BY <1>2, LogViewerHonest DEF LogScreensIInv
<1>3. ASSUME NEW address, OpenNetwork(address) PROVE EmptyIsHonest'
  BY <1>3, OpenNetworkHonest
<1>4. ASSUME NEW q \in Typed, OpenLogs(q) PROVE EmptyIsHonest'
  BY <1>2, <1>4, TypedType DEF OpenLogs
<1>5. ASSUME NEW c \in LogFilters(page.filter, page.tags), Follow(c) PROVE EmptyIsHonest'
  <2>1. Query(c.to) \in Seq(Tokens)
    BY ControlType, QueryType DEF LogScreensIInv, ListingOK, PageOK
  <2> QED BY <1>2, <1>5, <2>1 DEF Follow
<1>6. ASSUME NEW g \in ErrorGroups, ViewInLogs(g) PROVE EmptyIsHonest'
  <2>1. Query([NoFilter EXCEPT !.print = g.print]) \in Seq(Tokens)
    BY GroupLinkType, QueryType
  <2> QED BY <1>2, <1>6, <2>1 DEF ViewInLogs
<1>7. \/ page' = page
      \/ \E q \in Typed : OpenLogs(q)
      \/ \E c \in LogFilters(page.filter, page.tags) : Follow(c)
      \/ \E g \in ErrorGroups : ViewInLogs(g)
      \/ \E address : OpenNetwork(address)
  BY DEF LogScreensNext, logScreensVars, table, listing, Type, LogsPartial, DrawSearch,
         ScrollDown, LogRows, ExportLogs, ExportPage, NetworkToolbar, OpenCall,
         OpenTab, CloseInspector, NetworkInspector, GetNetworkRequest, DrawInspector,
         Upload, SetUser, Cleanup, Tick, Remember
<1> QED BY <1>1, <1>3, <1>4, <1>5, <1>6, <1>7

LEMMA GroupsFollow == GroupsOpenTheirLogs
<1> SUFFICES ASSUME NEW g \in ErrorGroups
             PROVE  LET read == Parse(Query([NoFilter EXCEPT !.print = g.print]))
                    IN  read.ok /\ Cardinality(Matching(read.filter, Nil)) = g.count
  BY DEF GroupsOpenTheirLogs
<1> DEFINE p == g.print
           f == [NoFilter EXCEPT !.print = p]
           t == Token(FALSE, FALSE, "fingerprint", p)
<1>1. p \in Values /\ p # <<>>
  BY GroupLinkType DEF Values
<1>2. g.count = Cardinality({l \in Visible : Fact[l].print = p})
  <2> DEFINE prints == {Fact[l].print : l \in Visible} \ {<<>>}
             of(q) == Cardinality({l \in Visible : Fact[l].print = q})
  <2>1. g \in {[print |-> q, count |-> of(q)] : q \in prints}
    BY DEF ErrorGroups
  <2> HIDE DEF prints, of
  <2>2. g.count = of(g.print)
    BY <2>1
  <2> QED BY <2>2 DEF of
<1>3. "fingerprint" # Nil /\ "fingerprint" \in Names
  <2>1. Nil \notin Labels \cup Launches \cup Names \cup [at : Nat, id : Nat]
    BY LogScreensAssumption
  <2> QED BY <2>1 DEF Names
<1>4. Query(f) = <<t>>
  <2>1. \A neg, name : Terms(neg, name, {}) = <<>>
    BY NoTerms
  <2>2. QuoteValue("fingerprint", p) = <<t>>
    BY <1>3 DEF QuoteValue
  <2>3. /\ f.levels = {} /\ f.tags = {} /\ f.hidden = {} /\ f.network = FALSE
        /\ f.last = Nil /\ f.print = p /\ f.user = <<>> /\ f.text = <<>>
    BY DEF NoFilter
  <2> HIDE DEF f, t, p
  <2>4. {<<v>> : v \in f.levels} = {}
    BY <2>3
  <2>5. Query(f) = <<>> \o <<>> \o <<>> \o <<>> \o <<>> \o <<t>> \o <<>> \o <<>>
    BY <1>1, <2>1, <2>2, <2>3, <2>4 DEF Query
  <2> QED BY <2>5
<1>5. t \in Tokens
  BY <1>1, <1>3, TokenType
<1>6. Parse(Query(f)) = ReadToken(Unread, t)
  <2>1. "fingerprint" \in Known
    BY DEF Names, Known
  <2>2. Whole(t)
    BY <2>1, WholeToken
  <2> HIDE DEF f, t
  <2> QED BY <1>4, <1>5, <2>2, ParseOne
<1>7. ReadToken(Unread, t).ok = TRUE /\ ReadToken(Unread, t).filter = f
  <2>1. t.lead = FALSE /\ t.neg = FALSE /\ t.field = "fingerprint" /\ t.words = p
    BY DEF Token
  <2>2. Unread.ok = TRUE /\ Unread.filter = NoFilter
    BY DEF Unread
  <2>3. /\ [Unread EXCEPT !.filter["print"] = p].ok = TRUE
        /\ [Unread EXCEPT !.filter["print"] = p].filter = f
    <3> HIDE DEF p
    <3>1. [NoFilter EXCEPT !["print"] = p] = f
      OBVIOUS
    <3>2. [Unread EXCEPT !.filter["print"] = p] = [Unread EXCEPT !.filter = [Unread.filter EXCEPT !["print"] = p]]
      OBVIOUS
    <3> HIDE DEF f
    <3>3. Unread.filter = NoFilter
      BY DEF Unread
    <3>4. [Unread EXCEPT !.filter = f].ok = TRUE /\ [Unread EXCEPT !.filter = f].filter = f
      BY DEF Unread
    <3> QED BY <3>1, <3>2, <3>3, <3>4
  <2> HIDE DEF t, f, p
  <2>4. ReadToken(Unread, t) = [Unread EXCEPT !.filter["print"] = t.words]
    BY <1>3, <2>1, <2>2 DEF ReadToken
  <2> QED BY <2>1, <2>3, <2>4
<1>8. Matching(f, Nil) = {l \in Visible : Fact[l].print = p}
  BY <1>1 DEF Matching, NoFilter
<1> HIDE DEF f, t
<1>9. Parse(Query(f)).ok /\ Cardinality(Matching(Parse(Query(f)).filter, Nil)) = g.count
  BY <1>2, <1>6, <1>7, <1>8
<1> QED BY <1>9 DEF f

-----------------------------------------------------------------------------
(* Sums and columns.                                                       *)

LEMMA DivMod ==
  ASSUME NEW a \in Int, NEW b \in Nat \ {0}
  PROVE  a \div b \in Int /\ a % b \in Int /\ a = b * (a \div b) + (a % b) /\ 0 <= a % b /\ a % b < b
OBVIOUS

LEMMA Multiples ==
  ASSUME NEW b \in Nat \ {0}, NEW p \in Int, NEW q \in Int, p < q
  PROVE  b * p \in Int /\ b * q \in Int /\ b * p + b <= b * q
<1>1. q - p - 1 \in Nat /\ b \in Nat
  OBVIOUS
<1>2. b * (q - p - 1) \in Nat
  BY <1>1
<1>3. b * (q - p - 1) = b * q - b * p - b
  OBVIOUS
<1>4. b * p \in Int /\ b * q \in Int
  OBVIOUS
<1> QED BY <1>2, <1>3, <1>4

\* The quotient is k just when the number is in the k-th stretch of b.
LEMMA Column ==
  ASSUME NEW a \in Int, NEW b \in Nat \ {0}, NEW k \in Int
  PROVE  a \div b = k <=> (b * k <= a /\ a < b * k + b)
<1> DEFINE q == a \div b
           r == a % b
<1>1. q \in Int /\ r \in Int /\ a = b * q + r /\ 0 <= r /\ r < b
  BY DivMod
<1> HIDE DEF q, r
<1>2. (q < k \/ q = k \/ q > k) /\ b * q \in Int /\ b * k \in Int
  BY <1>1
<1>3. CASE q = k
  BY <1>1, <1>2, <1>3
<1>4. CASE q < k
  <2>1. b * q + b <= b * k
    BY <1>1, <1>4, Multiples
  <2> QED BY <1>1, <1>2, <1>4, <2>1 DEF q
<1>5. CASE q > k
  <2>1. b * k + b <= b * q
    BY <1>1, <1>5, Multiples
  <2> QED BY <1>1, <1>2, <1>5, <2>1 DEF q
<1> QED BY <1>2, <1>3, <1>4, <1>5

\* What is counted a column at a time adds up.
LEMMA SumOfCounts ==
  ASSUME NEW S, IsFiniteSet(S), NEW n \in Nat, NEW f \in [S -> 1..n]
  PROVE  SumFunction([i \in 1..n |-> Cardinality({x \in S : f[x] = i})]) = Cardinality(S)
<1> DEFINE D == 1..n
           count == [i \in D |-> Cardinality({x \in S : f[x] = i})]
           cells(s) == {x \in S : f[x] \in s}
           Rec(g, s) == IF s = {} THEN 0 ELSE count[CHOOSE x \in s : TRUE] + g[s \ {CHOOSE x \in s : TRUE}]
           sum == [s \in SUBSET D |-> Cardinality(cells(s))]
           iter == CHOOSE g : g = [s \in SUBSET D |-> Rec(g, s)]
<1>1. IsFiniteSet(D)
  BY FS_Interval
<1>2. \A s : IsFiniteSet(cells(s)) /\ Cardinality(cells(s)) \in Nat
  <2> TAKE s
  <2>1. cells(s) \in SUBSET S
    OBVIOUS
  <2> HIDE DEF cells
  <2> QED BY <2>1, FS_Subset, FS_CardinalityType
<1>3. \A s \in SUBSET D : s # {} =>
        LET c == CHOOSE x \in s : TRUE
        IN  c \in s /\ s \ {c} \in SUBSET D /\ Cardinality(cells(s)) = count[c] + Cardinality(cells(s \ {c}))
  <2> SUFFICES ASSUME NEW s \in SUBSET D, s # {}, NEW c, c = CHOOSE x \in s : TRUE
               PROVE  c \in s /\ s \ {c} \in SUBSET D
                      /\ Cardinality(cells(s)) = count[c] + Cardinality(cells(s \ {c}))
    <3> HIDE DEF cells, count, D
    <3> QED OBVIOUS
  <2>1. c \in s /\ c \in D
    OBVIOUS
  <2>2. count[c] = Cardinality(cells({c}))
    <3>1. {x \in S : f[x] = c} = cells({c})
      OBVIOUS
    <3> HIDE DEF cells
    <3> QED BY <2>1, <3>1
  <2>3. cells(s) = cells({c}) \cup cells(s \ {c}) /\ cells({c}) \cap cells(s \ {c}) = {}
    BY <2>1
  <2> HIDE DEF cells, count
  <2>4. Cardinality(cells(s)) = Cardinality(cells({c})) + Cardinality(cells(s \ {c}))
    BY <1>2, <2>3, FS_Union, FS_EmptySet
  <2> QED BY <2>1, <2>2, <2>4
<1>4. \A s \in SUBSET D : sum[s] = Rec(sum, s)
  <2> SUFFICES ASSUME NEW s \in SUBSET D PROVE sum[s] = Rec(sum, s)
    OBVIOUS
  <2>1. CASE s = {}
    <3>1. cells(s) = {}
      BY <2>1
    <3> HIDE DEF cells
    <3> QED BY <2>1, <3>1, FS_EmptySet
  <2>2. CASE s # {}
    <3> DEFINE c == CHOOSE x \in s : TRUE
    <3>1. s \ {c} \in SUBSET D /\ Cardinality(cells(s)) = count[c] + Cardinality(cells(s \ {c}))
      <4> HIDE DEF cells, count, D
      <4> QED BY <1>3, <2>2
    <3> HIDE DEF cells, count
    <3> QED BY <2>2, <3>1
  <2> QED BY <2>1, <2>2
<1>5. iter = [s \in SUBSET D |-> Rec(iter, s)]
  <2>1. sum = [s \in SUBSET D |-> sum[s]]
    OBVIOUS
  <2> HIDE DEF sum, Rec, D
  <2>2. sum = [s \in SUBSET D |-> Rec(sum, s)]
    BY <1>4, <2>1, Zenon
  <2> QED BY <2>2
<1>6. \A s \in SUBSET D : iter[s] = sum[s]
  <2> HIDE DEF iter
  <2> DEFINE W == {s \in SUBSET D : iter[s] # sum[s]}
  <2> SUFFICES ASSUME W # {} PROVE FALSE
    <3> HIDE DEF sum, D
    <3> QED OBVIOUS
  <2>1. PICK s \in W : \A u \in W : ~(u \subseteq s /\ u # s)
    <3>1. W \in SUBSET (SUBSET D)
      OBVIOUS
    <3> HIDE DEF W, D
    <3> QED BY <1>1, <3>1, SmallestSubset
  <2>2. s \in SUBSET D /\ iter[s] # sum[s]
    <3> HIDE DEF sum, D
    <3> QED OBVIOUS
  <2>3. iter[s] = Rec(iter, s)
    <3> HIDE DEF Rec, D
    <3> QED BY <1>5, <2>2
  <2>4. sum[s] = Rec(sum, s)
    BY <1>4, <2>2
  <2>5. s # {}
    <3> HIDE DEF sum
    <3> QED BY <2>2, <2>3, <2>4
  <2> DEFINE c == CHOOSE x \in s : TRUE
  <2>6. c \in s /\ s \ {c} \in SUBSET D
    BY <2>2, <2>5
  <2>7. iter[s \ {c}] = sum[s \ {c}]
    <3>1. s \ {c} \notin W
      <4> HIDE DEF W, c
      <4> QED BY <2>1, <2>6
    <3> HIDE DEF sum, D, c
    <3> QED BY <2>6, <3>1
  <2> HIDE DEF sum, count
  <2> QED BY <2>2, <2>3, <2>4, <2>5, <2>7
<1>7. SumFunction(count) = iter[D]
  <2>1. DOMAIN count = D
    OBVIOUS
  <2> HIDE DEF count, D
  <2> QED BY <2>1 DEF SumFunction, SumFunctionOnSet, FoldFunctionOnSet, MapThenFoldSet
<1>8. cells(D) = S
  OBVIOUS
<1>9. sum[D] = Cardinality(S)
  <2> HIDE DEF cells
  <2> QED BY <1>8
<1>10. iter[D] = sum[D]
  <2> HIDE DEF iter, sum, D
  <2> QED BY <1>6
<1> HIDE DEF iter, sum
<1> QED BY <1>7, <1>9, <1>10

-----------------------------------------------------------------------------
(* The overview.                                                           *)

\* Retention takes only what is older than Keep.
ExpiredIsOld == \A l \in expired : Fact[l].at < now - Keep

Ever(from, to) == {l \in Logs : stored[l] > 0 /\ Fact[l].at >= from /\ Fact[l].at < to}
Seen(from, to) == {l \in Visible : Fact[l].at >= from /\ Fact[l].at < to}

LEMMA SeenIsEver ==
  ASSUME TableOK, ExpiredIsOld, NEW from \in Int, from >= now - Keep, NEW to \in Int
  PROVE  Seen(from, to) = Ever(from, to)
<1>1. now \in Nat /\ Keep \in Nat /\ \A l \in Logs : Fact[l].at \in Nat
  BY Times, Limits, FactAge DEF TableOK
<1>2. \A l \in Logs : Fact[l].at >= from => l \notin expired
  BY <1>1 DEF ExpiredIsOld
<1> QED BY <1>2 DEF Seen, Ever, Visible

LEMMA RangesType ==
  /\ \A i \in DOMAIN Ranges : /\ Ranges[i].span \in Nat \ {0} /\ Ranges[i].bucket \in Nat \ {0}
                              /\ Ranges[i].span % Ranges[i].bucket = 0
  /\ Ranges[1].span <= Keep /\ (DOMAIN Ranges # {} => 1 \in DOMAIN Ranges)
<1>1. Ranges \in Seq([span : Nat \ {0}, bucket : Nat \ {0}])
  BY LogScreensAssumption
<1>2. \A i \in DOMAIN Ranges : Ranges[i].span % Ranges[i].bucket = 0
  BY LogScreensAssumption
<1>3. Ranges[1].span <= Keep
  BY LogScreensAssumption
<1>4. \A i \in DOMAIN Ranges : Ranges[i] \in [span : Nat \ {0}, bucket : Nat \ {0}]
  <2>1. \A i \in 1..Len(Ranges) : Ranges[i] \in [span : Nat \ {0}, bucket : Nat \ {0}]
    BY <1>1, ElementOfSeq
  <2>2. DOMAIN Ranges = 1..Len(Ranges)
    BY <1>1, LenProperties
  <2> QED BY <2>1, <2>2
<1>5. DOMAIN Ranges = 1..Len(Ranges) /\ Len(Ranges) \in Nat
  BY <1>1, LenProperties
<1> QED BY <1>2, <1>3, <1>4, <1>5

LEMMA WindowType ==
  ASSUME NEW range \in DOMAIN Ranges
  PROVE  LET w == OverviewWindowFor(range, Keep)
         IN  /\ w.span \in Nat \ {0} /\ w.bucket \in Nat \ {0} /\ w.span % w.bucket = 0 /\ w.span <= Keep
<1> DEFINE w == OverviewWindowFor(range, Keep)
<1>1. \E i \in DOMAIN Ranges : w = Ranges[i] /\ Ranges[i].span <= Keep
  BY RangesType DEF OverviewWindowFor, OverviewWindowsFor
<1> HIDE DEF w
<1>2. w.span \in Nat \ {0} /\ w.bucket \in Nat \ {0} /\ w.span % w.bucket = 0 /\ w.span <= Keep
  BY <1>1, RangesType
<1> QED BY <1>2 DEF w

\* Where the columns of a window lie.
LEMMA ColumnsFit ==
  ASSUME TableOK, NEW span \in Nat \ {0}, NEW bucket \in Nat \ {0}, span % bucket = 0
  PROVE  LET columns == span \div bucket
             start == Truncated(now, bucket) - (columns - 1) * bucket
         IN  /\ columns \in Nat \ {0} /\ bucket * columns = span
             /\ start \in Int /\ start > now - span
<1> DEFINE columns == span \div bucket
           start == Truncated(now, bucket) - (columns - 1) * bucket
<1>1. now \in Nat
  BY Times DEF TableOK
<1>2. columns \in Int /\ bucket * columns = span
  BY DivMod
<1>3. now % bucket \in Int /\ now % bucket < bucket /\ 0 <= now % bucket
  BY <1>1, DivMod
<1> HIDE DEF columns
<1>4. columns > 0
  <2>1. columns < 1 => bucket * columns + bucket <= bucket * 1
    BY <1>2, Multiples
  <2> QED BY <1>2, <2>1
<1>5. (columns - 1) * bucket = span - bucket
  <2>1. (columns - 1) * bucket = bucket * columns - bucket
    BY <1>2
  <2> QED BY <1>2, <2>1
<1>6. start \in Int /\ start > now - span
  BY <1>1, <1>3, <1>5 DEF Truncated
<1>7. columns \in Nat \ {0}
  BY <1>2, <1>4
<1> HIDE DEF start
<1> QED BY <1>2, <1>6, <1>7 DEF start, columns

LEMMA OverviewFollows ==
  ASSUME TableOK, ExpiredIsOld
  PROVE  OverviewIsHonest
<1> SUFFICES ASSUME NEW range \in DOMAIN Ranges
             PROVE  LET w == OverviewWindowFor(range, Keep)
                        bars == ActivityChart(w)
                        tile == StatTile(w)
                        start == bars[1].from
                        ever(from, to) == Cardinality({l \in Logs : stored[l] > 0 /\ Fact[l].at >= from /\ Fact[l].at < to})
                        shown == ever(start, start + w.span)
                    IN  /\ \A i \in DOMAIN bars : bars[i].logs = ever(bars[i].from, bars[i].from + w.bucket)
                        /\ tile.value = shown
                        /\ tile.delta \in {Nil, shown - ever(start - w.span, start)}
  BY DEF OverviewIsHonest
<1> DEFINE w == OverviewWindowFor(range, Keep)
           n == w.span \div w.bucket
           start == Truncated(now, w.bucket) - (n - 1) * w.bucket
           column(l) == (Fact[l].at - start) \div w.bucket
           in(i) == {l \in Visible : Fact[l].at >= start /\ column(l) = i - 1}
           o == GetOverview(w)
           bars == ActivityChart(w)
           tile == StatTile(w)
<1>1. w.span \in Nat \ {0} /\ w.bucket \in Nat \ {0} /\ w.span % w.bucket = 0 /\ w.span <= Keep
  <2> HIDE DEF w
  <2> QED BY WindowType DEF w
<1>2. o = [start |-> start, buckets |-> [i \in 1..n |-> Cardinality(in(i))],
           prev |-> Cardinality(Seen(start - w.span, start))]
  BY DEF GetOverview, Seen
<1>3. bars = [i \in DOMAIN o.buckets |-> [from |-> o.start + (i - 1) * w.bucket, logs |-> o.buckets[i]]]
  BY DEF ActivityChart
<1>4. tile = [value |-> SumFunction(o.buckets),
              delta |-> IF ComparableAgainstPrevious(w, Keep) THEN SumFunction(o.buckets) - o.prev ELSE Nil]
  BY DEF StatTile
<1> HIDE DEF w
<1>5. n \in Nat \ {0} /\ w.bucket * n = w.span /\ start \in Int /\ start > now - w.span
  BY <1>1, ColumnsFit
<1>6. now \in Nat /\ Keep \in Nat /\ \A l \in Logs : Fact[l].at \in Nat
  BY Times, Limits, FactAge DEF TableOK
<1> HIDE DEF n, start
\* A column holds the logs of its stretch.
<1>7. ASSUME NEW i \in 1..n
      PROVE  /\ start + (i - 1) * w.bucket \in Int /\ start + (i - 1) * w.bucket >= now - Keep
             /\ in(i) = Ever(start + (i - 1) * w.bucket, start + (i - 1) * w.bucket + w.bucket)
             /\ \A l \in in(i) : l \in Seen(start, start + w.span)
  <2> DEFINE off == w.bucket * (i - 1)
  <2>1. (i - 1) * w.bucket = off /\ off \in Nat /\ i - 1 \in Nat
    BY <1>1, <1>5
  <2>2. off + w.bucket <= w.span
    BY <1>1, <1>5, Multiples
  <2> HIDE DEF off
  <2>3. \A l \in Visible : column(l) = i - 1 <=> off <= Fact[l].at - start /\ Fact[l].at - start < off + w.bucket
    <3> TAKE l \in Visible
    <3>1. Fact[l].at - start \in Int
      BY <1>5, <1>6 DEF Visible
    <3> QED BY <1>1, <2>1, <3>1, Column DEF off
  <2> HIDE DEF column
  <2>4. in(i) = Seen(start + off, start + off + w.bucket)
    <3>1. \A l \in Visible : Fact[l].at \in Nat
      BY <1>6 DEF Visible
    <3> QED BY <1>1, <1>5, <2>1, <2>3, <3>1 DEF Seen
  <2>5. start + off \in Int /\ start + off >= now - Keep /\ start + off + w.bucket \in Int
    BY <1>1, <1>5, <1>6, <2>1
  <2>6. in(i) = Ever(start + off, start + off + w.bucket)
    <3> HIDE DEF in
    <3> QED BY <2>4, <2>5, SeenIsEver
  <2>7. \A l \in in(i) : l \in Seen(start, start + w.span)
    <3>1. \A l \in Visible : Fact[l].at \in Nat
      BY <1>6 DEF Visible
    <3> HIDE DEF in
    <3> QED BY <1>1, <1>5, <2>1, <2>2, <2>4, <3>1 DEF Seen
  <2> HIDE DEF in
  <2> QED BY <2>1, <2>5, <2>6, <2>7
<1>8. Seen(start, start + w.span) = Ever(start, start + w.span)
  BY <1>1, <1>5, <1>6, SeenIsEver
\* The columns together hold those of the window.
<1>9. SumFunction([i \in 1..n |-> Cardinality(in(i))]) = Cardinality(Ever(start, start + w.span))
  <2> DEFINE S == Seen(start, start + w.span)
             f == [l \in S |-> column(l) + 1]
  <2>1. IsFiniteSet(S)
    <3>1. IsFiniteSet(Logs) /\ S \subseteq Logs
      BY LogScreensAssumption DEF Seen, Visible
    <3> HIDE DEF S
    <3> QED BY <3>1, FS_Subset
  <2>2. \A l \in S : column(l) \in Int /\ column(l) + 1 \in 1..n
    <3> SUFFICES ASSUME NEW l \in S PROVE column(l) \in Int /\ column(l) + 1 \in 1..n
      OBVIOUS
    <3> DEFINE a == Fact[l].at - start
    <3>1. a \in Int /\ 0 <= a /\ a < w.span
      BY <1>1, <1>5, <1>6 DEF Seen, Visible
    <3> HIDE DEF a
    <3>2. /\ a \div w.bucket \in Int /\ a % w.bucket \in Int
          /\ a = w.bucket * (a \div w.bucket) + (a % w.bucket)
          /\ 0 <= a % w.bucket /\ a % w.bucket < w.bucket
      BY <1>1, <3>1, DivMod
    <3> DEFINE c == a \div w.bucket
               r == a % w.bucket
    <3>c. c \in Int /\ r \in Int /\ a = w.bucket * c + r /\ 0 <= r /\ r < w.bucket
      BY <3>2
    <3> HIDE DEF c, r
    <3>3. c \in Int /\ w.bucket * c <= a /\ a < w.bucket * c + w.bucket /\ w.bucket * c \in Int
      <4>1. w.bucket \in Int /\ w.bucket * c \in Int
        BY <1>1, <3>c
      <4> QED BY <3>1, <3>c, <4>1
    <3>4. ~(c < 0)
      <4>1. c < 0 => w.bucket * c + w.bucket <= w.bucket * 0
        BY <1>1, <3>3, Multiples
      <4> QED BY <1>1, <3>1, <3>3, <4>1
    <3>5. c < n
      <4>1. n < c => w.bucket * n + w.bucket <= w.bucket * c
        BY <1>1, <1>5, <3>3, Multiples
      <4>2. n = c => w.bucket * n = w.bucket * c
        OBVIOUS
      <4> QED BY <1>1, <1>5, <3>1, <3>3, <4>1, <4>2
    <3>6. column(l) = c
      BY DEF c, a
    <3> HIDE DEF column
    <3> QED BY <1>5, <3>3, <3>4, <3>5, <3>6
  <2> HIDE DEF column
  <2>3. f \in [S -> 1..n]
    <3> HIDE DEF S
    <3> QED BY <2>2
  <2>4. \A i \in 1..n : {x \in S : f[x] = i} = in(i)
    <3> TAKE i \in 1..n
    <3>1. \A x \in S : f[x] = i <=> column(x) = i - 1
      <4> HIDE DEF S
      <4> QED BY <2>2
    <3>2. \A x \in in(i) : x \in S
      <4> HIDE DEF in
      <4> QED BY <1>7
    <3>3. \A x \in S : x \in Visible /\ Fact[x].at >= start
      BY DEF Seen
    <3> HIDE DEF S, f
    <3> QED BY <3>1, <3>2, <3>3
  <2> HIDE DEF S, f, in
  <2>5. SumFunction([i \in 1..n |-> Cardinality({x \in S : f[x] = i})]) = Cardinality(S)
    BY <1>5, <2>1, <2>3, SumOfCounts
  <2>6. [i \in 1..n |-> Cardinality({x \in S : f[x] = i})] = [i \in 1..n |-> Cardinality(in(i))]
    BY <2>4
  <2> QED BY <1>8, <2>5, <2>6 DEF S
<1>10. ComparableAgainstPrevious(w, Keep) =>
         Seen(start - w.span, start) = Ever(start - w.span, start)
  <2> SUFFICES ASSUME ComparableAgainstPrevious(w, Keep)
               PROVE  Seen(start - w.span, start) = Ever(start - w.span, start)
    OBVIOUS
  <2>1. 2 * w.span <= Keep
    BY DEF ComparableAgainstPrevious
  <2>2. start - w.span \in Int /\ start - w.span >= now - Keep
    BY <1>1, <1>5, <1>6, <2>1
  <2> QED BY <1>5, <2>2, SeenIsEver
<1> HIDE DEF in, o, bars, tile
<1>11. DOMAIN bars = 1..n /\ \A i \in 1..n : /\ bars[i].from = start + (i - 1) * w.bucket
                                             /\ bars[i].logs = Cardinality(in(i))
  BY <1>2, <1>3
<1>12. bars[1].from = start
  <2>1. 1 \in 1..n /\ (1 - 1) * w.bucket = 0
    BY <1>1, <1>5
  <2> QED BY <1>5, <1>11, <2>1
<1>13. \A i \in 1..n : bars[i].logs = Cardinality(Ever(bars[i].from, bars[i].from + w.bucket))
  BY <1>7, <1>11
<1>14. tile.value = Cardinality(Ever(start, start + w.span))
  BY <1>2, <1>4, <1>9
<1>15. tile.delta \in {Nil, Cardinality(Ever(start, start + w.span)) - Cardinality(Ever(start - w.span, start))}
  BY <1>2, <1>4, <1>9, <1>10
<1>16. \A from, to : Ever(from, to) = {l \in Logs : stored[l] > 0 /\ Fact[l].at >= from /\ Fact[l].at < to}
  BY DEF Ever
<1>17. /\ \A i \in DOMAIN bars : bars[i].logs = Cardinality(Ever(bars[i].from, bars[i].from + w.bucket))
       /\ tile.value = Cardinality(Ever(bars[1].from, bars[1].from + w.span))
       /\ tile.delta \in {Nil, Cardinality(Ever(bars[1].from, bars[1].from + w.span))
                                 - Cardinality(Ever(bars[1].from - w.span, bars[1].from))}
  BY <1>11, <1>12, <1>13, <1>14, <1>15
<1> QED BY <1>17 DEF Ever, w, bars, tile

\* What the counts need besides: retention has taken only what is out of every window.
CountsIInv == LogScreensIInv /\ EmptyIsHonest /\ ExpiredIsOld

LEMMA ExpiredStep ==
  ASSUME LogScreensIInv, ExpiredIsOld, [LogScreensNext]_logScreensVars
  PROVE  ExpiredIsOld'
<1>1. now \in Nat /\ Keep \in Nat /\ \A l \in Logs : Fact[l].at \in Nat
  BY Times, Limits, FactAge DEF LogScreensIInv, TableOK
<1>2. expired \subseteq Logs
  BY DEF LogScreensIInv, TableOK
<1>3. CASE UNCHANGED <<expired, now>>
  BY <1>3 DEF ExpiredIsOld
<1>4. CASE Cleanup
  <2>1. now' = now /\ \A l \in expired' : l \in expired \/ Fact[l].at < now - Keep
    BY <1>4 DEF Cleanup
  <2> QED BY <2>1 DEF ExpiredIsOld
<1>5. CASE Tick
  <2>1. now' = now + 1 /\ expired' = expired
    BY <1>5 DEF Tick
  <2>2. \A l \in expired : Fact[l].at < now - Keep /\ Fact[l].at \in Nat
    BY <1>1, <1>2 DEF ExpiredIsOld
  <2> QED BY <1>1, <2>1, <2>2 DEF ExpiredIsOld
<1>6. UNCHANGED <<expired, now>> \/ Cleanup \/ Tick
  BY DEF LogScreensNext, logScreensVars, table, OpenLogs, Type, Follow, ViewInLogs, LogViewer, LogsPartial,
         DrawSearch, ScrollDown, LogRows, ExportLogs, ExportPage, OpenNetwork, NetworkToolbar, OpenCall,
         OpenTab, CloseInspector, NetworkInspector, GetNetworkRequest, DrawInspector, Upload, SetUser
<1> QED BY <1>3, <1>4, <1>5, <1>6

LEMMA CountsInit == LogScreensInit => EmptyIsHonest /\ ExpiredIsOld
<1> SUFFICES ASSUME LogScreensInit PROVE EmptyIsHonest /\ ExpiredIsOld
  OBVIOUS
<1>1. page = Screen("none") /\ expired = {}
  BY Zenon DEF LogScreensInit
<1>2. page.empty = ""
  BY <1>1 DEF Screen
<1> QED BY <1>1, <1>2 DEF EmptyIsHonest, ExpiredIsOld

\* "No logs yet" is never said to a search that matches nothing, a group of errors opens exactly the logs it
\* counts, and the bars and tiles of the overview count logs that were all there to be
\* counted: a comparison never reaches into what retention has deleted.
THEOREM CountsSafe == LogScreensSpec => []CountsAreHonest
<1>1. LogScreensInit => CountsIInv
  BY LogScreensInitIInv, CountsInit DEF CountsIInv
<1>2. CountsIInv /\ [LogScreensNext]_logScreensVars => CountsIInv'
  <2> SUFFICES ASSUME CountsIInv, [LogScreensNext]_logScreensVars PROVE CountsIInv'
    OBVIOUS
  <2> QED BY LogScreensIInvStep, EmptyStep, ExpiredStep DEF CountsIInv
<1>3. CountsIInv => CountsAreHonest
  BY GroupsFollow, OverviewFollows DEF CountsIInv, LogScreensIInv, CountsAreHonest
<1> QED BY <1>1, <1>2, <1>3, PTL DEF LogScreensSpec

-----------------------------------------------------------------------------
(* Links: what Query writes, Parse reads.                                  *)

\* Reading q, which has no loose words, after r gives s.
Reads(r, q, s) ==
  /\ ~Strays(q)
  /\ \E h : /\ h[0] = r /\ h[Len(q)] = s
            /\ \A i \in 1..Len(q) : h[i] = ReadToken(h[i - 1], q[i])

\* What is read is what Parse says.
LEMMA ReadsParse ==
  ASSUME NEW q \in Seq(Tokens), NEW s, Reads(Unread, q, s)
  PROVE  Parse(q) = s
<1>1. PICK h : /\ h[0] = Unread /\ h[Len(q)] = s
               /\ \A i \in 1..Len(q) : h[i] = ReadToken(h[i - 1], q[i])
  BY DEF Reads
<1>2. PICK r : /\ r[0] = Unread
               /\ \A i \in 1..Len(q) : r[i] = ReadToken(r[i - 1], q[i])
               /\ ReadTokens(q) = r[Len(q)]
  BY ParseSteps
<1>3. Len(q) \in Nat
  BY LenProperties
<1> DEFINE W == {i \in 0..Len(q) : h[i] # r[i]}
<1>4. W = {}
  <2> SUFFICES ASSUME W # {} PROVE FALSE
    OBVIOUS
  <2>1. PICK i \in W : \A j \in W : i <= j
    <3>1. W \subseteq Nat
      BY <1>3
    <3> HIDE DEF W
    <3> QED BY <3>1, SmallestNumber
  <2>2. i \in 0..Len(q) /\ h[i] # r[i]
    OBVIOUS
  <2>3. i # 0
    BY <1>1, <1>2, <2>2
  <2>4. i \in 1..Len(q) /\ i - 1 \in 0..Len(q) /\ i - 1 < i /\ i \in Nat
    BY <1>3, <2>2, <2>3
  <2>5. h[i - 1] = r[i - 1]
    <3>1. i - 1 \notin W
      BY <2>1, <2>4
    <3> QED BY <2>4, <3>1
  <2> QED BY <1>1, <1>2, <2>2, <2>4, <2>5
<1>5. Len(q) \in 0..Len(q)
  BY <1>3
<1>6. Parse(q) = ReadTokens(q)
  <2>1. Strays(q) = FALSE
    BY DEF Reads
  <2> QED BY <2>1, Zenon DEF Parse
<1> QED BY <1>1, <1>2, <1>4, <1>5, <1>6

LEMMA ReadsNothing == ASSUME NEW r PROVE Reads(r, <<>>, r)
<1> DEFINE h == [i \in {0} |-> r]
<1>1. h[0] = r /\ Len(<<>>) = 0 /\ 1..0 = {}
  OBVIOUS
<1>2. ~Strays(<<>>)
  BY DEF Strays
<1> HIDE DEF h
<1> QED BY <1>1, <1>2 DEF Reads

LEMMA ReadsOne ==
  ASSUME NEW r, NEW t \in Tokens, Whole(t)
  PROVE  Reads(r, <<t>>, ReadToken(r, t))
<1> DEFINE h == [i \in {0, 1} |-> IF i = 0 THEN r ELSE ReadToken(r, t)]
           q == <<t>>
<1>1. h[0] = r /\ h[1] = ReadToken(r, t)
  OBVIOUS
<1>2. Len(q) = 1 /\ q[1] = t /\ DOMAIN q = {1}
  BY OneElement
<1> HIDE DEF h, q
<1>3. \A i \in 1..Len(q) : i = 1 /\ i - 1 = 0
  BY <1>2
<1>4. ~Strays(q)
  BY <1>2 DEF Strays, Whole
<1>5. Reads(r, q, ReadToken(r, t))
  BY <1>1, <1>2, <1>3, <1>4 DEF Reads
<1> QED BY <1>5 DEF q

LEMMA ReadsOn ==
  ASSUME NEW p \in Seq(Tokens), NEW q \in Seq(Tokens), NEW r, NEW s, NEW t,
         Reads(r, p, s), Reads(s, q, t)
  PROVE  Reads(r, p \o q, t)
<1> DEFINE n == Len(p)
           m == Len(q)
           pq == p \o q
<1>1. PICK g : /\ g[0] = r /\ g[n] = s
               /\ \A i \in 1..n : g[i] = ReadToken(g[i - 1], p[i])
  BY DEF Reads
<1>2. PICK h : /\ h[0] = s /\ h[m] = t
               /\ \A i \in 1..m : h[i] = ReadToken(h[i - 1], q[i])
  BY DEF Reads
<1>3. n \in Nat /\ m \in Nat /\ Len(pq) = n + m
      /\ \A i \in 1..(n + m) : pq[i] = IF i <= n THEN p[i] ELSE q[i - n]
  BY ConcatProperties, LenProperties
<1>8. ~Strays(pq)
  <2>1. DOMAIN p = 1..n /\ DOMAIN q = 1..m /\ DOMAIN pq = 1..(n + m)
    BY ConcatProperties, LenProperties
  <2> HIDE DEF n, m, pq
  <2>2. (\A i \in 1..n : Whole(p[i])) /\ (\A i \in 1..m : Whole(q[i]))
    BY <2>1 DEF Reads, Strays, Whole
  <2>3. ASSUME NEW i \in 1..(n + m) PROVE Whole(pq[i])
    <3>1. CASE i <= n
      BY <1>3, <2>2, <3>1
    <3>2. CASE ~(i <= n)
      <4>1. i - n \in 1..m
        BY <1>3, <3>2
      <4> QED BY <1>3, <2>2, <3>2, <4>1
    <3> QED BY <3>1, <3>2
  <2> QED BY <2>1, <2>3 DEF Strays, Whole
<1> DEFINE k == [i \in 0..(n + m) |-> IF i <= n THEN g[i] ELSE h[i - n]]
<1> HIDE DEF n, m, pq
<1>4. k[0] = r
  BY <1>1, <1>3
<1>5. k[n + m] = t
  <2>1. CASE m = 0
    <3>1. n + m = n /\ n \in 0..(n + m)
      BY <1>3, <2>1
    <3>2. k[n] = g[n]
      BY <3>1, <1>3
    <3> HIDE DEF k
    <3> QED BY <1>1, <1>2, <2>1, <3>1, <3>2
  <2>2. CASE m # 0
    <3>1. n + m \in 0..(n + m) /\ ~(n + m <= n) /\ n + m - n = m
      BY <1>3, <2>2
    <3>2. k[n + m] = h[(n + m) - n]
      BY <3>1
    <3> HIDE DEF k
    <3>3. k[n + m] = h[m]
      <4>1. n \in Nat /\ m \in Nat
        BY <1>3
      <4> QED BY <3>2, <4>1
    <3> QED BY <1>2, <3>3
  <2> QED BY <2>1, <2>2
<1>6. ASSUME NEW i \in 1..(n + m) PROVE k[i] = ReadToken(k[i - 1], pq[i])
  <2>1. i \in 0..(n + m) /\ i - 1 \in 0..(n + m) /\ i \in Nat
    BY <1>3
  <2>2. CASE i <= n
    <3>1. i \in 1..n /\ i - 1 <= n
      BY <1>3, <2>1, <2>2
    <3>2. k[i] = g[i] /\ k[i - 1] = g[i - 1] /\ pq[i] = p[i]
      BY <1>3, <2>1, <2>2, <3>1
    <3> HIDE DEF k
    <3> QED BY <1>1, <3>1, <3>2
  <2>3. CASE ~(i <= n)
    <3>1. i - n \in 1..m /\ pq[i] = q[i - n] /\ k[i] = h[i - n] /\ (i - n) - 1 = (i - 1) - n
      BY <1>3, <2>1, <2>3
    <3>2. k[i - 1] = h[(i - n) - 1]
      <4>1. CASE i - 1 = n
        <5>1. k[i - 1] = g[n] /\ (i - n) - 1 = 0
          BY <1>3, <2>1, <4>1
        <5> HIDE DEF k
        <5> QED BY <1>1, <1>2, <5>1
      <4>2. CASE i - 1 # n
        <5>1. ~(i - 1 <= n)
          BY <1>3, <2>1, <2>3, <4>2
        <5>2. k[i - 1] = h[(i - 1) - n]
          BY <2>1, <5>1
        <5> HIDE DEF k
        <5> QED BY <3>1, <5>2
      <4> QED BY <4>1, <4>2
    <3> HIDE DEF k
    <3> QED BY <1>2, <3>1, <3>2
  <2> QED BY <2>2, <2>3
<1> HIDE DEF k
<1>7. Reads(r, pq, t)
  BY <1>3, <1>4, <1>5, <1>6, <1>8 DEF Reads
<1> QED BY <1>7 DEF pq

\* Sequences laid end to end are read one after the other.
LEMMA ReadsAll ==
  ASSUME NEW n \in Nat, NEW seqs \in [1..n -> Seq(Tokens) \ {<<>>}], NEW h,
         \A i \in 1..n : Reads(h[i - 1], seqs[i], h[i])
  PROVE  Reads(h[0], FlattenSeq(seqs), h[n])
<1>1. CASE n = 0
  <2>1. FlattenSeq(seqs) = <<>>
    BY <1>1, FlattenType
  <2> QED BY <1>1, <2>1, ReadsNothing
<1>2. CASE n # 0
  <2>0. n \in Nat \ {0}
    BY <1>2
  <2>a. PICK g : LaidEndToEnd(Tokens, n, seqs, g)
    BY <2>0, FlattenSteps
  <2>1. /\ FlattenSeq(seqs) = g[n]
        /\ \A i \in 1..n : /\ g[i] \in Seq(Tokens) \ {<<>>}
                           /\ g[i] = IF i = 1 THEN seqs[i] ELSE g[i - 1] \o seqs[i]
    BY <2>a DEF LaidEndToEnd
  <2> DEFINE W == {i \in 1..n : ~Reads(h[0], g[i], h[i])}
  <2>2. W = {}
    <3> SUFFICES ASSUME W # {} PROVE FALSE
      OBVIOUS
    <3>1. PICK i \in W : \A j \in W : i <= j
      <4>1. W \subseteq Nat
        OBVIOUS
      <4> HIDE DEF W
      <4> QED BY <4>1, SmallestNumber
    <3>2. i \in 1..n /\ ~Reads(h[0], g[i], h[i]) /\ seqs[i] \in Seq(Tokens) /\ i \in Nat
      OBVIOUS
    <3>3. CASE i = 1
      <4>1. g[i] = seqs[i] /\ i - 1 = 0
        BY <2>1, <3>2, <3>3
      <4> HIDE DEF W
      <4>2. Reads(h[i - 1], seqs[i], h[i])
        BY <3>2
      <4> QED BY <3>2, <4>1, <4>2
    <3>4. CASE i # 1
      <4>1. i - 1 \in 1..n /\ i - 1 < i
        BY <3>2, <3>4
      <4>2. i - 1 \notin W
        BY <3>1, <3>2, <4>1
      <4>3. Reads(h[0], g[i - 1], h[i - 1])
        BY <4>1, <4>2
      <4> HIDE DEF W
      <4>4. g[i] = g[i - 1] \o seqs[i] /\ g[i - 1] \in Seq(Tokens)
        BY <2>1, <3>2, <3>4, <4>1
      <4>5. Reads(h[i - 1], seqs[i], h[i])
        BY <3>2
      <4> QED BY <3>2, <4>3, <4>4, <4>5, ReadsOn
    <3> QED BY <3>3, <3>4
  <2>3. n \in 1..n
    BY <1>2
  <2> QED BY <2>1, <2>2, <2>3
<1> QED BY <1>1, <1>2

\* A value of one word needs no quotes, unless part of it were lost.
LEMMA OneWord ==
  ASSUME NEW neg, NEW name, NEW value \in Values, Len(value) = 1
  PROVE  /\ value[1] \notin Torn => Unquoted(neg, name, value) = <<Token(FALSE, neg, name, value)>>
         /\ value[1] \in Words /\ value = <<value[1]>>
<1>1. value \in Seq(Words) /\ value # <<>>
  BY DEF Values
<1>2. value[1] \in Words /\ Head(value) = value[1]
  BY <1>1, ElementOfSeq, HeadTailProperties
<1>3. value = <<value[1]>>
  BY <1>1
<1> SUFFICES ASSUME value[1] \notin Torn
             PROVE  Unquoted(neg, name, value) = <<Token(FALSE, neg, name, value)>>
  BY <1>2, <1>3
<1> DEFINE a == <<Token(FALSE, neg, name, <<Head(value)>>)>>
           b == [i \in 1..(Len(value) - 1) |-> Word(value[i + 1])]
<1>4. b = <<>>
  <2>1. 1..(Len(value) - 1) = {}
    OBVIOUS
  <2> QED BY <2>1
<1>5. a = <<Token(FALSE, neg, name, value)>>
  BY <1>2, <1>3
<1>6. Unquoted(neg, name, value) = a \o b
  <2>1. (Head(value) \in Torn) = FALSE
    BY <1>2
  <2> QED BY <2>1, Zenon DEF Unquoted
<1>7. a \o <<>> = a
  <2> DEFINE X == {Token(FALSE, neg, name, value)}
  <2>1. a \in Seq(X)
    BY <1>5, OneElement
  <2> HIDE DEF a
  <2> QED BY <2>1, ConcatEmptySeq
<1> HIDE DEF a, b
<1> QED BY <1>4, <1>5, <1>6, <1>7

\* The terms of a field, read one after the other.
LEMMA ReadsTerms ==
  ASSUME NEW neg \in BOOLEAN, NEW name \in Known, NEW values \in SUBSET Values, IsFiniteSet(values),
         \A v \in values : NeedsNoQuotes(v), NEW R,
         \A V \in SUBSET values : \A v \in values :
           ReadToken(R[V], Token(FALSE, neg, name, v)) = R[V \cup {v}]
  PROVE  Reads(R[{}], Terms(neg, name, values), R[values])
<1> DEFINE n == Cardinality(values)
           s == SetToSeq(values)
           seqs == [i \in 1..n |-> Unquoted(neg, name, s[i])]
           Done(i) == {s[j] : j \in 1..i}
           h == [i \in 0..n |-> R[Done(i)]]
<1>1. n \in Nat /\ s \in [1..n -> values] /\ \A x \in values : \E i \in 1..n : s[i] = x
  BY SetToSeqType
<1>2. Terms(neg, name, values) = FlattenSeq(seqs)
  BY DEF Terms
<1>8. name \in Names
  BY DEF Known
<1> HIDE DEF n, s
<1>3. seqs \in [1..n -> Seq(Tokens) \ {<<>>}]
  <2>1. \A i \in 1..n : Unquoted(neg, name, s[i]) \in Seq(Tokens) \ {<<>>}
    <3> SUFFICES ASSUME NEW i \in 1..n PROVE Unquoted(neg, name, s[i]) \in Seq(Tokens) \ {<<>>}
      OBVIOUS
    <3>1. s[i] \in Values
      BY <1>1
    <3> QED BY <1>8, <3>1, UnquotedType
  <2> DEFINE U(i) == Unquoted(neg, name, s[i])
             S == Seq(Tokens) \ {<<>>}
  <2>2. \A i \in 1..n : U(i) \in S
    BY <2>1
  <2>3. seqs = [i \in 1..n |-> U(i)]
    OBVIOUS
  <2> HIDE DEF U, S, seqs
  <2>4. seqs \in [1..n -> S]
    BY <2>2, <2>3
  <2> QED BY <2>4 DEF S
<1>4. ASSUME NEW i \in 1..n PROVE Reads(h[i - 1], seqs[i], h[i])
  <2>1. s[i] \in values /\ s[i] \in Values /\ i \in 0..n /\ i - 1 \in 0..n /\ i \in Nat /\ n \in Nat
    BY <1>1
  <2> DEFINE t == Token(FALSE, neg, name, s[i])
             V == Done(i - 1)
  <2>2. seqs[i] = <<t>>
    <3>1. seqs[i] = Unquoted(neg, name, s[i])
      OBVIOUS
    <3>2. NeedsNoQuotes(s[i])
      BY <2>1
    <3>3. Unquoted(neg, name, s[i]) = <<Token(FALSE, neg, name, s[i])>>
      <4> DEFINE w == s[i]
      <4>1. w \in Values /\ NeedsNoQuotes(w)
        BY <2>1, <3>2
      <4> HIDE DEF w
      <4>2. Unquoted(neg, name, w) = <<Token(FALSE, neg, name, w)>>
        BY <4>1, OneWord DEF NeedsNoQuotes
      <4> QED BY <4>2 DEF w
    <3> QED BY <3>1, <3>3, Zenon
  <2>3. t \in Tokens /\ Whole(t)
    BY <1>8, <2>1, TokenType, WholeToken
  <2>4. Done(i) = V \cup {s[i]} /\ V \in SUBSET values
    <3>1. \A j : j \in 1..i <=> j \in 1..(i - 1) \/ j = i
      BY <2>1
    <3>2. 1..(i - 1) \subseteq 1..n
      BY <2>1
    <3> QED BY <1>1, <3>1, <3>2
  <2>5. h[i] = R[Done(i)] /\ h[i - 1] = R[V]
    BY <2>1
  <2> HIDE DEF h, seqs, Done, V
  <2>6. ReadToken(h[i - 1], t) = h[i]
    BY <2>1, <2>4, <2>5
  <2> HIDE DEF t
  <2> QED BY <2>2, <2>3, <2>6, ReadsOne
<1>5. h[0] = R[{}]
  <2>1. Done(0) = {} /\ 0 \in 0..n
    BY <1>1
  <2> HIDE DEF Done
  <2> QED BY <2>1
<1>6. h[n] = R[values]
  <2>1. Done(n) = values /\ n \in 0..n
    BY <1>1
  <2> HIDE DEF Done
  <2> QED BY <2>1
<1> HIDE DEF h, seqs
<1>7. Reads(h[0], FlattenSeq(seqs), h[n])
  BY <1>1, <1>3, <1>4, ReadsAll
<1> QED BY <1>2, <1>5, <1>6, <1>7

\* A filter as far as it has been read.
SoFar(f) == [ok |-> TRUE, filter |-> f]

LEMMA SoFarIs ==
  ASSUME NEW f
  PROVE  SoFar(f).filter = f /\ \A g : [SoFar(f) EXCEPT !.filter = g] = SoFar(g)
<1>1. SoFar(f).filter = f
  BY DEF SoFar
<1>2. \A g : \A b \in BOOLEAN : [[ok |-> b, filter |-> f] EXCEPT !.filter = g] = [ok |-> b, filter |-> g]
  BY SMT
<1> QED BY <1>1, <1>2 DEF SoFar

LEMMA SoFarWithSets ==
  ASSUME NEW f, NEW value
  PROVE  /\ SoFar([f EXCEPT !.levels = value]) = [SoFar(f) EXCEPT !.filter["levels"] = value]
         /\ SoFar([f EXCEPT !.tags = value]) = [SoFar(f) EXCEPT !.filter["tags"] = value]
         /\ SoFar([f EXCEPT !.hidden = value]) = [SoFar(f) EXCEPT !.filter["hidden"] = value]
BY SoFarIs

LEMMA SoFarWith ==
  ASSUME NEW f
  PROVE  \A value :
    /\ [SoFar(f) EXCEPT !.filter["network"] = value] = SoFar([f EXCEPT !.network = value])
    /\ [SoFar(f) EXCEPT !.filter["last"] = value] = SoFar([f EXCEPT !.last = value])
    /\ [SoFar(f) EXCEPT !.filter["print"] = value] = SoFar([f EXCEPT !.print = value])
    /\ [SoFar(f) EXCEPT !.filter["user"] = value] = SoFar([f EXCEPT !.user = value])
    /\ [SoFar(f) EXCEPT !.filter["text"] = value] = SoFar([f EXCEPT !.text = value])
BY SoFarIs

LEMMA FieldsAreNames == Nil \notin Names
BY LogScreensAssumption

LEMMA ReadsLevel ==
  ASSUME NEW f \in Filters, NEW v \in Levels
  PROVE  ReadToken(SoFar(f), Token(FALSE, FALSE, "level", <<v>>))
           = SoFar([f EXCEPT !.levels = f.levels \cup {v}])
<1>1. "level" # Nil
  BY FieldsAreNames DEF Names
<1>2. SoFar([f EXCEPT !.levels = f.levels \cup {v}])
        = [SoFar(f) EXCEPT !.filter["levels"] = f.levels \cup {v}]
  <2> DEFINE L == f.levels \cup {v}
  <2> HIDE DEF L
  <2>1. SoFar([f EXCEPT !.levels = L]) = [SoFar(f) EXCEPT !.filter["levels"] = L]
    BY SoFarWithSets
  <2> QED BY <2>1 DEF L
<1> QED BY <1>1, <1>2 DEF ReadToken, Token, SoFar

LEMMA ReadsTag ==
  ASSUME NEW f \in Filters, NEW v \in Values
  PROVE  /\ ReadToken(SoFar(f), Token(FALSE, FALSE, "tag", v)) = SoFar([f EXCEPT !.tags = f.tags \cup {v}])
         /\ ReadToken(SoFar(f), Token(FALSE, TRUE, "tag", v)) = SoFar([f EXCEPT !.hidden = f.hidden \cup {v}])
<1>1. "tag" # Nil
  BY FieldsAreNames DEF Names
<1>2. ReadToken(SoFar(f), Token(FALSE, FALSE, "tag", v)) = SoFar([f EXCEPT !.tags = f.tags \cup {v}])
  <2> DEFINE r == SoFar(f)
             t == Token(FALSE, FALSE, "tag", v)
  <2>1. t.lead = FALSE /\ t.neg = FALSE /\ t.field = "tag" /\ t.words = v
    BY DEF Token
  <2>2. r.ok = TRUE /\ r.filter = f
    BY DEF SoFar
  <2>3. SoFar([f EXCEPT !.tags = f.tags \cup {v}]) = [SoFar(f) EXCEPT !.filter["tags"] = f.tags \cup {v}]
    <3> DEFINE T == f.tags \cup {v}
    <3> HIDE DEF T
    <3>1. SoFar([f EXCEPT !.tags = T]) = [SoFar(f) EXCEPT !.filter["tags"] = T]
      BY SoFarWithSets
    <3> QED BY <3>1 DEF T
  <2> HIDE DEF r, t
  <2>4. ReadToken(r, t) = [r EXCEPT !.filter["tags"] = f.tags \cup {v}]
    BY <1>1, <2>1, <2>2 DEF ReadToken
  <2> QED BY <2>3, <2>4 DEF r, t
<1>3. ReadToken(SoFar(f), Token(FALSE, TRUE, "tag", v)) = SoFar([f EXCEPT !.hidden = f.hidden \cup {v}])
  <2> DEFINE r == SoFar(f)
             t == Token(FALSE, TRUE, "tag", v)
  <2>1. t.lead = FALSE /\ t.neg = TRUE /\ t.field = "tag" /\ t.words = v
    BY DEF Token
  <2>2. r.ok = TRUE /\ r.filter = f
    BY DEF SoFar
  <2>3. SoFar([f EXCEPT !.hidden = f.hidden \cup {v}]) = [SoFar(f) EXCEPT !.filter["hidden"] = f.hidden \cup {v}]
    <3> DEFINE T == f.hidden \cup {v}
    <3> HIDE DEF T
    <3>1. SoFar([f EXCEPT !.hidden = T]) = [SoFar(f) EXCEPT !.filter["hidden"] = T]
      BY SoFarWithSets
    <3> QED BY <3>1 DEF T
  <2> HIDE DEF r, t
  <2>4. ReadToken(r, t) = [r EXCEPT !.filter["hidden"] = f.hidden \cup {v}]
    BY <1>1, <2>1, <2>2 DEF ReadToken
  <2> QED BY <2>3, <2>4 DEF r, t
<1> QED BY <1>2, <1>3

LEMMA ReadsField ==
  ASSUME NEW f \in Filters, NEW v \in Values, NEW d \in Labels
  PROVE  /\ ReadToken(SoFar(f), Token(FALSE, FALSE, "is", <<"network">>)) = SoFar([f EXCEPT !.network = TRUE])
         /\ ReadToken(SoFar(f), Token(FALSE, FALSE, "last", <<d>>)) = SoFar([f EXCEPT !.last = d])
         /\ ReadToken(SoFar(f), Token(FALSE, FALSE, "fingerprint", v)) = SoFar([f EXCEPT !.print = v])
         /\ ReadToken(SoFar(f), Token(FALSE, FALSE, "user", v)) = SoFar([f EXCEPT !.user = v])
<1>1. "is" # Nil /\ "last" # Nil /\ "fingerprint" # Nil /\ "user" # Nil
  BY FieldsAreNames DEF Names
<1>2. ReadToken(SoFar(f), Token(FALSE, FALSE, "is", <<"network">>)) = SoFar([f EXCEPT !.network = TRUE])
  <2>1. "is" # Nil
    BY <1>1
  <2>2. SoFar([f EXCEPT !.network = TRUE]) = [SoFar(f) EXCEPT !.filter["network"] = TRUE]
    BY SoFarWith
  <2> QED BY <2>1, <2>2 DEF ReadToken, Token, SoFar
<1>3. ReadToken(SoFar(f), Token(FALSE, FALSE, "last", <<d>>)) = SoFar([f EXCEPT !.last = d])
  <2>1. "last" # Nil
    BY <1>1
  <2>2. SoFar([f EXCEPT !.last = d]) = [SoFar(f) EXCEPT !.filter["last"] = d]
    BY SoFarWith
  <2> QED BY <2>1, <2>2 DEF ReadToken, Token, SoFar
<1>4. ReadToken(SoFar(f), Token(FALSE, FALSE, "fingerprint", v)) = SoFar([f EXCEPT !.print = v])
  <2>1. "fingerprint" # Nil
    BY <1>1
  <2>2. SoFar([f EXCEPT !.print = v]) = [SoFar(f) EXCEPT !.filter["print"] = v]
    BY SoFarWith
  <2> QED BY <2>1, <2>2 DEF ReadToken, Token, SoFar
<1>5. ReadToken(SoFar(f), Token(FALSE, FALSE, "user", v)) = SoFar([f EXCEPT !.user = v])
  <2>1. "user" # Nil
    BY <1>1
  <2>2. SoFar([f EXCEPT !.user = v]) = [SoFar(f) EXCEPT !.filter["user"] = v]
    BY SoFarWith
  <2> QED BY <2>1, <2>2 DEF ReadToken, Token, SoFar
<1> QED BY <1>2, <1>3, <1>4, <1>5

\* Text is read after the text there is; here there is none.
LEMMA ReadsText ==
  ASSUME NEW f \in Filters, f.text = <<>>, NEW v \in Values, NEW lead \in BOOLEAN
  PROVE  ReadToken(SoFar(f), Token(lead, FALSE, Nil, v)) = SoFar([f EXCEPT !.text = v])
<1>1. <<>> \o v = v
  BY ConcatEmptySeq DEF Values
<1>2. SoFar([f EXCEPT !.text = v]) = [SoFar(f) EXCEPT !.filter["text"] = v]
  BY SoFarWith
<1>3. \A b \in BOOLEAN :
        ReadToken(SoFar(f), [lead |-> b, neg |-> FALSE, field |-> Nil, words |-> v])
          = [SoFar(f) EXCEPT !.filter["text"] = f.text \o v]
  BY DEF ReadToken, SoFar
<1> QED BY <1>1, <1>2, <1>3 DEF Token

LEMMA LevelsRead ==
  ASSUME NEW g \in Filters, g.levels = {}, NEW L \in SUBSET Levels
  PROVE  Reads(SoFar(g), Terms(FALSE, "level", {<<v>> : v \in L}), SoFar([g EXCEPT !.levels = L]))
<1> DEFINE values == {<<v>> : v \in L}
           Of(V) == {v \in L : <<v>> \in V}
           R == [V \in SUBSET values |-> SoFar([g EXCEPT !.levels = Of(V)])]
<1>1. "level" \in Known /\ Levels \subseteq Words /\ Torn \cap Levels = {}
  <2>1. Torn \cap ({"network"} \cup Levels \cup Labels) = {} /\ {"network"} \cup Levels \cup Labels \subseteq Words
    BY LogScreensAssumption
  <2> QED BY <2>1 DEF Names, Known
<1>2. \A v \in L : <<v>> \in Values /\ NeedsNoQuotes(<<v>>)
  BY <1>1, OneElement DEF Values, NeedsNoQuotes
<1>3. values \in SUBSET Values /\ \A v \in values : NeedsNoQuotes(v)
  BY <1>2
<1>4. IsFiniteSet(values)
  <2>1. IsFiniteSet(L)
    BY LevelsFinite, FS_Subset
  <2> DEFINE m == [v \in L |-> <<v>>]
  <2>2. m \in Surjection(L, values)
    BY DEF Surjection
  <2> HIDE DEF m, values
  <2> QED BY <2>1, <2>2, FS_Surjection
<1>5. ASSUME NEW V \in SUBSET values, NEW v \in values
      PROVE  ReadToken(R[V], Token(FALSE, FALSE, "level", v)) = R[V \cup {v}]
  <2>1. PICK w \in L : v = <<w>>
    OBVIOUS
  <2> DEFINE h == [g EXCEPT !.levels = Of(V)]
  <2>2. h \in Filters /\ h.levels = Of(V) /\ w \in Levels
    BY DEF Filters
  <2>3. Of(V \cup {v}) = Of(V) \cup {w}
    <3>1. \A x \in L : <<x>> = v <=> x = w
      BY <2>1
    <3> QED BY <3>1
  <2>4. [h EXCEPT !.levels = h.levels \cup {w}] = [g EXCEPT !.levels = Of(V \cup {v})]
    BY <2>2, <2>3
  <2>5. R[V] = SoFar(h) /\ R[V \cup {v}] = SoFar([g EXCEPT !.levels = Of(V \cup {v})])
    OBVIOUS
  <2> HIDE DEF R, h, Of, values
  <2>6. ReadToken(SoFar(h), Token(FALSE, FALSE, "level", <<w>>)) = SoFar([h EXCEPT !.levels = h.levels \cup {w}])
    BY <2>2, ReadsLevel
  <2> QED BY <2>1, <2>4, <2>5, <2>6
<1>6. R[{}] = SoFar(g)
  <2>1. Of({}) = {} /\ {} \in SUBSET values
    OBVIOUS
  <2>2. [g EXCEPT !.levels = {}] = g
    BY DEF Filters
  <2> HIDE DEF values, Of
  <2> QED BY <2>1, <2>2
<1>7. R[values] = SoFar([g EXCEPT !.levels = L])
  <2>1. Of(values) = L
    OBVIOUS
  <2> HIDE DEF values, Of
  <2> QED BY <2>1
<1> HIDE DEF R, values
<1>8. Reads(R[{}], Terms(FALSE, "level", values), R[values])
  BY <1>1, <1>3, <1>4, <1>5, ReadsTerms
<1> QED BY <1>6, <1>7, <1>8 DEF values

LEMMA TagsRead ==
  ASSUME NEW g \in Filters, NEW T \in SUBSET Values, IsFiniteSet(T),
         \A t \in T : NeedsNoQuotes(t)
  PROVE  /\ g.tags = {} => Reads(SoFar(g), Terms(FALSE, "tag", T), SoFar([g EXCEPT !.tags = T]))
         /\ g.hidden = {} => Reads(SoFar(g), Terms(TRUE, "tag", T), SoFar([g EXCEPT !.hidden = T]))
<1>1. "tag" \in Known
  BY DEF Names, Known
<1>2. ASSUME g.tags = {}
      PROVE  Reads(SoFar(g), Terms(FALSE, "tag", T), SoFar([g EXCEPT !.tags = T]))
  <2> DEFINE R == [V \in SUBSET T |-> SoFar([g EXCEPT !.tags = V])]
  <2>1. ASSUME NEW V \in SUBSET T, NEW v \in T
        PROVE  ReadToken(R[V], Token(FALSE, FALSE, "tag", v)) = R[V \cup {v}]
    <3> DEFINE h == [g EXCEPT !.tags = V]
    <3>1. h \in Filters /\ h.tags = V /\ v \in Values
      BY DEF Filters
    <3>2. [h EXCEPT !.tags = h.tags \cup {v}] = [g EXCEPT !.tags = V \cup {v}]
      BY <3>1
    <3>3. R[V] = SoFar(h) /\ R[V \cup {v}] = SoFar([g EXCEPT !.tags = V \cup {v}])
      OBVIOUS
    <3> HIDE DEF R, h
    <3>4. ReadToken(SoFar(h), Token(FALSE, FALSE, "tag", v)) = SoFar([h EXCEPT !.tags = h.tags \cup {v}])
      BY <3>1, ReadsTag
    <3> QED BY <3>2, <3>3, <3>4
  <2>2. R[{}] = SoFar(g) /\ R[T] = SoFar([g EXCEPT !.tags = T])
    <3>1. [g EXCEPT !.tags = {}] = g
      BY <1>2 DEF Filters
    <3> QED BY <3>1
  <2> HIDE DEF R
  <2>3. Reads(R[{}], Terms(FALSE, "tag", T), R[T])
    BY <1>1, <2>1, ReadsTerms
  <2> QED BY <2>2, <2>3
<1>3. ASSUME g.hidden = {}
      PROVE  Reads(SoFar(g), Terms(TRUE, "tag", T), SoFar([g EXCEPT !.hidden = T]))
  <2> DEFINE R == [V \in SUBSET T |-> SoFar([g EXCEPT !.hidden = V])]
  <2>1. ASSUME NEW V \in SUBSET T, NEW v \in T
        PROVE  ReadToken(R[V], Token(FALSE, TRUE, "tag", v)) = R[V \cup {v}]
    <3> DEFINE h == [g EXCEPT !.hidden = V]
    <3>1. h \in Filters /\ h.hidden = V /\ v \in Values
      BY DEF Filters
    <3>2. [h EXCEPT !.hidden = h.hidden \cup {v}] = [g EXCEPT !.hidden = V \cup {v}]
      BY <3>1
    <3>3. R[V] = SoFar(h) /\ R[V \cup {v}] = SoFar([g EXCEPT !.hidden = V \cup {v}])
      OBVIOUS
    <3> HIDE DEF R, h
    <3>4. ReadToken(SoFar(h), Token(FALSE, TRUE, "tag", v)) = SoFar([h EXCEPT !.hidden = h.hidden \cup {v}])
      BY <3>1, ReadsTag
    <3> QED BY <3>2, <3>3, <3>4
  <2>2. R[{}] = SoFar(g) /\ R[T] = SoFar([g EXCEPT !.hidden = T])
    <3>1. [g EXCEPT !.hidden = {}] = g
      BY <1>3 DEF Filters
    <3> QED BY <3>1
  <2> HIDE DEF R
  <2>3. Reads(R[{}], Terms(TRUE, "tag", T), R[T])
    BY <1>1, <2>1, ReadsTerms
  <2> QED BY <2>2, <2>3
<1> QED BY <1>2, <1>3

\* A quoted value reads back as it was.
LEMMA QuotedRead ==
  ASSUME NEW g \in Filters, NEW v \in Values
  PROVE  /\ Reads(SoFar(g), QuoteValue("fingerprint", v), SoFar([g EXCEPT !.print = v]))
         /\ Reads(SoFar(g), QuoteValue("user", v), SoFar([g EXCEPT !.user = v]))
<1>1. {"fingerprint", "user"} \subseteq Known /\ Known \subseteq Names /\ Nil \notin Names
  BY FieldsAreNames DEF Names, Known
<1>2. ASSUME NEW name \in {"fingerprint", "user"}
      PROVE  /\ QuoteValue(name, v) = <<Token(FALSE, FALSE, name, v)>>
             /\ Token(FALSE, FALSE, name, v) \in Tokens /\ Whole(Token(FALSE, FALSE, name, v))
  <2>1. name # Nil /\ name \in Known /\ name \in Names
    BY <1>1
  <2>2. (name = Nil) = FALSE
    BY <2>1
  <2>3. QuoteValue(name, v) = <<Token(FALSE, FALSE, name, v)>>
    BY <2>1, <2>2, Zenon DEF QuoteValue
  <2> QED BY <2>1, <2>3, TokenType, WholeToken
<1>3. /\ ReadToken(SoFar(g), Token(FALSE, FALSE, "fingerprint", v)) = SoFar([g EXCEPT !.print = v])
      /\ ReadToken(SoFar(g), Token(FALSE, FALSE, "user", v)) = SoFar([g EXCEPT !.user = v])
  <2>1. "fingerprint" # Nil /\ "user" # Nil
    BY <1>1
  <2> QED BY <2>1, SoFarWith DEF ReadToken, Token, SoFar
<1>4. Reads(SoFar(g), QuoteValue("fingerprint", v), SoFar([g EXCEPT !.print = v]))
  BY <1>2, <1>3, ReadsOne
<1>5. Reads(SoFar(g), QuoteValue("user", v), SoFar([g EXCEPT !.user = v]))
  BY <1>2, <1>3, ReadsOne
<1> QED BY <1>4, <1>5

\* So does a text, unless it is one word that looks like the negation of another.
LEMMA TextRead ==
  ASSUME NEW g \in Filters, g.text = <<>>, NEW v \in Values, Len(v) = 1 => v[1] \notin Dashed
  PROVE  Reads(SoFar(g), QuoteValue(Nil, v), SoFar([g EXCEPT !.text = v]))
<1>1. v \in Seq(Words) /\ Len(v) \in Nat \ {0}
  <2>1. v \in Seq(Words) /\ v # <<>>
    BY DEF Values
  <2> QED BY <2>1, EmptySeq
<1>2. CASE Len(v) > 1 \/ v[1] \in Odd
  <2>1. QuoteValue(Nil, v) = <<Token(TRUE, FALSE, Nil, v)>>
    <3>1. (Nil = Nil) = TRUE
      OBVIOUS
    <3> QED BY <1>2, <3>1, Zenon DEF QuoteValue
  <2>2. Token(TRUE, FALSE, Nil, v) \in Tokens /\ Whole(Token(TRUE, FALSE, Nil, v))
    BY TokenType, WholeToken
  <2> QED BY <2>1, <2>2, ReadsOne, ReadsText
<1>3. CASE ~(Len(v) > 1 \/ v[1] \in Odd)
  <2>1. Len(v) = 1
    <3>1. ~(Len(v) > 1)
      BY <1>3
    <3>2. \A n \in Nat \ {0} : ~(n > 1) => n = 1
      OBVIOUS
    <3> QED BY <1>1, <3>1, <3>2, Zenon
  <2>2. v = <<v[1]>> /\ v[1] \in Words /\ v[1] \notin Dashed
    BY <2>1, OneWord
  <2>3. Word(v[1]) = Token(FALSE, FALSE, Nil, v)
    <3>1. (v[1] \in Dashed) = FALSE
      BY <2>2
    <3> QED BY <1>3, <2>2, <3>1, Zenon DEF Word
  <2>4. QuoteValue(Nil, v) = <<Token(FALSE, FALSE, Nil, v)>>
    BY <1>3, <2>3, Zenon DEF QuoteValue
  <2>5. Token(FALSE, FALSE, Nil, v) \in Tokens /\ Whole(Token(FALSE, FALSE, Nil, v))
    BY TokenType, WholeToken
  <2> QED BY <2>4, <2>5, ReadsOne, ReadsText
<1> QED BY <1>2, <1>3

\* The two directions of the search language: Parse reads what Query writes.
LEMMA QueryReadsBack ==
  ASSUME NEW f, IsFilter(f), Linkable(f)
  PROVE  Parse(Query(f)) = SoFar(f)
<1>1. f \in Filters /\ IsFiniteSet(f.tags) /\ IsFiniteSet(f.hidden)
  BY DEF IsFilter
<1>2. /\ f.levels \in SUBSET Levels /\ f.tags \in SUBSET Values /\ f.hidden \in SUBSET Values
      /\ f.network \in BOOLEAN /\ f.last \in Labels \cup {Nil}
      /\ f.print \in Seq(Words) /\ f.user \in Seq(Words) /\ f.text \in Seq(Words)
  BY <1>1 DEF Filters
<1>3. (\A t \in f.tags : NeedsNoQuotes(t))
      /\ (\A t \in f.hidden : NeedsNoQuotes(t))
      /\ (Len(f.text) = 1 => f.text[1] \notin Dashed)
  BY DEF Linkable
<1> DEFINE f0 == NoFilter
           f1 == [f0 EXCEPT !.levels = f.levels]
           f2 == [f1 EXCEPT !.tags = f.tags]
           f3 == [f2 EXCEPT !.hidden = f.hidden]
           f4 == [f3 EXCEPT !.network = f.network]
           f5 == [f4 EXCEPT !.last = f.last]
           f6 == [f5 EXCEPT !.print = f.print]
           f7 == [f6 EXCEPT !.user = f.user]
           f8 == [f7 EXCEPT !.text = f.text]
           Rest(g) == g.last = Nil /\ g.print = <<>> /\ g.user = <<>> /\ g.text = <<>>
<1>4. f0 \in Filters /\ f0.levels = {} /\ f0.tags = {} /\ f0.hidden = {} /\ f0.network = FALSE /\ Rest(f0)
  BY NoFilterType DEF IsFilter, NoFilter
<1>5. f1 \in Filters /\ f1.tags = {} /\ f1.hidden = {} /\ f1.network = FALSE /\ Rest(f1)
      /\ f1.levels = f.levels
  <2> HIDE DEF f0
  <2> QED BY <1>2, <1>4 DEF Filters
<1>6. f2 \in Filters /\ f2.hidden = {} /\ f2.network = FALSE /\ Rest(f2)
      /\ f2.levels = f.levels /\ f2.tags = f.tags
  <2> HIDE DEF f1
  <2> QED BY <1>2, <1>5 DEF Filters
<1>7. f3 \in Filters /\ f3.network = FALSE /\ Rest(f3)
      /\ f3.levels = f.levels /\ f3.tags = f.tags /\ f3.hidden = f.hidden
  <2> HIDE DEF f2
  <2> QED BY <1>2, <1>6 DEF Filters
<1>8. f4 \in Filters /\ Rest(f4) /\ f4.network = f.network
      /\ f4.levels = f.levels /\ f4.tags = f.tags /\ f4.hidden = f.hidden
  <2> HIDE DEF f3
  <2> QED BY <1>2, <1>7 DEF Filters
<1>9. f5 \in Filters /\ f5.print = <<>> /\ f5.user = <<>> /\ f5.text = <<>> /\ f5.last = f.last
      /\ f5.network = f.network /\ f5.levels = f.levels /\ f5.tags = f.tags /\ f5.hidden = f.hidden
  <2> HIDE DEF f4
  <2> QED BY <1>2, <1>8 DEF Filters
<1>10. f6 \in Filters /\ f6.print = f.print /\ f6.user = <<>> /\ f6.text = <<>> /\ f6.last = f.last
       /\ f6.network = f.network /\ f6.levels = f.levels /\ f6.tags = f.tags /\ f6.hidden = f.hidden
  <2> HIDE DEF f5
  <2> QED BY <1>2, <1>9 DEF Filters
<1>11. f7 \in Filters /\ f7.print = f.print /\ f7.user = f.user /\ f7.text = <<>> /\ f7.last = f.last
       /\ f7.network = f.network /\ f7.levels = f.levels /\ f7.tags = f.tags /\ f7.hidden = f.hidden
  <2> HIDE DEF f6
  <2> QED BY <1>2, <1>10 DEF Filters
<1>12. f8 = f
  <2> HIDE DEF f7
  <2>1. f8 \in Filters /\ f8.print = f.print /\ f8.user = f.user /\ f8.text = f.text /\ f8.last = f.last
        /\ f8.network = f.network /\ f8.levels = f.levels /\ f8.tags = f.tags /\ f8.hidden = f.hidden
    BY <1>2, <1>11 DEF Filters
  <2> HIDE DEF f8
  <2> QED BY <1>1, <2>1 DEF Filters
<1> DEFINE a == Terms(FALSE, "level", {<<v>> : v \in f.levels})
           b == Terms(FALSE, "tag", f.tags)
           c == Terms(TRUE, "tag", f.hidden)
           d == IF f.network THEN Unquoted(FALSE, "is", <<"network">>) ELSE <<>>
           e == IF f.last # Nil THEN Unquoted(FALSE, "last", <<f.last>>) ELSE <<>>
           g == IF f.print # <<>> THEN QuoteValue("fingerprint", f.print) ELSE <<>>
           h == IF f.user # <<>> THEN QuoteValue("user", f.user) ELSE <<>>
           k == IF f.text # <<>> THEN QuoteValue(Nil, f.text) ELSE <<>>
<1> HIDE DEF f0, f1, f2, f3, f4, f5, f6, f7, f8
<1>13. Reads(SoFar(f0), a, SoFar(f1))
  BY <1>2, <1>4, LevelsRead DEF f1
<1>14. Reads(SoFar(f1), b, SoFar(f2))
  BY <1>1, <1>2, <1>3, <1>5, TagsRead DEF f2
<1>15. Reads(SoFar(f2), c, SoFar(f3))
  BY <1>1, <1>2, <1>3, <1>6, TagsRead DEF f3
<1>15a. "network" \notin Torn /\ \A s \in Labels : s \notin Torn
  <2>1. Torn \cap ({"network"} \cup Levels \cup Labels) = {}
    BY LogScreensAssumption
  <2> QED BY <2>1
<1>16. Reads(SoFar(f3), d, SoFar(f4))
  <2>1. CASE f.network
    <3>1. <<"network">> \in Values /\ Len(<<"network">>) = 1 /\ "is" \in Names /\ "is" # Nil
      BY LogScreensAssumption, OneElement, FieldsAreNames DEF Values, Names
    <3>2. d = <<Token(FALSE, FALSE, "is", <<"network">>)>>
      <4> DEFINE w == <<"network">>
      <4>1. w \in Values /\ Len(w) = 1 /\ w[1] \notin Torn
        BY <1>15a, <3>1
      <4> HIDE DEF w
      <4>2. Unquoted(FALSE, "is", w) = <<Token(FALSE, FALSE, "is", w)>>
        BY <4>1, OneWord
      <4>3. d = Unquoted(FALSE, "is", w)
        BY <2>1 DEF w
      <4> QED BY <4>2, <4>3 DEF w
    <3>3. Token(FALSE, FALSE, "is", <<"network">>) \in Tokens /\ Whole(Token(FALSE, FALSE, "is", <<"network">>))
      <4>1. "is" \in Known
        BY DEF Names, Known
      <4> QED BY <3>1, <4>1, TokenType, WholeToken
    <3>4. ReadToken(SoFar(f3), Token(FALSE, FALSE, "is", <<"network">>)) = SoFar([f3 EXCEPT !.network = TRUE])
      BY <3>1, SoFarWith DEF ReadToken, Token, SoFar
    <3>5. f4 = [f3 EXCEPT !.network = TRUE]
      BY <2>1 DEF f4
    <3> HIDE DEF d
    <3> QED BY <3>2, <3>3, <3>4, <3>5, ReadsOne
  <2>2. CASE ~f.network
    <3>1. f4 = f3
      BY <1>2, <1>7, <2>2 DEF f4, Filters
    <3>2. d = <<>>
      BY <2>2
    <3> QED BY <3>1, <3>2, ReadsNothing
  <2> QED BY <2>1, <2>2
<1>17. Reads(SoFar(f4), e, SoFar(f5))
  <2>1. CASE f.last # Nil
    <3>1. f.last \in Labels /\ f.last \in Words /\ "last" \in Names
      BY <1>2, <2>1, LogScreensAssumption DEF Names
    <3>2. <<f.last>> \in Values /\ Len(<<f.last>>) = 1
      BY <3>1, OneElement DEF Values
    <3>3. e = <<Token(FALSE, FALSE, "last", <<f.last>>)>>
      <4> DEFINE w == <<f.last>>
      <4>1. w \in Values /\ Len(w) = 1 /\ w[1] \notin Torn
        BY <1>15a, <3>1, <3>2
      <4> HIDE DEF w
      <4>2. Unquoted(FALSE, "last", w) = <<Token(FALSE, FALSE, "last", w)>>
        BY <4>1, OneWord
      <4>3. e = Unquoted(FALSE, "last", w)
        BY <2>1 DEF w
      <4> QED BY <4>2, <4>3 DEF w
    <3>4. Token(FALSE, FALSE, "last", <<f.last>>) \in Tokens /\ Whole(Token(FALSE, FALSE, "last", <<f.last>>))
      <4>1. "last" \in Known
        BY DEF Names, Known
      <4> QED BY <3>1, <3>2, <4>1, TokenType, WholeToken
    <3>5. ReadToken(SoFar(f4), Token(FALSE, FALSE, "last", <<f.last>>)) = SoFar(f5)
      BY <1>8, <3>1, <3>2, ReadsField DEF f5
    <3> HIDE DEF e
    <3> QED BY <3>3, <3>4, <3>5, ReadsOne
  <2>2. CASE f.last = Nil
    <3>1. f5 = f4
      BY <1>8, <2>2 DEF f5, Filters
    <3>2. e = <<>>
      BY <2>2
    <3> QED BY <3>1, <3>2, ReadsNothing
  <2> QED BY <2>1, <2>2
<1>18. \A v \in Seq(Words) : v # <<>> => v \in Values
  BY DEF Values
<1>19. Reads(SoFar(f5), g, SoFar(f6))
  <2>1. CASE f.print # <<>>
    <3>1. f.print \in Values /\ g = QuoteValue("fingerprint", f.print)
      BY <1>2, <1>18, <2>1
    <3> QED BY <1>9, <3>1, QuotedRead DEF f6
  <2>2. CASE f.print = <<>>
    <3>1. f6 = f5
      BY <1>9, <2>2 DEF f6, Filters
    <3>2. g = <<>>
      BY <2>2
    <3> QED BY <3>1, <3>2, ReadsNothing
  <2> QED BY <2>1, <2>2
<1>20. Reads(SoFar(f6), h, SoFar(f7))
  <2>1. CASE f.user # <<>>
    <3>1. f.user \in Values /\ h = QuoteValue("user", f.user)
      BY <1>2, <1>18, <2>1
    <3> QED BY <1>10, <3>1, QuotedRead DEF f7
  <2>2. CASE f.user = <<>>
    <3>1. f7 = f6
      BY <1>10, <2>2 DEF f7, Filters
    <3>2. h = <<>>
      BY <2>2
    <3> QED BY <3>1, <3>2, ReadsNothing
  <2> QED BY <2>1, <2>2
<1>21. Reads(SoFar(f7), k, SoFar(f8))
  <2>1. CASE f.text # <<>>
    <3>1. f.text \in Values /\ k = QuoteValue(Nil, f.text)
      BY <1>2, <1>18, <2>1
    <3> QED BY <1>3, <1>11, <3>1, TextRead DEF f8
  <2>2. CASE f.text = <<>>
    <3>1. f8 = f7
      BY <1>11, <2>2 DEF f8, Filters
    <3>2. k = <<>>
      BY <2>2
    <3> QED BY <3>1, <3>2, ReadsNothing
  <2> QED BY <2>1, <2>2
<1>22. Query(f) = a \o b \o c \o d \o e \o g \o h \o k
  BY DEF Query
<1>23. /\ a \in Seq(Tokens) /\ b \in Seq(Tokens) /\ c \in Seq(Tokens) /\ d \in Seq(Tokens)
       /\ e \in Seq(Tokens) /\ g \in Seq(Tokens) /\ h \in Seq(Tokens) /\ k \in Seq(Tokens)
  BY QueryParts
<1> HIDE DEF a, b, c, d, e, g, h, k
<1> DEFINE p1 == a \o b
           p2 == p1 \o c
           p3 == p2 \o d
           p4 == p3 \o e
           p5 == p4 \o g
           p6 == p5 \o h
           p7 == p6 \o k
<1>24. \A x, y \in Seq(Tokens) : x \o y \in Seq(Tokens)
  BY ConcatProperties
<1>25. p1 \in Seq(Tokens) /\ Reads(SoFar(f0), p1, SoFar(f2))
  BY <1>13, <1>14, <1>23, <1>24, ReadsOn
<1> HIDE DEF p1
<1>26. p2 \in Seq(Tokens) /\ Reads(SoFar(f0), p2, SoFar(f3))
  BY <1>15, <1>23, <1>24, <1>25, ReadsOn
<1> HIDE DEF p2
<1>27. p3 \in Seq(Tokens) /\ Reads(SoFar(f0), p3, SoFar(f4))
  BY <1>16, <1>23, <1>24, <1>26, ReadsOn
<1> HIDE DEF p3
<1>28. p4 \in Seq(Tokens) /\ Reads(SoFar(f0), p4, SoFar(f5))
  BY <1>17, <1>23, <1>24, <1>27, ReadsOn
<1> HIDE DEF p4
<1>29. p5 \in Seq(Tokens) /\ Reads(SoFar(f0), p5, SoFar(f6))
  BY <1>19, <1>23, <1>24, <1>28, ReadsOn
<1> HIDE DEF p5
<1>30. p6 \in Seq(Tokens) /\ Reads(SoFar(f0), p6, SoFar(f7))
  BY <1>20, <1>23, <1>24, <1>29, ReadsOn
<1> HIDE DEF p6
<1>31. p7 \in Seq(Tokens) /\ Reads(SoFar(f0), p7, SoFar(f8))
  BY <1>21, <1>23, <1>24, <1>30, ReadsOn
<1>32. Query(f) = p7
  BY <1>22 DEF p1, p2, p3, p4, p5, p6
<1>33. SoFar(f0) = Unread
  BY DEF SoFar, Unread, f0
<1> HIDE DEF p7
<1> QED BY <1>12, <1>31, <1>32, <1>33, ReadsParse

\* What a control may change of the filter.
Own(what) == IF what = "tags" THEN {"tags", "hidden"} ELSE {what}

Changes(what, f, g) ==
  /\ Linkable(g)
  /\ \E field \in Own(what) : g[field] # f[field]
  /\ \A field \in Fields \ Own(what) : g[field] = f[field]

LEMMA ToggleChanges ==
  ASSUME NEW f \in Filters, Linkable(f), NEW v \in Levels
  PROVE  Changes("levels", f, WithLevelToggled(f, v))
<1> DEFINE L == IF v \in f.levels THEN f.levels \ {v} ELSE f.levels \cup {v}
<1>1. L # f.levels
  OBVIOUS
<1> HIDE DEF L
<1>2. WithLevelToggled(f, v) = [f EXCEPT !.levels = L]
  BY DEF WithLevelToggled, L
<1> DEFINE g == [f EXCEPT !.levels = L]
<1>3. /\ g.levels = L /\ g.tags = f.tags /\ g.hidden = f.hidden /\ g.network = f.network
      /\ g.last = f.last /\ g.print = f.print /\ g.user = f.user /\ g.text = f.text
  BY DEF Filters
<1> HIDE DEF g
<1> QED BY <1>1, <1>2, <1>3 DEF Changes, Own, Fields, Linkable, g

LEMMA ChipChanges ==
  ASSUME NEW f \in Filters, Linkable(f), NEW v \in Values, NeedsNoQuotes(v)
  PROVE  Changes("tags", f, WithTagCycled(f, v))
<1> DEFINE g == WithTagCycled(f, v)
<1>1. /\ g.levels = f.levels /\ g.network = f.network
      /\ g.last = f.last /\ g.print = f.print /\ g.user = f.user /\ g.text = f.text
      /\ \/ v \in f.tags /\ g.tags = f.tags \ {v} /\ g.hidden = f.hidden \cup {v}
         \/ v \in f.hidden /\ g.tags = f.tags /\ g.hidden = f.hidden \ {v}
         \/ v \notin f.tags /\ g.tags = f.tags \cup {v} /\ g.hidden = f.hidden
  <2>1. CASE v \in f.tags
    BY <2>1 DEF WithTagCycled, Filters
  <2>2. CASE v \notin f.tags /\ v \in f.hidden
    BY <2>2 DEF WithTagCycled, Filters
  <2>3. CASE v \notin f.tags /\ v \notin f.hidden
    BY <2>3 DEF WithTagCycled, Filters
  <2> QED BY <2>1, <2>2, <2>3
<1> HIDE DEF g
<1>2. Linkable(g)
  BY <1>1 DEF Linkable
<1>3. g.tags # f.tags \/ g.hidden # f.hidden
  BY <1>1
<1> QED BY <1>1, <1>2, <1>3 DEF Changes, Own, Fields, g

LEMMA OtherChanges ==
  ASSUME NEW f \in Filters, Linkable(f)
  PROVE  /\ \A s \in Labels : Changes("last", f, WithWindow(f, s))
         /\ Changes("network", f, WithNetworkOnly(f))
         /\ f.user # <<>> => Changes("user", f, WithoutSessionField(f))
<1>1. ASSUME NEW s \in Labels PROVE Changes("last", f, WithWindow(f, s))
  <2> DEFINE w == IF f.last = s THEN Nil ELSE s
             g == [f EXCEPT !.last = w]
  <2>1. Nil \notin Labels
    BY LogScreensAssumption
  <2>2. w # f.last
    BY <2>1
  <2>3. WithWindow(f, s) = g
    BY DEF WithWindow
  <2> HIDE DEF w
  <2>4. /\ g.levels = f.levels /\ g.tags = f.tags /\ g.hidden = f.hidden /\ g.network = f.network
        /\ g.last = w /\ g.print = f.print /\ g.user = f.user /\ g.text = f.text
    BY DEF Filters
  <2> HIDE DEF g
  <2> QED BY <2>2, <2>3, <2>4 DEF Changes, Own, Fields, Linkable
<1>2. Changes("network", f, WithNetworkOnly(f))
  <2> DEFINE g == [f EXCEPT !.network = ~f.network]
  <2>1. WithNetworkOnly(f) = g
    BY DEF WithNetworkOnly
  <2>2. /\ g.levels = f.levels /\ g.tags = f.tags /\ g.hidden = f.hidden /\ g.network # f.network
        /\ g.last = f.last /\ g.print = f.print /\ g.user = f.user /\ g.text = f.text
    BY DEF Filters
  <2> HIDE DEF g
  <2> QED BY <2>1, <2>2 DEF Changes, Own, Fields, Linkable
<1>3. f.user # <<>> => Changes("user", f, WithoutSessionField(f))
  <2> DEFINE g == [f EXCEPT !.user = <<>>]
  <2>1. WithoutSessionField(f) = g
    BY DEF WithoutSessionField
  <2>2. /\ g.levels = f.levels /\ g.tags = f.tags /\ g.hidden = f.hidden /\ g.network = f.network
        /\ g.last = f.last /\ g.print = f.print /\ g.user = <<>> /\ g.text = f.text
    BY DEF Filters
  <2> HIDE DEF g
  <2> QED BY <2>1, <2>2 DEF Changes, Own, Fields, Linkable
<1> QED BY <1>1, <1>2, <1>3

LEMMA ControlChanges ==
  ASSUME NEW f \in Filters, Linkable(f), NEW tags \in SUBSET Values, NEW c \in LogFilters(f, tags),
         c.what = "tags" => NeedsNoQuotes(c.value)
  PROVE  Changes(c.what, f, c.to)
<1>1. CASE \E v \in Levels : c = LevelToggle(f, v)
  BY <1>1, ToggleChanges DEF LevelToggle, Control
<1>2. CASE \E v \in tags : c = TagChip(f, v)
  BY <1>2, ChipChanges DEF TagChip, Control
<1>3. CASE \E s \in Labels : c = WindowChip(f, s)
  BY <1>3, OtherChanges DEF WindowChip, Control
<1>4. CASE c = NetworkChip(f)
  BY <1>4, OtherChanges DEF NetworkChip, Control
<1>5. CASE f.user # <<>> /\ c = SessionChip(f, f.user)
  BY <1>5, OtherChanges DEF SessionChip, Control
<1>6. \/ \E v \in Levels : c = LevelToggle(f, v)
      \/ \E v \in tags : c = TagChip(f, v)
      \/ \E s \in Labels : c = WindowChip(f, s)
      \/ c = NetworkChip(f)
      \/ f.user # <<>> /\ c = SessionChip(f, f.user)
  BY DEF LogFilters
<1> QED BY <1>1, <1>2, <1>3, <1>4, <1>5, <1>6

\* A new page is a control's, or nobody's.
LEMMA PageComes ==
  ASSUME LogScreensNext
  PROVE  \/ page' = page
         \/ page'.by.what \notin Fields
         \/ \E c \in LogFilters(page.filter, page.tags) : Follow(c)
<1>1. ASSUME NEW query, LogViewer(query, Opened)
      PROVE  page'.by.what \notin Fields
  <2>1. page'.by = Opened
    BY <1>1 DEF LogViewer, Screen
  <2> QED BY <2>1 DEF Opened, Fields
<1>2. ASSUME NEW a, OpenNetwork(a)
      PROVE  page'.by.what \notin Fields
  <2>1. page'.by.what = ""
    BY <1>2 DEF OpenNetwork, Screen
  <2> QED BY <2>1 DEF Fields
<1>3. \/ \E query : LogViewer(query, Opened)
      \/ \E a : OpenNetwork(a)
      \/ \E c \in LogFilters(page.filter, page.tags) : Follow(c)
      \/ page' = page
  BY DEF LogScreensNext, listing, OpenLogs, Type, ViewInLogs, LogsPartial, DrawSearch, ScrollDown,
         LogRows, ExportLogs, ExportPage, NetworkToolbar, OpenCall, OpenTab, CloseInspector,
         NetworkInspector, GetNetworkRequest, DrawInspector, Upload, SetUser, Cleanup, Tick, Remember
<1> QED BY <1>1, <1>2, <1>3

\* A link written by Query and read by Parse.
Linked ==
  LET what == page'.by.what
  IN  /\ what \in Fields /\ Linkable(page.filter)
      /\ what = "tags" => NeedsNoQuotes(page'.by.value)
      => /\ ~page'.bad
         /\ \E field \in Own(what) : page'.filter[field] # page.filter[field]
         /\ \A field \in Fields \ Own(what) : page'.filter[field] = page.filter[field]

LEMMA LinksStep ==
  ASSUME LogScreensIInv, LogScreensNext, page' # page
  PROVE  Linked
<1> SUFFICES ASSUME page'.by.what \in Fields, Linkable(page.filter),
                    page'.by.what = "tags" => NeedsNoQuotes(page'.by.value)
             PROVE  /\ ~page'.bad
                    /\ \E field \in Own(page'.by.what) : page'.filter[field] # page.filter[field]
                    /\ \A field \in Fields \ Own(page'.by.what) : page'.filter[field] = page.filter[field]
  BY DEF Linked
<1>1. PICK c \in LogFilters(page.filter, page.tags) : Follow(c)
  BY PageComes
<1>2. IsFilter(page.filter) /\ page.filter \in Filters /\ page.tags \in SUBSET Values
  BY DEF LogScreensIInv, ListingOK, PageOK, IsFilter
<1>3. page'.by = [what |-> c.what, value |-> c.value] /\ page'.bad = ~Parse(Query(c.to)).ok
      /\ page'.filter = Parse(Query(c.to)).filter
  BY <1>1 DEF Follow, LogViewer, Screen
<1>4. page'.by.what = c.what /\ page'.by.value = c.value
  BY <1>3
<1>5. Changes(c.what, page.filter, c.to)
  BY <1>2, <1>4, ControlChanges
<1>6. IsFilter(c.to) /\ Linkable(c.to)
  BY <1>2, <1>5, ControlType DEF Changes
<1>7. Parse(Query(c.to)) = SoFar(c.to)
  BY <1>6, QueryReadsBack
<1>8. ~page'.bad /\ page'.filter = c.to
  <2>1. Parse(Query(c.to)).ok = TRUE /\ Parse(Query(c.to)).filter = c.to
    BY <1>7 DEF SoFar
  <2>2. page'.bad = FALSE
    BY <1>3, <2>1
  <2> QED BY <1>3, <2>1, <2>2
<1> QED BY <1>4, <1>5, <1>8 DEF Changes

\* A control of the filter bar changes its own part of the filter and nothing else, for
\* every filter whose tags are of one word with no quote and no tab in it, and whose text
\* is no negated word: what Query writes in the address of the link, Parse reads on the
\* page it leads to.  Of other tags and texts it says nothing: they are lost on the way.
THEOREM LinksSafe == LogScreensSpec => LinksChangeOneThing
<1>1. LogScreensIInv /\ [LogScreensNext]_logScreensVars =>
        [LET what == page'.by.what
             own == IF what = "tags" THEN {"tags", "hidden"} ELSE {what}
         IN  /\ what \in Fields /\ Linkable(page.filter)
             /\ what = "tags" => NeedsNoQuotes(page'.by.value)
             => /\ ~page'.bad
                /\ \E field \in own : page'.filter[field] # page.filter[field]
                /\ \A field \in Fields \ own : page'.filter[field] = page.filter[field]]_page
  <2> SUFFICES ASSUME LogScreensIInv, [LogScreensNext]_logScreensVars, page' # page PROVE Linked
    BY Zenon DEF Linked, Own
  <2>1. LogScreensNext
    BY DEF logScreensVars
  <2> QED BY <2>1, LinksStep
<1>2. LogScreensIInv /\ [LogScreensNext]_logScreensVars => LogScreensIInv'
  <2> SUFFICES ASSUME LogScreensIInv, [LogScreensNext]_logScreensVars PROVE LogScreensIInv'
    OBVIOUS
  <2> QED BY LogScreensIInvStep
<1> QED BY <1>1, <1>2, LogScreensInitIInv, PTL DEF LogScreensSpec, LinksChangeOneThing
=============================================================================
