------------------------------ MODULE LogBroker ------------------------------
(***************************************************************************)
(* The live tail: the broker of pkg/sse/broker.go, the StreamLogs handlers *)
(* that subscribe to it (server/handlers/log_viewer_handler.go), the       *)
(* uploads that publish to it, and the way the process goes down           *)
(* (server/server.go, main.go).                                            *)
(*                                                                         *)
(* Subscribe, Unsubscribe and Close hold the broker's mutex for writing    *)
(* and are one action each.  Publish holds it for reading only, so two of  *)
(* them overlap, send by send, in whatever order the map gives; it is an   *)
(* action that takes the lock and one action per send.                     *)
(***************************************************************************)
EXTENDS Integers, Sequences, FiniteSets

CONSTANTS
  Projects,
  Viewers,        \* requests for the live tail; one channel each
  Uploads,        \* the uploads that can be publishing at a time
  None,
  MaxPerProject,
  BufferSize,
  MaxBatches      \* bound of the model: batches published to a project

ASSUME LogBrokerAssumption ==
  /\ None \notin Projects
  /\ IsFiniteSet(Viewers)
  /\ MaxPerProject \in Nat /\ BufferSize \in Nat \ {0} /\ MaxBatches \in Nat

VARIABLES
  subscribers,  \* b.subscribers: the channels registered for a project
  chan,         \* a viewer's channel: open, and the batches queued in it
  viewer,       \* the StreamLogs goroutine and its browser
  publisher,    \* a call of Publish: its batch, and who is still to get it
  published,    \* batches published to a project so far; they are numbered
  overlapped,   \* pairs of batches whose publications overlapped
  server        \* the process

vars == <<subscribers, chan, viewer, publisher, published, overlapped, server>>

ChanType == [open: BOOLEAN, buf: Seq(Nat)]

\* gone: the browser has left.  joined: published[project] on subscribing.
\* sent: what the browser was sent.  lossy: a send found the buffer full.
ViewerType ==
  [pc: {"idle", "connected", "streaming", "leaving", "done"},
   project: Projects \cup {None}, gone: BOOLEAN,
   joined: Nat, sent: Seq(Nat), lossy: BOOLEAN]

\* left is non-empty while the read lock is held.
PublisherType == [project: Projects \cup {None}, batch: Nat, left: SUBSET Viewers]

\* draining: Shutdown waits for the handlers.  drained: it returned nil.
\* closed: main returned.  killed: os.Exit(1).
Phases == {"running", "draining", "drained", "closed", "killed"}

TypeOK ==
  /\ subscribers \in [Projects -> SUBSET Viewers]
  /\ chan \in [Viewers -> ChanType]
  /\ viewer \in [Viewers -> ViewerType]
  /\ publisher \in [Uploads -> PublisherType]
  /\ published \in [Projects -> Nat]
  /\ overlapped \subseteq Projects \X Nat \X Nat
  /\ server \in Phases

Init ==
  /\ subscribers = [p \in Projects |-> {}]
  /\ chan = [v \in Viewers |-> [open |-> FALSE, buf |-> <<>>]]
  /\ viewer = [v \in Viewers |->
       [pc |-> "idle", project |-> None, gone |-> FALSE,
        joined |-> 0, sent |-> <<>>, lossy |-> FALSE]]
  /\ publisher = [u \in Uploads |-> [project |-> None, batch |-> 0, left |-> {}]]
  /\ published = [p \in Projects |-> 0]
  /\ overlapped = {}
  /\ server = "running"

\* Handlers run until the process is gone.
Up == server \in {"running", "draining"}

Active(v) == viewer[v].pc \notin {"idle", "done"}

Publishing(u) == publisher[u].left # {}

\* Slip: Subscribe and Unsubscribe take the lock for reading.
ReadLocked == TRUE

\* The write lock can be taken.
Unlocked == \A u \in Uploads : ~Publishing(u)

HandlersDone ==
  (\A v \in Viewers : ~Active(v)) /\ (\A u \in Uploads : ~Publishing(u))

----------------------------------------------------------------------------
(* StreamLogs and the broker.                                              *)

\* A request is accepted; once Shutdown has begun none is.
Connect(v, p) ==
  /\ server = "running"
  /\ viewer[v].pc = "idle"
  /\ viewer' = [viewer EXCEPT ![v].pc = "connected", ![v].project = p]
  /\ UNCHANGED <<subscribers, chan, publisher, published, overlapped, server>>

HasRoom(p) == Cardinality(subscribers[p]) < MaxPerProject

Subscribe(v) ==
  /\ Up /\ Unlocked
  /\ viewer[v].pc = "connected"
  /\ LET p == viewer[v].project
     IN IF HasRoom(p)
        THEN /\ subscribers' = [subscribers EXCEPT ![p] = @ \cup {v}]
             /\ chan' = [chan EXCEPT ![v].open = TRUE]
             /\ viewer' = [viewer EXCEPT ![v].pc = "streaming",
                                         ![v].joined = published[p]]
        ELSE /\ viewer' = [viewer EXCEPT ![v].pc = "done"]
             /\ UNCHANGED <<subscribers, chan>>
  /\ UNCHANGED <<publisher, published, overlapped, server>>

\* Slip: a channel made without its buffer size holds one batch at most.
QueueUnbuffered(v, n) ==
  IF chan[v].buf = <<>> THEN Append(chan[v].buf, n) ELSE chan[v].buf

\* select with a default: what finds no room is dropped.
Queue(v, n) ==
  IF Len(chan[v].buf) < BufferSize THEN Append(chan[v].buf, n) ELSE chan[v].buf

Publish(u, p) ==
  /\ Up
  /\ ~Publishing(u)
  /\ published[p] < MaxBatches
  /\ LET n == published[p] + 1
         same == {w \in Uploads : Publishing(w) /\ publisher[w].project = p}
     IN /\ published' = [published EXCEPT ![p] = n]
        /\ publisher' = [publisher EXCEPT ![u] =
             [project |-> p, batch |-> n, left |-> subscribers[p]]]
        /\ overlapped' =
             overlapped \cup {<<p, publisher[w].batch, n>> : w \in same}
  /\ UNCHANGED <<subscribers, chan, viewer, server>>

\* One send of the loop over the project's channels.
Deliver(u, v) ==
  /\ Up
  /\ v \in publisher[u].left
  /\ publisher' = [publisher EXCEPT ![u].left = @ \ {v}]
  /\ chan' = [chan EXCEPT ![v].buf = Queue(v, publisher[u].batch)]
  /\ viewer' = [viewer EXCEPT ![v].lossy = @ \/ Len(chan[v].buf) >= BufferSize]
  /\ UNCHANGED <<subscribers, published, overlapped, server>>

\* One pass of the handler's loop: a batch from the channel, rendered and
\* flushed.  A closed channel still gives what is queued in it.
Receive(v) ==
  /\ Up
  /\ viewer[v].pc = "streaming" /\ chan[v].buf # <<>>
  /\ chan' = [chan EXCEPT ![v].buf = Tail(@)]
  /\ viewer' = [viewer EXCEPT ![v].sent = Append(@, Head(chan[v].buf))]
  /\ UNCHANGED <<subscribers, publisher, published, overlapped, server>>

\* Slip: the loop without its ctx.Done case.
StopWhenClosed(v) ==
  /\ Up
  /\ viewer[v].pc = "streaming"
  /\ ~chan[v].open /\ chan[v].buf = <<>>
  /\ viewer' = [viewer EXCEPT ![v].pc = "leaving"]
  /\ UNCHANGED <<subscribers, chan, publisher, published, overlapped, server>>

\* ctx.Done, or the channel closed and empty.
Stop(v) ==
  /\ Up
  /\ viewer[v].pc = "streaming"
  /\ viewer[v].gone \/ (~chan[v].open /\ chan[v].buf = <<>>)
  /\ viewer' = [viewer EXCEPT ![v].pc = "leaving"]
  /\ UNCHANGED <<subscribers, chan, publisher, published, overlapped, server>>

\* The deferred Unsubscribe: a channel that is no longer registered was
\* closed by whoever removed it.
Unsubscribe(v) ==
  /\ Up /\ Unlocked
  /\ viewer[v].pc = "leaving"
  /\ LET p == viewer[v].project
     IN IF v \in subscribers[p]
        THEN /\ subscribers' = [subscribers EXCEPT ![p] = @ \ {v}]
             /\ chan' = [chan EXCEPT ![v].open = FALSE]
        ELSE UNCHANGED <<subscribers, chan>>
  /\ viewer' = [viewer EXCEPT ![v].pc = "done"]
  /\ UNCHANGED <<publisher, published, overlapped, server>>

\* The browser closes the tab or loses its network.
Disconnect(v) ==
  /\ viewer[v].pc \in {"connected", "streaming"} /\ ~viewer[v].gone
  /\ viewer' = [viewer EXCEPT ![v].gone = TRUE]
  /\ UNCHANGED <<subscribers, chan, publisher, published, overlapped, server>>

----------------------------------------------------------------------------
(* The process.                                                            *)

Signal ==
  /\ server = "running"
  /\ server' = "draining"
  /\ UNCHANGED <<subscribers, chan, viewer, publisher, published, overlapped>>

\* Slip: Shutdown with a context that has no deadline.
NoDeadline ==
  /\ server = "draining"
  /\ HandlersDone
  /\ server' = "drained"
  /\ UNCHANGED <<subscribers, chan, viewer, publisher, published, overlapped>>

\* srvr.Shutdown: nil once every handler has returned, an error after fifteen
\* seconds.  It cancels no request's context.  main exits at once on an error.
Shutdown ==
  /\ server = "draining"
  /\ server' = IF HandlersDone THEN "drained" ELSE "killed"
  /\ UNCHANGED <<subscribers, chan, viewer, publisher, published, overlapped>>

\* sseBroker.Close, then liveHub.Close, then main returns.
Close ==
  /\ server = "drained"
  /\ server' = "closed"
  /\ chan' = [v \in Viewers |->
       IF \E p \in Projects : v \in subscribers[p]
       THEN [chan[v] EXCEPT !.open = FALSE] ELSE chan[v]]
  /\ subscribers' = [p \in Projects |-> {}]
  /\ UNCHANGED <<viewer, publisher, published, overlapped>>

Stream(v) == Subscribe(v) \/ Receive(v) \/ Stop(v) \/ Unsubscribe(v)

Next ==
  \/ \E v \in Viewers, p \in Projects : Connect(v, p)
  \/ \E v \in Viewers : Stream(v) \/ Disconnect(v)
  \/ \E u \in Uploads, p \in Projects : Publish(u, p)
  \/ \E u \in Uploads, v \in Viewers : Deliver(u, v)
  \/ Signal \/ Shutdown \/ Close

Spec == Init /\ [][Next]_vars

\* The handlers' goroutines and main's run on; what a handler whose context
\* is done does next is up to select, so stopping needs strong fairness.
Fairness ==
  /\ \A v \in Viewers : WF_vars(Subscribe(v) \/ Receive(v) \/ Unsubscribe(v))
  /\ \A v \in Viewers : SF_vars(Stop(v))
  /\ \A u \in Uploads : WF_vars(\E v \in Viewers : Deliver(u, v))
  /\ WF_vars(Shutdown) /\ WF_vars(Close)

FairSpec == Spec /\ Fairness

----------------------------------------------------------------------------
\* The registered channels are the open ones, each under its own project,
\* and stay so until every publication under way is done with them: Publish
\* never sends on a closed channel, nothing is closed twice (either would
\* panic), and no channel is left registered after its handler.
RegisteredIsOpen ==
  /\ \A v \in Viewers, p \in Projects :
       v \in subscribers[p]
         <=> chan[v].open /\ viewer[v].project = p
               /\ viewer[v].pc \in {"streaming", "leaving"}
  /\ \A u \in Uploads : \A v \in publisher[u].left :
       v \in subscribers[publisher[u].project]

\* A live tail shows a batch at most once, two batches in the order they
\* were published unless their publications overlapped, and it leaves one out
\* only after its own buffer was full: it has every batch published since it
\* subscribed but those on their way to it.
TailIsFaithful ==
  \A v \in Viewers :
    LET p   == viewer[v].project
        got == viewer[v].sent \o chan[v].buf
        coming == {publisher[u].batch : u \in {w \in Uploads : v \in publisher[w].left}}
    IN /\ \A i, j \in 1 .. Len(got) :
            i < j => got[i] < got[j] \/ <<p, got[j], got[i]>> \in overlapped
       /\ viewer[v].pc = "streaming" /\ ~viewer[v].lossy =>
            {got[i] : i \in 1 .. Len(got)} \cup coming
              = viewer[v].joined + 1 .. published[p]

\* A tail whose browser has left gives its place back, as long as the
\* process lives.
TailsGiveUpTheirPlace ==
  \A v \in Viewers :
    Active(v) /\ viewer[v].gone ~> ~Active(v) \/ server \in {"closed", "killed"}

\* A signal ends the process, whoever is connected.
SignalEndsProcess == server = "draining" ~> server \in {"closed", "killed"}

\* Nobody holds on to what is over: a viewer who left to a place among the tails,
\* a connected one to a process that was told to end.
TailsLetGo == TailsGiveUpTheirPlace /\ SignalEndsProcess
=============================================================================
