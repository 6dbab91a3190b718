------------------------------ MODULE LiveHub ------------------------------
(***************************************************************************)
(* The in-memory registry of live sessions, internal/live/hub.go, with the *)
(* goroutines that call it: one DeviceSocket handler per paired device,    *)
(* one WatchStream handler per dashboard watching a device, one Ask per    *)
(* question put to a device (server/handlers/live_handler.go).             *)
(*                                                                         *)
(* The hub has one mutex.  An action is one critical section under it, or  *)
(* one step of a handler between two critical sections.  Every method that *)
(* starts by sweeping (Mint, Claim, Get, List) sweeps in the same action.  *)
(*                                                                         *)
(* A batch of logs is fanned out in one action.  A receive that falls      *)
(* between two sends of the same batch gives the queues that a sequence of *)
(* smaller batches with the receive between them gives, so no outcome is   *)
(* lost: frames of every length from 1 to MaxBatch are inputs.             *)
(***************************************************************************)
EXTENDS Integers, Sequences, FiniteSets

CONSTANTS
  Sessions,               \* session ids; uuid.New never repeats one
  Projects,
  Codes,                  \* what NewPairingCode can draw
  Watchers,               \* WatchStream requests
  Requests,               \* Ask calls
  None,                   \* no session, no project, no code
  MaxWatchersPerSession,
  MaxSessionsPerProject,
  EventBuffer,            \* capacity of a watcher's channel
  RecentBuffer,           \* capacity of the replay ring
  PairingCodeTTL,
  IdleTimeout,            \* LiveSessionIdleTimeout
  EndedTTL,               \* how long sweepLocked keeps an ended session
  MaxClock, MaxSeq, MaxBatch   \* bounds of the model

ASSUME LiveHubAssumption ==
  /\ None \notin Sessions /\ None \notin Projects /\ None \notin Codes
  /\ IsFiniteSet(Watchers)
  /\ MaxWatchersPerSession \in Nat /\ MaxSessionsPerProject \in Nat
  /\ EventBuffer \in Nat \ {0} /\ RecentBuffer \in Nat \ {0}
  /\ PairingCodeTTL \in Nat /\ IdleTimeout \in Nat /\ EndedTTL \in Nat
  /\ MaxClock \in Nat /\ MaxSeq \in Nat /\ MaxBatch \in Nat

VARIABLES
  now,      \* h.now()
  sess,     \* h.sessions, one record per id; see SessionType
  byCode,   \* h.byCode: code -> session id, or None
  conn,     \* the device's socket, per session: "none", "open", "closed"
  handler,  \* the DeviceSocket goroutine, per session
  chan,     \* a watcher's channel and the WatchStream goroutine reading it
  heard,    \* everything a watcher's dashboard was sent, in order, and
            \*   what it was told when it joined
  ask       \* an Ask call: where it is, its reply channel, its result

vars == <<now, sess, byCode, conn, handler, chan, heard, ask>>

----------------------------------------------------------------------------
LiveStates == {"waiting", "connected"}
LifeStates == {"unminted", "forgotten", "ended"} \cup LiveStates

EventType == [kind: {"log", "watcher", "ended"}, seq: Nat, watchers: Nat]

\* domain.LiveSession and the hub's session.  attached stands for send and
\* hangUp, which AttachDevice sets and endLocked clears together.
SessionType ==
  [state: LifeStates, project: Projects \cup {None}, code: Codes \cup {None},
   expiresAt: Nat, lastSeen: Nat, endedAt: Nat,
   seq: Nat, recent: Seq(Nat), dropped: Nat,
   watchers: SUBSET Watchers, count: Nat,
   attached: BOOLEAN, pending: SUBSET Requests]

ChanType ==
  [phase: {"idle", "announcing", "streaming", "leaving", "done"},
   session: Sessions \cup {None}, open: BOOLEAN, buf: Seq(EventType), count: Nat]

\* after and missed are Watch's argument and result, joined the session's
\* sequence number at that moment, lossy whether a send found the buffer full.
HeardType ==
  [after: Nat, missed: Nat, joined: Nat, events: Seq(EventType), lossy: BOOLEAN]

AskType ==
  [pc: {"idle", "sending", "waiting", "leaving", "done"},
   session: Sessions \cup {None}, reply: {"empty", "answer", "closed"},
   result: {"none", "answer", "no session", "gone", "silent"}]

TypeOK ==
  /\ now \in Nat
  /\ sess \in [Sessions -> SessionType]
  /\ byCode \in [Codes -> Sessions \cup {None}]
  /\ conn \in [Sessions -> {"none", "open", "closed"}]
  /\ handler \in [Sessions -> {"none", "claimed", "attached", "done"}]
  /\ chan \in [Watchers -> ChanType]
  /\ heard \in [Watchers -> HeardType]
  /\ ask \in [Requests -> AskType]

Blank ==
  [state |-> "unminted", project |-> None, code |-> None,
   expiresAt |-> 0, lastSeen |-> 0, endedAt |-> 0,
   seq |-> 0, recent |-> <<>>, dropped |-> 0,
   watchers |-> {}, count |-> 0, attached |-> FALSE, pending |-> {}]

Init ==
  /\ now = 0
  /\ sess = [s \in Sessions |-> Blank]
  /\ byCode = [c \in Codes |-> None]
  /\ conn = [s \in Sessions |-> "none"]
  /\ handler = [s \in Sessions |-> "none"]
  /\ chan = [w \in Watchers |->
       [phase |-> "idle", session |-> None, open |-> FALSE,
        buf |-> <<>>, count |-> 0]]
  /\ heard = [w \in Watchers |->
       [after |-> 0, missed |-> 0, joined |-> 0,
        events |-> <<>>, lossy |-> FALSE]]
  /\ ask = [r \in Requests |->
       [pc |-> "idle", session |-> None, reply |-> "empty", result |-> "none"]]

\* h.sessions holds the id
Present(s) == sess[s].state \in LiveStates \cup {"ended"}

\* Slip: the lookup in h.sessions without the test for LiveEnded.
LiveIfPresent(s) == Present(s)

\* The test Publish, Deliver, Watch, Ask and End start with.
Live(s) == sess[s].state \in LiveStates

----------------------------------------------------------------------------
(* Watchers' channels: a send that never blocks.                           *)

LogEvent(n) == [kind |-> "log", seq |-> n, watchers |-> 0]
EndedEvent(n) == [kind |-> "ended", seq |-> n, watchers |-> 0]
\* announceWatchers leaves Seq at its zero value
WatcherEvent(n) == [kind |-> "watcher", seq |-> 0, watchers |-> n]

Fits(buf, evs) == Len(buf) + Len(evs) <= EventBuffer

\* The events that find room are queued, the others are dropped.
Offer(buf, evs) ==
  buf \o (IF Fits(buf, evs) THEN evs ELSE SubSeq(evs, 1, EventBuffer - Len(buf)))

\* Offer evs to every channel of ws; h is told when one of them lost something.
FanOut(ws, evs) ==
  /\ chan' = [w \in Watchers |->
       IF w \in ws THEN [chan[w] EXCEPT !.buf = Offer(@, evs)] ELSE chan[w]]
  /\ heard' = [w \in Watchers |->
       IF w \in ws /\ ~Fits(chan[w].buf, evs)
         THEN [heard[w] EXCEPT !.lossy = TRUE] ELSE heard[w]]

----------------------------------------------------------------------------
(* endLocked, for every session of E at once.                              *)

\* Slip: the pending map is left as it is.
EndedKeepingPending(r) ==
  [r EXCEPT !.state = "ended", !.endedAt = now, !.count = 0, !.seq = @ + 1,
            !.watchers = {}, !.attached = FALSE]

EndedSession(r) ==
  [r EXCEPT !.state = "ended", !.endedAt = now, !.count = 0, !.seq = @ + 1,
            !.watchers = {}, !.pending = {}, !.attached = FALSE]

\* Slip: ending a waiting session leaves its code in byCode.
CodesKeptAfterEnd(E) == byCode

\* delete(h.byCode, s.meta.Code): the entry of the code, whoever holds it now
CodesAfterEnd(E) ==
  [c \in Codes |-> IF \E s \in E : sess[s].code = c THEN None ELSE byCode[c]]

WatchedBy(E, w) == {s \in E : w \in sess[s].watchers}
Final(E, w) == <<EndedEvent(1 + sess[CHOOSE s \in WatchedBy(E, w) : TRUE].seq)>>

\* Slip: the channels are told but not closed.
WatchersNotClosed(E) ==
  /\ chan' = [w \in Watchers |->
       IF WatchedBy(E, w) # {}
         THEN [chan[w] EXCEPT !.buf = Offer(@, Final(E, w))] ELSE chan[w]]
  /\ UNCHANGED heard

\* The final event, if it finds room, then the channel is closed.
WatchersAfterEnd(E) ==
  /\ chan' = [w \in Watchers |->
       IF WatchedBy(E, w) # {}
         THEN [chan[w] EXCEPT !.open = FALSE, !.buf = Offer(@, Final(E, w))]
         ELSE chan[w]]
  /\ heard' = [w \in Watchers |->
       IF WatchedBy(E, w) # {} /\ Len(chan[w].buf) >= EventBuffer
         THEN [heard[w] EXCEPT !.lossy = TRUE] ELSE heard[w]]

\* Every pending question's reply channel is closed.
AsksAfterEnd(E) ==
  [r \in Requests |-> IF \E s \in E : r \in sess[s].pending
                        THEN [ask[r] EXCEPT !.reply = "closed"] ELSE ask[r]]

\* Slip: ending a session does not hang up.
ConnsKeptAfterEnd(E) == conn

\* hangUp, where a device is attached
ConnsAfterEnd(E) ==
  [s \in Sessions |-> IF s \in E /\ sess[s].attached THEN "closed" ELSE conn[s]]

EndLocked(E) ==
  /\ sess' = [s \in Sessions |-> IF s \in E THEN EndedSession(sess[s]) ELSE sess[s]]
  /\ byCode' = CodesAfterEnd(E)
  /\ WatchersAfterEnd(E)
  /\ ask' = AsksAfterEnd(E)

----------------------------------------------------------------------------
(* sweepLocked: end what ran out of time, forget what ended a while ago.   *)

Expired(s) == sess[s].state = "waiting" /\ now > sess[s].expiresAt
Idle(s) == sess[s].state = "connected" /\ now - sess[s].lastSeen > IdleTimeout
Overdue == {s \in Sessions : Expired(s) \/ Idle(s)}
Lapsed(s) == sess[s].state = "ended" /\ now - sess[s].endedAt > EndedTTL

SweptSessions ==
  [s \in Sessions |-> IF s \in Overdue THEN EndedSession(sess[s])
                      ELSE IF Lapsed(s) THEN [Blank EXCEPT !.state = "forgotten"]
                      ELSE sess[s]]
SweptCodes == CodesAfterEnd(Overdue)

\* What sweeping does besides the two maps and the sockets.
SweepEffects ==
  /\ WatchersAfterEnd(Overdue)
  /\ ask' = AsksAfterEnd(Overdue)

\* Get, List and Sweep; also a Mint or a Claim that is refused.
Sweep ==
  /\ sess' = SweptSessions
  /\ byCode' = SweptCodes
  /\ SweepEffects
  /\ conn' = ConnsAfterEnd(Overdue)
  /\ UNCHANGED <<now, handler>>

----------------------------------------------------------------------------
(* Pairing.                                                                *)

LiveSessions(p, sessions) ==
  {s \in Sessions : sessions[s].project = p /\ sessions[s].state \in LiveStates}

Minted(p, c) ==
  [Blank EXCEPT !.state = "waiting", !.project = p, !.code = c,
                !.expiresAt = now + PairingCodeTTL]

\* A code is drawn again while the one drawn is in byCode.
Mint(p, s, c) ==
  /\ sess[s].state = "unminted"
  /\ Cardinality(LiveSessions(p, SweptSessions)) < MaxSessionsPerProject
  /\ SweptCodes[c] = None
  /\ sess' = [SweptSessions EXCEPT ![s] = Minted(p, c)]
  /\ byCode' = [SweptCodes EXCEPT ![c] = s]
  /\ SweepEffects
  /\ conn' = ConnsAfterEnd(Overdue)
  /\ UNCHANGED <<now, handler>>

Claimable(p, s) == SweptSessions[s].state = "waiting" /\ SweptSessions[s].project = p

\* A device authenticated for project p sends code c over its open socket.
Claim(p, c) ==
  /\ SweptCodes[c] # None
  /\ LET s == SweptCodes[c] IN
       /\ Claimable(p, s)
       /\ sess' = [SweptSessions EXCEPT ![s].state = "connected", ![s].lastSeen = now]
       /\ byCode' = [SweptCodes EXCEPT ![SweptSessions[s].code] = None]
       /\ conn' = [ConnsAfterEnd(Overdue) EXCEPT ![s] = "open"]
       /\ handler' = [handler EXCEPT ![s] = "claimed"]
  /\ SweepEffects
  /\ UNCHANGED now

----------------------------------------------------------------------------
(* The device's handler: attach, then read frames until the socket fails.  *)

AttachDevice(s) ==
  /\ handler[s] = "claimed"
  /\ handler' = [handler EXCEPT ![s] = "attached"]
  /\ sess' = [sess EXCEPT ![s].attached = @ \/ Present(s)]
  /\ UNCHANGED <<now, byCode, conn, chan, heard, ask>>

\* A frame of n logs.  Frames already read from the socket when it is closed
\* are still handed to the hub.
NewLogs(s, n) == [i \in 1..n |-> LogEvent(sess[s].seq + i)]

\* remember, n times
Remembered(s, n) == sess[s].recent \o [i \in 1..n |-> sess[s].seq + i]
Overflow(s, n) ==
  IF Len(sess[s].recent) + n > RecentBuffer
    THEN Len(sess[s].recent) + n - RecentBuffer ELSE 0

Publish(s, n) ==
  /\ handler[s] = "attached"
  /\ Live(s)
  /\ sess[s].seq + n <= MaxSeq
  /\ sess' = [sess EXCEPT ![s].lastSeen = now,
                          ![s].seq = @ + n,
                          ![s].recent = SubSeq(Remembered(s, n), 1 + Overflow(s, n),
                                               Len(sess[s].recent) + n),
                          ![s].dropped = @ + Overflow(s, n)]
  /\ FanOut(sess[s].watchers, NewLogs(s, n))
  /\ UNCHANGED <<now, byCode, conn, handler, ask>>

\* An empty frame.  Touch does not ask whether the session has ended.
Touch(s) ==
  /\ handler[s] = "attached"
  /\ Present(s)
  /\ sess' = [sess EXCEPT ![s].lastSeen = now]
  /\ UNCHANGED <<now, byCode, conn, handler, chan, heard, ask>>

\* A frame that carries a request id, asked of this device or invented by it.
Deliver(s, r) ==
  /\ handler[s] = "attached"
  /\ Live(s)
  /\ sess' = [sess EXCEPT ![s].lastSeen = now, ![s].pending = @ \ {r}]
  /\ ask' = [ask EXCEPT ![r].reply = IF r \in sess[s].pending THEN "answer" ELSE @]
  /\ UNCHANGED <<now, byCode, conn, handler, chan, heard>>

\* The pairing reply cannot be written, or a read fails: the device closed the
\* socket, stopped answering pings, or was hung up on.
DeviceLeaves(s) ==
  /\ handler[s] = "attached"
  /\ handler' = [handler EXCEPT ![s] = "done"]
  /\ conn' = [conn EXCEPT ![s] = "closed"]
  /\ IF Live(s) THEN EndLocked({s}) ELSE UNCHANGED <<sess, byCode, chan, heard, ask>>
  /\ UNCHANGED now

\* End, from the dashboard.
End(s) ==
  /\ Live(s)
  /\ EndLocked({s})
  /\ conn' = ConnsAfterEnd({s})
  /\ UNCHANGED <<now, handler>>

\* Close, on shutdown.
Close ==
  LET running == {s \in Sessions : Live(s)} IN
  /\ running # {}
  /\ EndLocked(running)
  /\ conn' = ConnsAfterEnd(running)
  /\ UNCHANGED <<now, handler>>

----------------------------------------------------------------------------
(* Watching: WatchStream, with Watch, announceWatchers and Cancel.         *)

\* Slip: one watcher too many.
HasRoomForOneMore(s) == Cardinality(sess[s].watchers) <= MaxWatchersPerSession

HasRoom(s) == Cardinality(sess[s].watchers) < MaxWatchersPerSession

\* Slips: the last event seen is replayed; a gap is counted when there is none.
SkippedExclusive(s, after) ==
  Cardinality({i \in 1..Len(sess[s].recent) : sess[s].recent[i] < after})
MissedUnguarded(s, after) ==
  IF sess[s].recent # <<>> THEN sess[s].recent[1] - after - 1 ELSE 0

\* since: the events after seq that the ring holds, and how many it lost.  The
\* ring is in ascending order, so the events that pass the
\* loop's test are the ones behind those that fail it.
Skipped(s, after) ==
  Cardinality({i \in 1..Len(sess[s].recent) : sess[s].recent[i] <= after})
Backlog(s, after) ==
  IF after = 0 THEN <<>>
  ELSE SubSeq(sess[s].recent, 1 + Skipped(s, after), Len(sess[s].recent))
Missed(s, after) ==
  IF after > 0 /\ sess[s].recent # <<>> /\ sess[s].recent[1] > after + 1
    THEN sess[s].recent[1] - after - 1 ELSE 0

Watch(w, s, after) ==
  /\ chan[w].phase = "idle"
  /\ Live(s)
  /\ HasRoom(s)
  /\ LET count == Cardinality(sess[s].watchers \cup {w})
         backlog == Backlog(s, after)
     IN /\ sess' = [sess EXCEPT ![s].watchers = @ \cup {w}, ![s].count = count]
        /\ chan' = [chan EXCEPT ![w] =
             [phase |-> "announcing", session |-> s, open |-> TRUE,
              buf |-> <<>>, count |-> count]]
        /\ heard' = [heard EXCEPT ![w] =
             [after |-> after, missed |-> Missed(s, after), joined |-> sess[s].seq,
              events |-> [i \in 1..Len(backlog) |-> LogEvent(backlog[i])],
              lossy |-> FALSE]]
  /\ UNCHANGED <<now, byCode, conn, handler, ask>>

\* announceWatchers, after the lock was released: count may be stale by now.
Announce(w) ==
  /\ chan[w].phase \in {"announcing", "leaving"}
  /\ LET told == sess[chan[w].session].watchers
         evs == <<WatcherEvent(chan[w].count)>>
     IN /\ chan' = [v \in Watchers |->
             [chan[v] EXCEPT
               !.buf = IF v \in told THEN Offer(@, evs) ELSE @,
               !.phase = IF v # w THEN @
                         ELSE IF @ = "announcing" THEN "streaming" ELSE "done"]]
        /\ heard' = [v \in Watchers |->
             IF v \in told /\ ~Fits(chan[v].buf, evs)
               THEN [heard[v] EXCEPT !.lossy = TRUE] ELSE heard[v]]
  /\ UNCHANGED <<now, sess, byCode, conn, handler, ask>>

\* WatchStream takes an event off the channel and writes it to the dashboard.
Receive(w) ==
  /\ chan[w].phase = "streaming"
  /\ chan[w].buf # <<>>
  /\ chan' = [chan EXCEPT ![w].buf = Tail(@)]
  /\ heard' = [heard EXCEPT ![w].events = Append(@, Head(chan[w].buf))]
  /\ UNCHANGED <<now, sess, byCode, conn, handler, ask>>

\* The channel is closed and drained: WatchStream returns, Cancel finds nothing.
StreamOver(w) ==
  /\ chan[w].phase = "streaming"
  /\ ~chan[w].open /\ chan[w].buf = <<>>
  /\ chan' = [chan EXCEPT ![w].phase = "done"]
  /\ UNCHANGED <<now, sess, byCode, conn, handler, heard, ask>>

\* The dashboard goes away: Cancel.
Cancel(w) ==
  /\ chan[w].phase = "streaming"
  /\ LET s == chan[w].session
         left == Cardinality(sess[s].watchers \ {w})
     IN IF w \in sess[s].watchers
          THEN /\ sess' = [sess EXCEPT ![s].watchers = @ \ {w}, ![s].count = left]
               /\ chan' = [chan EXCEPT ![w].open = FALSE, ![w].phase = "leaving",
                                       ![w].count = left]
          ELSE /\ chan' = [chan EXCEPT ![w].phase = "done"]
               /\ UNCHANGED sess
  /\ UNCHANGED <<now, byCode, conn, handler, heard, ask>>

----------------------------------------------------------------------------
(* Asking: register, write, wait, and on every path out unregister.        *)

Ask(r, s) ==
  /\ ask[r].pc = "idle"
  /\ \/ /\ ~Live(s)
        /\ ask' = [ask EXCEPT ![r].pc = "done", ![r].result = "no session"]
        /\ UNCHANGED sess
     \/ /\ Live(s) /\ ~sess[s].attached
        /\ ask' = [ask EXCEPT ![r].pc = "done", ![r].result = "gone"]
        /\ UNCHANGED sess
     \/ /\ Live(s) /\ sess[s].attached
        /\ sess' = [sess EXCEPT ![s].pending = @ \cup {r}]
        /\ ask' = [ask EXCEPT ![r].pc = "sending", ![r].session = s]
  /\ UNCHANGED <<now, byCode, conn, handler, chan, heard>>

\* send returns: written, if the socket is still open, or failed.
AskSent(r) ==
  /\ ask[r].pc = "sending"
  /\ \/ /\ conn[ask[r].session] = "open"
        /\ ask' = [ask EXCEPT ![r].pc = "waiting"]
     \/ ask' = [ask EXCEPT ![r].pc = "leaving", ![r].result = "gone"]
  /\ UNCHANGED <<now, sess, byCode, conn, handler, chan, heard>>

\* The reply channel is ready.
AskAnswered(r) ==
  /\ ask[r].pc = "waiting"
  /\ ask[r].reply # "empty"
  /\ ask' = [ask EXCEPT ![r].pc = "leaving",
                        ![r].result = IF ask[r].reply = "answer" THEN "answer" ELSE "gone"]
  /\ UNCHANGED <<now, sess, byCode, conn, handler, chan, heard>>

\* Slip: the wait has no timeout, only the dashboard hanging up ends it.
AskWaitsForReply(r) ==
  /\ ask[r].reply # "empty"
  /\ AskAnswered(r)

\* deviceAskTimeout, or the dashboard gave up.  Go's select may take this
\* branch although the reply is ready too.
AskTimeout(r) ==
  /\ ask[r].pc = "waiting"
  /\ ask' = [ask EXCEPT ![r].pc = "leaving", ![r].result = "silent"]
  /\ UNCHANGED <<now, sess, byCode, conn, handler, chan, heard>>

\* The deferred delete(s.pending, reqID).
AskLeaves(r) ==
  /\ ask[r].pc = "leaving"
  /\ ask' = [ask EXCEPT ![r].pc = "done"]
  /\ sess' = [sess EXCEPT ![ask[r].session].pending = @ \ {r}]
  /\ UNCHANGED <<now, byCode, conn, handler, chan, heard>>

----------------------------------------------------------------------------
Tick ==
  /\ now < MaxClock
  /\ now' = now + 1
  /\ UNCHANGED <<sess, byCode, conn, handler, chan, heard, ask>>

PairingNext ==
  \/ Sweep
  \/ \E p \in Projects, s \in Sessions, c \in Codes : Mint(p, s, c)
  \/ \E p \in Projects, c \in Codes : Claim(p, c)
  \/ \E s \in Sessions : End(s)
  \/ Close

DeviceNext ==
  \E s \in Sessions :
    \/ AttachDevice(s) \/ Touch(s) \/ DeviceLeaves(s)
    \/ \E n \in 1..MaxBatch : Publish(s, n)
    \/ \E r \in Requests : Deliver(s, r)

WatchNext ==
  \E w \in Watchers :
    \/ \E s \in Sessions, after \in 0..MaxSeq : Watch(w, s, after)
    \/ Announce(w) \/ Receive(w) \/ StreamOver(w) \/ Cancel(w)

AskNext ==
  \E r \in Requests :
    \/ \E s \in Sessions : Ask(r, s)
    \/ AskSent(r) \/ AskAnswered(r) \/ AskTimeout(r) \/ AskLeaves(r)

Next == PairingNext \/ DeviceNext \/ WatchNext \/ AskNext \/ Tick

Spec == Init /\ [][Next]_vars

\* The server's own goroutines keep running: an announcement, a receive and
\* the end of a stream need nothing but the scheduler, a write to a device is
\* bounded by its deadline and a wait by deviceAskTimeout, and a closed socket
\* fails its reader.  Nothing is assumed of devices, dashboards or the clock.
Fairness ==
  /\ \A w \in Watchers : WF_vars(Announce(w)) /\ WF_vars(Receive(w))
                         /\ WF_vars(StreamOver(w))
  /\ \A r \in Requests : WF_vars(AskSent(r)) /\ WF_vars(AskAnswered(r))
                         /\ WF_vars(AskTimeout(r)) /\ WF_vars(AskLeaves(r))
  /\ \A s \in Sessions : WF_vars(AttachDevice(s))
                         /\ WF_vars(conn[s] = "closed" /\ DeviceLeaves(s))

FairSpec == Spec /\ Fairness

----------------------------------------------------------------------------
(* Safety.                                                                 *)

\* A code in byCode names a session that is waiting under that very code, so
\* a code pairs at most one device and a claimed, expired or ended session's
\* code pairs none (Claim's single use, endLocked's delete).
CodesNameWaitingSessions ==
  \A c \in Codes : byCode[c] # None =>
    /\ sess[byCode[c]].state = "waiting"
    /\ sess[byCode[c]].code = c

\* A session's watcher set is exactly the open channels on it, and only a live
\* session has any: nothing is sent on a closed channel, which would panic,
\* and no channel is left open behind an ended session.
WatchersAreTheOpenChannels ==
  \A s \in Sessions, w \in Watchers :
    /\ w \in sess[s].watchers <=> chan[w].open /\ chan[w].session = s
    /\ w \in sess[s].watchers => sess[s].state \in LiveStates

\* The pending map of a session holds exactly the questions whose asker may
\* still be listening and has been told nothing: an answer always finds its
\* asker, and a session that is over leaves no asker waiting out the timeout.
PendingIsTheOpenQuestions ==
  /\ \A s \in Sessions, r \in Requests : r \in sess[s].pending =>
       /\ sess[s].state \in LiveStates
       /\ ask[r].session = s
       /\ ask[r].reply = "empty"
       /\ ask[r].pc \in {"sending", "waiting", "leaving"}
  /\ \A r \in Requests :
       ask[r].pc \in {"sending", "waiting"} /\ ask[r].reply = "empty" =>
         r \in sess[ask[r].session].pending

\* A session never has more watchers than the limit, and the count it reports
\* is their number although they join, leave and are closed out on their own.
WatcherCountIsRight ==
  \A s \in Sessions :
    /\ Cardinality(sess[s].watchers) <= MaxWatchersPerSession
    /\ sess[s].count = Cardinality(sess[s].watchers)

\* The three records of who is watching agree, whoever joins, leaves or is closed
\* out: the watcher set, the channels and the count on the page.
WatchersInStep == WatchersAreTheOpenChannels /\ WatcherCountIsRight

\* Where the log and end events are among what a watcher was sent or will find
\* queued; the counts have no number.
NumberedIn(got) == {i \in 1..Len(got) : got[i].kind # "watcher"}

\* The number before the first one the watcher was promised.
PromisedAfter(w) ==
  IF heard[w].after = 0 \/ heard[w].after > heard[w].joined
    THEN heard[w].joined ELSE heard[w].after + heard[w].missed

\* The backlog and the live events join with neither hole nor duplicate: a
\* watcher whose buffer never overflowed has every event after the ones it was
\* told it missed, once and in order; any other has a subsequence.
NeitherHoleNorDuplicate ==
  \A w \in Watchers : chan[w].phase \in {"announcing", "streaming"} =>
    LET got == heard[w].events \o chan[w].buf
        numbered == NumberedIn(got)
        s == chan[w].session
    IN /\ \A i, j \in numbered : i < j => got[i].seq < got[j].seq
       /\ Present(s) /\ ~heard[w].lossy =>
            {got[i].seq : i \in numbered} = PromisedAfter(w) + 1 .. sess[s].seq

\* A session that ended stays ended: a late frame, answer or attach neither
\* revives it nor adds to what it streamed.
EndIsFinal ==
  [][\A s \in Sessions : sess[s].state = "ended" =>
       \/ sess'[s].state = "forgotten"
       \/ /\ sess'[s].state = "ended"
          /\ sess'[s].seq = sess[s].seq
          /\ sess'[s].recent = sess[s].recent]_vars

----------------------------------------------------------------------------
(* Liveness, under Fairness.                                               *)

\* Ask returns on every path, whatever the device does.
QuestionsReturn ==
  \A r \in Requests : ask[r].pc = "sending" ~> ask[r].pc = "done"

\* The end of a session ends every WatchStream on it.
StreamsFinish ==
  \A w \in Watchers :
    chan[w].phase = "streaming" /\ sess[chan[w].session].state = "ended"
      ~> chan[w].phase = "done"

\* Ending a session whose device is attached lets its handler go, although the
\* device is healthy and would answer pings for ever.
EndedHandlersExit ==
  \A s \in Sessions :
    sess[s].state = "ended" /\ handler[s] = "attached" /\ ~sess[s].attached
      ~> handler[s] = "done"

\* Ending a session lets go of everyone who waits on it: askers, dashboards and
\* the device's own handler (endLocked).
EndingLetsGo == QuestionsReturn /\ StreamsFinish /\ EndedHandlersExit
=============================================================================
