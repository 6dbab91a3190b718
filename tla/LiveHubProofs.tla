--------------------------- MODULE LiveHubProofs ---------------------------
(***************************************************************************)
(* Theorems about the live hub, for every number of sessions, codes,       *)
(* watchers and questions and every value of the limits: who may pair,     *)
(* what stays ended, which questions are open, who is on a list of         *)
(* watchers, and in which order and how completely a dashboard is sent     *)
(* what a device reports.                                                  *)
(***************************************************************************)
EXTENDS LiveHub, SequenceTheorems, FiniteSetTheorems, TLAPS

\* A WatchStream past its subscription and an Ask past its registration know
\* which session they are about; before that there is no channel to close.
Wiring ==
  /\ \A w \in Watchers :
       /\ chan[w].phase = "idle" => ~chan[w].open
       /\ chan[w].phase # "idle" => chan[w].session \in Sessions
  /\ \A r \in Requests :
       ask[r].pc \in {"sending", "waiting", "leaving"} => ask[r].session \in Sessions

----------------------------------------------------------------------------
(* What the helpers return.                                                *)

LEMMA EndedSessionType ==
  ASSUME NEW r \in SessionType, now \in Nat
  PROVE  EndedSession(r) \in SessionType
<1>1. r.seq + 1 \in Nat
  BY DEF SessionType
<1>2. ASSUME NEW n \in Nat
      PROVE  [r EXCEPT !.state = "ended", !.endedAt = now, !.count = 0, !.seq = n,
                       !.watchers = {}, !.pending = {}, !.attached = FALSE]
               \in SessionType
  BY DEF SessionType, LifeStates
<1> QED BY <1>1, <1>2 DEF EndedSession

LEMMA EventTypes ==
  ASSUME NEW n \in Nat
  PROVE  LogEvent(n) \in EventType /\ EndedEvent(n) \in EventType
         /\ WatcherEvent(n) \in EventType
BY DEF LogEvent, EndedEvent, WatcherEvent, EventType

\* Offering events to a queue gives a queue of events.
LEMMA OfferType ==
  ASSUME NEW buf \in Seq(EventType), NEW evs \in Seq(EventType)
  PROVE  Offer(buf, evs) \in Seq(EventType)
<1> DEFINE k == EventBuffer - Len(buf)
<1>1. Len(buf) \in Nat /\ Len(evs) \in Nat /\ k \in Int
  BY LiveHubAssumption, LenProperties
<1>2. CASE Fits(buf, evs)
  BY <1>2, ConcatProperties DEF Offer
<1>3. CASE ~Fits(buf, evs)
  <2>1. k < Len(evs)
    BY <1>1, <1>3, LiveHubAssumption DEF Fits
  <2>2. \A i \in 1..k : evs[i] \in EventType
    BY <1>1, <2>1, ElementOfSeq
  <2>3. SubSeq(evs, 1, k) \in Seq(EventType)
    BY <1>1, <2>2, SubSeqProperties
  <2> QED BY <1>3, <2>3, ConcatProperties DEF Offer
<1> QED BY <1>2, <1>3

LEMMA BlankType == Blank \in SessionType
BY DEF Blank, SessionType, LifeStates, LiveStates

LEMMA SweptType ==
  ASSUME TypeOK
  PROVE  SweptSessions \in [Sessions -> SessionType]
<1> SUFFICES ASSUME NEW s \in Sessions
             PROVE  SweptSessions[s] \in SessionType
  BY DEF SweptSessions
<1>1. EndedSession(sess[s]) \in SessionType
  BY EndedSessionType DEF TypeOK
<1>2. [Blank EXCEPT !.state = "forgotten"] \in SessionType
  BY BlankType DEF SessionType, LifeStates
<1> QED BY <1>1, <1>2 DEF SweptSessions, TypeOK

LEMMA CodesAfterEndType ==
  ASSUME TypeOK, NEW E \in SUBSET Sessions
  PROVE  CodesAfterEnd(E) \in [Codes -> Sessions \cup {None}]
BY DEF CodesAfterEnd, TypeOK

LEMMA FanOutType ==
  ASSUME TypeOK, NEW ws, NEW evs \in Seq(EventType), FanOut(ws, evs)
  PROVE  /\ chan' \in [Watchers -> ChanType]
         /\ heard' \in [Watchers -> HeardType]
<1>1. ASSUME NEW w \in Watchers
      PROVE  [chan[w] EXCEPT !.buf = Offer(@, evs)] \in ChanType
  <2>1. chan[w] \in ChanType /\ chan[w].buf \in Seq(EventType)
    BY DEF TypeOK, ChanType
  <2>2. Offer(chan[w].buf, evs) \in Seq(EventType)
    BY <2>1, OfferType
  <2> QED BY <2>1, <2>2 DEF ChanType
<1>2. ASSUME NEW w \in Watchers
      PROVE  [heard[w] EXCEPT !.lossy = TRUE] \in HeardType
  BY DEF TypeOK, HeardType
<1> QED BY <1>1, <1>2 DEF FanOut, TypeOK

LEMMA AfterEndTypes ==
  ASSUME TypeOK, NEW E \in SUBSET Sessions, WatchersAfterEnd(E)
  PROVE  /\ chan' \in [Watchers -> ChanType]
         /\ heard' \in [Watchers -> HeardType]
         /\ AsksAfterEnd(E) \in [Requests -> AskType]
         /\ ConnsAfterEnd(E) \in [Sessions -> {"none", "open", "closed"}]
<1>1. ASSUME NEW w \in Watchers, WatchedBy(E, w) # {}
      PROVE  [chan[w] EXCEPT !.open = FALSE, !.buf = Offer(@, Final(E, w))] \in ChanType
  <2>1. PICK s \in Sessions : s = CHOOSE x \in WatchedBy(E, w) : TRUE
    BY <1>1 DEF WatchedBy
  <2>2. 1 + sess[s].seq \in Nat
    BY DEF TypeOK, SessionType
  <2>3. Final(E, w) \in Seq(EventType)
    BY <2>1, <2>2, EventTypes DEF Final
  <2>4. chan[w] \in ChanType /\ chan[w].buf \in Seq(EventType)
    BY DEF TypeOK, ChanType
  <2>5. Offer(chan[w].buf, Final(E, w)) \in Seq(EventType)
    BY <2>3, <2>4, OfferType
  <2> QED BY <2>4, <2>5 DEF ChanType
<1>2. ASSUME NEW w \in Watchers
      PROVE  [heard[w] EXCEPT !.lossy = TRUE] \in HeardType
  <2>1. heard[w] \in HeardType
    BY DEF TypeOK
  <2> QED BY <2>1 DEF HeardType
<1>3. ASSUME NEW r \in Requests
      PROVE  [ask[r] EXCEPT !.reply = "closed"] \in AskType
  <2>1. ask[r] \in AskType
    BY DEF TypeOK
  <2> QED BY <2>1 DEF AskType
<1>4. chan' \in [Watchers -> ChanType]
  BY <1>1 DEF WatchersAfterEnd, TypeOK
<1>5. heard' \in [Watchers -> HeardType]
  BY <1>2 DEF WatchersAfterEnd, TypeOK
<1>6. AsksAfterEnd(E) \in [Requests -> AskType]
  BY <1>3 DEF AsksAfterEnd, TypeOK
<1>7. ConnsAfterEnd(E) \in [Sessions -> {"none", "open", "closed"}]
  BY DEF ConnsAfterEnd, TypeOK
<1> QED BY <1>4, <1>5, <1>6, <1>7

\* The ring after n more events is a ring of numbers.
LEMMA RingType ==
  ASSUME TypeOK, NEW s \in Sessions, NEW n \in Nat
  PROVE  /\ Overflow(s, n) \in 0..(Len(sess[s].recent) + n)
         /\ SubSeq(Remembered(s, n), 1 + Overflow(s, n), Len(sess[s].recent) + n)
              \in Seq(Nat)
<1> DEFINE old == sess[s].recent
           fresh == [i \in 1..n |-> sess[s].seq + i]
<1>1. old \in Seq(Nat) /\ Len(old) \in Nat /\ sess[s].seq \in Nat
  BY LenProperties DEF TypeOK, SessionType
<1> HIDE DEF old
<1>2. fresh \in Seq(Nat) /\ Len(fresh) = n
  BY <1>1
<1>3. /\ Remembered(s, n) \in Seq(Nat)
      /\ Len(Remembered(s, n)) = Len(old) + n
  BY <1>1, <1>2, ConcatProperties DEF Remembered, old
<1>4. Overflow(s, n) \in 0..(Len(old) + n)
  BY <1>1, LiveHubAssumption DEF Overflow, old
<1>5. \A i \in (1 + Overflow(s, n))..(Len(old) + n) : Remembered(s, n)[i] \in Nat
  BY <1>1, <1>3, <1>4, ElementOfSeq
<1>6. SubSeq(Remembered(s, n), 1 + Overflow(s, n), Len(old) + n) \in Seq(Nat)
  BY <1>1, <1>4, <1>5, SubSeqProperties
<1> QED BY <1>4, <1>6 DEF old

\* What a reconnecting watcher is handed is a list of numbers and a count.
LEMMA BacklogType ==
  ASSUME TypeOK, NEW s \in Sessions, NEW after \in Nat
  PROVE  Backlog(s, after) \in Seq(Nat) /\ Missed(s, after) \in Nat
<1> DEFINE ring == sess[s].recent
           seen == {i \in 1..Len(ring) : ring[i] <= after}
<1>1. ring \in Seq(Nat) /\ Len(ring) \in Nat
  BY LenProperties DEF TypeOK, SessionType
<1>2. Skipped(s, after) \in Nat
  <2>1. IsFiniteSet(1..Len(ring))
    BY <1>1, FS_Interval
  <2>2. IsFiniteSet(seen)
    BY <2>1, FS_Subset
  <2> QED BY <2>2, FS_CardinalityType DEF Skipped
<1>3. \A i \in (1 + Skipped(s, after))..Len(ring) : ring[i] \in Nat
  BY <1>1, <1>2, ElementOfSeq
<1>4. SubSeq(ring, 1 + Skipped(s, after), Len(ring)) \in Seq(Nat)
  BY <1>1, <1>2, <1>3, SubSeqProperties
<1>5. Missed(s, after) \in Nat
  <2>1. ring # <<>> => ring[1] \in Nat
    BY <1>1, EmptySeq, ElementOfSeq
  <2> QED BY <2>1 DEF Missed
<1> QED BY <1>4, <1>5, EmptySeq DEF Backlog

----------------------------------------------------------------------------
(* The type invariant.                                                     *)

LEMMA EndLockedType ==
  ASSUME TypeOK, NEW E \in SUBSET Sessions, EndLocked(E)
  PROVE  /\ sess' \in [Sessions -> SessionType]
         /\ byCode' \in [Codes -> Sessions \cup {None}]
         /\ chan' \in [Watchers -> ChanType]
         /\ heard' \in [Watchers -> HeardType]
         /\ ask' \in [Requests -> AskType]
<1>1. ASSUME NEW s \in Sessions
      PROVE  EndedSession(sess[s]) \in SessionType
  BY EndedSessionType DEF TypeOK
<1>2. sess' \in [Sessions -> SessionType]
  BY <1>1 DEF EndLocked, TypeOK
<1> QED BY <1>2, AfterEndTypes, CodesAfterEndType DEF EndLocked

LEMMA PairingTypes ==
  ASSUME TypeOK, PairingNext
  PROVE  TypeOK'
<1> USE SweptType, CodesAfterEndType, AfterEndTypes
<1>0. Overdue \in SUBSET Sessions
  BY DEF Overdue
<1>1. CASE Sweep
  BY <1>0, <1>1 DEF Sweep, SweepEffects, SweptCodes, TypeOK
<1>2. ASSUME NEW p \in Projects, NEW s \in Sessions, NEW c \in Codes, Mint(p, s, c)
      PROVE  TypeOK'
  <2>1. now + PairingCodeTTL \in Nat
    BY LiveHubAssumption DEF TypeOK
  <2>2. ASSUME NEW n \in Nat
        PROVE  [Blank EXCEPT !.state = "waiting", !.project = p, !.code = c,
                             !.expiresAt = n] \in SessionType
    BY BlankType DEF SessionType, LifeStates, LiveStates
  <2>3. Minted(p, c) \in SessionType
    BY <2>1, <2>2 DEF Minted
  <2>4. sess' \in [Sessions -> SessionType]
    BY <1>2, <2>3 DEF Mint
  <2>5. byCode' \in [Codes -> Sessions \cup {None}]
    BY <1>0, <1>2 DEF Mint, SweptCodes
  <2> QED BY <1>0, <1>2, <2>4, <2>5 DEF Mint, SweepEffects, TypeOK
<1>3. ASSUME NEW p \in Projects, NEW c \in Codes, Claim(p, c)
      PROVE  TypeOK'
  <2> DEFINE s == SweptCodes[c]
  <2>1. s \in Sessions
    BY <1>0, <1>3 DEF Claim, SweptCodes
  <2>2. SweptSessions[s] \in SessionType /\ now \in Nat
    BY <2>1 DEF TypeOK
  <2> HIDE DEF s
  <2>3. [SweptSessions[s] EXCEPT !.state = "connected", !.lastSeen = now] \in SessionType
    BY <2>2 DEF SessionType, LifeStates, LiveStates
  <2>4. sess' = [SweptSessions EXCEPT ![s] =
                   [SweptSessions[s] EXCEPT !.state = "connected", !.lastSeen = now]]
    BY <1>3, <2>1 DEF Claim, s
  <2>5. sess' \in [Sessions -> SessionType]
    BY <2>3, <2>4
  <2>6. byCode' \in [Codes -> Sessions \cup {None}]
    BY <1>0, <1>3 DEF Claim, SweptCodes
  <2>7. /\ conn' \in [Sessions -> {"none", "open", "closed"}]
        /\ handler' \in [Sessions -> {"none", "claimed", "attached", "done"}]
    BY <1>0, <1>3 DEF Claim, SweepEffects, TypeOK
  <2> QED BY <1>0, <1>3, <2>5, <2>6, <2>7 DEF Claim, SweepEffects, TypeOK
<1>4. ASSUME NEW s \in Sessions, End(s)
      PROVE  TypeOK'
  BY <1>4, EndLockedType DEF End, EndLocked, TypeOK
<1>5. CASE Close
  BY <1>5, EndLockedType DEF Close, EndLocked, TypeOK
<1> QED BY <1>1, <1>2, <1>3, <1>4, <1>5 DEF PairingNext

LEMMA DeviceTypes ==
  ASSUME TypeOK, DeviceNext
  PROVE  TypeOK'
<1> PICK s \in Sessions :
      \/ AttachDevice(s) \/ Touch(s) \/ DeviceLeaves(s)
      \/ \E n \in 1..MaxBatch : Publish(s, n)
      \/ \E r \in Requests : Deliver(s, r)
  BY DEF DeviceNext
<1>0. /\ sess[s] \in SessionType /\ now \in Nat
      /\ sess[s].seq \in Nat /\ sess[s].dropped \in Nat
      /\ sess[s].pending \in SUBSET Requests
  BY DEF TypeOK, SessionType
<1>1. CASE AttachDevice(s)
  <2>1. [sess[s] EXCEPT !.attached = @ \/ Present(s)] \in SessionType
    BY <1>0 DEF SessionType
  <2> QED BY <1>1, <2>1 DEF AttachDevice, TypeOK
<1>2. CASE Touch(s)
  <2>1. [sess[s] EXCEPT !.lastSeen = now] \in SessionType
    BY <1>0 DEF SessionType
  <2> QED BY <1>2, <2>1 DEF Touch, TypeOK
<1>3. CASE DeviceLeaves(s)
  <2>1. CASE Live(s)
    BY <1>3, <2>1, EndLockedType DEF DeviceLeaves, TypeOK
  <2>2. CASE ~Live(s)
    BY <1>3, <2>2 DEF DeviceLeaves, TypeOK
  <2> QED BY <2>1, <2>2
<1>4. ASSUME NEW n \in 1..MaxBatch, Publish(s, n)
      PROVE  TypeOK'
  <2> DEFINE ring == SubSeq(Remembered(s, n), 1 + Overflow(s, n),
                            Len(sess[s].recent) + n)
             more == Overflow(s, n)
  <2>1. n \in Nat
    BY LiveHubAssumption
  <2>2. ring \in Seq(Nat) /\ more \in Nat
    BY <2>1, RingType, <1>0, LenProperties DEF TypeOK, SessionType
  <2>3. sess[s].seq + n \in Nat /\ sess[s].dropped + more \in Nat
    BY <1>0, <2>1, <2>2
  <2>4. sess' = [sess EXCEPT ![s] =
                   [sess[s] EXCEPT !.lastSeen = now, !.seq = @ + n,
                                   !.recent = ring, !.dropped = @ + more]]
    BY <1>4 DEF Publish, TypeOK
  <2> HIDE DEF ring, more
  <2>5. ASSUME NEW a \in Nat, NEW b \in Nat
        PROVE  [sess[s] EXCEPT !.lastSeen = now, !.seq = a, !.recent = ring,
                               !.dropped = b] \in SessionType
    BY <1>0, <2>2 DEF SessionType
  <2>6. sess' \in [Sessions -> SessionType]
    BY <2>3, <2>4, <2>5 DEF TypeOK
  <2>7. NewLogs(s, n) \in Seq(EventType)
    BY <1>0, <2>1, EventTypes DEF NewLogs
  <2> QED BY <1>4, <2>6, <2>7, FanOutType DEF Publish, TypeOK
<1>5. ASSUME NEW r \in Requests, Deliver(s, r)
      PROVE  TypeOK'
  <2>1. [sess[s] EXCEPT !.lastSeen = now, !.pending = @ \ {r}] \in SessionType
    BY <1>0 DEF SessionType
  <2>2. sess' \in [Sessions -> SessionType]
    BY <1>5, <2>1 DEF Deliver, TypeOK
  <2>a. ASSUME NEW v \in {"empty", "answer", "closed"}
        PROVE  [ask[r] EXCEPT !.reply = v] \in AskType
    BY DEF TypeOK, AskType
  <2>b. ask[r].reply \in {"empty", "answer", "closed"}
    BY DEF TypeOK, AskType
  <2>3. ask' \in [Requests -> AskType]
    BY <1>5, <2>a, <2>b DEF Deliver, TypeOK
  <2> QED BY <1>5, <2>2, <2>3 DEF Deliver, TypeOK
<1> QED BY <1>1, <1>2, <1>3, <1>4, <1>5

LEMMA WatchTypes ==
  ASSUME TypeOK, Wiring, WatchNext
  PROVE  TypeOK'
<1> PICK w \in Watchers :
      \/ \E s \in Sessions, after \in 0..MaxSeq : Watch(w, s, after)
      \/ Announce(w) \/ Receive(w) \/ StreamOver(w) \/ Cancel(w)
  BY DEF WatchNext
<1>0. /\ chan[w] \in ChanType /\ heard[w] \in HeardType
      /\ chan[w].buf \in Seq(EventType) /\ heard[w].events \in Seq(EventType)
      /\ chan[w].count \in Nat
  BY DEF TypeOK, ChanType, HeardType
<1>a. ASSUME NEW S \in SUBSET Watchers
      PROVE  Cardinality(S) \in Nat
  BY LiveHubAssumption, FS_Subset, FS_CardinalityType
<1>1. ASSUME NEW s \in Sessions, NEW after \in 0..MaxSeq, Watch(w, s, after)
      PROVE  TypeOK'
  <2> DEFINE count == Cardinality(sess[s].watchers \cup {w})
             backlog == Backlog(s, after)
             events == [i \in 1..Len(backlog) |-> LogEvent(backlog[i])]
  <2>1. /\ sess[s] \in SessionType /\ sess[s].watchers \in SUBSET Watchers
        /\ sess[s].seq \in Nat
    BY DEF TypeOK, SessionType
  <2>2. count \in Nat
    BY <1>a, <2>1
  <2>3. after \in Nat
    BY LiveHubAssumption
  <2>4. backlog \in Seq(Nat) /\ Missed(s, after) \in Nat
    BY <2>3, BacklogType
  <2>5. events \in Seq(EventType)
    BY <2>4, EventTypes, LenProperties, ElementOfSeq
  <2> HIDE DEF count, backlog, events
  <2>6. [sess[s] EXCEPT !.watchers = @ \cup {w}, !.count = count] \in SessionType
    BY <2>1, <2>2 DEF SessionType
  <2>7. sess' \in [Sessions -> SessionType]
    BY <1>1, <2>6 DEF Watch, TypeOK, count
  <2>8. chan' \in [Watchers -> ChanType]
    BY <1>1, <2>2 DEF Watch, TypeOK, ChanType, count
  <2>9. [after |-> after, missed |-> Missed(s, after), joined |-> sess[s].seq,
         events |-> events, lossy |-> FALSE] \in HeardType
    BY <2>1, <2>3, <2>4, <2>5 DEF HeardType
  <2>10. heard' \in [Watchers -> HeardType]
    BY <1>1, <2>9 DEF Watch, TypeOK, backlog, events
  <2> QED BY <1>1, <2>7, <2>8, <2>10 DEF Watch, TypeOK
<1>2. CASE Announce(w)
  <2> DEFINE evs == <<WatcherEvent(chan[w].count)>>
  <2>1. evs \in Seq(EventType)
    BY <1>0, EventTypes
  <2>2. ASSUME NEW v \in Watchers
        PROVE  chan'[v] \in ChanType /\ heard'[v] \in HeardType
    <3>1. chan[v] \in ChanType /\ chan[v].buf \in Seq(EventType) /\ heard[v] \in HeardType
      BY DEF TypeOK, ChanType
    <3>2. Offer(chan[v].buf, evs) \in Seq(EventType)
      BY <2>1, <3>1, OfferType
    <3>3. ASSUME NEW b \in Seq(EventType),
                 NEW ph \in {"idle", "announcing", "streaming", "leaving", "done"}
          PROVE  [chan[v] EXCEPT !.buf = b, !.phase = ph] \in ChanType
      BY <3>1 DEF ChanType
    <3>4. chan[v].phase \in {"idle", "announcing", "streaming", "leaving", "done"}
      BY <3>1 DEF ChanType
    <3>5. chan'[v] \in ChanType
      BY <1>2, <3>1, <3>2, <3>3, <3>4 DEF Announce
    <3>6. [heard[v] EXCEPT !.lossy = TRUE] \in HeardType
      BY <3>1 DEF HeardType
    <3> QED BY <1>2, <3>1, <3>5, <3>6 DEF Announce
  <2>3. /\ chan' \in [Watchers -> ChanType]
        /\ heard' \in [Watchers -> HeardType]
    BY <1>2, <2>2 DEF Announce
  <2> QED BY <1>2, <2>3 DEF Announce, TypeOK
<1>3. CASE Receive(w)
  <2>1. Tail(chan[w].buf) \in Seq(EventType) /\ Head(chan[w].buf) \in EventType
    BY <1>0, <1>3, HeadTailProperties DEF Receive
  <2>2. Append(heard[w].events, Head(chan[w].buf)) \in Seq(EventType)
    BY <1>0, <2>1, AppendProperties
  <2> DEFINE c == [chan[w] EXCEPT !.buf = Tail(chan[w].buf)]
             h == [heard[w] EXCEPT !.events = Append(heard[w].events, Head(chan[w].buf))]
  <2>3. c \in ChanType /\ h \in HeardType
    BY <1>0, <2>1, <2>2 DEF ChanType, HeardType
  <2>4. chan' = [chan EXCEPT ![w] = c] /\ heard' = [heard EXCEPT ![w] = h]
    BY <1>3 DEF Receive
  <2>5. UNCHANGED <<now, sess, byCode, conn, handler, ask>>
    BY <1>3 DEF Receive
  <2> HIDE DEF c, h
  <2>6. chan' \in [Watchers -> ChanType] /\ heard' \in [Watchers -> HeardType]
    BY <2>3, <2>4 DEF TypeOK
  <2> QED BY <2>5, <2>6 DEF TypeOK
<1>4. CASE StreamOver(w)
  <2> DEFINE c == [chan[w] EXCEPT !.phase = "done"]
  <2>1. c \in ChanType
    BY <1>0 DEF ChanType
  <2>2. chan' = [chan EXCEPT ![w] = c]
    BY <1>4 DEF StreamOver
  <2>3. UNCHANGED <<now, sess, byCode, conn, handler, heard, ask>>
    BY <1>4 DEF StreamOver
  <2> HIDE DEF c
  <2>4. chan' \in [Watchers -> ChanType]
    BY <2>1, <2>2 DEF TypeOK
  <2> QED BY <2>3, <2>4 DEF TypeOK
<1>5. CASE Cancel(w)
  <2> DEFINE s == chan[w].session
             left == Cardinality(sess[s].watchers \ {w})
  <2>1. s \in Sessions
    BY <1>5 DEF Cancel, Wiring
  <2>2. sess[s] \in SessionType /\ sess[s].watchers \in SUBSET Watchers
    BY <2>1 DEF TypeOK, SessionType
  <2>3. left \in Nat
    BY <1>a, <2>2
  <2>4. CASE w \in sess[s].watchers
    <3>1. /\ sess' = [sess EXCEPT ![s].watchers = @ \ {w}, ![s].count = left]
          /\ chan' = [chan EXCEPT ![w].open = FALSE, ![w].phase = "leaving",
                                  ![w].count = left]
      BY <1>5, <2>4 DEF Cancel
    <3> HIDE DEF s, left
    <3>2. [sess[s] EXCEPT !.watchers = @ \ {w}, !.count = left] \in SessionType
      BY <2>2, <2>3 DEF SessionType
    <3>3. sess' \in [Sessions -> SessionType]
      BY <2>1, <3>1, <3>2 DEF TypeOK
    <3>a. [chan[w] EXCEPT !.open = FALSE, !.phase = "leaving", !.count = left] \in ChanType
      BY <1>0, <2>3 DEF ChanType
    <3>4. chan' \in [Watchers -> ChanType]
      BY <3>1, <3>a DEF TypeOK
    <3> QED BY <1>5, <3>3, <3>4 DEF Cancel, TypeOK
  <2>5. CASE w \notin sess[s].watchers
    <3>1. [chan[w] EXCEPT !.phase = "done"] \in ChanType
      BY <1>0 DEF ChanType
    <3>2. chan' \in [Watchers -> ChanType] /\ UNCHANGED sess
      BY <1>5, <2>5, <3>1 DEF Cancel, TypeOK
    <3> QED BY <1>5, <3>2 DEF Cancel, TypeOK
  <2> QED BY <2>4, <2>5
<1> QED BY <1>1, <1>2, <1>3, <1>4, <1>5

LEMMA AskTypes ==
  ASSUME TypeOK, Wiring, AskNext
  PROVE  TypeOK'
<1> PICK r \in Requests :
      \/ \E s \in Sessions : Ask(r, s)
      \/ AskSent(r) \/ AskAnswered(r) \/ AskTimeout(r) \/ AskLeaves(r)
  BY DEF AskNext
<1>0. ask[r] \in AskType
  BY DEF TypeOK
<1>a. ASSUME NEW pc \in {"idle", "sending", "waiting", "leaving", "done"},
             NEW res \in {"none", "answer", "no session", "gone", "silent"}
      PROVE  /\ [ask[r] EXCEPT !.pc = pc] \in AskType
             /\ [ask[r] EXCEPT !.pc = pc, !.result = res] \in AskType
  BY <1>0 DEF AskType
<1>b. ASSUME NEW s \in Sessions
      PROVE  /\ [ask[r] EXCEPT !.pc = "sending", !.session = s] \in AskType
             /\ [sess[s] EXCEPT !.pending = @ \cup {r}] \in SessionType
             /\ [sess[s] EXCEPT !.pending = @ \ {r}] \in SessionType
  <2>1. sess[s] \in SessionType
    BY DEF TypeOK
  <2> QED BY <1>0, <2>1 DEF AskType, SessionType
<1>1. ASSUME NEW s \in Sessions, Ask(r, s)
      PROVE  TypeOK'
  <2>1. ask' \in [Requests -> AskType]
    BY <1>1, <1>a, <1>b DEF Ask, TypeOK
  <2>2. sess' \in [Sessions -> SessionType]
    BY <1>1, <1>b DEF Ask, TypeOK
  <2> QED BY <1>1, <2>1, <2>2 DEF Ask, TypeOK
<1>2. CASE AskSent(r)
  BY <1>2, <1>a DEF AskSent, TypeOK
<1>3. CASE AskAnswered(r)
  BY <1>3, <1>a DEF AskAnswered, TypeOK
<1>4. CASE AskTimeout(r)
  BY <1>4, <1>a DEF AskTimeout, TypeOK
<1>5. CASE AskLeaves(r)
  <2>1. ask[r].session \in Sessions
    BY <1>5 DEF AskLeaves, Wiring
  <2> QED BY <1>5, <1>a, <1>b, <2>1 DEF AskLeaves, TypeOK
<1> QED BY <1>1, <1>2, <1>3, <1>4, <1>5

\* Which of the watchers' and askers' fields the end of sessions leaves alone.
LEMMA AfterEndWiring ==
  ASSUME TypeOK, Wiring, NEW E \in SUBSET Sessions,
         WatchersAfterEnd(E), ask' = AsksAfterEnd(E)
  PROVE  Wiring'
<1>1. ASSUME NEW w \in Watchers
      PROVE  /\ chan'[w].phase = chan[w].phase
             /\ chan'[w].session = chan[w].session
             /\ chan'[w].open => chan[w].open
  <2> DEFINE c == [chan[w] EXCEPT !.open = FALSE, !.buf = Offer(chan[w].buf, Final(E, w))]
  <2>1. chan'[w] = c \/ chan'[w] = chan[w]
    BY DEF WatchersAfterEnd
  <2>2. chan[w] \in ChanType
    BY DEF TypeOK
  <2>3. c.phase = chan[w].phase /\ c.session = chan[w].session /\ ~c.open
    BY <2>2 DEF ChanType
  <2> QED BY <2>1, <2>3
<1>2. ASSUME NEW r \in Requests
      PROVE  /\ ask'[r].pc = ask[r].pc
             /\ ask'[r].session = ask[r].session
  BY DEF AsksAfterEnd, TypeOK, AskType
<1> QED BY <1>1, <1>2 DEF Wiring

LEMMA WiringStep ==
  ASSUME TypeOK, Wiring, [Next]_vars
  PROVE  Wiring'
<1> USE AfterEndWiring
<1>0. Overdue \in SUBSET Sessions
  BY DEF Overdue
<1>1. CASE PairingNext
  <2>1. PICK E \in SUBSET Sessions : WatchersAfterEnd(E) /\ ask' = AsksAfterEnd(E)
    BY <1>0, <1>1
    DEF PairingNext, Sweep, Mint, Claim, End, Close, EndLocked, SweepEffects
  <2> QED BY <2>1
<1>2. CASE DeviceNext
  <2> PICK s \in Sessions :
        \/ AttachDevice(s) \/ Touch(s) \/ DeviceLeaves(s)
        \/ \E n \in 1..MaxBatch : Publish(s, n)
        \/ \E r \in Requests : Deliver(s, r)
    BY <1>2 DEF DeviceNext
  <2>1. CASE AttachDevice(s) \/ Touch(s)
    BY <2>1 DEF AttachDevice, Touch, Wiring
  <2>2. CASE DeviceLeaves(s)
    <3>1. CASE Live(s)
      BY <2>2, <3>1 DEF DeviceLeaves, EndLocked
    <3>2. CASE ~Live(s)
      BY <2>2, <3>2 DEF DeviceLeaves, Wiring
    <3> QED BY <3>1, <3>2
  <2>3. ASSUME NEW n \in 1..MaxBatch, Publish(s, n)
        PROVE  Wiring'
    <3>1. ASSUME NEW w \in Watchers
          PROVE  /\ chan'[w].phase = chan[w].phase
                 /\ chan'[w].session = chan[w].session
                 /\ chan'[w].open = chan[w].open
      BY <2>3 DEF Publish, FanOut, TypeOK, ChanType
    <3> QED BY <2>3, <3>1 DEF Publish, Wiring
  <2>4. ASSUME NEW r \in Requests, Deliver(s, r)
        PROVE  Wiring'
    <3>1. ASSUME NEW q \in Requests
          PROVE  ask'[q].pc = ask[q].pc /\ ask'[q].session = ask[q].session
      <4> DEFINE v == IF r \in sess[s].pending THEN "answer" ELSE ask[r].reply
      <4>1. ask[r] \in AskType /\ ask' = [ask EXCEPT ![r] = [ask[r] EXCEPT !.reply = v]]
        BY <2>4 DEF Deliver, TypeOK
      <4> HIDE DEF v
      <4>2. q = r => ask'[q] = [ask[r] EXCEPT !.reply = v]
        BY <4>1 DEF TypeOK
      <4>3. q # r => ask'[q] = ask[q]
        BY <4>1 DEF TypeOK
      <4>4. /\ [ask[r] EXCEPT !.reply = v].pc = ask[r].pc
            /\ [ask[r] EXCEPT !.reply = v].session = ask[r].session
        BY <4>1 DEF AskType
      <4> QED BY <4>2, <4>3, <4>4
    <3>2. UNCHANGED chan
      BY <2>4 DEF Deliver
    <3> QED BY <3>1, <3>2 DEF Wiring
  <2> QED BY <2>1, <2>2, <2>3, <2>4
<1>3. CASE WatchNext
  <2> PICK w \in Watchers :
        \/ \E s \in Sessions, after \in 0..MaxSeq : Watch(w, s, after)
        \/ Announce(w) \/ Receive(w) \/ StreamOver(w) \/ Cancel(w)
    BY <1>3 DEF WatchNext
  <2>1. ASSUME NEW s \in Sessions, NEW after \in 0..MaxSeq, Watch(w, s, after)
        PROVE  Wiring'
    <3>1. ask' = ask
      BY <2>1 DEF Watch
    <3>2. ASSUME NEW v \in Watchers
          PROVE  \/ chan'[v] = chan[v]
                 \/ chan'[v].phase # "idle" /\ chan'[v].session \in Sessions
      BY <2>1 DEF Watch, TypeOK, ChanType
    <3> QED BY <3>1, <3>2 DEF Wiring
  <2>2. CASE Announce(w)
    <3>1. ASSUME NEW v \in Watchers
          PROVE  /\ chan'[v].session = chan[v].session
                 /\ chan'[v].open = chan[v].open
                 /\ v # w => chan'[v].phase = chan[v].phase
                 /\ v = w => chan'[v].phase # "idle"
      <4>1. PICK told, evs :
              chan'[v] = [chan[v] EXCEPT
                !.buf = IF v \in told THEN Offer(chan[v].buf, evs) ELSE chan[v].buf,
                !.phase = IF v # w THEN chan[v].phase
                          ELSE IF chan[v].phase = "announcing" THEN "streaming" ELSE "done"]
        BY <2>2 DEF Announce
      <4>2. chan[v] \in ChanType
        BY DEF TypeOK
      <4> QED BY <4>1, <4>2 DEF ChanType
    <3>2. chan[w].phase # "idle" /\ UNCHANGED ask
      BY <2>2 DEF Announce
    <3> QED BY <3>1, <3>2 DEF Wiring
  <2>3. CASE Receive(w)
    <3>1. ASSUME NEW v \in Watchers
          PROVE  /\ chan'[v].phase = chan[v].phase
                 /\ chan'[v].session = chan[v].session
                 /\ chan'[v].open = chan[v].open
      BY <2>3 DEF Receive, TypeOK, ChanType
    <3> QED BY <2>3, <3>1 DEF Receive, Wiring
  <2>4. CASE StreamOver(w)
    BY <2>4 DEF StreamOver, Wiring, TypeOK, ChanType
  <2>5. CASE Cancel(w)
    <3>1. ASSUME NEW v \in Watchers
          PROVE  /\ chan'[v].session = chan[v].session
                 /\ v # w => chan'[v] = chan[v]
                 /\ chan'[w].phase # "idle"
      BY <2>5 DEF Cancel, TypeOK, ChanType
    <3> QED BY <2>5, <3>1 DEF Cancel, Wiring
  <2> QED BY <2>1, <2>2, <2>3, <2>4, <2>5
<1>4. CASE AskNext
  <2> PICK r \in Requests :
        \/ \E s \in Sessions : Ask(r, s)
        \/ AskSent(r) \/ AskAnswered(r) \/ AskTimeout(r) \/ AskLeaves(r)
    BY <1>4 DEF AskNext
  <2>1. ASSUME NEW s \in Sessions, Ask(r, s)
        PROVE  Wiring'
    <3>1. /\ \A q \in Requests : q # r => ask'[q] = ask[q]
          /\ ask'[r].pc = "sending" => ask'[r].session = s
          /\ ask'[r].pc \in {"sending", "done"}
      <4>1. ask \in [Requests -> AskType]
        BY DEF TypeOK
      <4>2. \/ ask' = [ask EXCEPT ![r].pc = "done", ![r].result = "no session"]
            \/ ask' = [ask EXCEPT ![r].pc = "done", ![r].result = "gone"]
            \/ ask' = [ask EXCEPT ![r].pc = "sending", ![r].session = s]
        BY <2>1 DEF Ask
      <4>3. ASSUME NEW res \in {"no session", "gone"},
                   ask' = [ask EXCEPT ![r].pc = "done", ![r].result = res]
            PROVE  /\ \A q \in Requests : q # r => ask'[q] = ask[q]
                   /\ ask'[r].pc = "done"
        BY <4>1, <4>3 DEF AskType
      <4>4. ASSUME ask' = [ask EXCEPT ![r].pc = "sending", ![r].session = s]
            PROVE  /\ \A q \in Requests : q # r => ask'[q] = ask[q]
                   /\ ask'[r].pc = "sending"
                   /\ ask'[r].session = s
        BY <4>1, <4>4 DEF AskType
      <4> QED BY <4>2, <4>3, <4>4
    <3> QED BY <2>1, <3>1 DEF Ask, Wiring
  <2>2. CASE AskSent(r) \/ AskAnswered(r) \/ AskTimeout(r) \/ AskLeaves(r)
    <3> DEFINE Kept == /\ \A q \in Requests : q # r => ask'[q] = ask[q]
                       /\ ask'[r].session = ask[r].session
                       /\ ask[r].pc \in {"sending", "waiting", "leaving"}
                       /\ UNCHANGED chan
    <3>1. ASSUME AskSent(r) PROVE Kept
      <4>1. \/ ask' = [ask EXCEPT ![r].pc = "waiting"]
            \/ ask' = [ask EXCEPT ![r].pc = "leaving", ![r].result = "gone"]
        BY <3>1 DEF AskSent
      <4>2. ask[r].pc = "sending" /\ UNCHANGED chan /\ ask \in [Requests -> AskType]
        BY <3>1 DEF AskSent, TypeOK
      <4>3. CASE ask' = [ask EXCEPT ![r].pc = "waiting"]
        BY <4>2, <4>3 DEF AskType
      <4>4. CASE ask' = [ask EXCEPT ![r].pc = "leaving", ![r].result = "gone"]
        BY <4>2, <4>4 DEF AskType
      <4> QED BY <4>1, <4>3, <4>4
    <3>2. ASSUME AskAnswered(r) PROVE Kept
      BY <3>2 DEF AskAnswered, TypeOK, AskType
    <3>3. ASSUME AskTimeout(r) PROVE Kept
      BY <3>3 DEF AskTimeout, TypeOK, AskType
    <3>4. ASSUME AskLeaves(r) PROVE Kept
      BY <3>4 DEF AskLeaves, TypeOK, AskType
    <3>5. Kept
      BY <2>2, <3>1, <3>2, <3>3, <3>4
    <3> QED BY <3>5 DEF Wiring
  <2> QED BY <2>1, <2>2
<1>5. CASE Tick \/ UNCHANGED vars
  BY <1>5 DEF Tick, vars, Wiring
<1> QED BY <1>1, <1>2, <1>3, <1>4, <1>5 DEF Next

\* Every variable of the hub keeps its type: a session's ring holds numbers, a
\* watcher's queue events, a gap is never negative.
THEOREM TypeCorrect == Spec => [](TypeOK /\ Wiring)
<1>1. Init => TypeOK /\ Wiring
  BY BlankType, EmptySeq
  DEF Init, TypeOK, Wiring, ChanType, HeardType, AskType
<1>2. TypeOK /\ Wiring /\ [Next]_vars => (TypeOK /\ Wiring)'
  <2> SUFFICES ASSUME TypeOK, Wiring, [Next]_vars
               PROVE  TypeOK' /\ Wiring'
    OBVIOUS
  <2>1. ASSUME Tick \/ UNCHANGED vars
        PROVE  TypeOK'
    BY <2>1 DEF Tick, vars, TypeOK
  <2>2. TypeOK'
    BY <2>1, PairingTypes, DeviceTypes, WatchTypes, AskTypes DEF Next
  <2> QED BY <2>2, WiringStep
<1> QED BY <1>1, <1>2, PTL DEF Spec

----------------------------------------------------------------------------
(* Pairing codes.                                                          *)

\* Frames, answers, watchers and questions leave a session's life and code alone.
LEMMA LifeKept ==
  ASSUME TypeOK, Wiring,
         \/ \E s \in Sessions :
              \/ AttachDevice(s) \/ Touch(s)
              \/ \E n \in 1..MaxBatch : Publish(s, n)
              \/ \E r \in Requests : Deliver(s, r)
         \/ WatchNext \/ AskNext \/ Tick \/ UNCHANGED vars
  PROVE  /\ \A s \in Sessions : /\ sess'[s].state = sess[s].state
                                /\ sess'[s].code = sess[s].code
         /\ UNCHANGED byCode
<1> DEFINE Same == \A t \in Sessions : /\ sess'[t].state = sess[t].state
                                       /\ sess'[t].code = sess[t].code
<1>0. sess \in [Sessions -> SessionType]
  BY DEF TypeOK
<1>a. ASSUME NEW s \in Sessions, NEW x, sess' = [sess EXCEPT ![s] = x],
             x.state = sess[s].state, x.code = sess[s].code
      PROVE  Same
  BY <1>0, <1>a
<1>1. ASSUME NEW s \in Sessions,
             \/ AttachDevice(s) \/ Touch(s)
             \/ \E n \in 1..MaxBatch : Publish(s, n)
             \/ \E r \in Requests : Deliver(s, r)
      PROVE  Same /\ UNCHANGED byCode
  <2>1. CASE AttachDevice(s)
    BY <1>0, <2>1 DEF AttachDevice, SessionType
  <2>2. CASE Touch(s)
    BY <1>0, <2>2 DEF Touch, SessionType
  <2>3. ASSUME NEW n \in 1..MaxBatch, Publish(s, n)
        PROVE  Same /\ UNCHANGED byCode
    <3> DEFINE x(a, ring, b) ==
                 [sess[s] EXCEPT !.lastSeen = now, !.seq = a, !.recent = ring, !.dropped = b]
               a0 == sess[s].seq + n
               ring0 == SubSeq(Remembered(s, n), 1 + Overflow(s, n), Len(sess[s].recent) + n)
               b0 == sess[s].dropped + Overflow(s, n)
    <3>1. sess' = [sess EXCEPT ![s] = x(a0, ring0, b0)]
      BY <1>0, <2>3, Zenon DEF Publish
    <3>2. ASSUME NEW a, NEW ring, NEW b
          PROVE  x(a, ring, b).state = sess[s].state /\ x(a, ring, b).code = sess[s].code
      BY <1>0 DEF SessionType
    <3>3. /\ x(a0, ring0, b0).state = sess[s].state
          /\ x(a0, ring0, b0).code = sess[s].code
      <4> HIDE DEF x, a0, ring0, b0
      <4> QED BY <3>2
    <3>4. Same
      <4> HIDE DEF x, a0, ring0, b0, Same
      <4> QED BY <1>a, <3>1, <3>3
    <3> QED BY <2>3, <3>4 DEF Publish
  <2>4. ASSUME NEW r \in Requests, Deliver(s, r)
        PROVE  Same /\ UNCHANGED byCode
    BY <1>0, <2>4 DEF Deliver, SessionType
  <2> QED BY <1>1, <2>1, <2>2, <2>3, <2>4
<1>b. ASSUME NEW s \in Sessions, NEW a, NEW b,
             sess' = [sess EXCEPT ![s].watchers = a, ![s].count = b]
      PROVE  Same
  <2> DEFINE x == [sess[s] EXCEPT !.watchers = a, !.count = b]
  <2>1. sess' = [sess EXCEPT ![s] = x]
    BY <1>0, <1>b, Zenon
  <2>2. x.state = sess[s].state /\ x.code = sess[s].code
    BY <1>0 DEF SessionType
  <2> HIDE DEF x, Same
  <2> QED BY <1>a, <2>1, <2>2
<1>2. CASE WatchNext
  <2> PICK w \in Watchers :
        \/ \E s \in Sessions, after \in 0..MaxSeq : Watch(w, s, after)
        \/ Announce(w) \/ Receive(w) \/ StreamOver(w) \/ Cancel(w)
    BY <1>2 DEF WatchNext
  <2>1. ASSUME NEW s \in Sessions, NEW after \in 0..MaxSeq, Watch(w, s, after)
        PROVE  Same /\ UNCHANGED byCode
    <3> HIDE DEF Same
    <3>1. sess' = [sess EXCEPT ![s].watchers = sess[s].watchers \cup {w},
                               ![s].count = Cardinality(sess[s].watchers \cup {w})]
      BY <1>0, <2>1, Zenon DEF Watch
    <3>2. Same
      BY <1>b, <3>1
    <3> QED BY <2>1, <3>2 DEF Watch, Same
  <2>2. CASE Announce(w) \/ Receive(w) \/ StreamOver(w)
    BY <2>2 DEF Announce, Receive, StreamOver
  <2>3. CASE Cancel(w)
    <3>1. CASE w \notin sess[chan[w].session].watchers
      BY <2>3, <3>1 DEF Cancel
    <3>2. CASE w \in sess[chan[w].session].watchers
      <4> DEFINE s == chan[w].session
      <4> HIDE DEF Same
      <4>1. s \in Sessions
        BY <2>3 DEF Cancel, Wiring
      <4>2. sess' = [sess EXCEPT ![s].watchers = sess[s].watchers \ {w},
                                 ![s].count = Cardinality(sess[s].watchers \ {w})]
        BY <1>0, <2>3, <3>2, <4>1, Zenon DEF Cancel
      <4>3. Same
        <5> HIDE DEF s
        <5> QED BY <1>b, <4>1, <4>2
      <4> QED BY <2>3, <4>3 DEF Cancel, Same
    <3> QED BY <3>1, <3>2
  <2> QED BY <2>1, <2>2, <2>3
<1>3. CASE AskNext
  <2> PICK r \in Requests :
        \/ \E s \in Sessions : Ask(r, s)
        \/ AskSent(r) \/ AskAnswered(r) \/ AskTimeout(r) \/ AskLeaves(r)
    BY <1>3 DEF AskNext
  <2>1. ASSUME NEW s \in Sessions, Ask(r, s)
        PROVE  Same /\ UNCHANGED byCode
    <3>1. CASE UNCHANGED sess
      BY <2>1, <3>1 DEF Ask
    <3>2. CASE sess' = [sess EXCEPT ![s].pending = @ \cup {r}]
      <4>1. Same
        BY <1>0, <3>2 DEF SessionType
      <4> QED BY <2>1, <4>1 DEF Ask
    <3> QED BY <2>1, <3>1, <3>2 DEF Ask
  <2>2. CASE AskSent(r) \/ AskAnswered(r) \/ AskTimeout(r)
    BY <2>2 DEF AskSent, AskAnswered, AskTimeout
  <2>3. CASE AskLeaves(r)
    <3>1. ask[r].session \in Sessions
      BY <2>3 DEF AskLeaves, Wiring
    <3> QED BY <1>0, <2>3, <3>1 DEF AskLeaves, SessionType
  <2> QED BY <2>1, <2>2, <2>3
<1>4. CASE Tick \/ UNCHANGED vars
  <2>1. UNCHANGED sess /\ UNCHANGED byCode
    BY <1>4 DEF Tick, vars
  <2> QED BY <2>1
<1> QED BY <1>1, <1>2, <1>3, <1>4

\* Sweeping keeps the sessions that codes still name.
LEMMA SweptCodesName ==
  ASSUME TypeOK, CodesNameWaitingSessions, NEW E \in SUBSET Sessions,
         NEW c \in Codes, CodesAfterEnd(E)[c] # None
  PROVE  /\ CodesAfterEnd(E)[c] = byCode[c]
         /\ byCode[c] \in Sessions \ E
         /\ sess[byCode[c]].state = "waiting"
         /\ sess[byCode[c]].code = c
BY DEF CodesAfterEnd, TypeOK, CodesNameWaitingSessions

LEMMA CodesStep ==
  ASSUME TypeOK, Wiring, CodesNameWaitingSessions, [Next]_vars
  PROVE  CodesNameWaitingSessions'
<1>0. Overdue \in SUBSET Sessions
  BY DEF Overdue
<1>a. ASSUME NEW c \in Codes, SweptCodes[c] # None
      PROVE  /\ SweptCodes[c] \in Sessions
             /\ SweptSessions[SweptCodes[c]] = sess[SweptCodes[c]]
             /\ sess[SweptCodes[c]].state = "waiting"
             /\ sess[SweptCodes[c]].code = c
  <2>1. /\ SweptCodes[c] = byCode[c]
        /\ byCode[c] \in Sessions \ Overdue
        /\ sess[byCode[c]].state = "waiting"
        /\ sess[byCode[c]].code = c
    BY <1>0, <1>a, SweptCodesName DEF SweptCodes
  <2> QED BY <2>1 DEF SweptSessions, Lapsed
<1>b. ASSUME NEW E \in SUBSET Sessions, EndLocked(E)
      PROVE  CodesNameWaitingSessions'
  <2> SUFFICES ASSUME NEW c \in Codes, byCode'[c] # None
               PROVE  /\ sess'[byCode'[c]].state = "waiting"
                      /\ sess'[byCode'[c]].code = c
    BY DEF CodesNameWaitingSessions
  <2>1. /\ byCode'[c] = byCode[c]
        /\ byCode[c] \in Sessions \ E
        /\ sess[byCode[c]].state = "waiting"
        /\ sess[byCode[c]].code = c
    BY <1>b, SweptCodesName DEF EndLocked
  <2> QED BY <1>b, <2>1 DEF EndLocked
<1>1. CASE Sweep
  BY <1>1, <1>a DEF Sweep, CodesNameWaitingSessions
<1>2. ASSUME NEW p \in Projects, NEW s \in Sessions, NEW c \in Codes, Mint(p, s, c)
      PROVE  CodesNameWaitingSessions'
  <2> SUFFICES ASSUME NEW d \in Codes, byCode'[d] # None
               PROVE  /\ sess'[byCode'[d]].state = "waiting"
                      /\ sess'[byCode'[d]].code = d
    BY DEF CodesNameWaitingSessions
  <2>1. SweptSessions \in [Sessions -> SessionType]
        /\ SweptCodes \in [Codes -> Sessions \cup {None}]
    BY <1>0, SweptType, CodesAfterEndType DEF SweptCodes
  <2>2. CASE d = c
    <3>1. Minted(p, c).state = "waiting" /\ Minted(p, c).code = c
      BY DEF Minted, Blank
    <3> QED BY <1>2, <2>1, <2>2, <3>1 DEF Mint
  <2>3. CASE d # c
    <3>1. byCode'[d] = SweptCodes[d]
      BY <1>2, <2>1, <2>3 DEF Mint
    <3>2. SweptCodes[d] # s /\ SweptCodes[d] \in Sessions
      BY <1>2, <1>a, <3>1 DEF Mint
    <3>3. sess'[SweptCodes[d]] = SweptSessions[SweptCodes[d]]
      BY <1>2, <2>1, <3>2 DEF Mint
    <3> QED BY <1>a, <3>1, <3>3
  <2> QED BY <2>2, <2>3
<1>3. ASSUME NEW p \in Projects, NEW c \in Codes, Claim(p, c)
      PROVE  CodesNameWaitingSessions'
  <2> SUFFICES ASSUME NEW d \in Codes, byCode'[d] # None
               PROVE  /\ sess'[byCode'[d]].state = "waiting"
                      /\ sess'[byCode'[d]].code = d
    BY DEF CodesNameWaitingSessions
  <2> DEFINE s == SweptCodes[c]
  <2>1. SweptSessions \in [Sessions -> SessionType]
        /\ SweptCodes \in [Codes -> Sessions \cup {None}]
    BY <1>0, SweptType, CodesAfterEndType DEF SweptCodes
  <2>2. s \in Sessions /\ SweptSessions[s].code = c
    BY <1>3, <1>a DEF Claim
  <2>3. d # c /\ byCode'[d] = SweptCodes[d]
    BY <1>3, <2>1, <2>2 DEF Claim
  <2>4. SweptCodes[d] # s /\ SweptCodes[d] \in Sessions
    BY <1>a, <2>2, <2>3
  <2>5. sess'[SweptCodes[d]] = SweptSessions[SweptCodes[d]]
    BY <1>3, <2>1, <2>4 DEF Claim
  <2> QED BY <1>a, <2>3, <2>5
<1>4. ASSUME NEW s \in Sessions, End(s)
      PROVE  CodesNameWaitingSessions'
  BY <1>4, <1>b DEF End
<1>5. CASE Close
  BY <1>5, <1>b DEF Close
<1>6. ASSUME NEW s \in Sessions, DeviceLeaves(s)
      PROVE  CodesNameWaitingSessions'
  <2>1. CASE Live(s)
    BY <1>6, <1>b, <2>1 DEF DeviceLeaves
  <2>2. CASE ~Live(s)
    BY <1>6, <2>2 DEF DeviceLeaves, CodesNameWaitingSessions
  <2> QED BY <2>1, <2>2
<1>7. CASE \/ \E s \in Sessions :
                \/ AttachDevice(s) \/ Touch(s)
                \/ \E n \in 1..MaxBatch : Publish(s, n)
                \/ \E r \in Requests : Deliver(s, r)
           \/ WatchNext \/ AskNext \/ Tick \/ UNCHANGED vars
  <2>1. /\ \A s \in Sessions : /\ sess'[s].state = sess[s].state
                               /\ sess'[s].code = sess[s].code
        /\ UNCHANGED byCode
    BY <1>7, LifeKept
  <2> QED BY <2>1 DEF CodesNameWaitingSessions, TypeOK
<1> QED BY <1>1, <1>2, <1>3, <1>4, <1>5, <1>6, <1>7 DEF Next, PairingNext, DeviceNext

\* A pairing code in circulation always belongs to one session, which is still
\* waiting under that code: claiming, expiring and ending take it out, and no
\* interleaving of sweeps, claims and ends leaves a used code behind.
THEOREM CodesSafe == Spec => []CodesNameWaitingSessions
<1>1. Init => CodesNameWaitingSessions
  BY DEF Init, CodesNameWaitingSessions
<1>2. TypeOK /\ Wiring /\ CodesNameWaitingSessions /\ [Next]_vars
        => CodesNameWaitingSessions'
  BY CodesStep
<1> QED BY <1>1, <1>2, TypeCorrect, PTL DEF Spec

----------------------------------------------------------------------------
(* The end of a session.                                                   *)

\* What a step may do to a session that has ended: the formula of EndIsFinal.
StaysEnded(s) ==
  \/ sess'[s].state = "forgotten"
  \/ /\ sess'[s].state = "ended"
     /\ sess'[s].seq = sess[s].seq
     /\ sess'[s].recent = sess[s].recent

\* A sweep ends it no second time; it may forget it.
LEMMA SweptEnd ==
  ASSUME TypeOK, NEW s \in Sessions, sess[s].state = "ended"
  PROVE  \/ SweptSessions[s] = sess[s]
         \/ SweptSessions[s].state = "forgotten"
<1>1. s \notin Overdue
  BY DEF Overdue, Expired, Idle
<1> QED BY <1>1 DEF SweptSessions, Blank

LEMMA EndStep ==
  ASSUME TypeOK, Wiring, [Next]_vars, NEW s \in Sessions, sess[s].state = "ended"
  PROVE  StaysEnded(s)
<1>0. sess \in [Sessions -> SessionType] /\ ~Live(s)
  BY DEF TypeOK, Live, LiveStates
<1>a. ASSUME sess'[s] = sess[s]
      PROVE  StaysEnded(s)
  BY <1>a DEF StaysEnded
<1>b. ASSUME SweptSessions[s] = sess'[s]
      PROVE  StaysEnded(s)
  BY <1>b, SweptEnd DEF StaysEnded
<1>c. ASSUME NEW E \in SUBSET {t \in Sessions : Live(t)}, EndLocked(E)
      PROVE  StaysEnded(s)
  BY <1>0, <1>a, <1>c DEF EndLocked
<1>d. ASSUME NEW t \in Sessions, NEW x, sess' = [sess EXCEPT ![t] = x],
             x.state = sess[t].state, x.seq = sess[t].seq, x.recent = sess[t].recent
      PROVE  StaysEnded(s)
  BY <1>0, <1>d DEF StaysEnded
<1>1. CASE Sweep
  BY <1>1, <1>b DEF Sweep
<1>2. ASSUME NEW p \in Projects, NEW t \in Sessions, NEW c \in Codes, Mint(p, t, c)
      PROVE  StaysEnded(s)
  <2>1. t # s
    BY <1>2 DEF Mint
  <2> QED BY <1>2, <1>b, <2>1, SweptType DEF Mint
<1>3. ASSUME NEW p \in Projects, NEW c \in Codes, Claim(p, c)
      PROVE  StaysEnded(s)
  <2> DEFINE t == SweptCodes[c]
  <2>1. SweptSessions[t].state = "waiting"
    BY <1>3 DEF Claim, Claimable
  <2>2. t # s
    BY <2>1, SweptEnd
  <2>3. sess'[s] = SweptSessions[s]
    BY <1>3, <2>2, SweptType DEF Claim
  <2> QED BY <1>b, <2>3
<1>4. ASSUME NEW t \in Sessions, End(t) \/ DeviceLeaves(t)
      PROVE  StaysEnded(s)
  <2>1. CASE Live(t)
    BY <1>4, <1>c, <2>1 DEF End, DeviceLeaves
  <2>2. CASE ~Live(t)
    BY <1>4, <1>a, <2>2 DEF End, DeviceLeaves
  <2> QED BY <2>1, <2>2
<1>5. CASE Close
  BY <1>5, <1>c DEF Close
<1>6. ASSUME NEW t \in Sessions, AttachDevice(t) \/ Touch(t)
      PROVE  StaysEnded(s)
  <2>1. CASE AttachDevice(t)
    <3> DEFINE x == [sess[t] EXCEPT !.attached = sess[t].attached \/ Present(t)]
    <3>1. sess' = [sess EXCEPT ![t] = x]
      BY <1>0, <2>1, Zenon DEF AttachDevice
    <3>2. /\ x.state = sess[t].state /\ x.seq = sess[t].seq
          /\ x.recent = sess[t].recent
      BY <1>0 DEF SessionType
    <3> HIDE DEF x
    <3> QED BY <1>d, <3>1, <3>2
  <2>2. CASE Touch(t)
    <3> DEFINE x == [sess[t] EXCEPT !.lastSeen = now]
    <3>1. sess' = [sess EXCEPT ![t] = x]
      BY <1>0, <2>2, Zenon DEF Touch
    <3>2. /\ x.state = sess[t].state /\ x.seq = sess[t].seq
          /\ x.recent = sess[t].recent
      BY <1>0 DEF SessionType
    <3> HIDE DEF x
    <3> QED BY <1>d, <3>1, <3>2
  <2> QED BY <1>6, <2>1, <2>2
<1>7. ASSUME NEW t \in Sessions,
             \/ \E n \in 1..MaxBatch : Publish(t, n)
             \/ \E r \in Requests : Deliver(t, r)
      PROVE  StaysEnded(s)
  <2>1. t # s
    BY <1>0, <1>7 DEF Publish, Deliver
  <2>2. sess'[s] = sess[s]
    BY <1>0, <1>7, <2>1 DEF Publish, Deliver
  <2> QED BY <1>a, <2>2
<1>8. CASE WatchNext
  <2> PICK w \in Watchers :
        \/ \E t \in Sessions, after \in 0..MaxSeq : Watch(w, t, after)
        \/ Announce(w) \/ Receive(w) \/ StreamOver(w) \/ Cancel(w)
    BY <1>8 DEF WatchNext
  <2>1. ASSUME NEW t \in Sessions, NEW after \in 0..MaxSeq, Watch(w, t, after)
        PROVE  StaysEnded(s)
    <3>1. t # s
      BY <1>0, <2>1 DEF Watch
    <3>2. sess'[s] = sess[s]
      BY <1>0, <2>1, <3>1 DEF Watch
    <3> QED BY <1>a, <3>2
  <2>2. CASE Announce(w) \/ Receive(w) \/ StreamOver(w)
    BY <1>a, <2>2 DEF Announce, Receive, StreamOver
  <2>3. CASE Cancel(w)
    <3>1. CASE w \notin sess[chan[w].session].watchers
      BY <1>a, <2>3, <3>1 DEF Cancel
    <3>2. CASE w \in sess[chan[w].session].watchers
      <4> DEFINE t == chan[w].session
                 x == [sess[t] EXCEPT !.watchers = sess[t].watchers \ {w},
                                      !.count = Cardinality(sess[t].watchers \ {w})]
      <4>1. t \in Sessions
        BY <2>3 DEF Cancel, Wiring
      <4>2. sess' = [sess EXCEPT ![t] = x]
        BY <1>0, <2>3, <3>2, <4>1, Zenon DEF Cancel
      <4>3. /\ x.state = sess[t].state /\ x.seq = sess[t].seq
            /\ x.recent = sess[t].recent
        BY <1>0, <4>1 DEF SessionType
      <4> HIDE DEF x, t
      <4> QED BY <1>d, <4>1, <4>2, <4>3
    <3> QED BY <3>1, <3>2
  <2> QED BY <2>1, <2>2, <2>3
<1>9. CASE AskNext
  <2> PICK r \in Requests :
        \/ \E t \in Sessions : Ask(r, t)
        \/ AskSent(r) \/ AskAnswered(r) \/ AskTimeout(r) \/ AskLeaves(r)
    BY <1>9 DEF AskNext
  <2>1. ASSUME NEW t \in Sessions, Ask(r, t)
        PROVE  StaysEnded(s)
    <3>1. CASE UNCHANGED sess
      BY <1>a, <3>1
    <3>2. CASE Live(t) /\ sess' = [sess EXCEPT ![t].pending = @ \cup {r}]
      <4>1. sess'[s] = sess[s]
        BY <1>0, <3>2
      <4> QED BY <1>a, <4>1
    <3> QED BY <2>1, <3>1, <3>2 DEF Ask
  <2>2. CASE AskSent(r) \/ AskAnswered(r) \/ AskTimeout(r)
    BY <1>a, <2>2 DEF AskSent, AskAnswered, AskTimeout
  <2>3. CASE AskLeaves(r)
    <3>1. ask[r].session \in Sessions
      BY <2>3 DEF AskLeaves, Wiring
    <3>2. sess'[s].state = "ended" /\ sess'[s].seq = sess[s].seq
          /\ sess'[s].recent = sess[s].recent
      BY <1>0, <2>3, <3>1 DEF AskLeaves, SessionType
    <3> QED BY <3>2 DEF StaysEnded
  <2> QED BY <2>1, <2>2, <2>3
<1>10. CASE Tick \/ UNCHANGED vars
  BY <1>10, <1>a DEF Tick, vars
<1> QED BY <1>1, <1>2, <1>3, <1>4, <1>5, <1>6, <1>7, <1>8, <1>9, <1>10
        DEF Next, PairingNext, DeviceNext

\* A session that is over stays over, whatever frame, answer, attach or sweep was
\* on its way: it streams nothing more and is forgotten at most.
THEOREM EndSafe == Spec => EndIsFinal
<1>1. TypeOK /\ Wiring /\ [Next]_vars
        => [\A s \in Sessions : sess[s].state = "ended" => StaysEnded(s)]_vars
  BY EndStep
<1> QED BY <1>1, TypeCorrect, PTL DEF Spec, EndIsFinal, StaysEnded

----------------------------------------------------------------------------
(* Questions and watchers.                                                 *)

\* What pairing, the end of a session and a sweep do to a session: the live
\* sessions of E end; of the others an ended one may be forgotten, one minted or
\* one claimed, and what is asked, watched and streamed stays.
NothingLeft(t) ==
  sess'[t].pending = {} /\ sess'[t].watchers = {} /\ sess'[t].count = 0

Ends(t) ==
  /\ sess[t].state \in LiveStates /\ sess'[t].state = "ended"
  /\ sess'[t].seq = sess[t].seq + 1
  /\ NothingLeft(t)

Forgotten(t) ==
  sess[t].state = "ended" /\ sess'[t].state = "forgotten" /\ NothingLeft(t)

Begins(t) ==
  /\ sess[t].state = "unminted" /\ sess'[t].state = "waiting"
  /\ sess'[t].seq = 0 /\ sess'[t].recent = <<>>
  /\ NothingLeft(t)

Carries(t) ==
  /\ \/ sess'[t].state = sess[t].state
     \/ sess[t].state = "waiting" /\ sess'[t].state = "connected"
  /\ sess'[t].pending = sess[t].pending
  /\ sess'[t].watchers = sess[t].watchers /\ sess'[t].count = sess[t].count
  /\ sess'[t].seq = sess[t].seq /\ sess'[t].recent = sess[t].recent

EndsOrKeeps(E) ==
  \A t \in Sessions :
    IF t \in E THEN Ends(t) ELSE Forgotten(t) \/ Begins(t) \/ Carries(t)

LEMMA EndedFields ==
  ASSUME NEW r \in SessionType
  PROVE  /\ EndedSession(r).pending = {} /\ EndedSession(r).watchers = {}
         /\ EndedSession(r).count = 0
         /\ EndedSession(r).state = "ended" /\ EndedSession(r).seq = r.seq + 1
BY DEF EndedSession, SessionType

LEMMA SweptEndsOrKeeps ==
  ASSUME TypeOK, NEW t \in Sessions
  PROVE  \/ /\ t \in Overdue /\ sess[t].state \in LiveStates
            /\ SweptSessions[t] = EndedSession(sess[t])
         \/ /\ t \notin Overdue /\ sess[t].state = "ended"
            /\ SweptSessions[t] = [Blank EXCEPT !.state = "forgotten"]
         \/ t \notin Overdue /\ SweptSessions[t] = sess[t]
BY DEF SweptSessions, Overdue, Expired, Idle, Lapsed, LiveStates

\* A sweep that puts nothing on top of what it swept.
LEMMA SweptStep ==
  ASSUME TypeOK, NEW t \in Sessions, sess'[t] = SweptSessions[t]
  PROVE  IF t \in Overdue THEN Ends(t) ELSE Forgotten(t) \/ Carries(t)
<1>1. sess[t] \in SessionType
  BY DEF TypeOK
<1>2. CASE t \in Overdue /\ sess[t].state \in LiveStates
           /\ SweptSessions[t] = EndedSession(sess[t])
  BY <1>1, <1>2, EndedFields DEF Ends, NothingLeft
<1>3. CASE t \notin Overdue /\ sess[t].state = "ended"
           /\ SweptSessions[t] = [Blank EXCEPT !.state = "forgotten"]
  BY <1>3 DEF Forgotten, NothingLeft, Blank
<1>4. CASE t \notin Overdue /\ SweptSessions[t] = sess[t]
  BY <1>4 DEF Carries
<1> QED BY <1>2, <1>3, <1>4, SweptEndsOrKeeps

LEMMA EndingEffect ==
  ASSUME TypeOK, PairingNext \/ \E s \in Sessions : DeviceLeaves(s) /\ Live(s)
  PROVE  \E E \in SUBSET Sessions :
           EndsOrKeeps(E) /\ WatchersAfterEnd(E) /\ ask' = AsksAfterEnd(E)
<1>0. Overdue \in SUBSET Sessions
  BY DEF Overdue
<1>a. sess \in [Sessions -> SessionType]
  BY DEF TypeOK
<1>b. ASSUME NEW E \in SUBSET Sessions, EndLocked(E), \A t \in E : Live(t)
      PROVE  EndsOrKeeps(E) /\ WatchersAfterEnd(E) /\ ask' = AsksAfterEnd(E)
  <2>1. ASSUME NEW t \in Sessions
        PROVE  sess'[t] = IF t \in E THEN EndedSession(sess[t]) ELSE sess[t]
    BY <1>b DEF EndLocked
  <2>2. ASSUME NEW t \in Sessions
        PROVE  IF t \in E THEN Ends(t) ELSE Carries(t)
    BY <1>a, <1>b, <2>1, EndedFields DEF Ends, Carries, NothingLeft, Live
  <2> QED BY <1>b, <2>2 DEF EndLocked, EndsOrKeeps
<1>1. CASE Sweep
  <2>1. EndsOrKeeps(Overdue)
    BY <1>1, SweptStep DEF Sweep, EndsOrKeeps
  <2> QED BY <1>0, <1>1, <2>1 DEF Sweep, SweepEffects
<1>2. ASSUME NEW p \in Projects, NEW s \in Sessions, NEW c \in Codes, Mint(p, s, c)
      PROVE  EndsOrKeeps(Overdue) /\ SweepEffects
  <2>1. /\ Minted(p, c).pending = {} /\ Minted(p, c).watchers = {}
        /\ Minted(p, c).count = 0 /\ Minted(p, c).state = "waiting"
        /\ Minted(p, c).seq = 0 /\ Minted(p, c).recent = <<>>
    BY DEF Minted, Blank
  <2>2. \A t \in Sessions :
          sess'[t] = IF t = s THEN Minted(p, c) ELSE SweptSessions[t]
    BY <1>2, SweptType DEF Mint
  <2>3. sess[s].state = "unminted" /\ s \notin Overdue
    BY <1>2 DEF Mint, Overdue, Expired, Idle
  <2>a. Begins(s)
    BY <2>1, <2>2, <2>3 DEF Begins, NothingLeft
  <2>4. EndsOrKeeps(Overdue)
    BY <2>2, <2>3, <2>a, SweptStep DEF EndsOrKeeps
  <2> QED BY <1>2, <2>4 DEF Mint
<1>3. ASSUME NEW p \in Projects, NEW c \in Codes, Claim(p, c)
      PROVE  EndsOrKeeps(Overdue) /\ SweepEffects
  <2> DEFINE s == SweptCodes[c]
             x == [SweptSessions[s] EXCEPT !.state = "connected", !.lastSeen = now]
  <2>1. s \in Sessions
    BY <1>0, <1>3, CodesAfterEndType DEF Claim, SweptCodes
  <2>2. SweptSessions[s] \in SessionType
    BY <2>1, SweptType
  <2>3. sess' = [SweptSessions EXCEPT ![s] = x]
    BY <1>3, <2>1, SweptType DEF Claim
  <2>4. /\ x.pending = SweptSessions[s].pending
        /\ x.watchers = SweptSessions[s].watchers
        /\ x.count = SweptSessions[s].count
        /\ x.seq = SweptSessions[s].seq /\ x.recent = SweptSessions[s].recent
        /\ x.state = "connected"
    BY <2>2 DEF SessionType
  <2>b. SweptSessions[s].state = "waiting"
    BY <1>3 DEF Claim, Claimable
  <2> HIDE DEF x, s
  <2>5. \A t \in Sessions : sess'[t] = IF t = s THEN x ELSE SweptSessions[t]
    BY <2>1, <2>3, SweptType
  <2>c. s \notin Overdue /\ Carries(s)
    <3>1. sess[s] \in SessionType
      BY <1>a, <2>1
    <3>2. s \notin Overdue /\ SweptSessions[s] = sess[s]
      BY <2>1, <2>b, <3>1, EndedFields, SweptEndsOrKeeps DEF Blank
    <3> QED BY <2>1, <2>4, <2>5, <2>b, <3>2 DEF Carries
  <2>6. EndsOrKeeps(Overdue)
    BY <2>1, <2>5, <2>c, SweptStep DEF EndsOrKeeps
  <2> QED BY <1>3, <2>6 DEF Claim
<1>4. CASE EndsOrKeeps(Overdue) /\ SweepEffects
  BY <1>0, <1>4 DEF SweepEffects
<1>5. ASSUME NEW s \in Sessions, End(s) \/ (DeviceLeaves(s) /\ Live(s))
      PROVE  EndLocked({s}) /\ Live(s)
  BY <1>5 DEF End, DeviceLeaves
<1>6. CASE PairingNext
  <2>1. CASE Sweep
    BY <1>0, <1>1, <2>1
  <2>2. CASE \E p \in Projects, s \in Sessions, c \in Codes : Mint(p, s, c)
    BY <1>2, <1>4, <2>2
  <2>3. CASE \E p \in Projects, c \in Codes : Claim(p, c)
    BY <1>3, <1>4, <2>3
  <2>4. CASE \E s \in Sessions : End(s)
    <3>0. PICK s \in Sessions : End(s)
      BY <2>4
    <3>1. EndLocked({s}) /\ {s} \in SUBSET Sessions /\ \A t \in {s} : Live(t)
      BY <3>0 DEF End
    <3> QED BY <1>b, <3>1
  <2>5. CASE Close
    <3>1. PICK E \in SUBSET Sessions : EndLocked(E) /\ \A t \in E : Live(t)
      BY <2>5 DEF Close
    <3> QED BY <1>b, <3>1
  <2> QED BY <1>6, <2>1, <2>2, <2>3, <2>4, <2>5 DEF PairingNext
<1>7. CASE \E s \in Sessions : DeviceLeaves(s) /\ Live(s)
  <2> PICK s \in Sessions : DeviceLeaves(s) /\ Live(s)
    BY <1>7
  <2>1. EndLocked({s}) /\ {s} \in SUBSET Sessions /\ \A t \in {s} : Live(t)
    BY <1>5
  <2> QED BY <1>b, <2>1
<1> QED BY <1>6, <1>7

\* Frames and pings of a device touch neither questions nor watchers.
LEMMA FrameFields ==
  ASSUME TypeOK, NEW s \in Sessions,
         AttachDevice(s) \/ Touch(s) \/ \E n \in 1..MaxBatch : Publish(s, n)
  PROVE  \A t \in Sessions :
           /\ sess'[t].state = sess[t].state /\ sess'[t].pending = sess[t].pending
           /\ sess'[t].watchers = sess[t].watchers /\ sess'[t].count = sess[t].count
<1>0. sess \in [Sessions -> SessionType]
  BY DEF TypeOK
<1>a. ASSUME NEW x, sess' = [sess EXCEPT ![s] = x],
             x.state = sess[s].state, x.pending = sess[s].pending,
             x.watchers = sess[s].watchers, x.count = sess[s].count
      PROVE  \A t \in Sessions :
               /\ sess'[t].state = sess[t].state /\ sess'[t].pending = sess[t].pending
               /\ sess'[t].watchers = sess[t].watchers /\ sess'[t].count = sess[t].count
  BY <1>0, <1>a
<1>1. CASE AttachDevice(s)
  <2> DEFINE x == [sess[s] EXCEPT !.attached = sess[s].attached \/ Present(s)]
  <2>1. sess' = [sess EXCEPT ![s] = x]
    BY <1>0, <1>1, Zenon DEF AttachDevice
  <2>2. /\ x.state = sess[s].state /\ x.pending = sess[s].pending
        /\ x.watchers = sess[s].watchers /\ x.count = sess[s].count
    BY <1>0 DEF SessionType
  <2> HIDE DEF x
  <2> QED BY <1>a, <2>1, <2>2
<1>2. CASE Touch(s)
  <2> DEFINE x == [sess[s] EXCEPT !.lastSeen = now]
  <2>1. sess' = [sess EXCEPT ![s] = x]
    BY <1>0, <1>2, Zenon DEF Touch
  <2>2. /\ x.state = sess[s].state /\ x.pending = sess[s].pending
        /\ x.watchers = sess[s].watchers /\ x.count = sess[s].count
    BY <1>0 DEF SessionType
  <2> HIDE DEF x
  <2> QED BY <1>a, <2>1, <2>2
<1>3. ASSUME NEW n \in 1..MaxBatch, Publish(s, n)
      PROVE  \A t \in Sessions :
               /\ sess'[t].state = sess[t].state /\ sess'[t].pending = sess[t].pending
               /\ sess'[t].watchers = sess[t].watchers /\ sess'[t].count = sess[t].count
  <2> DEFINE x(a, ring, b) ==
               [sess[s] EXCEPT !.lastSeen = now, !.seq = a, !.recent = ring, !.dropped = b]
             a0 == sess[s].seq + n
             ring0 == SubSeq(Remembered(s, n), 1 + Overflow(s, n), Len(sess[s].recent) + n)
             b0 == sess[s].dropped + Overflow(s, n)
  <2>1. sess' = [sess EXCEPT ![s] = x(a0, ring0, b0)]
    BY <1>0, <1>3, Zenon DEF Publish
  <2>2. ASSUME NEW a, NEW ring, NEW b
        PROVE  /\ x(a, ring, b).state = sess[s].state
               /\ x(a, ring, b).pending = sess[s].pending
               /\ x(a, ring, b).watchers = sess[s].watchers
               /\ x(a, ring, b).count = sess[s].count
    BY <1>0 DEF SessionType
  <2>3. /\ x(a0, ring0, b0).state = sess[s].state
        /\ x(a0, ring0, b0).pending = sess[s].pending
        /\ x(a0, ring0, b0).watchers = sess[s].watchers
        /\ x(a0, ring0, b0).count = sess[s].count
    <3> HIDE DEF x, a0, ring0, b0
    <3> QED BY <2>2
  <2> HIDE DEF x, a0, ring0, b0
  <2> QED BY <1>a, <2>1, <2>3
<1> QED BY <1>1, <1>2, <1>3

\* The questions and their answers: the invariant, and that the reply channel of
\* an Ask that has not begun is empty.
Asking ==
  /\ PendingIsTheOpenQuestions
  /\ \A r \in Requests : ask[r].pc = "idle" => ask[r].reply = "empty"

\* Ending sessions closes the reply channels of their questions and of no others.
LEMMA EndingKeepsAsking ==
  ASSUME TypeOK, Wiring, Asking, NEW E \in SUBSET Sessions,
         EndsOrKeeps(E), ask' = AsksAfterEnd(E)
  PROVE  Asking'
<1>1. ASSUME NEW r \in Requests
      PROVE  /\ ask'[r].pc = ask[r].pc /\ ask'[r].session = ask[r].session
             /\ ask'[r].reply = IF \E e \in E : r \in sess[e].pending
                                  THEN "closed" ELSE ask[r].reply
  BY DEF AsksAfterEnd, TypeOK, AskType
<1>2. ASSUME NEW s \in Sessions, NEW r \in Requests, r \in sess'[s].pending
      PROVE  /\ sess'[s].state \in LiveStates
             /\ ask'[r].session = s
             /\ ask'[r].reply = "empty"
             /\ ask'[r].pc \in {"sending", "waiting", "leaving"}
  <2>1. s \notin E /\ r \in sess[s].pending /\ sess'[s].state \in LiveStates
    BY <1>2 DEF EndsOrKeeps, Ends, Forgotten, Begins, Carries, NothingLeft,
                LiveStates, Asking, PendingIsTheOpenQuestions
  <2>2. ~ \E e \in E : r \in sess[e].pending
    BY <2>1 DEF Asking, PendingIsTheOpenQuestions
  <2> QED BY <1>1, <2>1, <2>2 DEF Asking, PendingIsTheOpenQuestions
<1>3. ASSUME NEW r \in Requests,
             ask'[r].pc \in {"sending", "waiting"}, ask'[r].reply = "empty"
      PROVE  r \in sess'[ask'[r].session].pending
  <2> DEFINE s == ask[r].session
  <2>1. /\ ~ \E e \in E : r \in sess[e].pending
        /\ s \in Sessions /\ r \in sess[s].pending
    BY <1>1, <1>3 DEF Asking, PendingIsTheOpenQuestions, Wiring
  <2>2. s \notin E /\ sess[s].state \in LiveStates
    BY <2>1 DEF Asking, PendingIsTheOpenQuestions
  <2>3. sess'[s].pending = sess[s].pending
    BY <2>1, <2>2 DEF EndsOrKeeps, Forgotten, Begins, Carries, LiveStates
  <2> QED BY <1>1, <2>1, <2>3
<1>4. \A r \in Requests : ask'[r].pc = "idle" => ask'[r].reply = "empty"
  BY <1>1 DEF Asking, PendingIsTheOpenQuestions
<1> QED BY <1>2, <1>3, <1>4 DEF Asking, PendingIsTheOpenQuestions

\* Steps that change nothing about the questions.
LEMMA OthersKeepAsking ==
  ASSUME Asking, Wiring, UNCHANGED ask,
         \A t \in Sessions : /\ sess'[t].state = sess[t].state
                             /\ sess'[t].pending = sess[t].pending
  PROVE  Asking'
BY DEF Asking, PendingIsTheOpenQuestions, Wiring

\* An Ask that goes on, and what becomes of its entry in the pending map.
LEMMA AskingOne ==
  ASSUME TypeOK, Wiring, Asking, NEW r \in Requests, NEW s \in Sessions,
         NEW a \in AskType, NEW P \in SUBSET Requests,
         \A q \in Requests : ask'[q] = IF q = r THEN a ELSE ask[q],
         \A t \in Sessions :
           /\ sess'[t].state = sess[t].state
           /\ sess'[t].pending = IF t = s THEN P ELSE sess[t].pending,
         \A q \in Requests \ {r} : q \in P <=> q \in sess[s].pending,
         a.pc \in {"sending", "waiting"} => a.session \in Sessions,
         \A t \in Sessions : r \in sess'[t].pending =>
            /\ sess[t].state \in LiveStates /\ a.session = t
            /\ a.reply = "empty" /\ a.pc \in {"sending", "waiting", "leaving"},
         a.pc \in {"sending", "waiting"} /\ a.reply = "empty" =>
            r \in sess'[a.session].pending,
         a.pc = "idle" => a.reply = "empty"
  PROVE  Asking'
<1>3. ASSUME NEW q \in Requests, NEW t \in Sessions, q # r
      PROVE  q \in sess'[t].pending <=> q \in sess[t].pending
  BY <1>3
<1>4. ASSUME NEW t \in Sessions, NEW q \in Requests, q \in sess'[t].pending
      PROVE  /\ sess'[t].state \in LiveStates
             /\ ask'[q].session = t
             /\ ask'[q].reply = "empty"
             /\ ask'[q].pc \in {"sending", "waiting", "leaving"}
  BY <1>3, <1>4 DEF Asking, PendingIsTheOpenQuestions
<1>5. ASSUME NEW q \in Requests,
             ask'[q].pc \in {"sending", "waiting"}, ask'[q].reply = "empty"
      PROVE  q \in sess'[ask'[q].session].pending
  <2>1. CASE q = r
    BY <1>5, <2>1
  <2>2. CASE q # r
    <3>1. ask[q].session \in Sessions /\ q \in sess[ask[q].session].pending
      BY <1>5, <2>2 DEF Asking, PendingIsTheOpenQuestions, Wiring
    <3> QED BY <1>3, <2>2, <3>1
  <2> QED BY <2>1, <2>2
<1>6. \A q \in Requests : ask'[q].pc = "idle" => ask'[q].reply = "empty"
  BY DEF Asking
<1> QED BY <1>4, <1>5, <1>6 DEF Asking, PendingIsTheOpenQuestions

\* The steps of an Ask itself.
LEMMA AskSteps ==
  ASSUME TypeOK, Wiring, Asking, AskNext
  PROVE  Asking'
<1> PICK r \in Requests :
      \/ \E s \in Sessions : Ask(r, s)
      \/ AskSent(r) \/ AskAnswered(r) \/ AskTimeout(r) \/ AskLeaves(r)
  BY DEF AskNext
<1>0. ask[r] \in AskType /\ ask \in [Requests -> AskType] /\ sess \in [Sessions -> SessionType]
  BY DEF TypeOK
<1>q. ASSUME NEW pc \in {"waiting", "leaving", "done"}, UNCHANGED sess,
             \A q \in Requests :
               /\ ask'[q].session = ask[q].session /\ ask'[q].reply = ask[q].reply
               /\ ask'[q].pc = IF q = r THEN pc ELSE ask[q].pc,
             pc = "waiting" => ask[r].pc = "sending",
             pc = "done" => \A t \in Sessions : r \notin sess[t].pending
      PROVE  Asking'
  <2>1. ASSUME NEW t \in Sessions, NEW q \in Requests, q \in sess'[t].pending
        PROVE  /\ sess'[t].state \in LiveStates
               /\ ask'[q].session = t
               /\ ask'[q].reply = "empty"
               /\ ask'[q].pc \in {"sending", "waiting", "leaving"}
    <3>1. /\ q \in sess[t].pending /\ sess[t].state \in LiveStates
          /\ ask[q].session = t /\ ask[q].reply = "empty"
          /\ ask[q].pc \in {"sending", "waiting", "leaving"}
      BY <1>q, <2>1 DEF Asking, PendingIsTheOpenQuestions
    <3> QED BY <1>q, <3>1
  <2>2. ASSUME NEW q \in Requests,
               ask'[q].pc \in {"sending", "waiting"}, ask'[q].reply = "empty"
        PROVE  q \in sess'[ask'[q].session].pending
    <3>1. ask[q].pc \in {"sending", "waiting"} /\ ask[q].reply = "empty"
      BY <1>q, <2>2
    <3> QED BY <1>q, <3>1 DEF Asking, PendingIsTheOpenQuestions
  <2>3. \A q \in Requests : ask'[q].pc = "idle" => ask'[q].reply = "empty"
    BY <1>q DEF Asking
  <2> QED BY <2>1, <2>2, <2>3 DEF Asking, PendingIsTheOpenQuestions
<1>r. ASSUME NEW pc \in {"waiting", "leaving", "done"}, NEW result,
             ask' = [ask EXCEPT ![r].pc = pc, ![r].result = result]
      PROVE  \A q \in Requests :
               /\ ask'[q].session = ask[q].session /\ ask'[q].reply = ask[q].reply
               /\ ask'[q].pc = IF q = r THEN pc ELSE ask[q].pc
  BY <1>0, <1>r DEF AskType
<1>1. ASSUME NEW s \in Sessions, Ask(r, s)
      PROVE  Asking'
  <2>1. ask[r].pc = "idle" /\ ask[r].reply = "empty"
    BY <1>1 DEF Ask, Asking
  <2>2. \A t \in Sessions : r \notin sess[t].pending
    BY <2>1 DEF Asking, PendingIsTheOpenQuestions
  <2>3. ASSUME NEW result, UNCHANGED sess,
               ask' = [ask EXCEPT ![r].pc = "done", ![r].result = result]
        PROVE  Asking'
    BY <1>q, <1>r, <2>2, <2>3
  <2>4. CASE /\ Live(s)
             /\ sess' = [sess EXCEPT ![s].pending = @ \cup {r}]
             /\ ask' = [ask EXCEPT ![r].pc = "sending", ![r].session = s]
    <3> DEFINE P == sess[s].pending \cup {r}
               a == [ask[r] EXCEPT !.pc = "sending", !.session = s]
    <3>1. P \in SUBSET Requests
      BY <1>0 DEF SessionType
    <3>2. a \in AskType /\ a.pc = "sending" /\ a.session = s /\ a.reply = "empty"
      BY <1>0, <2>1 DEF AskType
    <3>3. ask' = [ask EXCEPT ![r] = a]
      BY <1>0, <2>4, Zenon
    <3>4. sess' = [sess EXCEPT ![s].pending = P]
      BY <2>4
    <3>5. \A q \in Requests \ {r} : q \in P <=> q \in sess[s].pending
      OBVIOUS
    <3>6. r \in P
      OBVIOUS
    <3> HIDE DEF P, a
    <3>7. \A t \in Sessions :
            /\ sess'[t].state = sess[t].state
            /\ sess'[t].pending = IF t = s THEN P ELSE sess[t].pending
      <4>1. ASSUME NEW t \in Sessions
            PROVE  /\ sess'[t].state = sess[t].state
                   /\ sess'[t].pending = IF t = s THEN P ELSE sess[t].pending
        <5>1. sess'[t] = IF t = s THEN [sess[s] EXCEPT !.pending = P] ELSE sess[t]
          BY <1>0, <3>4
        <5> QED BY <1>0, <5>1 DEF SessionType
      <4> QED BY <4>1
    <3>8. \A t \in Sessions : r \in sess'[t].pending =>
            /\ sess[t].state \in LiveStates /\ a.session = t
            /\ a.reply = "empty" /\ a.pc \in {"sending", "waiting", "leaving"}
      BY <2>2, <2>4, <3>2, <3>7 DEF Live
    <3>9. r \in sess'[a.session].pending
      BY <3>2, <3>6, <3>7
    <3>10. \A q \in Requests : ask'[q] = IF q = r THEN a ELSE ask[q]
      BY <1>0, <3>3
    <3> QED BY <3>1, <3>2, <3>5, <3>7, <3>8, <3>9, <3>10, AskingOne
  <2> QED BY <1>1, <2>3, <2>4 DEF Ask
<1>2. CASE AskSent(r)
  <2>1. CASE ask' = [ask EXCEPT ![r].pc = "waiting"]
    <3>1. \A q \in Requests :
            /\ ask'[q].session = ask[q].session /\ ask'[q].reply = ask[q].reply
            /\ ask'[q].pc = IF q = r THEN "waiting" ELSE ask[q].pc
      <4> DEFINE a == [ask[r] EXCEPT !.pc = "waiting"]
      <4>1. \A q \in Requests : ask'[q] = IF q = r THEN a ELSE ask[q]
        BY <1>0, <2>1
      <4>2. a.session = ask[r].session /\ a.reply = ask[r].reply /\ a.pc = "waiting"
        BY <1>0 DEF AskType
      <4> HIDE DEF a
      <4> QED BY <4>1, <4>2
    <3> QED BY <1>2, <1>q, <3>1 DEF AskSent
  <2>2. CASE ask' = [ask EXCEPT ![r].pc = "leaving", ![r].result = "gone"]
    BY <1>2, <1>q, <1>r, <2>2 DEF AskSent
  <2> QED BY <1>2, <2>1, <2>2 DEF AskSent
<1>3. CASE AskAnswered(r)
  <2>1. ask[r].pc # "idle" /\ UNCHANGED sess
    BY <1>3 DEF AskAnswered
  <2> DEFINE res == IF ask[r].reply = "answer" THEN "answer" ELSE "gone"
  <2>2. ask' = [ask EXCEPT ![r].pc = "leaving", ![r].result = res]
    BY <1>3 DEF AskAnswered
  <2> HIDE DEF res
  <2> QED BY <1>q, <1>r, <2>1, <2>2
<1>4. CASE AskTimeout(r)
  BY <1>4, <1>q, <1>r DEF AskTimeout
<1>5. CASE AskLeaves(r)
  <2> DEFINE s == ask[r].session
             P == sess[s].pending \ {r}
             a == [ask[r] EXCEPT !.pc = "done"]
  <2>1. s \in Sessions
    BY <1>5 DEF AskLeaves, Wiring
  <2>2. P \in SUBSET Requests
    BY <1>0, <2>1 DEF SessionType
  <2>3. a \in AskType /\ a.pc = "done"
    BY <1>0 DEF AskType
  <2>4. ask' = [ask EXCEPT ![r] = a]
    BY <1>0, <1>5, Zenon DEF AskLeaves
  <2>5. sess' = [sess EXCEPT ![s].pending = P]
    BY <1>5 DEF AskLeaves
  <2>6. \A q \in Requests \ {r} : q \in P <=> q \in sess[s].pending
    OBVIOUS
  <2>7. r \notin P
    OBVIOUS
  <2>8. \A t \in Sessions \ {s} : r \notin sess[t].pending
    BY DEF Asking, PendingIsTheOpenQuestions
  <2> HIDE DEF P, a, s
  <2>9. \A t \in Sessions :
          /\ sess'[t].state = sess[t].state
          /\ sess'[t].pending = IF t = s THEN P ELSE sess[t].pending
    <3>1. ASSUME NEW t \in Sessions
          PROVE  /\ sess'[t].state = sess[t].state
                 /\ sess'[t].pending = IF t = s THEN P ELSE sess[t].pending
      <4>1. sess'[t] = IF t = s THEN [sess[s] EXCEPT !.pending = P] ELSE sess[t]
        BY <1>0, <2>1, <2>5
      <4> QED BY <1>0, <2>1, <4>1 DEF SessionType
    <3> QED BY <3>1
  <2>10. \A t \in Sessions : r \notin sess'[t].pending
    BY <2>7, <2>8, <2>9
  <2>11. \A q \in Requests : ask'[q] = IF q = r THEN a ELSE ask[q]
    BY <1>0, <2>4
  <2> QED BY <2>1, <2>2, <2>3, <2>6, <2>9, <2>10, <2>11, AskingOne
<1> QED BY <1>1, <1>2, <1>3, <1>4, <1>5

LEMMA AskingStep ==
  ASSUME TypeOK, Wiring, Asking, [Next]_vars
  PROVE  Asking'
<1>0. sess \in [Sessions -> SessionType] /\ ask \in [Requests -> AskType]
  BY DEF TypeOK
<1>1. CASE PairingNext \/ \E s \in Sessions : DeviceLeaves(s) /\ Live(s)
  <2>1. PICK E \in SUBSET Sessions :
          EndsOrKeeps(E) /\ WatchersAfterEnd(E) /\ ask' = AsksAfterEnd(E)
    BY <1>1, EndingEffect
  <2> QED BY <2>1, EndingKeepsAsking
<1>2. ASSUME NEW s \in Sessions, DeviceLeaves(s), ~Live(s)
      PROVE  Asking'
  BY <1>2, OthersKeepAsking DEF DeviceLeaves
<1>3. ASSUME NEW s \in Sessions,
             AttachDevice(s) \/ Touch(s) \/ \E n \in 1..MaxBatch : Publish(s, n)
      PROVE  Asking'
  <2>1. UNCHANGED ask
    BY <1>3 DEF AttachDevice, Touch, Publish
  <2> QED BY <1>3, <2>1, FrameFields, OthersKeepAsking
<1>4. ASSUME NEW s \in Sessions, NEW r \in Requests, Deliver(s, r)
      PROVE  Asking'
  <2> DEFINE P == sess[s].pending \ {r}
             reply == IF r \in sess[s].pending THEN "answer" ELSE ask[r].reply
             a == [ask[r] EXCEPT !.reply = reply]
             x == [sess[s] EXCEPT !.lastSeen = now, !.pending = P]
  <2>0. P \in SUBSET Requests
    BY <1>0 DEF SessionType
  <2>1. r \notin P
    OBVIOUS
  <2>a. \A q \in Requests \ {r} : q \in P <=> q \in sess[s].pending
    OBVIOUS
  <2>2. /\ a.pc = ask[r].pc /\ a.session = ask[r].session
        /\ a.reply = reply
    BY <1>0 DEF AskType
  <2>b. a \in AskType
    BY <1>0 DEF AskType
  <2>3. ask' = [ask EXCEPT ![r] = a]
    BY <1>0, <1>4, Zenon DEF Deliver
  <2>4. sess' = [sess EXCEPT ![s] = x]
    BY <1>0, <1>4, Zenon DEF Deliver
  <2>5. x.state = sess[s].state /\ x.pending = P
    BY <1>0 DEF SessionType
  <2>6. /\ \A t \in Sessions : r \in sess[t].pending => ask[r].session = t /\ ask[r].reply = "empty"
               /\ sess[t].state \in LiveStates /\ ask[r].pc \in {"sending", "waiting", "leaving"}
        /\ ask[r].pc \in {"sending", "waiting"} =>
             ask[r].session \in Sessions
             /\ (ask[r].reply = "empty" => r \in sess[ask[r].session].pending)
        /\ ask[r].pc = "idle" => ask[r].reply = "empty"
    BY DEF Asking, PendingIsTheOpenQuestions, Wiring
  <2>7. reply = IF r \in sess[s].pending THEN "answer" ELSE ask[r].reply
    OBVIOUS
  <2> HIDE DEF P, a, x, reply
  <2>8. \A t \in Sessions :
          /\ sess'[t].state = sess[t].state
          /\ sess'[t].pending = IF t = s THEN P ELSE sess[t].pending
    BY <1>0, <2>4, <2>5
  <2>9. \A t \in Sessions : r \in sess'[t].pending =>
          /\ sess[t].state \in LiveStates /\ a.session = t
          /\ a.reply = "empty" /\ a.pc \in {"sending", "waiting", "leaving"}
    BY <2>1, <2>2, <2>6, <2>7, <2>8
  <2>10. a.pc \in {"sending", "waiting"} => a.session \in Sessions
    BY <2>2, <2>6
  <2>11. a.pc \in {"sending", "waiting"} /\ a.reply = "empty" =>
           r \in sess'[a.session].pending
    BY <2>2, <2>6, <2>7, <2>8
  <2>12. a.pc = "idle" => a.reply = "empty"
    BY <2>2, <2>6, <2>7
  <2>13. \A q \in Requests : ask'[q] = IF q = r THEN a ELSE ask[q]
    BY <1>0, <2>3
  <2> QED BY <2>0, <2>a, <2>b, <2>8, <2>9, <2>10, <2>11, <2>12, <2>13, AskingOne
<1>5. CASE WatchNext
  <2>2. PICK w \in Watchers :
          \/ \E s \in Sessions, after \in 0..MaxSeq : Watch(w, s, after)
          \/ Announce(w) \/ Receive(w) \/ StreamOver(w) \/ Cancel(w)
    BY <1>5 DEF WatchNext
  <2>1. UNCHANGED ask
    <3>1. ASSUME NEW s \in Sessions, NEW after \in 0..MaxSeq, Watch(w, s, after)
          PROVE  UNCHANGED ask
      BY <3>1, Zenon DEF Watch
    <3>2. ASSUME Announce(w) \/ Receive(w)
          PROVE  UNCHANGED ask
      BY <3>2, Zenon DEF Announce, Receive
    <3>3. ASSUME StreamOver(w) \/ Cancel(w)
          PROVE  UNCHANGED ask
      BY <3>3, Zenon DEF StreamOver, Cancel
    <3> QED BY <2>2, <3>1, <3>2, <3>3
  <2>3. ASSUME NEW s, NEW W, NEW n,
               sess' = [sess EXCEPT ![s].watchers = W, ![s].count = n]
        PROVE  \A t \in Sessions : /\ sess'[t].state = sess[t].state
                                   /\ sess'[t].pending = sess[t].pending
    BY <1>0, <2>3 DEF SessionType
  <2>4. \A t \in Sessions : /\ sess'[t].state = sess[t].state
                            /\ sess'[t].pending = sess[t].pending
    <3>1. ASSUME NEW s \in Sessions, NEW after \in 0..MaxSeq, Watch(w, s, after)
          PROVE  \A t \in Sessions : /\ sess'[t].state = sess[t].state
                                     /\ sess'[t].pending = sess[t].pending
      BY <2>3, <3>1 DEF Watch
    <3>2. CASE Cancel(w)
      BY <2>3, <3>2 DEF Cancel
    <3> QED BY <2>2, <3>1, <3>2 DEF Announce, Receive, StreamOver
  <2> QED BY <2>1, <2>4, OthersKeepAsking
<1>6. CASE AskNext
  BY <1>6, AskSteps
<1>7. CASE Tick \/ UNCHANGED vars
  BY <1>7, OthersKeepAsking DEF Tick, vars
<1> QED BY <1>1, <1>2, <1>3, <1>4, <1>5, <1>6, <1>7 DEF Next, DeviceNext

\* Nobody waits for an answer that cannot come: what the pending map of a session
\* holds is exactly the questions still open, through answers, timeouts, askers
\* who leave, and the end of the session under them.
THEOREM QuestionsSafe == Spec => []PendingIsTheOpenQuestions
<1>1. Init => Asking
  BY DEF Init, Asking, PendingIsTheOpenQuestions, Blank
<1>2. TypeOK /\ Wiring /\ Asking /\ [Next]_vars => Asking'
  BY AskingStep
<1>3. Asking => PendingIsTheOpenQuestions
  BY DEF Asking
<1> QED BY <1>1, <1>2, <1>3, TypeCorrect, PTL DEF Spec

\* Ending sessions closes the channels that watched them and no others.
LEMMA EndingKeepsWatchers ==
  ASSUME TypeOK, WatchersInStep, NEW E \in SUBSET Sessions,
         EndsOrKeeps(E), WatchersAfterEnd(E)
  PROVE  WatchersInStep'
<1>0. chan \in [Watchers -> ChanType] /\ Cardinality({}) = 0 /\ MaxWatchersPerSession \in Nat
  BY FS_EmptySet, LiveHubAssumption DEF TypeOK
<1>1. ASSUME NEW w \in Watchers
      PROVE  /\ chan'[w].session = chan[w].session
             /\ chan'[w].open =
                  IF \E e \in E : w \in sess[e].watchers THEN FALSE ELSE chan[w].open
  BY <1>0 DEF WatchersAfterEnd, WatchedBy, ChanType
<1>2. ASSUME NEW t \in Sessions, NEW w \in Watchers
      PROVE  /\ w \in sess'[t].watchers <=> chan'[w].open /\ chan'[w].session = t
             /\ w \in sess'[t].watchers => sess'[t].state \in LiveStates
  <2>1. /\ w \in sess[t].watchers <=> chan[w].open /\ chan[w].session = t
        /\ w \in sess[t].watchers => sess[t].state \in LiveStates
        /\ \A e \in E : w \in sess[e].watchers => chan[w].session = e
    BY DEF WatchersInStep, WatchersAreTheOpenChannels
  <2>a. \/ (t \in E \/ sess[t].state \notin LiveStates) /\ sess'[t].watchers = {}
        \/ /\ t \notin E /\ sess'[t].watchers = sess[t].watchers
           /\ sess[t].state \in LiveStates => sess'[t].state \in LiveStates
    BY DEF EndsOrKeeps, Ends, Forgotten, Begins, Carries, NothingLeft, LiveStates
  <2>2. CASE (t \in E \/ sess[t].state \notin LiveStates) /\ sess'[t].watchers = {}
    BY <1>1, <2>1, <2>2
  <2>3. CASE /\ t \notin E /\ sess'[t].watchers = sess[t].watchers
             /\ sess[t].state \in LiveStates => sess'[t].state \in LiveStates
    BY <1>1, <2>1, <2>3
  <2> QED BY <2>2, <2>3, <2>a
<1>3. ASSUME NEW t \in Sessions
      PROVE  /\ Cardinality(sess'[t].watchers) <= MaxWatchersPerSession
             /\ sess'[t].count = Cardinality(sess'[t].watchers)
  <2>1. CASE sess'[t].watchers = {} /\ sess'[t].count = 0
    BY <1>0, <2>1
  <2>2. CASE sess'[t].watchers = sess[t].watchers /\ sess'[t].count = sess[t].count
    BY <2>2 DEF WatchersInStep, WatcherCountIsRight
  <2> QED BY <2>1, <2>2 DEF EndsOrKeeps, Ends, Forgotten, Begins, Carries, NothingLeft
<1> QED BY <1>2, <1>3 DEF WatchersInStep, WatchersAreTheOpenChannels, WatcherCountIsRight

\* Steps that move events and phases, not who watches whom.
LEMMA OthersKeepWatchers ==
  ASSUME WatchersInStep,
         \A w \in Watchers : chan'[w].open = chan[w].open /\ chan'[w].session = chan[w].session,
         \A t \in Sessions :
           /\ sess'[t].state = sess[t].state
           /\ sess'[t].watchers = sess[t].watchers /\ sess'[t].count = sess[t].count
  PROVE  WatchersInStep'
BY DEF WatchersInStep, WatchersAreTheOpenChannels, WatcherCountIsRight

LEMMA FanOutKeepsChannels ==
  ASSUME TypeOK, NEW ws, NEW evs, FanOut(ws, evs), NEW w \in Watchers
  PROVE  chan'[w].open = chan[w].open /\ chan'[w].session = chan[w].session
<1> DEFINE x(b) == [chan[w] EXCEPT !.buf = b]
<1>1. chan'[w] = IF w \in ws THEN x(Offer(chan[w].buf, evs)) ELSE chan[w]
  BY Zenon DEF FanOut
<1>2. \A b : x(b).open = chan[w].open /\ x(b).session = chan[w].session
  BY DEF TypeOK, ChanType
<1> HIDE DEF x
<1> QED BY <1>1, <1>2

LEMMA WatchersSet ==
  ASSUME TypeOK, NEW s \in Sessions, NEW W, NEW n,
         sess' = [sess EXCEPT ![s].watchers = W, ![s].count = n]
  PROVE  \A t \in Sessions :
           /\ sess'[t].state = sess[t].state
           /\ sess'[t].watchers = IF t = s THEN W ELSE sess[t].watchers
           /\ sess'[t].count = IF t = s THEN n ELSE sess[t].count
BY DEF TypeOK, SessionType

\* A watcher joins or leaves session s: its channel and its place in the set
\* change together.
LEMMA OneWatcher ==
  ASSUME WatchersInStep, NEW w \in Watchers, NEW s \in Sessions,
         Live(s), NEW W \in SUBSET Watchers, NEW c,
         \A t \in Sessions :
           /\ sess'[t].state = sess[t].state
           /\ sess'[t].watchers = IF t = s THEN W ELSE sess[t].watchers
           /\ sess'[t].count = IF t = s THEN Cardinality(W) ELSE sess[t].count,
         \A v \in Watchers : chan'[v] = IF v = w THEN c ELSE chan[v],
         \A v \in Watchers \ {w} : v \in W <=> v \in sess[s].watchers,
         w \in W <=> c.open,
         c.session = s,
         \A t \in Sessions \ {s} : w \notin sess[t].watchers,
         Cardinality(W) <= MaxWatchersPerSession
  PROVE  WatchersInStep'
<1>3. ASSUME NEW t \in Sessions, NEW v \in Watchers
      PROVE  /\ v \in sess'[t].watchers <=> chan'[v].open /\ chan'[v].session = t
             /\ v \in sess'[t].watchers => sess'[t].state \in LiveStates
  <2>1. /\ v \in sess[t].watchers <=> chan[v].open /\ chan[v].session = t
        /\ v \in sess[t].watchers => sess[t].state \in LiveStates
    BY DEF WatchersInStep, WatchersAreTheOpenChannels
  <2>2. CASE v = w
    <3>1. chan'[v].open = c.open /\ chan'[v].session = s
      BY <2>2
    <3>2. CASE t = s
      BY <2>2, <3>1, <3>2 DEF Live
    <3>3. CASE t # s
      BY <2>2, <3>1, <3>3
    <3> QED BY <3>2, <3>3
  <2>3. CASE v # w
    <3>1. v \in sess'[t].watchers <=> v \in sess[t].watchers
      BY <2>3
    <3> QED BY <2>1, <2>3, <3>1
  <2> QED BY <2>2, <2>3
<1>4. ASSUME NEW t \in Sessions
      PROVE  /\ Cardinality(sess'[t].watchers) <= MaxWatchersPerSession
             /\ sess'[t].count = Cardinality(sess'[t].watchers)
  <2>1. CASE t = s
    BY <2>1
  <2>2. CASE t # s
    BY <2>2 DEF WatchersInStep, WatcherCountIsRight
  <2> QED BY <2>1, <2>2
<1> QED BY <1>3, <1>4 DEF WatchersInStep, WatchersAreTheOpenChannels, WatcherCountIsRight

LEMMA WatchSteps ==
  ASSUME TypeOK, Wiring, WatchersInStep, WatchNext
  PROVE  WatchersInStep'
<1> PICK w \in Watchers :
      \/ \E s \in Sessions, after \in 0..MaxSeq : Watch(w, s, after)
      \/ Announce(w) \/ Receive(w) \/ StreamOver(w) \/ Cancel(w)
  BY DEF WatchNext
<1>0. /\ chan \in [Watchers -> ChanType] /\ sess \in [Sessions -> SessionType]
      /\ IsFiniteSet(Watchers) /\ MaxWatchersPerSession \in Nat
  BY LiveHubAssumption DEF TypeOK
<1>a. ASSUME NEW s \in Sessions
      PROVE  /\ sess[s].watchers \in SUBSET Watchers
             /\ IsFiniteSet(sess[s].watchers) /\ Cardinality(sess[s].watchers) \in Nat
             /\ Cardinality(sess[s].watchers) <= MaxWatchersPerSession
  <2>1. sess[s].watchers \in SUBSET Watchers
    BY <1>0 DEF SessionType
  <2> QED BY <1>0, <2>1, FS_Subset, FS_CardinalityType
          DEF WatchersInStep, WatcherCountIsRight
<1>b. ASSUME NEW s \in Sessions, w \in sess[s].watchers
      PROVE  chan[w].open /\ chan[w].session = s /\ Live(s)
  BY <1>b DEF WatchersInStep, WatchersAreTheOpenChannels, Live
<1>1. ASSUME NEW s \in Sessions, NEW after \in 0..MaxSeq, Watch(w, s, after)
      PROVE  WatchersInStep'
  <2> DEFINE W == sess[s].watchers \cup {w}
             c == [phase |-> "announcing", session |-> s, open |-> TRUE,
                   buf |-> <<>>, count |-> Cardinality(W)]
  <2>1. \A t \in Sessions : w \notin sess[t].watchers
    BY <1>1, <1>b DEF Watch, Wiring
  <2>2. W \in SUBSET Watchers /\ w \in W
    BY <1>a
  <2>3. Cardinality(W) = Cardinality(sess[s].watchers) + 1
    BY <1>a, <2>1, FS_AddElement
  <2>4. Cardinality(W) <= MaxWatchersPerSession
    BY <1>1, <1>0, <1>a, <2>3 DEF Watch, HasRoom
  <2>5. sess' = [sess EXCEPT ![s].watchers = W, ![s].count = Cardinality(W)]
    BY <1>1 DEF Watch
  <2>6. chan' = [chan EXCEPT ![w] = c]
    BY <1>1 DEF Watch
  <2>7. \A v \in Watchers \ {w} : v \in W <=> v \in sess[s].watchers
    OBVIOUS
  <2>8. c.open /\ c.session = s /\ Live(s)
    BY <1>1 DEF Watch
  <2> HIDE DEF W, c
  <2>9. \A v \in Watchers : chan'[v] = IF v = w THEN c ELSE chan[v]
    BY <1>0, <2>6
  <2>10. \A t \in Sessions :
           /\ sess'[t].state = sess[t].state
           /\ sess'[t].watchers = IF t = s THEN W ELSE sess[t].watchers
           /\ sess'[t].count = IF t = s THEN Cardinality(W) ELSE sess[t].count
    BY <1>0, <2>5 DEF SessionType
  <2> QED BY <2>1, <2>2, <2>4, <2>7, <2>8, <2>9, <2>10, OneWatcher
<1>2. CASE Announce(w)
  <2> DEFINE evs == <<WatcherEvent(chan[w].count)>>
             told == sess[chan[w].session].watchers
             x(v, b, p) == [chan[v] EXCEPT !.buf = b, !.phase = p]
             buf(v) == IF v \in told THEN Offer(chan[v].buf, evs) ELSE chan[v].buf
             ph(v) == IF v # w THEN chan[v].phase
                      ELSE IF chan[v].phase = "announcing" THEN "streaming" ELSE "done"
  <2>1. chan' = [v \in Watchers |-> x(v, buf(v), ph(v))]
    BY <1>2, Zenon DEF Announce
  <2>2. \A v \in Watchers : \A b, p :
          x(v, b, p).open = chan[v].open /\ x(v, b, p).session = chan[v].session
    BY <1>0 DEF ChanType
  <2>3. UNCHANGED sess
    BY <1>2 DEF Announce
  <2> HIDE DEF x, buf, ph
  <2> QED BY <2>1, <2>2, <2>3, OthersKeepWatchers
<1>3. CASE Receive(w) \/ StreamOver(w)
  <2>1. \A v \in Watchers : chan'[v].open = chan[v].open /\ chan'[v].session = chan[v].session
    <3>1. CASE Receive(w)
      BY <1>0, <3>1 DEF Receive, ChanType
    <3>2. CASE StreamOver(w)
      BY <1>0, <3>2 DEF StreamOver, ChanType
    <3> QED BY <1>3, <3>1, <3>2
  <2> QED BY <1>3, <2>1, OthersKeepWatchers DEF Receive, StreamOver
<1>4. CASE Cancel(w)
  <2> DEFINE s == chan[w].session
             W == sess[s].watchers \ {w}
             c == [chan[w] EXCEPT !.open = FALSE, !.phase = "leaving",
                                  !.count = Cardinality(W)]
  <2>0. s \in Sessions
    BY <1>4 DEF Cancel, Wiring
  <2>1. CASE w \in sess[s].watchers
    <3>1. W \in SUBSET Watchers /\ w \notin W
      BY <1>a, <2>0
    <3>2. Cardinality(W) <= MaxWatchersPerSession
      <4>1. Cardinality(W) <= Cardinality(sess[s].watchers) /\ Cardinality(W) \in Nat
        BY <1>a, <2>0, FS_Subset, FS_CardinalityType
      <4> QED BY <1>0, <1>a, <2>0, <4>1
    <3>3. sess' = [sess EXCEPT ![s].watchers = W, ![s].count = Cardinality(W)]
      BY <1>4, <2>1 DEF Cancel
    <3>4. chan' = [chan EXCEPT ![w] = c]
      BY <1>0, <1>4, <2>1, Zenon DEF Cancel
    <3>5. ~c.open /\ c.session = s
      BY <1>0 DEF ChanType
    <3>6. \A v \in Watchers \ {w} : v \in W <=> v \in sess[s].watchers
      OBVIOUS
    <3>7. Live(s) /\ \A t \in Sessions \ {s} : w \notin sess[t].watchers
      BY <1>b, <2>0, <2>1
    <3> HIDE DEF W, c, s
    <3>8. \A v \in Watchers : chan'[v] = IF v = w THEN c ELSE chan[v]
      BY <1>0, <3>4
    <3>9. \A t \in Sessions :
            /\ sess'[t].state = sess[t].state
            /\ sess'[t].watchers = IF t = s THEN W ELSE sess[t].watchers
            /\ sess'[t].count = IF t = s THEN Cardinality(W) ELSE sess[t].count
      BY <1>0, <2>0, <3>3 DEF SessionType
    <3> QED BY <2>0, <3>1, <3>2, <3>5, <3>6, <3>7, <3>8, <3>9, OneWatcher
  <2>2. CASE w \notin sess[s].watchers
    <3>1. chan' = [chan EXCEPT ![w].phase = "done"] /\ UNCHANGED sess
      BY <1>4, <2>2 DEF Cancel
    <3>2. \A v \in Watchers : chan'[v].open = chan[v].open
                              /\ chan'[v].session = chan[v].session
      BY <1>0, <3>1 DEF ChanType
    <3> QED BY <3>1, <3>2, OthersKeepWatchers
  <2> QED BY <2>1, <2>2
<1> QED BY <1>1, <1>2, <1>3, <1>4

LEMMA WatchersStep ==
  ASSUME TypeOK, Wiring, WatchersInStep, [Next]_vars
  PROVE  WatchersInStep'
<1>0. sess \in [Sessions -> SessionType]
  BY DEF TypeOK
<1>1. CASE PairingNext \/ \E s \in Sessions : DeviceLeaves(s) /\ Live(s)
  <2>1. PICK E \in SUBSET Sessions :
          EndsOrKeeps(E) /\ WatchersAfterEnd(E) /\ ask' = AsksAfterEnd(E)
    BY <1>1, EndingEffect
  <2> QED BY <2>1, EndingKeepsWatchers
<1>2. ASSUME NEW s \in Sessions, DeviceLeaves(s), ~Live(s)
      PROVE  WatchersInStep'
  BY <1>2, OthersKeepWatchers DEF DeviceLeaves
<1>3. ASSUME NEW s \in Sessions,
             AttachDevice(s) \/ Touch(s) \/ \E n \in 1..MaxBatch : Publish(s, n)
      PROVE  WatchersInStep'
  <2>1. \A w \in Watchers : chan'[w].open = chan[w].open /\ chan'[w].session = chan[w].session
    <3>1. CASE AttachDevice(s) \/ Touch(s)
      BY <3>1 DEF AttachDevice, Touch
    <3>2. ASSUME NEW n \in 1..MaxBatch, Publish(s, n)
          PROVE  \A w \in Watchers : chan'[w].open = chan[w].open
                                     /\ chan'[w].session = chan[w].session
      <4>1. FanOut(sess[s].watchers, NewLogs(s, n))
        BY <3>2 DEF Publish
      <4> QED BY <4>1, FanOutKeepsChannels
    <3> QED BY <1>3, <3>1, <3>2
  <2>2. \A t \in Sessions :
          /\ sess'[t].state = sess[t].state
          /\ sess'[t].watchers = sess[t].watchers /\ sess'[t].count = sess[t].count
    BY <1>3, FrameFields
  <2> QED BY <2>1, <2>2, OthersKeepWatchers
<1>4. ASSUME NEW s \in Sessions, NEW P, NEW n,
             \/ sess' = [sess EXCEPT ![s].pending = P]
             \/ sess' = [sess EXCEPT ![s].lastSeen = n, ![s].pending = P],
             UNCHANGED chan
      PROVE  WatchersInStep'
  <2>1. \A t \in Sessions :
          /\ sess'[t].state = sess[t].state
          /\ sess'[t].watchers = sess[t].watchers /\ sess'[t].count = sess[t].count
    <3>1. CASE sess' = [sess EXCEPT ![s].pending = P]
      BY <1>0, <3>1 DEF SessionType
    <3>2. CASE sess' = [sess EXCEPT ![s].lastSeen = n, ![s].pending = P]
      BY <1>0, <3>2 DEF SessionType
    <3> QED BY <1>4, <3>1, <3>2
  <2> QED BY <1>4, <2>1, OthersKeepWatchers
<1>5. ASSUME NEW s \in Sessions, NEW r \in Requests, Deliver(s, r)
      PROVE  WatchersInStep'
  BY <1>4, <1>5 DEF Deliver
<1>6. CASE WatchNext
  BY <1>6, WatchSteps
<1>7. CASE AskNext
  <2> PICK r \in Requests :
        \/ \E s \in Sessions : Ask(r, s)
        \/ AskSent(r) \/ AskAnswered(r) \/ AskTimeout(r) \/ AskLeaves(r)
    BY <1>7 DEF AskNext
  <2>1. ASSUME UNCHANGED <<sess, chan>>
        PROVE  WatchersInStep'
    BY <2>1, OthersKeepWatchers
  <2>2. ASSUME NEW s \in Sessions, Ask(r, s)
        PROVE  WatchersInStep'
    <3>1. UNCHANGED chan
      BY <2>2 DEF Ask
    <3>2. \/ UNCHANGED sess
          \/ sess' = [sess EXCEPT ![s].pending = sess[s].pending \cup {r}]
      BY <2>2 DEF Ask
    <3> QED BY <1>4, <2>1, <3>1, <3>2
  <2>3. CASE AskSent(r) \/ AskAnswered(r) \/ AskTimeout(r)
    BY <2>1, <2>3 DEF AskSent, AskAnswered, AskTimeout
  <2>4. CASE AskLeaves(r)
    <3>1. ask[r].session \in Sessions
      BY <2>4 DEF AskLeaves, Wiring
    <3>2. sess' = [sess EXCEPT ![ask[r].session].pending =
                                  sess[ask[r].session].pending \ {r}]
      BY <2>4 DEF AskLeaves
    <3> QED BY <1>4, <2>4, <3>1, <3>2 DEF AskLeaves
  <2> QED BY <2>2, <2>3, <2>4
<1>8. CASE Tick \/ UNCHANGED vars
  BY <1>8, OthersKeepWatchers DEF Tick, vars
<1> QED BY <1>1, <1>2, <1>3, <1>5, <1>6, <1>7, <1>8 DEF Next, DeviceNext

\* The watcher set, the open channels and the count shown agree in every state:
\* no send to a closed channel, no channel left open behind a session that is over,
\* never more watchers than the limit.
THEOREM WatchersSafe == Spec => []WatchersInStep
<1>1. Init => WatchersInStep
  <2>1. Cardinality({}) = 0 /\ MaxWatchersPerSession \in Nat
    BY FS_EmptySet, LiveHubAssumption
  <2>2. ASSUME Init
        PROVE  /\ \A s \in Sessions : sess[s].watchers = {} /\ sess[s].count = 0
               /\ \A w \in Watchers : ~chan[w].open
    BY <2>2 DEF Init, Blank
  <2>3. Init => WatchersAreTheOpenChannels
    BY <2>2 DEF WatchersAreTheOpenChannels
  <2>4. Init => WatcherCountIsRight
    <3>1. Cardinality({}) <= MaxWatchersPerSession
      BY <2>1
    <3> QED BY <2>1, <2>2, <3>1, Zenon DEF WatcherCountIsRight
  <2> QED BY <2>3, <2>4 DEF WatchersInStep
<1>2. TypeOK /\ Wiring /\ WatchersInStep /\ [Next]_vars => WatchersInStep'
  BY WatchersStep
<1> QED BY <1>1, <1>2, TypeCorrect, PTL DEF Spec

----------------------------------------------------------------------------
(* The ring and the streams.                                               *)

\* The numbers of f follow b, one by one.
Counts(f, b) == \A i \in 1..Len(f) : f[i] = b + i

\* The replay ring of a live session holds its latest events, and is empty only
\* before the first.
HoldsLatest(ring, seq) ==
  /\ Len(ring) <= seq
  /\ Counts(ring, seq - Len(ring))
  /\ Len(ring) = 0 => seq = 0

RingIsRight == \A s \in Sessions : Live(s) => HoldsLatest(sess[s].recent, sess[s].seq)

\* Every step but the end of a session and a frame of logs leaves what a session
\* has streamed alone.
SameStream(t) ==
  /\ sess'[t].state = sess[t].state
  /\ sess'[t].seq = sess[t].seq /\ sess'[t].recent = sess[t].recent

LEMMA QuietSessions ==
  ASSUME TypeOK, Wiring,
         \/ WatchNext \/ AskNext \/ Tick \/ UNCHANGED vars
         \/ \E s \in Sessions : \/ AttachDevice(s) \/ Touch(s)
                                \/ \E r \in Requests : Deliver(s, r)
                                \/ (DeviceLeaves(s) /\ ~Live(s))
  PROVE  \A t \in Sessions : SameStream(t)
<1>0. sess \in [Sessions -> SessionType]
  BY DEF TypeOK
<1>1. ASSUME UNCHANGED sess
      PROVE  \A t \in Sessions : SameStream(t)
  BY <1>1 DEF SameStream
<1>2. ASSUME NEW s, NEW x, sess' = [sess EXCEPT ![s] = x],
             s \in Sessions => x.state = sess[s].state /\ x.seq = sess[s].seq
                               /\ x.recent = sess[s].recent
      PROVE  \A t \in Sessions : SameStream(t)
  BY <1>0, <1>2 DEF SameStream
<1>3. ASSUME NEW s \in Sessions, NEW r \in Requests, Deliver(s, r)
      PROVE  \A t \in Sessions : SameStream(t)
  <2> DEFINE x == [sess[s] EXCEPT !.lastSeen = now, !.pending = sess[s].pending \ {r}]
  <2>1. sess' = [sess EXCEPT ![s] = x]
    BY <1>0, <1>3, Zenon DEF Deliver
  <2>2. x.state = sess[s].state /\ x.seq = sess[s].seq /\ x.recent = sess[s].recent
    BY <1>0 DEF SessionType
  <2> HIDE DEF x
  <2> QED BY <1>2, <2>1, <2>2
<1>4. CASE WatchNext
  <2> PICK w \in Watchers :
        \/ \E s \in Sessions, after \in 0..MaxSeq : Watch(w, s, after)
        \/ Announce(w) \/ Receive(w) \/ StreamOver(w) \/ Cancel(w)
    BY <1>4 DEF WatchNext
  <2>1. ASSUME NEW s \in Sessions, NEW W, NEW n,
               sess' = [sess EXCEPT ![s].watchers = W, ![s].count = n]
        PROVE  \A t \in Sessions : SameStream(t)
    BY <1>0, <2>1 DEF SameStream, SessionType
  <2>2. ASSUME NEW s \in Sessions, NEW after \in 0..MaxSeq, Watch(w, s, after)
        PROVE  \A t \in Sessions : SameStream(t)
    BY <2>1, <2>2 DEF Watch
  <2>3. CASE Cancel(w)
    BY <1>1, <2>1, <2>3 DEF Cancel, Wiring
  <2> QED BY <1>1, <2>2, <2>3 DEF Announce, Receive, StreamOver
<1>5. CASE AskNext
  <2> PICK r \in Requests :
        \/ \E t \in Sessions : Ask(r, t)
        \/ AskSent(r) \/ AskAnswered(r) \/ AskTimeout(r) \/ AskLeaves(r)
    BY <1>5 DEF AskNext
  <2>1. ASSUME NEW s \in Sessions, NEW P, sess' = [sess EXCEPT ![s].pending = P]
        PROVE  \A t \in Sessions : SameStream(t)
    BY <1>0, <2>1 DEF SameStream, SessionType
  <2>2. ASSUME NEW s \in Sessions, Ask(r, s)
        PROVE  \A t \in Sessions : SameStream(t)
    BY <1>1, <2>1, <2>2 DEF Ask
  <2>3. CASE AskLeaves(r)
    <3>1. ask[r].session \in Sessions
      BY <2>3 DEF AskLeaves, Wiring
    <3>2. sess' = [sess EXCEPT ![ask[r].session].pending =
                                  sess[ask[r].session].pending \ {r}]
      BY <2>3 DEF AskLeaves
    <3> QED BY <2>1, <3>1, <3>2
  <2> QED BY <1>1, <2>2, <2>3 DEF AskSent, AskAnswered, AskTimeout
<1>6. CASE Tick \/ UNCHANGED vars
  BY <1>1, <1>6 DEF Tick, vars
<1>7. CASE \E s \in Sessions : AttachDevice(s) \/ Touch(s) \/ (DeviceLeaves(s) /\ ~Live(s))
  <2> PICK s \in Sessions : AttachDevice(s) \/ Touch(s) \/ (DeviceLeaves(s) /\ ~Live(s))
    BY <1>7
  <2>1. CASE DeviceLeaves(s) /\ ~Live(s)
    BY <1>1, <2>1 DEF DeviceLeaves
  <2>2. CASE AttachDevice(s)
    <3> DEFINE x == [sess[s] EXCEPT !.attached = sess[s].attached \/ Present(s)]
    <3>1. sess' = [sess EXCEPT ![s] = x]
      BY <1>0, <2>2, Zenon DEF AttachDevice
    <3>2. x.state = sess[s].state /\ x.seq = sess[s].seq /\ x.recent = sess[s].recent
      BY <1>0 DEF SessionType
    <3> HIDE DEF x
    <3> QED BY <1>2, <3>1, <3>2
  <2>3. CASE Touch(s)
    <3> DEFINE x == [sess[s] EXCEPT !.lastSeen = now]
    <3>1. sess' = [sess EXCEPT ![s] = x]
      BY <1>0, <2>3, Zenon DEF Touch
    <3>2. x.state = sess[s].state /\ x.seq = sess[s].seq /\ x.recent = sess[s].recent
      BY <1>0 DEF SessionType
    <3> HIDE DEF x
    <3> QED BY <1>2, <3>1, <3>2
  <2> QED BY <2>1, <2>2, <2>3
<1>8. CASE \E s \in Sessions, r \in Requests : Deliver(s, r)
  BY <1>3, <1>8
<1> QED BY <1>4, <1>5, <1>6, <1>7, <1>8

\* A frame of n logs numbers them on from the session's count and pushes the
\* oldest out of the ring.
LEMMA PublishFields ==
  ASSUME TypeOK, NEW s \in Sessions, NEW n \in 1..MaxBatch, Publish(s, n)
  PROVE  /\ sess'[s].state = sess[s].state /\ Live(s)
         /\ sess'[s].seq = sess[s].seq + n
         /\ sess'[s].recent = SubSeq(Remembered(s, n), 1 + Overflow(s, n),
                                     Len(sess[s].recent) + n)
         /\ \A t \in Sessions \ {s} : SameStream(t)
<1>0. sess \in [Sessions -> SessionType]
  BY DEF TypeOK
<1> DEFINE x(a, ring, b) ==
             [sess[s] EXCEPT !.lastSeen = now, !.seq = a, !.recent = ring, !.dropped = b]
           a0 == sess[s].seq + n
           ring0 == SubSeq(Remembered(s, n), 1 + Overflow(s, n), Len(sess[s].recent) + n)
           b0 == sess[s].dropped + Overflow(s, n)
<1>1. sess' = [sess EXCEPT ![s] = x(a0, ring0, b0)]
  BY <1>0, Zenon DEF Publish
<1>2. ASSUME NEW a, NEW ring, NEW b
      PROVE  /\ x(a, ring, b).state = sess[s].state
             /\ x(a, ring, b).seq = a /\ x(a, ring, b).recent = ring
  BY <1>0 DEF SessionType
<1>3. /\ x(a0, ring0, b0).state = sess[s].state
      /\ x(a0, ring0, b0).seq = a0 /\ x(a0, ring0, b0).recent = ring0
  <2> HIDE DEF x, a0, ring0, b0
  <2> QED BY <1>2
<1>4. Live(s)
  BY DEF Publish
<1>5. /\ sess'[s].state = sess[s].state
      /\ sess'[s].seq = a0 /\ sess'[s].recent = ring0
      /\ \A t \in Sessions \ {s} : sess'[t] = sess[t]
  <2> HIDE DEF x, a0, ring0, b0
  <2> QED BY <1>0, <1>1, <1>3
<1> QED BY <1>4, <1>5 DEF SameStream

LEMMA CountingOn ==
  ASSUME NEW r \in Seq(Nat), NEW new \in Seq(Nat), NEW b \in Int,
         Counts(r, b), Counts(new, b + Len(r))
  PROVE  /\ r \o new \in Seq(Nat) /\ Len(r \o new) = Len(r) + Len(new)
         /\ Counts(r \o new, b)
<1> DEFINE L == Len(r)
           n == Len(new)
<1>1. /\ r \o new \in Seq(Nat) /\ Len(r \o new) = L + n
      /\ \A k \in 1..L + n : (r \o new)[k] = IF k <= L THEN r[k] ELSE new[k - L]
  BY ConcatProperties
<1>2. /\ \A i \in 1..L : r[i] = b + i
      /\ \A i \in 1..n : new[i] = (b + L) + i
      /\ L \in Nat /\ n \in Nat
  BY DEF Counts
<1> HIDE DEF L, n
<1>3. \A k \in 1..L + n : (r \o new)[k] = b + k
  <2> TAKE k \in 1..L + n
  <2>1. CASE k <= L
    BY <1>1, <1>2, <2>1
  <2>2. CASE k > L
    <3>1. k - L \in 1..n
      BY <1>2, <2>2
    <3>2. PICK j \in 1..n : j = k - L
      BY <3>1
    <3>3. (r \o new)[k] = new[j] /\ new[j] = (b + L) + j
      BY <1>1, <1>2, <2>2, <3>2
    <3>4. (b + L) + j = b + k
      BY <1>2, <3>2
    <3> QED BY <3>3, <3>4
  <2>3. k <= L \/ k > L
    BY <1>2
  <2> QED BY <2>1, <2>2, <2>3, Zenon
<1> QED BY <1>1, <1>3 DEF Counts, L, n

LEMMA LatestOf ==
  ASSUME NEW all \in Seq(Nat), NEW b \in Int, NEW o \in Nat,
         Counts(all, b), o <= Len(all)
  PROVE  /\ SubSeq(all, 1 + o, Len(all)) \in Seq(Nat)
         /\ Len(SubSeq(all, 1 + o, Len(all))) = Len(all) - o
         /\ Counts(SubSeq(all, 1 + o, Len(all)), b + o)
<1> DEFINE m == Len(all)
           s == SubSeq(all, 1 + o, m)
<1>1. m \in Nat /\ \A k \in 1 + o..m : all[k] \in Nat
  OBVIOUS
<1>2. /\ s \in Seq(Nat) /\ Len(s) = IF 1 + o <= m THEN m - (1 + o) + 1 ELSE 0
      /\ \A i \in 1..m - (1 + o) + 1 : s[i] = all[(1 + o) + i - 1]
  BY <1>1, SubSeqProperties
<1>3. o <= m /\ \A k \in 1..m : all[k] = b + k
  BY DEF Counts
<1> HIDE DEF m, s
<1>4. Len(s) = m - o
  BY <1>1, <1>2, <1>3
<1>5. ASSUME NEW i \in 1..Len(s)
      PROVE  s[i] = (b + o) + i
  <2>1. s[i] = all[o + i] /\ o + i \in 1..m
    BY <1>1, <1>2, <1>3, <1>4
  <2> QED BY <1>3, <2>1
<1> QED BY <1>2, <1>4, <1>5 DEF Counts, m, s

LEMMA RingStep ==
  ASSUME TypeOK, Wiring, RingIsRight, [Next]_vars
  PROVE  RingIsRight'
<1>0. /\ sess \in [Sessions -> SessionType] /\ RecentBuffer \in Nat \ {0} /\ MaxBatch \in Nat
      /\ \A s \in Sessions : sess[s].seq \in Nat /\ sess[s].recent \in Seq(Nat)
  BY LiveHubAssumption DEF TypeOK, SessionType
<1>1. ASSUME \A t \in Sessions : SameStream(t)
      PROVE  RingIsRight'
  BY <1>1 DEF RingIsRight, SameStream, Live
<1>2. CASE PairingNext \/ \E s \in Sessions : DeviceLeaves(s) /\ Live(s)
  <2>1. PICK E \in SUBSET Sessions : EndsOrKeeps(E)
    BY <1>2, EndingEffect
  <2>2. ASSUME NEW t \in Sessions, Live(t)'
        PROVE  \/ sess'[t].recent = <<>> /\ sess'[t].seq = 0
               \/ Live(t) /\ sess'[t].seq = sess[t].seq /\ sess'[t].recent = sess[t].recent
    BY <2>1, <2>2 DEF EndsOrKeeps, Ends, Forgotten, Begins, Carries, Live, LiveStates
  <2>3. HoldsLatest(<<>>, 0)
    BY DEF HoldsLatest, Counts
  <2> QED BY <2>2, <2>3 DEF RingIsRight
<1>3. ASSUME NEW s \in Sessions, NEW n \in 1..MaxBatch, Publish(s, n)
      PROVE  RingIsRight'
  <2> DEFINE r == sess[s].recent
             q == sess[s].seq
             o == Overflow(s, n)
             new == [i \in 1..n |-> q + i]
             b == q - Len(r)
             all == r \o new
             ring == SubSeq(all, 1 + o, Len(all))
  <2>0. r \in Seq(Nat) /\ q \in Nat /\ n \in Nat \ {0} /\ Len(r) \in Nat
    BY <1>0
  <2>1. r \in Seq(Nat) /\ q \in Nat /\ n \in Nat \ {0} /\ Len(r) \in Nat
        /\ o \in Nat /\ o < Len(r) + n
    <3>1. /\ o = IF Len(r) + n > RecentBuffer THEN Len(r) + n - RecentBuffer ELSE 0
          /\ RecentBuffer \in Nat \ {0}
      BY <1>0 DEF Overflow
    <3> HIDE DEF r, q, o
    <3> QED BY <2>0, <3>1
  <2>2. Len(r) <= q /\ Counts(r, b)
    BY <1>3, PublishFields DEF RingIsRight, HoldsLatest
  <2>3. new \in Seq(Nat) /\ Len(new) = n /\ Counts(new, b + Len(r)) /\ b \in Int
    <3> HIDE DEF r, q, o
    <3>1. b + Len(r) = q /\ b \in Int
      BY <2>0
    <3>2. new \in Seq(Nat) /\ Len(new) = n
      BY <2>0
    <3>3. \A k \in 1..Len(new) : new[k] = q + k
      BY <2>0, <3>2
    <3> QED BY <3>1, <3>2, <3>3 DEF Counts
  <2>4. sess'[s].recent = SubSeq(all, 1 + o, Len(r) + n) /\ sess'[s].seq = q + n
    BY <1>3, PublishFields DEF Remembered
  <2>5. \A t \in Sessions \ {s} : SameStream(t)
    BY <1>3, PublishFields
  <2> HIDE DEF r, q, o, new
  <2>6. all \in Seq(Nat) /\ Len(all) = Len(r) + n /\ Counts(all, b)
    <3> HIDE DEF b
    <3> QED BY <2>1, <2>2, <2>3, CountingOn
  <2> HIDE DEF all
  <2>7. Len(ring) = Len(all) - o /\ Counts(ring, b + o)
    <3>1. o <= Len(all) /\ o \in Nat /\ b \in Int
      BY <2>1, <2>3, <2>6
    <3> HIDE DEF b
    <3> QED BY <2>6, <3>1, LatestOf, Zenon
  <2> HIDE DEF ring
  <2>8. HoldsLatest(ring, q + n)
    <3>1. b + o = (q + n) - Len(ring) /\ Len(ring) <= q + n /\ Len(ring) # 0
      BY <2>1, <2>2, <2>6, <2>7
    <3> QED BY <2>7, <3>1 DEF HoldsLatest
  <2>9. sess'[s].recent = ring
    BY <2>4, <2>6 DEF ring
  <2> QED BY <2>4, <2>5, <2>8, <2>9 DEF RingIsRight, SameStream, Live
<1> QED BY <1>1, <1>2, <1>3, QuietSessions DEF Next, DeviceNext

Sent(w) == heard[w].events \o chan[w].buf

\* The numbers of a sequence of events: ascending, none beyond m, and which.
Ascending(g) == \A i, j \in NumberedIn(g) : i < j => g[i].seq < g[j].seq
Within(g, m) == \A i \in NumberedIn(g) : g[i].seq <= m
NumbersOf(g) == {g[i].seq : i \in NumberedIn(g)}

\* p is numbered on from m; p has counts only.
Continues(p, m) == \A i \in 1..Len(p) : p[i].kind # "watcher" /\ p[i].seq = m + i
Uncounted(p) == \A i \in 1..Len(p) : p[i].kind = "watcher"

LEMMA Joined ==
  ASSUME NEW g \in Seq(EventType), NEW p \in Seq(EventType)
  PROVE  /\ g \o p \in Seq(EventType)
         /\ Len(g) \in Nat /\ Len(p) \in Nat /\ Len(g \o p) = Len(g) + Len(p)
         /\ \A i \in 1..Len(g) : i \in 1..Len(g \o p) /\ (g \o p)[i] = g[i]
         /\ \A i \in 1..Len(p) :
              Len(g) + i \in 1..Len(g \o p) /\ (g \o p)[Len(g) + i] = p[i]
         /\ \A k \in 1..Len(g \o p) :
              k \in 1..Len(g) \/ \E i \in 1..Len(p) : k = Len(g) + i
<1>1. /\ g \o p \in Seq(EventType) /\ Len(g \o p) = Len(g) + Len(p)
      /\ Len(g) \in Nat /\ Len(p) \in Nat
  BY ConcatProperties
<1>2. \A i \in 1..Len(g) + Len(p) :
        (g \o p)[i] = IF i <= Len(g) THEN g[i] ELSE p[i - Len(g)]
  BY ConcatProperties
<1>3. ASSUME NEW i \in 1..Len(g)
      PROVE  i \in 1..Len(g \o p) /\ (g \o p)[i] = g[i]
  BY <1>1, <1>2
<1>4. ASSUME NEW i \in 1..Len(p)
      PROVE  Len(g) + i \in 1..Len(g \o p) /\ (g \o p)[Len(g) + i] = p[i]
  <2>1. /\ Len(g) + i \in 1..Len(g) + Len(p) /\ ~(Len(g) + i <= Len(g))
        /\ (Len(g) + i) - Len(g) = i
    BY <1>1
  <2> QED BY <1>1, <1>2, <2>1
<1>5. ASSUME NEW k \in 1..Len(g \o p)
      PROVE  k \in 1..Len(g) \/ \E i \in 1..Len(p) : k = Len(g) + i
  <2>1. CASE k <= Len(g)
    BY <1>1, <2>1
  <2>2. CASE ~(k <= Len(g))
    <3>1. k - Len(g) \in 1..Len(p) /\ k = Len(g) + (k - Len(g))
      BY <1>1, <2>2
    <3> QED BY <3>1
  <2> QED BY <2>1, <2>2
<1> QED BY <1>1, <1>3, <1>4, <1>5

LEMMA SeqIsNat ==
  ASSUME NEW g \in Seq(EventType), NEW i \in 1..Len(g)
  PROVE  g[i].seq \in Nat
<1>1. g[i] \in EventType
  BY ElementOfSeq
<1> QED BY <1>1 DEF EventType

LEMMA AppendNumbered ==
  ASSUME NEW g \in Seq(EventType), NEW p \in Seq(EventType), NEW m \in Nat, NEW n \in Nat,
         Ascending(g), Within(g, m), Continues(p, m), Len(p) <= n
  PROVE  /\ Ascending(g \o p) /\ Within(g \o p, m + n)
         /\ Len(p) = n => NumbersOf(g \o p) = NumbersOf(g) \cup (m + 1..m + n)
<1> DEFINE h == g \o p
           L == Len(g)
           k == Len(p)
<1>1. /\ L \in Nat /\ k \in Nat /\ Len(h) = L + k
      /\ \A i \in 1..L : i \in 1..Len(h) /\ h[i] = g[i] /\ g[i].seq \in Nat
      /\ \A i \in 1..k : L + i \in 1..Len(h) /\ h[L + i] = p[i]
      /\ \A x \in 1..Len(h) : x \in 1..L \/ \E i \in 1..k : x = L + i
  BY Joined, SeqIsNat
<1>2. /\ \A i \in 1..k : p[i].kind # "watcher" /\ p[i].seq = m + i
      /\ \A i, j \in 1..L : g[i].kind # "watcher" /\ g[j].kind # "watcher" /\ i < j
                              => g[i].seq < g[j].seq
      /\ \A i \in 1..L : g[i].kind # "watcher" => g[i].seq <= m
      /\ k <= n
  BY DEF Continues, Ascending, Within, NumberedIn
<1> HIDE DEF h, L, k
<1>3. \A x \in 1..Len(h) :
        h[x].kind # "watcher" =>
          \/ x \in 1..L /\ h[x].seq = g[x].seq /\ g[x].kind # "watcher" /\ h[x].seq <= m
             /\ h[x].seq \in Nat
          \/ \E i \in 1..k : x = L + i /\ h[x].seq = m + i
  <2> TAKE x \in 1..Len(h)
  <2>1. CASE x \in 1..L
    <3>1. h[x] = g[x] /\ g[x].seq \in Nat
      BY <1>1, <2>1
    <3> QED BY <1>2, <2>1, <3>1
  <2>2. ASSUME NEW i \in 1..k, x = L + i
        PROVE  h[x].seq = m + i
    BY <1>1, <1>2, <2>2
  <2> QED BY <1>1, <2>1, <2>2
<1>4. ASSUME NEW x \in 1..Len(h), NEW y \in 1..Len(h), x < y,
             h[x].kind # "watcher", h[y].kind # "watcher"
      PROVE  h[x].seq < h[y].seq
  <2>1. CASE \E i \in 1..k : x = L + i /\ h[x].seq = m + i
    <3>1. PICK i \in 1..k : x = L + i /\ h[x].seq = m + i
      BY <2>1
    <3>2. ~(y \in 1..L)
      BY <1>1, <1>4, <3>1
    <3>3. PICK j \in 1..k : y = L + j /\ h[y].seq = m + j
      BY <1>3, <1>4, <3>2
    <3> QED BY <1>1, <1>4, <3>1, <3>3
  <2>2. CASE x \in 1..L /\ h[x].seq = g[x].seq /\ g[x].kind # "watcher"
             /\ h[x].seq <= m /\ h[x].seq \in Nat
    <3>1. CASE y \in 1..L /\ h[y].seq = g[y].seq /\ g[y].kind # "watcher"
      BY <1>2, <1>4, <2>2, <3>1
    <3>2. CASE \E j \in 1..k : y = L + j /\ h[y].seq = m + j
      BY <2>2, <3>2
    <3> QED BY <1>3, <1>4, <3>1, <3>2
  <2> QED BY <1>3, <1>4, <2>1, <2>2
<1>5. ASSUME NEW x \in 1..Len(h), h[x].kind # "watcher"
      PROVE  h[x].seq <= m + n
  <2>1. CASE x \in 1..L /\ h[x].seq <= m /\ h[x].seq \in Nat
    BY <2>1
  <2>2. CASE \E i \in 1..k : x = L + i /\ h[x].seq = m + i
    BY <1>1, <1>2, <2>2
  <2> QED BY <1>3, <1>5, <2>1, <2>2
<1>6. ASSUME k = n
      PROVE  NumbersOf(h) = NumbersOf(g) \cup (m + 1..m + n)
  <2>1. ASSUME NEW x \in NumberedIn(h)
        PROVE  h[x].seq \in NumbersOf(g) \cup (m + 1..m + n)
    <3>0. x \in 1..Len(h) /\ h[x].kind # "watcher"
      BY DEF NumberedIn
    <3>1. CASE x \in 1..L /\ h[x].seq = g[x].seq /\ g[x].kind # "watcher"
      BY <3>1 DEF NumbersOf, NumberedIn, L
    <3>2. CASE \E i \in 1..k : x = L + i /\ h[x].seq = m + i
      BY <1>1, <1>6, <3>2
    <3> QED BY <1>3, <3>0, <3>1, <3>2
  <2>2. ASSUME NEW x \in NumberedIn(g)
        PROVE  g[x].seq \in NumbersOf(h)
    <3>1. x \in 1..L /\ g[x].kind # "watcher"
      BY DEF NumberedIn, L
    <3>2. x \in NumberedIn(h) /\ h[x].seq = g[x].seq
      BY <1>1, <3>1 DEF NumberedIn
    <3> QED BY <3>2 DEF NumbersOf
  <2>3. ASSUME NEW v \in m + 1..m + n
        PROVE  v \in NumbersOf(h)
    <3>1. PICK i \in 1..n : i = v - m
      OBVIOUS
    <3>2. L + i \in NumberedIn(h) /\ h[L + i].seq = m + i
      BY <1>1, <1>2, <1>6 DEF NumberedIn
    <3>3. m + i = v
      BY <3>1
    <3> QED BY <3>2, <3>3 DEF NumbersOf
  <2> QED BY <2>1, <2>2, <2>3 DEF NumbersOf
<1>7. Ascending(h) /\ Within(h, m + n)
  BY <1>4, <1>5 DEF Ascending, Within, NumberedIn
<1> QED BY <1>6, <1>7 DEF h, k

LEMMA AppendUncounted ==
  ASSUME NEW g \in Seq(EventType), NEW p \in Seq(EventType), Ascending(g), Uncounted(p)
  PROVE  /\ Ascending(g \o p) /\ NumbersOf(g \o p) = NumbersOf(g)
         /\ \A m : Within(g, m) => Within(g \o p, m)
<1> DEFINE h == g \o p
           L == Len(g)
<1>1. /\ \A i \in 1..L : i \in 1..Len(h) /\ h[i] = g[i]
      /\ \A x \in 1..Len(h) : x \in 1..L \/ h[x].kind = "watcher"
  BY Joined DEF Uncounted
<1>2. NumberedIn(h) = NumberedIn(g) /\ \A i \in NumberedIn(g) : h[i] = g[i]
  <2> HIDE DEF h
  <2> QED BY <1>1 DEF NumberedIn
<1> HIDE DEF h
<1>3. Ascending(h) /\ NumbersOf(h) = NumbersOf(g) /\ \A m : Within(g, m) => Within(h, m)
  BY <1>2 DEF Ascending, NumbersOf, Within
<1> QED BY <1>3 DEF h

\* A queue takes a beginning of what it is offered, all of it if it fits.
LEMMA OfferTakes ==
  ASSUME NEW buf \in Seq(EventType), NEW evs \in Seq(EventType)
  PROVE  \E p \in Seq(EventType) :
           /\ Offer(buf, evs) = buf \o p
           /\ Len(p) <= Len(evs) /\ \A i \in 1..Len(p) : p[i] = evs[i]
           /\ Fits(buf, evs) => Len(p) = Len(evs)
<1> DEFINE k == EventBuffer - Len(buf)
<1>1. Len(buf) \in Nat /\ Len(evs) \in Nat /\ k \in Int
  BY LiveHubAssumption, LenProperties
<1>2. CASE Fits(buf, evs)
  BY <1>1, <1>2 DEF Offer
<1>3. CASE ~Fits(buf, evs)
  <2>1. k < Len(evs)
    BY <1>1, <1>3, LiveHubAssumption DEF Fits
  <2>2. \A i \in 1..k : evs[i] \in EventType
    BY <1>1, <2>1, ElementOfSeq
  <2>3. /\ SubSeq(evs, 1, k) \in Seq(EventType)
        /\ Len(SubSeq(evs, 1, k)) = IF 1 <= k THEN k - 1 + 1 ELSE 0
        /\ \A i \in 1..k - 1 + 1 : SubSeq(evs, 1, k)[i] = evs[1 + i - 1]
    BY <1>1, <2>2, SubSeqProperties
  <2>4. Len(SubSeq(evs, 1, k)) <= Len(evs)
    BY <1>1, <2>1, <2>3
  <2>5. ASSUME NEW i \in 1..Len(SubSeq(evs, 1, k))
        PROVE  SubSeq(evs, 1, k)[i] = evs[i]
    <3>1. i \in 1..k - 1 + 1 /\ 1 + i - 1 = i
      BY <1>1, <2>3
    <3> QED BY <2>3, <3>1
  <2> QED BY <1>3, <2>3, <2>4, <2>5 DEF Offer
<1> QED BY <1>2, <1>3

\* What a step that only adds to watchers' queues does to one that is told evs.
Told(w, evs) ==
  /\ chan'[w].session = chan[w].session
  /\ chan'[w].buf = Offer(chan[w].buf, evs)
  /\ heard'[w].events = heard[w].events
  /\ PromisedAfter(w)' = PromisedAfter(w)
  /\ ~heard'[w].lossy => ~heard[w].lossy /\ Fits(chan[w].buf, evs)

\* The channel takes nothing, or moves an event from the queue to the page.
Untold(w) ==
  /\ chan'[w].session = chan[w].session /\ chan'[w].open = chan[w].open
  /\ Sent(w)' = Sent(w)
  /\ PromisedAfter(w)' = PromisedAfter(w)
  /\ heard'[w].lossy = heard[w].lossy

LEMMA ToldSent ==
  ASSUME TypeOK, NEW w \in Watchers, NEW evs \in Seq(EventType), Told(w, evs)
  PROVE  \E p \in Seq(EventType) :
           /\ Sent(w)' = Sent(w) \o p
           /\ Len(p) <= Len(evs) /\ \A i \in 1..Len(p) : p[i] = evs[i]
           /\ ~heard'[w].lossy => ~heard[w].lossy /\ Len(p) = Len(evs)
<1>1. chan[w].buf \in Seq(EventType) /\ heard[w].events \in Seq(EventType)
  BY DEF TypeOK, ChanType, HeardType
<1>2. PICK p \in Seq(EventType) :
        /\ Offer(chan[w].buf, evs) = chan[w].buf \o p
        /\ Len(p) <= Len(evs) /\ \A i \in 1..Len(p) : p[i] = evs[i]
        /\ Fits(chan[w].buf, evs) => Len(p) = Len(evs)
  BY <1>1, OfferTakes
<1>3. Sent(w)' = heard[w].events \o (chan[w].buf \o p)
  BY <1>2 DEF Told, Sent
<1>4. Sent(w)' = Sent(w) \o p
  <2>1. (heard[w].events \o chan[w].buf) \o p = heard[w].events \o (chan[w].buf \o p)
    <3>1. \A a, b, c \in Seq(EventType) : (a \o b) \o c = a \o (b \o c)
      BY ConcatAssociative
    <3> QED BY <1>1, <3>1, Zenon
  <2> QED BY <1>3, <2>1, Zenon DEF Sent
<1> QED BY <1>2, <1>4 DEF Told

\* The stream of a watcher, event by event: numbered in order from what it was
\* promised to what its session has reached, without a hole unless its queue
\* overflowed, and over only when the session is.
StreamIsRight(w) ==
  LET s == chan[w].session
      g == Sent(w)
  IN /\ Ascending(g)
     /\ chan[w].open \/ sess[s].state \in {"ended", "forgotten"}
     /\ Live(s) => Within(g, sess[s].seq) /\ PromisedAfter(w) <= sess[s].seq
     /\ Present(s) /\ ~heard[w].lossy => NumbersOf(g) = PromisedAfter(w) + 1..sess[s].seq

Streaming(w) == chan[w].phase \in {"announcing", "streaming"}
StreamsAreRight == \A w \in Watchers : Streaming(w) => StreamIsRight(w)

LEMMA PromisedIsNat ==
  ASSUME TypeOK, NEW w \in Watchers
  PROVE  PromisedAfter(w) \in Nat
BY DEF TypeOK, HeardType, PromisedAfter

LEMMA UntoldStream ==
  ASSUME NEW w \in Watchers, StreamIsRight(w), Untold(w), SameStream(chan[w].session)
  PROVE  StreamIsRight(w)'
BY DEF StreamIsRight, Untold, SameStream, Live, Present

LEMMA CountedStream ==
  ASSUME TypeOK, NEW w \in Watchers, StreamIsRight(w), SameStream(chan[w].session),
         NEW evs \in Seq(EventType), Uncounted(evs), Told(w, evs),
         chan'[w].open = chan[w].open
  PROVE  StreamIsRight(w)'
<1>1. PICK p \in Seq(EventType) :
        /\ Sent(w)' = Sent(w) \o p
        /\ Len(p) <= Len(evs) /\ \A i \in 1..Len(p) : p[i] = evs[i]
        /\ ~heard'[w].lossy => ~heard[w].lossy /\ Len(p) = Len(evs)
  BY ToldSent
<1>2. Uncounted(p)
  BY <1>1 DEF Uncounted
<1>3. Sent(w) \in Seq(EventType)
  BY ConcatProperties DEF Sent, TypeOK, ChanType, HeardType
<1>4. /\ Ascending(Sent(w) \o p) /\ NumbersOf(Sent(w) \o p) = NumbersOf(Sent(w))
      /\ \A m : Within(Sent(w), m) => Within(Sent(w) \o p, m)
  BY <1>2, <1>3, AppendUncounted DEF StreamIsRight
<1> QED BY <1>1, <1>4 DEF StreamIsRight, SameStream, Live, Present, Told

\* n events more, at the session and for those who watch it.
LEMMA LongerStream ==
  ASSUME TypeOK, NEW w \in Watchers, StreamIsRight(w),
         NEW s \in Sessions, chan[w].session = s, Live(s),
         NEW n \in Nat, NEW evs \in Seq(EventType), Len(evs) = n,
         Continues(evs, sess[s].seq), Told(w, evs),
         sess'[s].seq = sess[s].seq + n,
         chan'[w].open \/ sess'[s].state = "ended"
  PROVE  StreamIsRight(w)'
<1> DEFINE m == sess[s].seq
           g == Sent(w)
<1>0. m \in Nat /\ PromisedAfter(w) \in Nat /\ g \in Seq(EventType)
  BY PromisedIsNat, ConcatProperties DEF Sent, TypeOK, SessionType, ChanType, HeardType
<1>1. PICK p \in Seq(EventType) :
        /\ Sent(w)' = Sent(w) \o p
        /\ Len(p) <= Len(evs) /\ \A i \in 1..Len(p) : p[i] = evs[i]
        /\ ~heard'[w].lossy => ~heard[w].lossy /\ Len(p) = Len(evs)
  BY ToldSent
<1>2. Continues(p, m) /\ Len(p) <= n
  <2>1. \A i \in 1..Len(p) : i \in 1..Len(evs)
    BY <1>1
  <2> QED BY <1>1, <2>1 DEF Continues
<1>3. /\ Ascending(g) /\ Within(g, m) /\ PromisedAfter(w) <= m
      /\ ~heard[w].lossy => NumbersOf(g) = PromisedAfter(w) + 1..m
  BY DEF StreamIsRight, Live, Present
<1> HIDE DEF m, g
<1>4. /\ Ascending(g \o p) /\ Within(g \o p, m + n)
      /\ Len(p) = n => NumbersOf(g \o p) = NumbersOf(g) \cup (m + 1..m + n)
  BY <1>0, <1>2, <1>3, AppendNumbered
<1>5. ~heard'[w].lossy => NumbersOf(g \o p) = PromisedAfter(w) + 1..m + n
  <2>1. (PromisedAfter(w) + 1..m) \cup (m + 1..m + n) = PromisedAfter(w) + 1..m + n
    BY <1>0, <1>3
  <2> QED BY <1>1, <1>3, <1>4, <2>1
<1>6. /\ Sent(w)' = g \o p /\ sess'[s].seq = m + n
      /\ chan'[w].session = s /\ PromisedAfter(w)' = PromisedAfter(w)
  BY <1>1 DEF g, m, Told
<1>7. PromisedAfter(w) <= m + n
  BY <1>0, <1>3
<1> QED BY <1>4, <1>5, <1>6, <1>7 DEF StreamIsRight, Live, Present

\* The end of sessions is the last event of those who watch them.
LEMMA EndingStreams ==
  ASSUME TypeOK, Wiring, WatchersInStep, StreamsAreRight, NEW E \in SUBSET Sessions,
         EndsOrKeeps(E), WatchersAfterEnd(E)
  PROVE  StreamsAreRight'
<1> SUFFICES ASSUME NEW w \in Watchers, Streaming(w)'
             PROVE  StreamIsRight(w)'
  BY DEF StreamsAreRight
<1>0. chan[w] \in ChanType /\ heard[w] \in HeardType /\ EventBuffer \in Nat
  BY LiveHubAssumption DEF TypeOK
<1> DEFINE s == chan[w].session
           f == Final(E, w)
           x(b) == [chan[w] EXCEPT !.open = FALSE, !.buf = b]
           b0 == Offer(chan[w].buf, f)
           h == [heard[w] EXCEPT !.lossy = TRUE]
<1>1. /\ chan'[w] = IF WatchedBy(E, w) # {} THEN x(b0) ELSE chan[w]
      /\ heard'[w] = IF WatchedBy(E, w) # {} /\ Len(chan[w].buf) >= EventBuffer
                       THEN h ELSE heard[w]
  BY Zenon DEF WatchersAfterEnd
<1>2. \A b : /\ x(b).phase = chan[w].phase /\ x(b).session = s /\ x(b).buf = b
             /\ ~x(b).open
  BY <1>0 DEF ChanType
<1>3. /\ h.after = heard[w].after /\ h.missed = heard[w].missed /\ h.lossy
      /\ h.joined = heard[w].joined /\ h.events = heard[w].events
  BY <1>0 DEF HeardType
<1> HIDE DEF x, b0, h
<1>4. Streaming(w) /\ StreamIsRight(w) /\ s \in Sessions
  BY <1>1, <1>2 DEF Streaming, StreamsAreRight, Wiring
<1>5. \A e \in E : w \in sess[e].watchers <=> (e = s /\ chan[w].open)
  BY DEF WatchersInStep, WatchersAreTheOpenChannels
<1>6. CASE s \in E
  <2>1. Ends(s) /\ Live(s) /\ chan[w].open
    BY <1>4, <1>6 DEF EndsOrKeeps, Ends, Live, LiveStates, StreamIsRight
  <2>2. WatchedBy(E, w) = {s}
    BY <1>5, <1>6, <2>1 DEF WatchedBy
  <2>3. f = <<EndedEvent(1 + sess[s].seq)>>
    BY <2>2 DEF Final
  <2>4. sess[s].seq \in Nat
    BY <1>4 DEF TypeOK, SessionType
  <2>5. f \in Seq(EventType) /\ Len(f) = 1 /\ Continues(f, sess[s].seq)
    <3>1. EndedEvent(1 + sess[s].seq) \in EventType
      BY <2>4, EventTypes
    <3>2. f \in Seq(EventType) /\ Len(f) = 1 /\ f[1] = EndedEvent(1 + sess[s].seq)
      BY <2>3, <3>1
    <3> HIDE DEF f
    <3> QED BY <2>4, <3>2 DEF Continues, EndedEvent
  <2>6. Told(w, f)
    <3>1. ~(Len(chan[w].buf) >= EventBuffer) => Fits(chan[w].buf, f)
      BY <1>0, <2>5, LenProperties DEF Fits, ChanType
    <3> QED BY <1>1, <1>2, <1>3, <2>2, <3>1 DEF Told, PromisedAfter, b0
  <2>7. sess'[s].seq = sess[s].seq + 1 /\ sess'[s].state = "ended"
    BY <2>1 DEF Ends
  <2> HIDE DEF f, s
  <2> QED BY <1>4, <2>1, <2>5, <2>6, <2>7, LongerStream DEF s
<1>7. CASE s \notin E
  <2>1. WatchedBy(E, w) = {}
    BY <1>5, <1>7 DEF WatchedBy
  <2>2. chan'[w] = chan[w] /\ heard'[w] = heard[w]
    BY <1>1, <2>1
  <2>3. Forgotten(s) \/ Begins(s) \/ Carries(s)
    BY <1>4, <1>7 DEF EndsOrKeeps
  <2>4. CASE Forgotten(s)
    BY <1>4, <2>2, <2>4 DEF Forgotten, StreamIsRight, Sent, PromisedAfter, Live, Present, LiveStates
  <2>5. CASE Begins(s)
    <3>1. chan[w].open
      BY <1>4, <2>5 DEF Begins, StreamIsRight
    <3> QED BY <1>4, <2>5, <3>1 DEF Begins, WatchersInStep, WatchersAreTheOpenChannels, LiveStates
  <2>6. CASE Carries(s)
    BY <1>4, <2>2, <2>6 DEF Carries, StreamIsRight, Sent, PromisedAfter, Live, Present, LiveStates
  <2> QED BY <2>3, <2>4, <2>5, <2>6
<1> QED BY <1>6, <1>7
\* What a reconnecting watcher is handed follows on from what it was promised.
LEMMA BacklogFollows ==
  ASSUME NEW s \in Sessions, NEW after \in Nat, NEW q \in Nat, NEW from,
         sess[s].recent \in Seq(Nat), HoldsLatest(sess[s].recent, q),
         from = IF after = 0 \/ after > q THEN q ELSE after + Missed(s, after)
  PROVE  /\ from \in Nat /\ from <= q
         /\ Backlog(s, after) \in Seq(Nat)
         /\ Len(Backlog(s, after)) = q - from /\ Counts(Backlog(s, after), from)
<1> DEFINE ring == sess[s].recent
           L == Len(ring)
           base == q - L
           k == Skipped(s, after)
           b == Backlog(s, after)
<1>1. ring \in Seq(Nat) /\ L \in Nat /\ L <= q /\ Counts(ring, base) /\ base \in Nat
      /\ (L = 0 => q = 0) /\ (ring = <<>> <=> L = 0)
      /\ (\A i \in 1..L : ring[i] = base + i)
  BY LenProperties, EmptySeq DEF HoldsLatest, Counts
<1>2. k = Cardinality({i \in 1..L : ring[i] <= after})
  BY DEF Skipped
<1>a. /\ after = 0 => b = <<>>
      /\ after # 0 => b = SubSeq(ring, 1 + k, L)
  BY DEF Backlog
<1>b. Missed(s, after) = IF after > 0 /\ ring # <<>> /\ ring[1] > after + 1
                           THEN ring[1] - after - 1 ELSE 0
  BY DEF Missed
<1> HIDE DEF ring, L, k, b, base
<1>3. ASSUME NEW o \in Nat, o <= L, after # 0, base + o = from, k = o
      PROVE  b \in Seq(Nat) /\ Len(b) = L - o /\ Counts(b, base + o)
  <2>1. /\ SubSeq(ring, 1 + o, Len(ring)) \in Seq(Nat)
        /\ Len(SubSeq(ring, 1 + o, Len(ring))) = Len(ring) - o
        /\ Counts(SubSeq(ring, 1 + o, Len(ring)), base + o)
    <3>1. base \in Int /\ o <= Len(ring)
      BY <1>1, <1>3 DEF L
    <3> QED BY <1>1, <1>3, <3>1, LatestOf
  <2>2. b = SubSeq(ring, 1 + o, Len(ring))
    BY <1>3, <1>a DEF L
  <2> QED BY <2>1, <2>2 DEF L
<1>4. ASSUME NEW o \in Nat, o <= L, {i \in 1..L : base + i <= after} = 1..o
      PROVE  k = o
  <2>1. {i \in 1..L : ring[i] <= after} = 1..o
    BY <1>1, <1>4
  <2>2. Cardinality(1..o) = o
    BY FS_Interval
  <2> QED BY <1>2, <2>1, <2>2
<1>5. CASE after = 0
  <2>1. b = <<>> /\ from = q
    BY <1>5, <1>a
  <2> QED BY <2>1, EmptySeq DEF Counts, b
<1>6. CASE after > q
  <2>1. {i \in 1..L : base + i <= after} = 1..L
    BY <1>1, <1>6 DEF base
  <2>2. k = L /\ base + L = from /\ from = q
    BY <1>1, <1>4, <1>6, <2>1 DEF base
  <2>3. L \in Nat /\ L <= L
    BY <1>1
  <2>4. b \in Seq(Nat) /\ Len(b) = L - L /\ Counts(b, base + L)
    BY <1>3, <1>6, <2>2, <2>3
  <2> QED BY <1>1, <2>2, <2>4 DEF b
<1>7. CASE after # 0 /\ after <= q /\ after >= base
  <2> DEFINE o == after - base
  <2>1. o \in Nat /\ o <= L
    BY <1>1, <1>7 DEF base
  <2>2. {i \in 1..L : base + i <= after} = 1..o
    BY <1>1, <1>7, <2>1
  <2>3. Missed(s, after) = 0
    <3>1. L # 0 => ring[1] = base + 1
      BY <1>1
    <3> QED BY <1>1, <1>7, <1>b, <3>1
  <2>4. from = after /\ base + o = from
    BY <1>1, <1>7, <2>3
  <2>5. k = o
    BY <1>4, <2>1, <2>2
  <2>6. b \in Seq(Nat) /\ Len(b) = L - o /\ Counts(b, base + o)
    BY <1>3, <1>7, <2>1, <2>4, <2>5
  <2> QED BY <1>1, <1>7, <2>4, <2>6 DEF b, base
<1>8. CASE after # 0 /\ after <= q /\ after < base
  <2>1. L # 0 /\ ring[1] = base + 1
    BY <1>1, <1>8
  <2>2. Missed(s, after) = base - after
    BY <1>1, <1>8, <1>b, <2>1
  <2>3. from = base /\ base + 0 = from
    BY <1>1, <1>8, <2>2
  <2>4. {i \in 1..L : base + i <= after} = 1..0
    BY <1>1, <1>8
  <2>5. k = 0
    BY <1>1, <1>4, <2>4
  <2>6. b \in Seq(Nat) /\ Len(b) = L - 0 /\ Counts(b, base + 0)
    BY <1>1, <1>3, <1>8, <2>3, <2>5
  <2> QED BY <1>1, <2>3, <2>6 DEF b, base
<1>9. after = 0 \/ after > q \/ (after <= q /\ (after >= base \/ after < base))
  BY <1>1
<1> QED BY <1>5, <1>6, <1>7, <1>8, <1>9

\* A watcher that joins: what it is handed, and nothing queued yet.
LEMMA NewStream ==
  ASSUME TypeOK, Wiring, RingIsRight, NEW w \in Watchers, NEW s \in Sessions,
         NEW after \in 0..MaxSeq, Watch(w, s, after)
  PROVE  StreamIsRight(w)'
<1> DEFINE q == sess[s].seq
           b == Backlog(s, after)
           g == [i \in 1..Len(b) |-> LogEvent(b[i])]
           from == IF after = 0 \/ after > q THEN q ELSE after + Missed(s, after)
<1>0. after \in Nat /\ q \in Nat /\ sess[s].recent \in Seq(Nat) /\ Live(s)
  <2>1. after \in Nat
    BY LiveHubAssumption
  <2>2. sess[s] \in SessionType
    BY DEF TypeOK
  <2>3. q \in Nat /\ sess[s].recent \in Seq(Nat)
    BY <2>2 DEF SessionType
  <2>4. Live(s)
    BY DEF Watch
  <2> QED BY <2>1, <2>3, <2>4
<1>1. /\ from \in Nat /\ from <= q /\ b \in Seq(Nat) /\ Len(b) = q - from
      /\ Counts(b, from)
  <2>1. HoldsLatest(sess[s].recent, q)
    BY <1>0 DEF RingIsRight
  <2> HIDE DEF b, q, from
  <2> QED BY <1>0, <2>1, BacklogFollows DEF b, from
<1>2. /\ chan'[w] = [phase |-> "announcing", session |-> s, open |-> TRUE, buf |-> <<>>,
                     count |-> Cardinality(sess[s].watchers \cup {w})]
      /\ heard'[w] = [after |-> after, missed |-> Missed(s, after), joined |-> q,
                      events |-> g, lossy |-> FALSE]
  BY DEF Watch, TypeOK
<1>3. /\ chan'[w].session = s /\ chan'[w].open /\ chan'[w].buf = <<>>
      /\ heard'[w].events = g /\ PromisedAfter(w)' = from
  <2> HIDE DEF g, q
  <2> QED BY <1>2 DEF PromisedAfter, from
<1>4. SameStream(s)
  BY QuietSessions DEF WatchNext
<1> HIDE DEF b, q, from
<1>5. g \in Seq(EventType) /\ Len(g) = q - from /\ Continues(g, from)
  <2>1. \A i \in 1..Len(b) : b[i] \in Nat /\ b[i] = from + i
    BY <1>1, ElementOfSeq DEF Counts
  <2>2. \A i \in 1..Len(b) : LogEvent(b[i]) \in EventType
    BY <2>1, EventTypes
  <2>3. g \in Seq(EventType) /\ Len(g) = Len(b)
    BY <1>1, <2>2
  <2> QED BY <1>1, <2>1, <2>3 DEF Continues, LogEvent
<1> HIDE DEF g
<1>6. Sent(w)' = <<>> \o g
  <2>1. Sent(w)' = g \o <<>>
    BY <1>3 DEF Sent
  <2> QED BY <1>5, <2>1, ConcatEmptySeq
<1>7. /\ Ascending(<<>> \o g) /\ Within(<<>> \o g, from + (q - from))
      /\ NumbersOf(<<>> \o g) = NumbersOf(<<>>) \cup (from + 1..from + (q - from))
  <2> DEFINE n == q - from
             e == <<>>
  <2>1. e \in Seq(EventType) /\ Ascending(e) /\ Within(e, from)
    BY DEF Ascending, Within, NumberedIn
  <2>2. n \in Nat /\ Len(g) = n /\ Len(g) <= n
    BY <1>0, <1>1, <1>5
  <2> HIDE DEF n, e
  <2>3. /\ Ascending(e \o g) /\ Within(e \o g, from + n)
        /\ Len(g) = n => NumbersOf(e \o g) = NumbersOf(e) \cup (from + 1..from + n)
    BY <1>1, <1>5, <2>1, <2>2, AppendNumbered
  <2> QED BY <2>2, <2>3, Zenon DEF n, e
<1>8. NumbersOf(<<>>) = {} /\ from + (q - from) = q
  BY <1>0, <1>1 DEF NumbersOf, NumberedIn
<1> QED BY <1>1, <1>3, <1>4, <1>6, <1>7, <1>8 DEF StreamIsRight, SameStream, Live, Present, q
LEMMA AlongTheStream ==
  ASSUME NEW buf \in Seq(EventType), NEW sent \in Seq(EventType), buf # <<>>
  PROVE  Append(sent, Head(buf)) \o Tail(buf) = sent \o buf
<1> DEFINE e == Head(buf)
           t == Tail(buf)
<1>1. e \in EventType /\ t \in Seq(EventType)
  BY HeadTailProperties
<1>2. <<e>> \in Seq(EventType) /\ Append(sent, e) = sent \o <<e>>
  BY <1>1, AppendIsConcat
<1>3. <<e>> \o t = buf
  <2>1. Len(buf) \in Nat /\ Len(buf) # 0
    BY LenProperties, EmptySeq
  <2>2. 1 \in 1..Len(buf) /\ Len(buf) \in 1..Len(buf)
    BY <2>1
  <2>3. SubSeq(buf, 1, Len(buf)) = <<buf[1]>> \o SubSeq(buf, 1 + 1, Len(buf))
    BY <2>2, SubSeqRecursiveFirst
  <2>4. SubSeq(buf, 1, Len(buf)) = buf
    BY SubSeqFull
  <2>5. t = SubSeq(buf, 2, Len(buf))
    BY TailIsSubSeq
  <2> QED BY <2>3, <2>4, <2>5
<1>4. \A a, b, c \in Seq(EventType) : (a \o b) \o c = a \o (b \o c)
  BY ConcatAssociative
<1> HIDE DEF e, t
<1>5. (sent \o <<e>>) \o t = sent \o (<<e>> \o t)
  BY <1>1, <1>2, <1>4, Zenon
<1> QED BY <1>2, <1>3, <1>5 DEF e, t

\* A watcher that the step does not concern.
LEMMA Unconcerned ==
  ASSUME Wiring, NEW w \in Watchers, Streaming(w), StreamIsRight(w),
         chan'[w] = chan[w], heard'[w] = heard[w], \A t \in Sessions : SameStream(t)
  PROVE  StreamIsRight(w)'
<1>1. Untold(w)
  BY DEF Untold, Sent, PromisedAfter
<1>2. chan[w].session \in Sessions
  BY DEF Wiring, Streaming
<1> QED BY <1>1, <1>2, UntoldStream

LEMMA PublishStreams ==
  ASSUME TypeOK, Wiring, WatchersInStep, StreamsAreRight,
         NEW s \in Sessions, NEW n \in 1..MaxBatch, Publish(s, n)
  PROVE  StreamsAreRight'
<1> SUFFICES ASSUME NEW w \in Watchers, Streaming(w)'
             PROVE  StreamIsRight(w)'
  BY DEF StreamsAreRight
<1> DEFINE evs == NewLogs(s, n)
           ws == sess[s].watchers
           x(b) == [chan[w] EXCEPT !.buf = b]
           b0 == Offer(chan[w].buf, evs)
           h == [heard[w] EXCEPT !.lossy = TRUE]
<1>0. chan[w] \in ChanType /\ heard[w] \in HeardType /\ sess[s].seq \in Nat /\ n \in Nat
  BY LiveHubAssumption DEF TypeOK, SessionType
<1>1. /\ chan'[w] = IF w \in ws THEN x(b0) ELSE chan[w]
      /\ heard'[w] = IF w \in ws /\ ~Fits(chan[w].buf, evs) THEN h ELSE heard[w]
  BY Zenon DEF Publish, FanOut
<1>2. \A b : /\ x(b).phase = chan[w].phase /\ x(b).session = chan[w].session
             /\ x(b).buf = b /\ x(b).open = chan[w].open
  BY <1>0 DEF ChanType
<1>3. /\ h.after = heard[w].after /\ h.missed = heard[w].missed /\ h.lossy
      /\ h.joined = heard[w].joined /\ h.events = heard[w].events
  BY <1>0 DEF HeardType
<1>a. evs \in Seq(EventType) /\ Len(evs) = n /\ Continues(evs, sess[s].seq)
  <2>1. \A i \in 1..n : LogEvent(sess[s].seq + i) \in EventType
    BY <1>0, EventTypes
  <2> QED BY <1>0, <2>1 DEF NewLogs, Continues, LogEvent
<1> HIDE DEF x, b0, h, evs, ws
<1>4. Streaming(w) /\ StreamIsRight(w) /\ chan[w].session \in Sessions
  BY <1>1, <1>2 DEF Streaming, StreamsAreRight, Wiring
<1>5. /\ sess'[s].state = sess[s].state /\ Live(s)
      /\ sess'[s].seq = sess[s].seq + n
      /\ \A t \in Sessions \ {s} : SameStream(t)
  BY PublishFields
<1>6. CASE chan[w].session = s
  <2>1. chan[w].open
    BY <1>4, <1>5, <1>6 DEF StreamIsRight, Live, LiveStates
  <2>2. w \in ws
    BY <1>6, <2>1 DEF WatchersInStep, WatchersAreTheOpenChannels, ws
  <2>3. Told(w, evs)
    BY <1>1, <1>2, <1>3, <2>2 DEF Told, PromisedAfter, b0
  <2>4. chan'[w].open
    BY <1>1, <1>2, <2>1, <2>2
  <2> QED BY <1>0, <1>4, <1>5, <1>6, <1>a, <2>3, <2>4, LongerStream
<1>7. CASE chan[w].session # s
  <2>1. w \notin ws
    BY <1>7 DEF WatchersInStep, WatchersAreTheOpenChannels, ws
  <2>2. Untold(w)
    BY <1>1, <2>1 DEF Untold, Sent, PromisedAfter
  <2> QED BY <1>4, <1>5, <1>7, <2>2, UntoldStream
<1> QED BY <1>6, <1>7

LEMMA AnnounceStreams ==
  ASSUME TypeOK, Wiring, WatchersInStep, StreamsAreRight, NEW v \in Watchers, Announce(v)
  PROVE  StreamsAreRight'
<1> SUFFICES ASSUME NEW w \in Watchers, Streaming(w)'
             PROVE  StreamIsRight(w)'
  BY DEF StreamsAreRight
<1> DEFINE evs == <<WatcherEvent(chan[v].count)>>
           told == sess[chan[v].session].watchers
           x(b, p) == [chan[w] EXCEPT !.buf = b, !.phase = p]
           b0 == IF w \in told THEN Offer(chan[w].buf, evs) ELSE chan[w].buf
           p0 == IF w # v THEN chan[w].phase
                 ELSE IF chan[w].phase = "announcing" THEN "streaming" ELSE "done"
           h == [heard[w] EXCEPT !.lossy = TRUE]
<1>0. chan[w] \in ChanType /\ heard[w] \in HeardType /\ chan[v].count \in Nat
  BY DEF TypeOK, ChanType
<1>1. chan'[w] = x(b0, p0)
  BY Zenon DEF Announce
<1>b. heard'[w] = IF w \in told /\ ~Fits(chan[w].buf, evs) THEN h ELSE heard[w]
  BY Zenon DEF Announce
<1>2. \A b, p : /\ x(b, p).phase = p /\ x(b, p).session = chan[w].session
                /\ x(b, p).buf = b /\ x(b, p).open = chan[w].open
  BY <1>0 DEF ChanType
<1>3. /\ h.after = heard[w].after /\ h.missed = heard[w].missed /\ h.lossy
      /\ h.joined = heard[w].joined /\ h.events = heard[w].events
  BY <1>0 DEF HeardType
<1>a. evs \in Seq(EventType) /\ Uncounted(evs)
  BY <1>0, EventTypes DEF Uncounted, WatcherEvent
<1>c. p0 \in {"announcing", "streaming"} => chan[w].phase \in {"announcing", "streaming"}
  OBVIOUS
<1> HIDE DEF x, h, evs, told, p0
<1>4. Streaming(w) /\ StreamIsRight(w) /\ chan[w].session \in Sessions
  BY <1>1, <1>2, <1>c DEF Streaming, StreamsAreRight, Wiring
<1>5. SameStream(chan[w].session)
  <2>1. UNCHANGED sess
    BY DEF Announce
  <2> QED BY <2>1 DEF SameStream
<1>6. CASE w \in told
  <2>1. Told(w, evs)
    BY <1>1, <1>2, <1>3, <1>b, <1>6 DEF Told, PromisedAfter
  <2>2. chan'[w].open = chan[w].open
    BY <1>1, <1>2
  <2> QED BY <1>4, <1>5, <1>a, <2>1, <2>2, CountedStream
<1>7. CASE w \notin told
  <2>1. Untold(w)
    <3>1. b0 = chan[w].buf /\ heard'[w] = heard[w]
      BY <1>b, <1>7
    <3>2. /\ chan'[w].buf = chan[w].buf /\ chan'[w].open = chan[w].open
          /\ chan'[w].session = chan[w].session
      BY <1>1, <1>2, <3>1
    <3> QED BY <3>1, <3>2 DEF Untold, Sent, PromisedAfter
  <2> QED BY <1>4, <1>5, <2>1, UntoldStream
<1> QED BY <1>6, <1>7

LEMMA WatchStreams ==
  ASSUME TypeOK, Wiring, WatchersInStep, RingIsRight, StreamsAreRight, WatchNext
  PROVE  StreamsAreRight'
<1> PICK v \in Watchers :
      \/ \E s \in Sessions, after \in 0..MaxSeq : Watch(v, s, after)
      \/ Announce(v) \/ Receive(v) \/ StreamOver(v) \/ Cancel(v)
  BY DEF WatchNext
<1>0. chan \in [Watchers -> ChanType] /\ heard \in [Watchers -> HeardType]
  BY DEF TypeOK
<1>1. \A t \in Sessions : SameStream(t)
  BY QuietSessions
<1>2. ASSUME NEW w \in Watchers \ {v},
             Streaming(w), ~Announce(v)
      PROVE  StreamIsRight(w)'
  <2>1. chan'[w] = chan[w] /\ heard'[w] = heard[w]
    BY <1>0, <1>2 DEF Watch, Receive, StreamOver, Cancel
  <2> QED BY <1>1, <1>2, <2>1, Unconcerned DEF StreamsAreRight
<1>3. CASE Announce(v)
  BY <1>3, AnnounceStreams
<1>4. ASSUME NEW s \in Sessions, NEW after \in 0..MaxSeq, Watch(v, s, after)
      PROVE  StreamsAreRight'
  <2>1. StreamIsRight(v)'
    BY <1>4, NewStream
  <2>2. \A w \in Watchers \ {v} : chan'[w] = chan[w]
    BY <1>0, <1>4 DEF Watch
  <2>3. ~Announce(v)
    BY <1>4 DEF Watch, Announce
  <2>4. \A w \in Watchers \ {v} : Streaming(w)' => Streaming(w)
    BY <2>2 DEF Streaming
  <2> QED BY <1>2, <2>1, <2>3, <2>4 DEF StreamsAreRight
<1>5. CASE Receive(v)
  <2> DEFINE x(b) == [chan[v] EXCEPT !.buf = b]
             y(g) == [heard[v] EXCEPT !.events = g]
             b0 == Tail(chan[v].buf)
             g0 == Append(heard[v].events, Head(chan[v].buf))
  <2>1. chan' = [chan EXCEPT ![v] = x(b0)] /\ heard' = [heard EXCEPT ![v] = y(g0)]
    BY <1>0, <1>5, Zenon DEF Receive
  <2>2. \A b : x(b).phase = chan[v].phase /\ x(b).session = chan[v].session
               /\ x(b).buf = b /\ x(b).open = chan[v].open
    BY <1>0 DEF ChanType
  <2>3. \A g : /\ y(g).after = heard[v].after /\ y(g).missed = heard[v].missed
               /\ y(g).lossy = heard[v].lossy
               /\ y(g).joined = heard[v].joined /\ y(g).events = g
    BY <1>0 DEF HeardType
  <2>4. /\ chan[v].buf # <<>> /\ chan[v].buf \in Seq(EventType) /\ Streaming(v)
        /\ heard[v].events \in Seq(EventType) /\ ~Announce(v)
    BY <1>0, <1>5 DEF Receive, ChanType, HeardType, Streaming, Announce
  <2>5. g0 \o b0 = Sent(v)
    BY <2>4, AlongTheStream DEF Sent
  <2> HIDE DEF x, y, b0, g0
  <2>6. /\ chan'[v] = x(b0) /\ heard'[v] = y(g0)
        /\ \A w \in Watchers \ {v} : chan'[w] = chan[w]
    BY <1>0, <2>1
  <2>7. Untold(v)
    <3>1. Sent(v)' = g0 \o b0
      BY <2>2, <2>3, <2>6 DEF Sent
    <3> QED BY <2>2, <2>3, <2>5, <2>6, <3>1 DEF Untold, PromisedAfter
  <2>8. StreamIsRight(v)'
    BY <1>1, <2>4, <2>7, UntoldStream DEF StreamsAreRight, Wiring, Streaming
  <2>9. \A w \in Watchers \ {v} : Streaming(w)' => Streaming(w)
    BY <2>6 DEF Streaming
  <2> QED BY <1>2, <2>4, <2>8, <2>9 DEF StreamsAreRight
<1>6. CASE StreamOver(v) \/ Cancel(v)
  <2>1. ~Streaming(v)'
    BY <1>0, <1>6 DEF StreamOver, Cancel, Streaming, ChanType
  <2>2. \A w \in Watchers \ {v} : Streaming(w)' => Streaming(w)
    BY <1>0, <1>6 DEF StreamOver, Cancel, Streaming
  <2> QED BY <1>2, <1>3, <2>1, <2>2 DEF StreamsAreRight
<1> QED BY <1>3, <1>4, <1>5, <1>6

LEMMA StreamsStep ==
  ASSUME TypeOK, Wiring, WatchersInStep, RingIsRight, StreamsAreRight, [Next]_vars
  PROVE  StreamsAreRight'
<1>1. CASE PairingNext \/ \E s \in Sessions : DeviceLeaves(s) /\ Live(s)
  <2>1. PICK E \in SUBSET Sessions :
          EndsOrKeeps(E) /\ WatchersAfterEnd(E) /\ ask' = AsksAfterEnd(E)
    BY <1>1, EndingEffect
  <2> QED BY <2>1, EndingStreams
<1>2. ASSUME NEW s \in Sessions, NEW n \in 1..MaxBatch, Publish(s, n)
      PROVE  StreamsAreRight'
  BY <1>2, PublishStreams
<1>3. CASE WatchNext
  BY <1>3, WatchStreams
<1>4. CASE \/ AskNext \/ Tick \/ UNCHANGED vars
           \/ \E s \in Sessions : \/ AttachDevice(s) \/ Touch(s)
                                  \/ \E r \in Requests : Deliver(s, r)
                                  \/ (DeviceLeaves(s) /\ ~Live(s))
  <2>1. \A t \in Sessions : SameStream(t)
    BY <1>4, QuietSessions
  <2>2. UNCHANGED <<chan, heard>>
    BY <1>4 DEF AskNext, Ask, AskSent, AskAnswered, AskTimeout, AskLeaves, Tick, vars,
                AttachDevice, Touch, Deliver, DeviceLeaves
  <2> QED BY <2>1, <2>2, Unconcerned DEF StreamsAreRight, Streaming
<1> QED BY <1>1, <1>2, <1>3, <1>4 DEF Next, DeviceNext

\* A watcher whose queue never overflowed is sent, over the page it reloads from
\* and the stream, every event after those it was told it missed, once and in
\* order, up to the end of the session; any other has a part of them, in order.
THEOREM StreamsSafe == Spec => []NeitherHoleNorDuplicate
<1>1. Init => RingIsRight /\ StreamsAreRight
  BY DEF Init, Blank, RingIsRight, Live, LiveStates, StreamsAreRight, Streaming
<1>2. TypeOK /\ Wiring /\ WatchersInStep /\ RingIsRight /\ StreamsAreRight /\ [Next]_vars
        => RingIsRight' /\ StreamsAreRight'
  BY RingStep, StreamsStep
<1>3. StreamsAreRight => NeitherHoleNorDuplicate
  BY DEF StreamsAreRight, StreamIsRight, NeitherHoleNorDuplicate, Streaming,
         Ascending, NumbersOf, Sent
<1> QED BY <1>1, <1>2, <1>3, TypeCorrect, WatchersSafe, PTL DEF Spec
=============================================================================
