---------------------------- MODULE IngestProofs ----------------------------
(***************************************************************************)
(* Proofs that ingestion loses no log, stores none twice, counts what it   *)
(* stores, passes the cap by no more than the uploads under way, leaves no *)
(* launch without a log and implements Delivery: for every set of devices, *)
(* logs and concurrent uploads, every cap, every batch size and any number *)
(* of failures.                                                            *)
(***************************************************************************)
EXTENDS Ingest, FiniteSetTheorems, TLAPS

\* A request being handled came from a device.
Sent == \A u \in Uploads : upload[u].pc # "idle" => upload[u].device \in Devices

LEMMA TypeInit == Init => TypeOK /\ Sent
BY IngestAssumption DEF Init, TypeOK, PhoneType, UploadType, Idle, Sent

\* The number of rows an upload adds is a natural number.
LEMMA ChargeType ==
  ASSUME NEW batch \in SUBSET Logs
  PROVE  Charge(batch) \in Nat
<1>1. IsFiniteSet(Inserted(batch))
  <2>1. Inserted(batch) \subseteq Logs
    BY DEF Inserted
  <2>2. IsFiniteSet(Logs)
    BY IngestAssumption
  <2>3. QED
    BY <2>1, <2>2, FS_Subset
<1>2. QED
  BY <1>1, FS_CardinalityType DEF Charge

\* What a change of one upload's pc does to the types.
LEMMA GoesType ==
  ASSUME NEW u \in Uploads, NEW pc, Goes(u, pc),
         upload \in [Uploads -> UploadType], Sent, upload[u].pc # "idle",
         pc \in {"received", "admitted", "recorded", "stored",
                 "taken", "refused", "failed"}
  PROVE  upload' \in [Uploads -> UploadType] /\ Sent'
BY DEF Goes, UploadType, Sent

LEMMA TypeStep == TypeOK /\ Sent /\ [Next]_vars => (TypeOK /\ Sent)'
<1> SUFFICES ASSUME TypeOK, Sent, [Next]_vars
             PROVE  TypeOK' /\ Sent'
  OBVIOUS
<1> USE IngestAssumption
<1>1. ASSUME NEW d \in Devices, NEW l \in Logs, Capture(d, l)
      PROVE  TypeOK' /\ Sent'
  <2>1. phone' \in [Devices -> PhoneType]
    BY <1>1 DEF Capture, TypeOK, PhoneType
  <2>2. QED
    BY <1>1, <2>1 DEF Capture, TypeOK, Sent
<1>2. ASSUME NEW d \in Devices, NEW u \in Uploads, Send(d, u)
      PROVE  TypeOK' /\ Sent'
  <2>1. PICK batch \in SUBSET phone[d].outbox :
          /\ phone' = [phone EXCEPT ![d].sending = batch]
          /\ upload' = [upload EXCEPT ![u] =
               [pc |-> "received", device |-> d, batch |-> batch, awaited |-> TRUE]]
    BY <1>2 DEF Send
  <2>2. batch \subseteq Logs
    BY <2>1 DEF TypeOK, PhoneType
  <2> DEFINE f == [phone[d] EXCEPT !.sending = batch]
             x == [pc |-> "received", device |-> d, batch |-> batch, awaited |-> TRUE]
  <2>a. f \in PhoneType /\ x \in UploadType /\ x.device = d
    BY <2>2 DEF TypeOK, PhoneType, UploadType
  <2>b. phone' = [phone EXCEPT ![d] = f] /\ upload' = [upload EXCEPT ![u] = x]
    BY <2>1
  <2> HIDE DEF f, x
  <2>3. phone' \in [Devices -> PhoneType]
    BY <2>a, <2>b DEF TypeOK
  <2>4. upload' \in [Uploads -> UploadType] /\ Sent'
    BY <2>a, <2>b DEF TypeOK, Sent
  <2>5. QED
    BY <1>2, <2>3, <2>4 DEF Send, TypeOK
<1>3. ASSUME NEW d \in Devices, GiveUp(d)
      PROVE  TypeOK' /\ Sent'
  <2> DEFINE f == [phone[d] EXCEPT !.sending = {}]
  <2>a. phone \in [Devices -> PhoneType] /\ f \in PhoneType
    BY DEF TypeOK, PhoneType
  <2>b. phone' = [phone EXCEPT ![d] = f]
    BY <1>3 DEF GiveUp
  <2> HIDE DEF f
  <2>1. phone' \in [Devices -> PhoneType]
    BY <2>a, <2>b
  <2>c. ASSUME NEW u \in Uploads
        PROVE  /\ [upload[u] EXCEPT !.awaited = FALSE] \in UploadType
               /\ [upload[u] EXCEPT !.awaited = FALSE].pc = upload[u].pc
               /\ [upload[u] EXCEPT !.awaited = FALSE].device = upload[u].device
    BY DEF TypeOK, UploadType
  <2>2. upload' \in [Uploads -> UploadType] /\ Sent'
    BY <1>3, <2>c DEF GiveUp, TypeOK, Sent
  <2>3. QED
    BY <1>3, <2>1, <2>2 DEF GiveUp, Fault, TypeOK
<1>4. ASSUME NEW u \in Uploads, CheckDailyCap(u)
      PROVE  TypeOK' /\ Sent'
  BY <1>4, GoesType DEF CheckDailyCap, TypeOK
<1>5. ASSUME NEW u \in Uploads, UpsertSessions(u) \/ SessionsLost(u)
      PROVE  TypeOK' /\ Sent'
  <2>1. upload[u].device \in Devices
    BY <1>5 DEF UpsertSessions, SessionsLost, Sent
  <2>2. QED
    BY <1>5, <2>1, GoesType DEF UpsertSessions, SessionsLost, Fault, TypeOK
<1>6. ASSUME NEW u \in Uploads, Store(u)
      PROVE  TypeOK' /\ Sent'
  <2>1. Charge(upload[u].batch) \in Nat
    BY ChargeType DEF TypeOK, UploadType
  <2>2. rows' \in [Logs -> Nat]
    BY <1>6 DEF Store, TypeOK
  <2>3. QED
    BY <1>6, <2>1, <2>2, GoesType DEF Store, TypeOK
<1>7. ASSUME NEW u \in Uploads, Publish(u)
      PROVE  TypeOK' /\ Sent'
  <2>1. upload[u].batch \subseteq Logs
    BY DEF TypeOK, UploadType
  <2>2. QED
    BY <1>7, <2>1, GoesType DEF Publish, TypeOK
<1>8. ASSUME NEW u \in Uploads, Respond(u)
      PROVE  TypeOK' /\ Sent'
  <2>1. upload' \in [Uploads -> UploadType] /\ Sent'
    BY <1>8 DEF Respond, Idle, TypeOK, UploadType, Sent
  <2>2. phone' \in [Devices -> PhoneType]
    <3> DEFINE d == upload[u].device
               p == Told(phone[d], upload[u])
    <3>1. CASE upload[u].awaited
      <4>1. d \in Devices /\ phone' = [phone EXCEPT ![d] = p]
        BY <1>8, <3>1 DEF Respond, Settled, Sent
      <4>2. p \in PhoneType
        BY <4>1 DEF Told, TypeOK, PhoneType
      <4> HIDE DEF p, d
      <4> QED BY <4>1, <4>2 DEF TypeOK
    <3>2. CASE ~upload[u].awaited
      BY <1>8, <3>2 DEF Respond, TypeOK
    <3> QED BY <3>1, <3>2
  <2>3. QED
    BY <1>8, <2>1, <2>2 DEF Respond, TypeOK
<1>9. ASSUME NEW u \in Uploads,
             Unreadable(u) \/ CounterUnreadable(u) \/ StoreFails(u)
      PROVE  TypeOK' /\ Sent'
  <2>1. PICK pc \in {"failed", "admitted"} : Goes(u, pc) /\ upload[u].pc # "idle"
    BY <1>9 DEF Unreadable, CounterUnreadable, StoreFails
  <2>2. upload' \in [Uploads -> UploadType] /\ Sent'
    BY <2>1, GoesType DEF TypeOK
  <2>3. unread' \in Nat /\ faults' \in Nat
        /\ UNCHANGED <<phone, rows, launched, today, past, shown>>
    BY <1>9 DEF Unreadable, CounterUnreadable, StoreFails, Fault, TypeOK
  <2> QED BY <2>2, <2>3 DEF TypeOK
<1>10. CASE Crash
  <2>1. upload' \in [Uploads -> UploadType] /\ Sent'
    BY <1>10 DEF Crash, Idle, UploadType, Sent
  <2>a. \A d \in Devices : [phone[d] EXCEPT !.sending = {}] \in PhoneType
    BY DEF TypeOK, PhoneType
  <2>2. phone' \in [Devices -> PhoneType]
    BY <1>10, <2>a DEF Crash
  <2>3. QED
    BY <1>10, <2>1, <2>2 DEF Crash, Fault, TypeOK
<1>11. CASE Midnight
  BY <1>11 DEF Midnight, TypeOK, Sent
<1>12. CASE UNCHANGED vars
  BY <1>12 DEF vars, TypeOK, Sent
<1>13. QED
  BY <1>1, <1>2, <1>3, <1>4, <1>5, <1>6, <1>7, <1>8, <1>9, <1>10, <1>11, <1>12
  DEF Next, Serve

\* Every variable keeps its type, and a request being handled has a device.
THEOREM IngestTypes == Spec => [](TypeOK /\ Sent)
BY TypeInit, TypeStep, PTL DEF Spec

----------------------------------------------------------------------------
\* What makes a 200 safe: once the transaction has committed, every log of
\* the batch is in the table.
TakenIsStored ==
  \A u \in Uploads :
    upload[u].pc \in {"stored", "taken"} =>
      \A l \in upload[u].batch : Stored(l)

\* Rows are only ever added.
LEMMA RowsOnlyAdded ==
  ASSUME TypeOK, NEW u \in Uploads, Store(u)
  PROVE  /\ \A l \in Logs : Stored(l) => Stored(l)'
         /\ \A l \in upload[u].batch : Stored(l)'
<1>1. upload[u].batch \subseteq Logs
  BY DEF TypeOK, UploadType
<1>2. \A l \in Logs : rows[l] \in Nat
  BY DEF TypeOK
<1>3. \A l \in Logs : rows'[l] = IF l \in Inserted(upload[u].batch)
                                 THEN rows[l] + 1 ELSE rows[l]
  BY DEF Store
<1>4. \A l \in upload[u].batch : l \in Inserted(upload[u].batch) \/ rows[l] > 0
  BY <1>1, <1>2 DEF Inserted
<1>5. QED
  BY <1>1, <1>2, <1>3, <1>4 DEF Stored

\* The rows of a log with a client id stay at one.
LEMMA StoredOnceStep ==
  TypeOK /\ StoredOnce /\ [Next]_vars => StoredOnce'
<1> SUFFICES ASSUME TypeOK, StoredOnce, [Next]_vars
             PROVE  StoredOnce'
  OBVIOUS
<1>1. ASSUME NEW u \in Uploads, Store(u)
      PROVE  StoredOnce'
  <2>1. SUFFICES ASSUME NEW l \in Logs \ Anonymous
                 PROVE  rows'[l] <= 1
    BY DEF StoredOnce
  <2>2. rows'[l] = IF l \in Inserted(upload[u].batch)
                   THEN rows[l] + 1 ELSE rows[l]
    BY <1>1 DEF Store
  <2>3. l \in Inserted(upload[u].batch) => rows[l] = 0
    BY DEF Inserted
  <2>4. rows[l] <= 1
    BY DEF StoredOnce
  <2>5. QED
    BY <2>2, <2>3, <2>4
<1>2. ASSUME UNCHANGED rows
      PROVE  StoredOnce'
  BY <1>2 DEF StoredOnce
<1>3. QED
  BY <1>1, <1>2
  DEF Next, Serve, vars, Capture, Send, GiveUp, CheckDailyCap, UpsertSessions,
      Publish, Respond, Unreadable, CounterUnreadable, SessionsLost, StoreFails,
      Crash, Midnight

\* A log with a client id is stored at most once, however often and however
\* concurrently it is uploaded: the conflict target of CreateBatch.
THEOREM OneRowPerLog == Spec => []StoredOnce
<1>1. Init => StoredOnce
  BY DEF Init, StoredOnce
<1>2. TypeOK /\ StoredOnce /\ [Next]_vars => StoredOnce'
  BY StoredOnceStep
<1>3. QED
  BY <1>1, <1>2, IngestTypes, PTL DEF Spec

\* A 200 means stored, and nothing is lost, from one step to the next.  Step
\* <1>0 is for the actions that only move one upload along.
LEMMA NothingLostStep ==
  TypeOK /\ Sent /\ TakenIsStored /\ NothingLost /\ [Next]_vars
    => (TakenIsStored /\ NothingLost)'
<1> SUFFICES ASSUME TypeOK, Sent, TakenIsStored, NothingLost, [Next]_vars
             PROVE  TakenIsStored' /\ NothingLost'
  OBVIOUS
<1>0. ASSUME UNCHANGED phone, UNCHANGED rows,
             NEW u \in Uploads, NEW pc, Goes(u, pc),
             pc \in {"stored", "taken"} => upload[u].pc \in {"stored", "taken"}
      PROVE  TakenIsStored' /\ NothingLost'
  <2>1. NothingLost'
    BY <1>0 DEF NothingLost, Stored
  <2>2. \A v \in Uploads :
          /\ upload'[v].batch = upload[v].batch
          /\ upload'[v].pc = IF v = u THEN pc ELSE upload[v].pc
    BY <1>0 DEF Goes, TypeOK, UploadType
  <2>3. TakenIsStored'
    BY <1>0, <2>2 DEF TakenIsStored, Stored
  <2>4. QED
    BY <2>1, <2>3
<1>1. ASSUME NEW d \in Devices, NEW l \in Logs, Capture(d, l)
      PROVE  TakenIsStored' /\ NothingLost'
  <2>1. TakenIsStored'
    BY <1>1 DEF Capture, TakenIsStored, Stored
  <2>2. \A e \in Devices :
          /\ phone'[e].captured \ {l} \subseteq phone[e].captured
          /\ phone[e].outbox \subseteq phone'[e].outbox
          /\ l \in phone'[e].captured =>
               l \in phone[e].captured \/ l \in phone'[e].outbox
    BY <1>1 DEF Capture, TypeOK, PhoneType
  <2>3. NothingLost'
    BY <1>1, <2>2 DEF Capture, NothingLost, Stored
  <2>4. QED
    BY <2>1, <2>3
<1>2. ASSUME NEW d \in Devices, NEW u \in Uploads, Send(d, u)
      PROVE  TakenIsStored' /\ NothingLost'
  <2>1. PICK batch \in SUBSET phone[d].outbox :
          /\ phone' = [phone EXCEPT ![d].sending = batch]
          /\ upload' = [upload EXCEPT ![u] =
               [pc |-> "received", device |-> d, batch |-> batch, awaited |-> TRUE]]
    BY <1>2 DEF Send
  <2>2. \A e \in Devices : /\ phone'[e].captured = phone[e].captured
                           /\ phone'[e].outbox = phone[e].outbox
    BY <2>1 DEF TypeOK, PhoneType
  <2>3. \A v \in Uploads : v # u => upload'[v] = upload[v]
    BY <2>1 DEF TypeOK
  <2>4. upload'[u].pc = "received"
    BY <2>1 DEF TypeOK
  <2>5. QED
    BY <1>2, <2>2, <2>3, <2>4
    DEF Send, NothingLost, TakenIsStored, Stored
<1>3. ASSUME NEW d \in Devices, GiveUp(d)
      PROVE  TakenIsStored' /\ NothingLost'
  <2>1. \A e \in Devices : /\ phone'[e].captured = phone[e].captured
                           /\ phone'[e].outbox = phone[e].outbox
    BY <1>3 DEF GiveUp, TypeOK, PhoneType
  <2>2. \A v \in Uploads : /\ upload'[v].batch = upload[v].batch
                           /\ upload'[v].pc = upload[v].pc
    BY <1>3 DEF GiveUp, TypeOK, UploadType
  <2>3. QED
    BY <1>3, <2>1, <2>2 DEF GiveUp, NothingLost, TakenIsStored, Stored
<1>4. ASSUME NEW u \in Uploads,
             CheckDailyCap(u) \/ UpsertSessions(u) \/ SessionsLost(u)
               \/ Unreadable(u) \/ CounterUnreadable(u) \/ StoreFails(u)
               \/ Publish(u)
      PROVE  TakenIsStored' /\ NothingLost'
  BY <1>0, <1>4
  DEF CheckDailyCap, UpsertSessions, SessionsLost, Unreadable,
      CounterUnreadable, StoreFails, Publish
<1>5. ASSUME NEW u \in Uploads, Store(u)
      PROVE  TakenIsStored' /\ NothingLost'
  <2>1. /\ \A l \in Logs : Stored(l) => Stored(l)'
        /\ \A l \in upload[u].batch : Stored(l)'
    BY <1>5, RowsOnlyAdded
  <2>2. \A v \in Uploads : /\ upload'[v].batch = upload[v].batch
                           /\ v # u => upload'[v].pc = upload[v].pc
    BY <1>5 DEF Store, Goes, TypeOK, UploadType
  <2>3. \A v \in Uploads : upload[v].batch \subseteq Logs
    BY DEF TypeOK, UploadType
  <2>4. TakenIsStored'
    <3>1. SUFFICES ASSUME NEW v \in Uploads, upload'[v].pc \in {"stored", "taken"},
                          NEW l \in upload'[v].batch
                   PROVE  Stored(l)'
      BY DEF TakenIsStored
    <3>2. CASE v = u
      BY <3>1, <3>2, <2>1, <2>2
    <3>3. CASE v # u
      <4>1. Stored(l)
        BY <3>1, <3>3, <2>2 DEF TakenIsStored
      <4>2. QED
        BY <3>1, <4>1, <2>1, <2>2, <2>3
    <3>4. QED
      BY <3>2, <3>3
  <2>5. NothingLost'
    <3>1. \A d \in Devices : phone[d].captured \subseteq Logs
      BY DEF TypeOK, PhoneType
    <3>2. phone' = phone
      BY <1>5 DEF Store
    <3>3. QED
      BY <2>1, <3>1, <3>2 DEF NothingLost
  <2>6. QED
    BY <2>4, <2>5
<1>6. ASSUME NEW u \in Uploads, Respond(u)
      PROVE  TakenIsStored' /\ NothingLost'
  <2>1. \A v \in Uploads : upload'[v] = IF v = u THEN Idle ELSE upload[v]
    BY <1>6 DEF Respond, TypeOK
  <2>2. TakenIsStored'
    BY <1>6, <2>1 DEF Respond, Idle, TakenIsStored, Stored
  <2>3. \A d \in Devices :
          /\ phone'[d].captured = phone[d].captured
          /\ \A l \in phone[d].outbox :
               l \in phone'[d].outbox
                 \/ (upload[u].pc = "taken" /\ l \in upload[u].batch)
    BY <1>6 DEF Respond, Told, TypeOK, PhoneType
  <2>4. upload[u].pc = "taken" => \A l \in upload[u].batch : Stored(l)
    BY DEF TakenIsStored
  <2>5. NothingLost'
    BY <1>6, <2>3, <2>4 DEF Respond, NothingLost, Stored
  <2>6. QED
    BY <2>2, <2>5
<1>7. CASE Crash
  <2>1. \A v \in Uploads : upload'[v].pc = "idle"
    BY <1>7 DEF Crash, Idle
  <2>2. \A d \in Devices : /\ phone'[d].captured = phone[d].captured
                           /\ phone'[d].outbox = phone[d].outbox
    BY <1>7 DEF Crash, TypeOK, PhoneType
  <2>3. QED
    BY <1>7, <2>1, <2>2 DEF Crash, NothingLost, TakenIsStored, Stored
<1>8. CASE Midnight \/ UNCHANGED vars
  BY <1>8 DEF Midnight, vars, NothingLost, TakenIsStored, Stored
<1>9. QED
  BY <1>1, <1>2, <1>3, <1>4, <1>5, <1>6, <1>7, <1>8 DEF Next, Serve

\* No log is lost between the phone and the table, whatever fails: a batch is
\* deleted on a 200 only, and a 200 is only sent for a batch that is stored.
THEOREM NoLogIsLost == Spec => []NothingLost
<1>1. Init => TakenIsStored /\ NothingLost
  BY DEF Init, Idle, TakenIsStored, NothingLost
<1>2. TypeOK /\ Sent /\ TakenIsStored /\ NothingLost /\ [Next]_vars
        => (TakenIsStored /\ NothingLost)'
  BY NothingLostStep
<1>3. QED
  BY <1>1, <1>2, IngestTypes, PTL DEF Spec

----------------------------------------------------------------------------
(* The refinement.                                                         *)

\* What travels was written: a phone sends what its app captured.
Genuine ==
  /\ \A d \in Devices : phone[d].outbox \subseteq phone[d].captured
  /\ \A u \in Uploads : upload[u].batch \subseteq Written

\* Written, element by element.
LEMMA WrittenIs ==
  /\ \A l : l \in Written <=> \E d \in Devices : l \in phone[d].captured
  /\ \A l : l \in Written' <=> \E d \in Devices : l \in phone'[d].captured
BY DEF Written

\* No phone forgets or invents a log: Written changes with captured only.
LEMMA WrittenSame ==
  ASSUME \A d \in Devices : phone'[d].captured = phone[d].captured
  PROVE  Written' = Written
BY WrittenIs

\* Steps that leave what the phones captured and what is on its way alone.
LEMMA GenuineSame ==
  ASSUME Genuine, Written \subseteq Written',
         \A d \in Devices : /\ phone'[d].captured = phone[d].captured
                            /\ phone'[d].outbox \subseteq phone[d].outbox,
         \A u \in Uploads : upload'[u].batch \subseteq upload[u].batch
  PROVE  Genuine'
BY DEF Genuine

\* Capture adds its log to Written.
LEMMA CaptureWrites ==
  ASSUME TypeOK, NEW d \in Devices, NEW l \in Logs, Capture(d, l)
  PROVE  Written' = Written \cup {l}
<1>1. \A e \in Devices : phone'[e].captured =
        IF e = d THEN phone[e].captured \cup {l} ELSE phone[e].captured
  BY DEF Capture, TypeOK, PhoneType
<1>2. QED
  BY <1>1, WrittenIs

\* Every other step leaves Written as it is.
LEMMA OnlyCaptureWrites ==
  ASSUME TypeOK, Sent, [Next]_vars,
         ~ \E d \in Devices, l \in Logs : Capture(d, l)
  PROVE  \A d \in Devices : phone'[d].captured = phone[d].captured
<1>1. ASSUME NEW d \in Devices, NEW u \in Uploads, Send(d, u)
      PROVE  \A e \in Devices : phone'[e].captured = phone[e].captured
  BY <1>1 DEF Send, TypeOK, PhoneType
<1>2. ASSUME NEW d \in Devices, GiveUp(d)
      PROVE  \A e \in Devices : phone'[e].captured = phone[e].captured
  BY <1>2 DEF GiveUp, TypeOK, PhoneType
<1>3. ASSUME NEW u \in Uploads, Respond(u)
      PROVE  \A e \in Devices : phone'[e].captured = phone[e].captured
  BY <1>3 DEF Respond, Told, TypeOK, PhoneType
<1>4. CASE Crash
  BY <1>4 DEF Crash, TypeOK, PhoneType
<1>5. CASE UNCHANGED phone
  BY <1>5
<1>6. QED
  BY <1>1, <1>2, <1>3, <1>4, <1>5
  DEF Next, Serve, vars, CheckDailyCap, UpsertSessions, Store, Publish,
      Unreadable, CounterUnreadable, SessionsLost, StoreFails, Midnight

LEMMA GenuineStep ==
  TypeOK /\ Sent /\ Genuine /\ [Next]_vars => Genuine'
<1> SUFFICES ASSUME TypeOK, Sent, Genuine, [Next]_vars
             PROVE  Genuine'
  OBVIOUS
<1>1. ASSUME NEW d \in Devices, NEW l \in Logs, Capture(d, l)
      PROVE  Genuine'
  <2>1. Written' = Written \cup {l}
    BY <1>1, CaptureWrites
  <2>2. \A e \in Devices : phone'[e].outbox \subseteq phone'[e].captured
    BY <1>1 DEF Capture, TypeOK, PhoneType, Genuine
  <2>3. QED
    BY <1>1, <2>1, <2>2 DEF Capture, Genuine
<1>2. CASE ~ \E d \in Devices, l \in Logs : Capture(d, l)
  <2>1. \A d \in Devices : phone'[d].captured = phone[d].captured
    BY <1>2, OnlyCaptureWrites
  <2>2. Written' = Written
    BY <2>1, WrittenSame
  <2>3. ASSUME NEW d \in Devices, NEW u \in Uploads, Send(d, u)
        PROVE  Genuine'
    <3>1. PICK batch \in SUBSET phone[d].outbox :
            /\ phone' = [phone EXCEPT ![d].sending = batch]
            /\ upload' = [upload EXCEPT ![u] =
                 [pc |-> "received", device |-> d, batch |-> batch, awaited |-> TRUE]]
      BY <2>3 DEF Send
    <3>2. batch \subseteq Written
      BY <3>1, WrittenIs DEF Genuine
    <3>3. \A v \in Uploads : upload'[v].batch =
            IF v = u THEN batch ELSE upload[v].batch
      BY <3>1 DEF TypeOK
    <3>4. \A e \in Devices : phone'[e].outbox = phone[e].outbox
      BY <3>1 DEF TypeOK, PhoneType
    <3>5. QED
      BY <2>1, <2>2, <3>2, <3>3, <3>4 DEF Genuine
  <2>4. ASSUME NEW d \in Devices, GiveUp(d)
        PROVE  Genuine'
    <3>1. \A e \in Devices : phone'[e].outbox = phone[e].outbox
      BY <2>4 DEF GiveUp, TypeOK, PhoneType
    <3>2. \A v \in Uploads : upload'[v].batch = upload[v].batch
      BY <2>4 DEF GiveUp, TypeOK, UploadType
    <3>3. QED
      BY <2>1, <2>2, <3>1, <3>2, GenuineSame
  <2>5. ASSUME NEW u \in Uploads, Respond(u)
        PROVE  Genuine'
    <3>1. \A e \in Devices : phone'[e].outbox \subseteq phone[e].outbox
      BY <2>5 DEF Respond, Told, TypeOK, PhoneType
    <3>2. \A v \in Uploads : upload'[v].batch \subseteq upload[v].batch
      BY <2>5 DEF Respond, Idle, TypeOK, UploadType
    <3>3. QED
      BY <2>1, <2>2, <3>1, <3>2, GenuineSame
  <2>6. CASE Crash
    <3>1. \A e \in Devices : phone'[e].outbox = phone[e].outbox
      BY <2>6 DEF Crash, TypeOK, PhoneType
    <3>2. \A v \in Uploads : upload'[v].batch \subseteq upload[v].batch
      BY <2>6 DEF Crash, Idle
    <3>3. QED
      BY <2>1, <2>2, <3>1, <3>2, GenuineSame
  <2>7. ASSUME UNCHANGED phone, NEW u \in Uploads, NEW pc, Goes(u, pc)
        PROVE  Genuine'
    <3>1. \A v \in Uploads : upload'[v].batch = upload[v].batch
      BY <2>7 DEF Goes, TypeOK, UploadType
    <3>2. QED
      BY <2>1, <2>2, <2>7, <3>1, GenuineSame
  <2>8. CASE UNCHANGED <<phone, upload>>
    BY <2>2, <2>8 DEF Genuine
  <2>9. QED
    BY <1>2, <2>3, <2>4, <2>5, <2>6, <2>7, <2>8
    DEF Next, Serve, vars, CheckDailyCap, UpsertSessions, Store, Publish,
        Unreadable, CounterUnreadable, SessionsLost, StoreFails, Midnight
<1>3. QED
  BY <1>1, <1>2

\* The logs that are stored.
Kept == {l \in Logs : Stored(l)}

\* Each step of ingestion is a step of Delivery or changes nothing a reader sees.
LEMMA DeliveryStep ==
  TypeOK /\ Sent /\ TakenIsStored /\ Genuine /\ [Next]_vars => [D!Next]_(D!vars)
<1> SUFFICES ASSUME TypeOK, Sent, TakenIsStored, Genuine, [Next]_vars
             PROVE  [D!Next]_(D!vars)
  OBVIOUS
<1>1. ASSUME NEW d \in Devices, NEW l \in Logs, Capture(d, l)
      PROVE  [D!Next]_(D!vars)
  <2>1. Written' = Written \cup {l}
    BY <1>1, CaptureWrites
  <2>2. Kept' = Kept /\ shown' = shown
    BY <1>1 DEF Capture, Kept, Stored
  <2>3. CASE l \in Written
    BY <2>1, <2>2, <2>3 DEF D!vars, Kept
  <2>4. CASE l \notin Written
    BY <2>1, <2>2, <2>4 DEF D!Next, D!Write, Kept
  <2>5. QED
    BY <2>3, <2>4
<1>2. ASSUME NEW u \in Uploads, Store(u)
      PROVE  D!Deliver
  <2>1. Written' = Written /\ shown' = shown
    BY <1>2 DEF Store, Written
  <2>2. DEFINE batch == upload[u].batch
  <2>3. batch \subseteq Written /\ batch \subseteq Logs
    BY DEF Genuine, TypeOK, UploadType
  <2>4. Kept' = Kept \cup batch
    <3>1. \A l \in Logs : rows[l] \in Nat /\ rows'[l] =
            IF l \in Inserted(batch) THEN rows[l] + 1 ELSE rows[l]
      BY <1>2 DEF Store, TypeOK
    <3>2. /\ \A l \in Logs : Stored(l) => Stored(l)'
          /\ \A l \in batch : Stored(l)'
      BY <1>2, RowsOnlyAdded
    <3>3. \A l \in Logs : Stored(l)' => Stored(l) \/ l \in batch
      BY <3>1 DEF Inserted, Stored
    <3>4. QED
      BY <2>3, <3>2, <3>3 DEF Kept
  <2>5. QED
    BY <2>1, <2>3, <2>4 DEF D!Deliver, Kept
<1>3. ASSUME NEW u \in Uploads, Publish(u)
      PROVE  D!Show
  <2>1. Written' = Written /\ Kept' = Kept
    BY <1>3 DEF Publish, Written, Kept, Stored
  <2>2. upload[u].batch \subseteq Kept
    BY <1>3 DEF Publish, TakenIsStored, TypeOK, UploadType, Kept
  <2>3. shown' = shown \cup upload[u].batch
    BY <1>3 DEF Publish
  <2>4. QED
    BY <2>1, <2>2, <2>3 DEF D!Show, Kept
<1>4. CASE ~ \E d \in Devices, l \in Logs : Capture(d, l)
  <2>1. Written' = Written
    BY <1>4, OnlyCaptureWrites, WrittenSame
  <2>2. CASE UNCHANGED <<rows, shown>>
    BY <2>1, <2>2 DEF D!vars, Stored
  <2>3. QED
    BY <1>2, <1>3, <1>4, <2>2
    DEF Next, Serve, vars, Send, GiveUp, CheckDailyCap, UpsertSessions, Respond,
        Unreadable, CounterUnreadable, SessionsLost, StoreFails, Crash, Midnight,
        D!Next
<1>5. QED
  BY <1>1, <1>4

\* Ingestion implements Delivery: through replays, refusals, failed transactions
\* and crashes, logs only go from written to stored, and from stored to shown.
THEOREM IngestImplements == Spec => ImplementsDelivery
<1>1. Init => D!Init
  BY DEF Init, D!Init, Written, Stored
<1>2. Init => TakenIsStored /\ NothingLost /\ Genuine
  BY DEF Init, Idle, TakenIsStored, NothingLost, Genuine
<1>3. TypeOK /\ Sent /\ TakenIsStored /\ NothingLost /\ [Next]_vars
        => (TakenIsStored /\ NothingLost)'
  BY NothingLostStep
<1>4. QED
  BY <1>1, <1>2, <1>3, GenuineStep, DeliveryStep, IngestTypes, PTL
  DEF Spec, ImplementsDelivery, D!Spec

----------------------------------------------------------------------------
(* Launches and the cap.                                                   *)

\* What a request carries was captured by its phone, is not empty and is no
\* larger than the SDK's batches.
Batched ==
  \A u \in Uploads : upload[u].pc # "idle" =>
    /\ upload[u].batch # {}
    /\ upload[u].batch \subseteq phone[upload[u].device].captured
    /\ Cardinality(upload[u].batch) <= MaxBatch

\* A step that only moves upload u along.
LEMMA GoesSame ==
  ASSUME TypeOK, NEW u \in Uploads, NEW pc, Goes(u, pc)
  PROVE  /\ upload'[u].pc = pc
         /\ \A v \in Uploads : /\ upload'[v].batch = upload[v].batch
                               /\ upload'[v].device = upload[v].device
                               /\ v # u => upload'[v] = upload[v]
BY DEF Goes, TypeOK, UploadType

\* A step of the server: the upload u goes from one pc to another, and the rest
\* of it and the other uploads stay as they are.
Moves(u, from, to) ==
  /\ upload[u].pc \in from
  /\ upload'[u].pc \in to
  /\ \A v \in Uploads : /\ upload'[v].batch = upload[v].batch
                        /\ upload'[v].device = upload[v].device
                        /\ v # u => upload'[v] = upload[v]

\* The steps, as the uploads see them.
LEMMA UploadSteps ==
  ASSUME TypeOK, Sent, [Next]_vars
  PROVE  \/ /\ \A v \in Uploads : \/ upload'[v].pc = "idle"
                                  \/ /\ upload'[v].pc = upload[v].pc
                                     /\ upload'[v].batch = upload[v].batch
                                     /\ upload'[v].device = upload[v].device
            /\ UNCHANGED <<rows, launched>>
            /\ today' = today \/ today' = 0
            /\ unread' = unread
         \/ \E d \in Devices, u \in Uploads : Send(d, u)
         \/ \E u \in Uploads :
              \/ Moves(u, {"received"}, {"refused", "admitted"}) /\ CheckDailyCap(u)
              \/ Moves(u, {"received"}, {"failed"}) /\ Unreadable(u)
              \/ Moves(u, {"received"}, {"admitted"}) /\ CounterUnreadable(u)
              \/ Moves(u, {"admitted"}, {"recorded"}) /\ (UpsertSessions(u) \/ SessionsLost(u))
              \/ Moves(u, {"recorded"}, {"stored"}) /\ Store(u)
              \/ Moves(u, {"recorded"}, {"failed"}) /\ StoreFails(u)
              \/ Moves(u, {"stored"}, {"taken"}) /\ Publish(u)
<1>1. ASSUME NEW u \in Uploads, CheckDailyCap(u)
      PROVE  Moves(u, {"received"}, {"refused", "admitted"})
  <2>1. PICK pc \in {"refused", "admitted"} : Goes(u, pc)
    BY <1>1 DEF CheckDailyCap
  <2> QED BY <1>1, <2>1, GoesSame DEF Moves, CheckDailyCap
<1>2. ASSUME NEW u \in Uploads, Unreadable(u)
      PROVE  Moves(u, {"received"}, {"failed"})
  BY <1>2, GoesSame DEF Moves, Unreadable
<1>3. ASSUME NEW u \in Uploads, CounterUnreadable(u)
      PROVE  Moves(u, {"received"}, {"admitted"})
  BY <1>3, GoesSame DEF Moves, CounterUnreadable
<1>4. ASSUME NEW u \in Uploads, UpsertSessions(u) \/ SessionsLost(u)
      PROVE  Moves(u, {"admitted"}, {"recorded"})
  BY <1>4, GoesSame DEF Moves, UpsertSessions, SessionsLost
<1>5. ASSUME NEW u \in Uploads, Store(u)
      PROVE  Moves(u, {"recorded"}, {"stored"})
  BY <1>5, GoesSame DEF Moves, Store
<1>6. ASSUME NEW u \in Uploads, StoreFails(u)
      PROVE  Moves(u, {"recorded"}, {"failed"})
  BY <1>6, GoesSame DEF Moves, StoreFails
<1>7. ASSUME NEW u \in Uploads, Publish(u)
      PROVE  Moves(u, {"stored"}, {"taken"})
  BY <1>7, GoesSame DEF Moves, Publish
<1>8. ASSUME NEW d \in Devices, GiveUp(d)
      PROVE  \A v \in Uploads : /\ upload'[v].pc = upload[v].pc
                                /\ upload'[v].batch = upload[v].batch
                                /\ upload'[v].device = upload[v].device
  BY <1>8 DEF GiveUp, TypeOK, UploadType
<1>9. ASSUME NEW u \in Uploads, Respond(u)
      PROVE  \A v \in Uploads : upload'[v].pc = "idle" \/ upload'[v] = upload[v]
  BY <1>9 DEF Respond, Idle, TypeOK
<1>10. CASE Crash
  BY <1>10 DEF Crash, Idle
<1>11. CASE Midnight \/ UNCHANGED vars
  BY <1>11 DEF Midnight, vars
<1>12. CASE \E d \in Devices, l \in Logs : Capture(d, l)
  BY <1>12 DEF Capture
<1>13. CASE \E d \in Devices : GiveUp(d)
  BY <1>13, <1>8 DEF GiveUp
<1>14. CASE \E u \in Uploads : Respond(u)
  BY <1>14, <1>9 DEF Respond
<1> QED
  BY <1>1, <1>2, <1>3, <1>4, <1>5, <1>6, <1>7, <1>10, <1>11, <1>12, <1>13, <1>14
  DEF Next, Serve

\* What Send makes of the upload it takes.
LEMMA SendMakes ==
  ASSUME TypeOK, NEW d \in Devices, NEW u \in Uploads, Send(d, u)
  PROVE  /\ upload[u].pc = "idle"
         /\ upload'[u].pc = "received" /\ upload'[u].device = d
         /\ upload'[u].batch # {} /\ upload'[u].batch \subseteq phone[d].outbox
         /\ Cardinality(upload'[u].batch) <= MaxBatch
         /\ \A v \in Uploads : v # u => upload'[v] = upload[v]
         /\ UNCHANGED <<rows, launched, today, unread, faults>>
<1>1. PICK batch \in SUBSET phone[d].outbox :
        /\ Cardinality(batch) \in 1 .. MaxBatch
        /\ upload' = [upload EXCEPT ![u] =
             [pc |-> "received", device |-> d, batch |-> batch, awaited |-> TRUE]]
  BY DEF Send
<1>2. batch # {}
  BY <1>1, FS_EmptySet
<1>3. Cardinality(batch) <= MaxBatch
  BY <1>1, IngestAssumption
<1> QED BY <1>1, <1>2, <1>3 DEF Send, TypeOK

\* No phone forgets what its app captured.
LEMMA CapturedGrows ==
  ASSUME TypeOK, Sent, [Next]_vars, NEW d \in Devices
  PROVE  phone[d].captured \subseteq phone'[d].captured
<1>1. ASSUME NEW e \in Devices, NEW l \in Logs, Capture(e, l)
      PROVE  phone[d].captured \subseteq phone'[d].captured
  BY <1>1 DEF Capture, TypeOK, PhoneType
<1> QED BY <1>1, OnlyCaptureWrites

LEMMA BatchedStep ==
  ASSUME TypeOK, Sent, Genuine, Batched, [Next]_vars
  PROVE  Batched'
<1> SUFFICES ASSUME NEW v \in Uploads, upload'[v].pc # "idle"
             PROVE  /\ upload'[v].batch # {}
                    /\ upload'[v].batch \subseteq phone'[upload'[v].device].captured
                    /\ Cardinality(upload'[v].batch) <= MaxBatch
  BY DEF Batched
<1>1. CASE \E d \in Devices : Send(d, v)
  <2>1. PICK d \in Devices : Send(d, v)
    BY <1>1
  <2>2. phone[d].outbox \subseteq phone'[d].captured
    BY CapturedGrows DEF Genuine
  <2> QED BY <2>1, <2>2, SendMakes
<1>2. CASE /\ upload[v].pc # "idle" /\ upload'[v].batch = upload[v].batch
           /\ upload'[v].device = upload[v].device
  BY <1>2, CapturedGrows DEF Batched, Sent
<1>3. ASSUME NEW d \in Devices, NEW u \in Uploads, u # v, Send(d, u)
      PROVE  /\ upload[v].pc # "idle" /\ upload'[v].batch = upload[v].batch
             /\ upload'[v].device = upload[v].device
  BY <1>3, SendMakes
<1> QED BY <1>1, <1>2, <1>3, UploadSteps DEF Moves

\* As long as nothing failed: a launch with neither logs nor an upload about to
\* bring them is not there.
LEMMA LaunchesStep ==
  ASSUME TypeOK, Sent, Batched, LaunchesHaveLogs, [Next]_vars
  PROVE  LaunchesHaveLogs'
<1> DEFINE Backed(d) == \/ \E l \in phone[d].captured : Stored(l)
                        \/ \E u \in Uploads : upload[u].device = d /\ upload[u].pc = "recorded"
<1>0. faults \in Nat /\ launched \subseteq Devices
  BY DEF TypeOK
<1> SUFFICES ASSUME faults' = 0, NEW d \in Devices, d \in launched'
             PROVE  Backed(d)'
  <2>1. launched' \subseteq Devices
    BY TypeStep DEF TypeOK
  <2> QED BY <2>1 DEF LaunchesHaveLogs
<1>1. /\ faults = 0
      /\ \A e \in Devices : ~GiveUp(e)
      /\ ~Crash
      /\ \A u \in Uploads : ~Unreadable(u) /\ ~CounterUnreadable(u) /\ ~SessionsLost(u) /\ ~StoreFails(u)
  <2>1. faults' = faults \/ faults' = faults + 1
    BY DEF Next, vars, Serve, Capture, Send, GiveUp, CheckDailyCap, UpsertSessions,
       Store, Publish, Respond, Unreadable, CounterUnreadable, SessionsLost, StoreFails,
       Crash, Midnight, Fault
  <2> QED BY <1>0, <2>1 DEF GiveUp, Crash, Unreadable, CounterUnreadable, SessionsLost,
             StoreFails, Fault
<1>2. phone[d].captured \subseteq phone'[d].captured
  BY CapturedGrows
<1>3. ASSUME NEW u \in Uploads, Store(u)
      PROVE  Backed(d)'
  <2>1. d \in launched
    BY <1>3 DEF Store
  <2>2. CASE \E l \in phone[d].captured : Stored(l)
    <3>1. phone[d].captured \subseteq Logs
      BY DEF TypeOK, PhoneType
    <3> QED BY <1>2, <1>3, <2>2, <3>1, RowsOnlyAdded
  <2>3. CASE upload[u].device = d
    <3>1. PICK l \in upload[u].batch : l \in phone[d].captured
      BY <1>3, <2>3 DEF Batched, Store
    <3> QED BY <1>2, <1>3, <3>1, RowsOnlyAdded
  <2>4. CASE \E v \in Uploads : v # u /\ upload[v].device = d /\ upload[v].pc = "recorded"
    <3>1. PICK v \in Uploads : v # u /\ upload[v].device = d /\ upload[v].pc = "recorded"
      BY <2>4
    <3>2. upload'[v] = upload[v]
      BY <1>3, <3>1, GoesSame DEF Store
    <3> QED BY <3>1, <3>2
  <2> QED BY <1>1, <2>1, <2>2, <2>3, <2>4 DEF LaunchesHaveLogs
<1>4. ASSUME NEW u \in Uploads, UpsertSessions(u)
      PROVE  Backed(d)'
  <2>1. /\ UNCHANGED rows
        /\ upload'[u].pc = "recorded"
        /\ \A v \in Uploads : /\ upload'[v].device = upload[v].device
                              /\ v # u => upload'[v] = upload[v]
    BY <1>4, GoesSame DEF UpsertSessions
  <2>2. CASE d = upload[u].device
    BY <2>1, <2>2
  <2>3. CASE d \in launched
    <3>1. CASE \E l \in phone[d].captured : Stored(l)
      BY <1>2, <2>1, <3>1 DEF Stored
    <3>2. CASE \E v \in Uploads : upload[v].device = d /\ upload[v].pc = "recorded"
      BY <2>1, <3>2
    <3> QED BY <1>1, <2>3, <3>1, <3>2 DEF LaunchesHaveLogs
  <2> QED BY <1>4, <2>2, <2>3 DEF UpsertSessions
<1>5. ASSUME UNCHANGED <<rows, launched>>,
             \A v \in Uploads : upload[v].pc = "recorded" => upload'[v] = upload[v]
      PROVE  Backed(d)'
  <2>1. CASE \E l \in phone[d].captured : Stored(l)
    BY <1>2, <1>5, <2>1 DEF Stored
  <2>2. CASE \E v \in Uploads : upload[v].device = d /\ upload[v].pc = "recorded"
    BY <1>5, <2>2
  <2> QED BY <1>1, <1>5, <2>1, <2>2 DEF LaunchesHaveLogs
<1>6. ASSUME NEW u \in Uploads, CheckDailyCap(u) \/ Publish(u)
      PROVE  Backed(d)'
  <2>1. UNCHANGED <<rows, launched>> /\ upload[u].pc # "recorded"
    BY <1>6 DEF CheckDailyCap, Publish
  <2>2. \E pc : Goes(u, pc)
    BY <1>6 DEF CheckDailyCap, Publish
  <2>3. \A v \in Uploads : v # u => upload'[v] = upload[v]
    BY <2>2, GoesSame
  <2> QED BY <1>5, <2>1, <2>3
<1>7. ASSUME NEW u \in Uploads, Respond(u)
      PROVE  Backed(d)'
  <2>1. UNCHANGED <<rows, launched>> /\ upload[u].pc # "recorded"
        /\ \A v \in Uploads : v # u => upload'[v] = upload[v]
    BY <1>7 DEF Respond, Settled, TypeOK
  <2> QED BY <1>5, <2>1
<1>8. ASSUME NEW e \in Devices, NEW u \in Uploads, Send(e, u)
      PROVE  Backed(d)'
  BY <1>5, <1>8, SendMakes
<1>9. CASE Midnight \/ UNCHANGED vars \/ (\E e \in Devices, l \in Logs : Capture(e, l))
  BY <1>5, <1>9 DEF Midnight, vars, Capture
<1> QED BY <1>1, <1>3, <1>4, <1>6, <1>7, <1>8, <1>9 DEF Next, Serve

\* A refused upload leaves no launch behind: as long as nothing failed, a launch
\* in the table has logs there or an admitted upload that brings them.
THEOREM LaunchesSafe == Spec => []LaunchesHaveLogs
<1>1. Init => Genuine /\ Batched /\ LaunchesHaveLogs
  BY DEF Init, Idle, Genuine, Batched, LaunchesHaveLogs
<1>2. TypeOK /\ Sent /\ Genuine /\ Batched /\ LaunchesHaveLogs /\ [Next]_vars
        => Genuine' /\ Batched' /\ LaunchesHaveLogs'
  BY GenuineStep, BatchedStep, LaunchesStep
<1> QED BY <1>1, <1>2, IngestTypes, PTL DEF Spec

\* Uploads that passed the check and have not stored or failed yet.
Open == {u \in Uploads : upload[u].pc \in {"admitted", "recorded"}}

Size(u) == Cardinality(upload[u].batch)

\* The room n full batches take.
Room(n) == n * MaxBatch

Ceiling == (IF DailyLogCap < MaxBatch THEN MaxBatch ELSE DailyLogCap)
             + Room(Cardinality(Uploads) - 1 + unread)

\* The counter, with everything that is on its way to it, stays below the bound:
\* the batch of one open upload as it is, the others' at their largest.
Capped ==
  DailyLogCap > 0 =>
    /\ today <= Ceiling
    /\ Open # {} =>
         \E u \in Open : today + Size(u) + Room(Cardinality(Open) - 1) <= Ceiling

LEMMA Rooms ==
  /\ MaxBatch \in Nat /\ MaxBatch > 0
  /\ \A n \in Int : Room(n) \in Int
  /\ \A n \in Int : Room(n + 1) = Room(n) + MaxBatch
  /\ \A m, n \in Int : m <= n => Room(m) <= Room(n)
  /\ Room(0) = 0
<1>1. MaxBatch \in Nat /\ MaxBatch > 0
  BY IngestAssumption
<1>2. ASSUME NEW m \in Int, NEW n \in Int, m <= n
      PROVE  Room(m) <= Room(n)
  <2>1. (n - m) * MaxBatch >= 0
    BY <1>1, <1>2
  <2>2. n * MaxBatch = m * MaxBatch + (n - m) * MaxBatch
    BY <1>1
  <2> QED BY <1>1, <2>1, <2>2 DEF Room
<1>3. ASSUME NEW n \in Int
      PROVE  Room(n) \in Int /\ Room(n + 1) = Room(n) + MaxBatch
  BY <1>1 DEF Room
<1>4. Room(0) = 0
  BY <1>1 DEF Room
<1> QED BY <1>1, <1>2, <1>3, <1>4

LEMMA CeilingType ==
  ASSUME TypeOK
  PROVE  /\ Cardinality(Uploads) \in Nat
         /\ Ceiling \in Int
         /\ unread' = unread => Ceiling' = Ceiling
         /\ unread' = unread + 1 => Ceiling' = Ceiling + MaxBatch
         /\ DailyLogCap > 0 => DailyLogCap + Room(Cardinality(Uploads) - 1) <= Ceiling
<1> DEFINE n == Cardinality(Uploads) - 1
           m == IF DailyLogCap < MaxBatch THEN MaxBatch ELSE DailyLogCap
<1>1. /\ Cardinality(Uploads) \in Nat /\ n \in Int /\ unread \in Nat /\ m \in Int
      /\ DailyLogCap <= m
  BY IngestAssumption, FS_CardinalityType DEF TypeOK
<1>2. Ceiling = m + Room(n + unread) /\ Ceiling' = m + Room(n + unread')
  BY DEF Ceiling
<1>3. unread' = unread + 1 => Room(n + unread') = Room(n + unread) + MaxBatch
  <2>1. n + unread \in Int /\ n + (unread + 1) = (n + unread) + 1
    BY <1>1
  <2> QED BY <2>1, Rooms
<1> HIDE DEF n, m
<1>4. /\ Room(n + unread) \in Int
      /\ Room(n) <= Room(n + unread) /\ Room(n) \in Int
  <2>1. n + unread \in Int /\ n <= n + unread
    BY <1>1
  <2> QED BY <1>1, <2>1, Rooms
<1>5. DailyLogCap \in Int /\ MaxBatch \in Nat
  BY IngestAssumption
<1> QED BY <1>1, <1>2, <1>3, <1>4, <1>5 DEF n

\* How the number of open uploads changes.
LEMMA OpenCounts ==
  ASSUME TypeOK
  PROVE  /\ IsFiniteSet(Open) /\ Cardinality(Open) \in Nat
         /\ IsFiniteSet(Open') /\ Cardinality(Open') \in Nat
         /\ Cardinality(Open') <= Cardinality(Uploads)
         /\ Open' \subseteq Open => Cardinality(Open') <= Cardinality(Open)
         /\ \A u \in Open : Open' \subseteq Open \ {u} =>
              Cardinality(Open') <= Cardinality(Open) - 1
         /\ \A u \in Uploads : u \notin Open /\ Open' \subseteq Open \cup {u} =>
              Cardinality(Open') <= Cardinality(Open) + 1
         /\ Open # {} => Cardinality(Open) >= 1
<1>1. Open \subseteq Uploads /\ Open' \subseteq Uploads /\ IsFiniteSet(Uploads)
  BY IngestAssumption DEF Open
<1>2. IsFiniteSet(Open) /\ IsFiniteSet(Open') /\ Cardinality(Open') <= Cardinality(Uploads)
  BY <1>1, FS_Subset
<1>3. Cardinality(Open) \in Nat /\ Cardinality(Open') \in Nat
  BY <1>2, FS_CardinalityType
<1>4. Open' \subseteq Open => Cardinality(Open') <= Cardinality(Open)
  BY <1>2, FS_Subset
<1>5. ASSUME NEW u \in Open, Open' \subseteq Open \ {u}
      PROVE  Cardinality(Open') <= Cardinality(Open) - 1
  <2>1. IsFiniteSet(Open \ {u}) /\ Cardinality(Open \ {u}) = Cardinality(Open) - 1
    BY <1>2, FS_RemoveElement
  <2>2. Cardinality(Open') <= Cardinality(Open \ {u})
    BY <1>5, <2>1, FS_Subset
  <2> QED BY <2>1, <2>2
<1>6. ASSUME NEW u \in Uploads, u \notin Open, Open' \subseteq Open \cup {u}
      PROVE  Cardinality(Open') <= Cardinality(Open) + 1
  <2>1. IsFiniteSet(Open \cup {u}) /\ Cardinality(Open \cup {u}) = Cardinality(Open) + 1
    BY <1>2, <1>6, FS_AddElement
  <2>2. Cardinality(Open') <= Cardinality(Open \cup {u})
    BY <1>6, <2>1, FS_Subset
  <2> QED BY <2>1, <2>2
<1>7. Open # {} => Cardinality(Open) >= 1
  BY <1>2, <1>3, FS_EmptySet
<1> QED BY <1>2, <1>3, <1>4, <1>5, <1>6, <1>7

LEMMA Sizes ==
  ASSUME TypeOK, NEW u \in Uploads
  PROVE  Size(u) \in Nat /\ Charge(upload[u].batch) \in Nat /\ Charge(upload[u].batch) <= Size(u)
<1>1. upload[u].batch \subseteq Logs /\ Inserted(upload[u].batch) \subseteq upload[u].batch
  BY DEF TypeOK, UploadType, Inserted
<1>2. IsFiniteSet(upload[u].batch)
  BY <1>1, FS_Subset, IngestAssumption
<1>3. Size(u) \in Nat
  BY <1>2, FS_CardinalityType DEF Size
<1>4. Charge(upload[u].batch) <= Size(u)
  BY <1>1, <1>2, FS_Subset DEF Charge, Size
<1> QED BY <1>1, <1>3, <1>4, ChargeType

\* No upload opens, and the counter does not grow.
LEMMA NoneOpens ==
  ASSUME TypeOK, TypeOK', Batched, Capped,
         Open' \subseteq Open, today' <= today, unread' = unread,
         \A v \in Open' : upload'[v].batch = upload[v].batch
  PROVE  Capped'
<1> SUFFICES ASSUME DailyLogCap > 0
             PROVE  /\ today' <= Ceiling'
                    /\ Open' # {} =>
                         \E u \in Open' : today' + Size(u)' + Room(Cardinality(Open') - 1) <= Ceiling'
  BY DEF Capped
<1>1. Ceiling' = Ceiling /\ Ceiling \in Int /\ today \in Nat /\ today' \in Nat
  BY CeilingType DEF TypeOK
<1>2. \A v \in Open' : Size(v)' = Size(v) /\ Size(v) \in Nat /\ Size(v) <= MaxBatch
  BY Sizes DEF Open, Size, Batched
<1>3. ASSUME NEW v \in Open'
      PROVE  \E u \in Open' : today' + Size(u)' + Room(Cardinality(Open') - 1) <= Ceiling'
  <2> DEFINE k == Cardinality(Open) - 1
             j == Cardinality(Open') - 1
  <2>1. PICK w \in Open : today + Size(w) + Room(k) <= Ceiling
    BY <1>3 DEF Capped
  <2>0. /\ k \in Int /\ j \in Int /\ j <= k
        /\ w \notin Open' => j + 1 <= k
    <3>1. Cardinality(Open) \in Nat /\ Cardinality(Open') \in Nat
          /\ Cardinality(Open') <= Cardinality(Open)
      BY OpenCounts
    <3>2. w \notin Open' => Cardinality(Open') <= Cardinality(Open) - 1
      <4>1. w \notin Open' => Open' \subseteq Open \ {w}
        OBVIOUS
      <4> QED BY <4>1, OpenCounts
    <3> QED BY <3>1, <3>2
  <2> HIDE DEF j, k
  <2>2. k \in Int /\ j \in Int /\ Room(k) \in Int /\ Room(j) \in Int
    BY <2>0, Rooms
  <2>3. CASE w \in Open'
    <3>2. Room(j) <= Room(k)
      BY <2>0, Rooms
    <3>3. today' + Size(w)' + Room(j) <= Ceiling'
      <4>1. Size(w)' = Size(w) /\ Size(w) \in Nat
        BY <1>2, <2>3
      <4> QED BY <1>1, <2>1, <2>2, <3>2, <4>1
    <3> QED BY <2>3, <3>3 DEF j
  <2>4. CASE w \notin Open'
    <3>2. Room(j) + MaxBatch <= Room(k)
      <4>1. j + 1 \in Int /\ Room(j + 1) = Room(j) + MaxBatch
        BY <2>2, Rooms
      <4> QED BY <2>0, <2>4, <4>1, Rooms
    <3>3. today' + Size(v)' + Room(j) <= Ceiling'
      <4>1. Size(v)' = Size(v) /\ Size(v) \in Nat /\ Size(v) <= MaxBatch
        BY <1>2, <1>3
      <4>2. Size(w) \in Nat /\ MaxBatch \in Nat
        BY Sizes, Rooms DEF Open
      <4> QED BY <1>1, <2>1, <2>2, <3>2, <4>1, <4>2
    <3> QED BY <3>3 DEF j
  <2> QED BY <2>3, <2>4
<1>4. today' <= Ceiling'
  BY <1>1 DEF Capped
<1> QED BY <1>3, <1>4

\* One more upload opens: there is room for it above the cap it was checked
\* against, or above the bound the unread counter raises by a batch.
LEMMA OneOpens ==
  ASSUME TypeOK, TypeOK', Batched, Capped, NEW u \in Uploads,
         u \notin Open, upload[u].pc = "received", Open' \subseteq Open \cup {u}, Open \subseteq Open',
         today' = today, \A v \in Uploads : upload'[v].batch = upload[v].batch,
         \/ unread' = unread + 1
         \/ unread' = unread /\ today + Size(u) <= DailyLogCap
  PROVE  Capped'
<1> SUFFICES ASSUME DailyLogCap > 0
             PROVE  /\ today' <= Ceiling'
                    /\ Open' # {} =>
                         \E v \in Open' : today' + Size(v)' + Room(Cardinality(Open') - 1) <= Ceiling'
  BY DEF Capped
<1> DEFINE k == Cardinality(Open)
           j == Cardinality(Open')
           n == Cardinality(Uploads)
<1>1. /\ today <= Ceiling /\ Ceiling \in Int /\ today \in Nat /\ today' = today
      /\ n \in Nat /\ MaxBatch \in Nat /\ DailyLogCap \in Int
      /\ unread' = unread => Ceiling' = Ceiling
      /\ unread' = unread + 1 => Ceiling' = Ceiling + MaxBatch
      /\ DailyLogCap + Room(n - 1) <= Ceiling
  BY CeilingType, IngestAssumption DEF TypeOK, Capped
<1>2. k \in Nat /\ j \in Nat /\ j <= n /\ j <= k + 1
  BY OpenCounts
<1>3. \A v \in Uploads : Size(v)' = Size(v) /\ Size(v) \in Nat
  BY Sizes DEF Size
<1>4. \A v \in Uploads : upload[v].pc # "idle" => Size(v) <= MaxBatch
  BY DEF Size, Batched
<1>5. Open = {} => k = 0
  BY FS_EmptySet
<1> HIDE DEF k, j, n
<1>6. today' <= Ceiling'
  BY <1>1
<1>7. CASE unread' = unread /\ today + Size(u) <= DailyLogCap
  <2>1. ASSUME Open' # {}
        PROVE  \E v \in Open' : today' + Size(v)' + Room(j - 1) <= Ceiling'
    <3>1. CASE u \in Open'
      <4>1. /\ j - 1 \in Int /\ n - 1 \in Int /\ j - 1 <= n - 1
            /\ Room(j - 1) \in Int /\ Room(n - 1) \in Int
        BY <1>1, <1>2, Rooms
      <4>2. Room(j - 1) <= Room(n - 1)
        BY <4>1, Rooms
      <4> DEFINE a == Room(j - 1)
                 b == Room(n - 1)
      <4>3. a \in Int /\ b \in Int /\ a <= b /\ DailyLogCap + b <= Ceiling
        BY <1>1, <4>1, <4>2
      <4> HIDE DEF a, b
      <4>4. today' + Size(u)' + a <= Ceiling'
        <5>1. Size(u)' = Size(u) /\ Size(u) \in Nat
          BY <1>3
        <5> QED BY <1>1, <1>7, <4>3, <5>1
      <4> QED BY <3>1, <4>4 DEF a
    <3>2. CASE u \notin Open'
      <4>1. Open' \subseteq Open
        BY <3>2
      <4>2. \A v \in Open' : upload'[v].batch = upload[v].batch
        BY DEF Open
      <4>3. today' <= today
        BY <1>1
      <4>4. Capped'
        BY <1>7, <4>1, <4>2, <4>3, NoneOpens
      <4> QED BY <2>1, <4>4 DEF Capped, j
    <3> QED BY <3>1, <3>2
  <2> QED BY <1>6, <2>1 DEF j
<1>8. CASE unread' = unread + 1
  <2>1. CASE Open # {}
    <3>1. PICK w \in Open : today + Size(w) + Room(k - 1) <= Ceiling
      BY <2>1 DEF Capped, k
    <3>2. /\ k - 1 \in Int /\ j - 1 \in Int /\ j - 1 <= (k - 1) + 1 /\ (k - 1) + 1 \in Int
          /\ Room(k - 1) \in Int /\ Room(j - 1) \in Int
          /\ Room((k - 1) + 1) = Room(k - 1) + MaxBatch
      <4>1. k - 1 \in Int /\ j - 1 \in Int /\ j - 1 <= (k - 1) + 1 /\ (k - 1) + 1 \in Int
        BY <1>2
      <4>2. Room(k - 1) \in Int /\ Room(j - 1) \in Int
        BY <4>1, Rooms
      <4>3. Room((k - 1) + 1) = Room(k - 1) + MaxBatch
        BY <4>1, Rooms
      <4> QED BY <4>1, <4>2, <4>3
    <3>3. Room(j - 1) <= Room(k - 1) + MaxBatch
      BY <3>2, Rooms
    <3> DEFINE a == Room(k - 1)
               b == Room(j - 1)
    <3>4. a \in Int /\ b \in Int /\ b <= a + MaxBatch /\ today + Size(w) + a <= Ceiling
      BY <3>1, <3>2, <3>3
    <3> HIDE DEF a, b
    <3>5. today' + Size(w)' + b <= Ceiling'
      <4>1. Size(w)' = Size(w) /\ Size(w) \in Nat
        BY <1>3 DEF Open
      <4> QED BY <1>1, <1>8, <3>4, <4>1
    <3> QED BY <1>6, <3>5 DEF b, j
  <2>2. CASE Open = {}
    <3>1. Open' \subseteq {u} /\ j - 1 \in Int /\ j - 1 <= 0
      BY <1>2, <1>5, <2>2
    <3>2. Room(j - 1) <= 0 /\ Room(j - 1) \in Int
      BY <3>1, Rooms
    <3> DEFINE b == Room(j - 1)
    <3>3. b <= 0 /\ b \in Int
      BY <3>2
    <3> HIDE DEF b
    <3>4. today' + Size(u)' + b <= Ceiling'
      <4>1. Size(u)' = Size(u) /\ Size(u) \in Nat /\ Size(u) <= MaxBatch
        BY <1>3, <1>4
      <4> QED BY <1>1, <1>8, <3>3, <4>1
    <3> QED BY <1>6, <3>1, <3>4 DEF b, j
  <2> QED BY <2>1, <2>2
<1> QED BY <1>7, <1>8

\* An upload stores what it was let in with, or less, and makes room for as much.
LEMMA StoreFits ==
  ASSUME TypeOK, TypeOK', Batched, Capped, NEW u \in Open,
         Open' \subseteq Open \ {u}, unread' = unread,
         today' = today + Charge(upload[u].batch),
         \A v \in Uploads : upload'[v].batch = upload[v].batch
  PROVE  Capped'
<1> SUFFICES ASSUME DailyLogCap > 0
             PROVE  /\ today' <= Ceiling'
                    /\ Open' # {} =>
                         \E v \in Open' : today' + Size(v)' + Room(Cardinality(Open') - 1) <= Ceiling'
  BY DEF Capped
<1> DEFINE k == Cardinality(Open)
           j == Cardinality(Open')
           c == Charge(upload[u].batch)
<1>1. /\ Ceiling \in Int /\ today \in Nat /\ MaxBatch \in Nat /\ Ceiling' = Ceiling
  BY CeilingType, IngestAssumption DEF TypeOK
<1>2. k \in Nat /\ j \in Nat /\ j <= k - 1 /\ k >= 1 /\ (k = 1 \/ k - 1 >= 1)
  <2>1. k \in Nat /\ j \in Nat /\ j <= k - 1 /\ k >= 1
    BY OpenCounts
  <2> HIDE DEF k, j
  <2> QED BY <2>1
<1>3. \A v \in Open : Size(v)' = Size(v) /\ Size(v) \in Nat /\ Size(v) <= MaxBatch
  BY Sizes DEF Open, Size, Batched
<1>4. c \in Nat /\ c <= Size(u) /\ today' = today + c
  BY Sizes DEF Open
<1>5. PICK w \in Open : today + Size(w) + Room(k - 1) <= Ceiling
  BY DEF Capped
<1>6. w # u => k >= 2
  <2>1. w # u => w \in Open \ {u}
    OBVIOUS
  <2>2. IsFiniteSet(Open \ {u}) /\ Cardinality(Open \ {u}) = k - 1
    BY OpenCounts, FS_RemoveElement
  <2>3. w # u => Cardinality(Open \ {u}) # 0
    BY <2>1, <2>2, FS_EmptySet
  <2> HIDE DEF k
  <2> QED BY <1>2, <2>2, <2>3
<1> HIDE DEF k, j, c
<1>7. /\ k - 1 \in Int /\ j - 1 \in Int /\ Room(k - 1) \in Int /\ Room(j - 1) \in Int
      /\ Room(k - 1) >= 0
      /\ Room(j - 1) + MaxBatch <= Room(k - 1)
      /\ k >= 2 => Room(k - 1) >= MaxBatch
  <2>1. /\ k - 1 \in Int /\ j - 1 \in Int /\ (j - 1) + 1 \in Int /\ (j - 1) + 1 <= k - 1
        /\ 0 <= k - 1 /\ (k >= 2 => 0 + 1 <= k - 1)
    BY <1>2
  <2>2. Room((j - 1) + 1) = Room(j - 1) + MaxBatch /\ Room((j - 1) + 1) <= Room(k - 1)
    BY <2>1, Rooms
  <2>3. Room(0) = 0 /\ Room(0) <= Room(k - 1)
    BY <2>1, Rooms
  <2>4. Room(0 + 1) = Room(0) + MaxBatch /\ (k >= 2 => Room(0 + 1) <= Room(k - 1))
    BY <2>1, Rooms
  <2>5. Room(k - 1) \in Int /\ Room(j - 1) \in Int
    BY <2>1, Rooms
  <2> QED BY <1>1, <2>1, <2>2, <2>3, <2>4, <2>5
<1> DEFINE a == Room(k - 1)
           b == Room(j - 1)
<1>8. /\ a \in Int /\ b \in Int /\ a >= 0 /\ b + MaxBatch <= a
      /\ today + Size(w) + a <= Ceiling /\ (w # u => a >= MaxBatch)
  BY <1>5, <1>6, <1>7
<1> HIDE DEF a, b
<1>9. Size(w) \in Nat /\ Size(w)' = Size(w) /\ Size(w) <= MaxBatch /\ Size(u) \in Nat /\ Size(u) <= MaxBatch
  BY <1>3
<1>10. today' <= Ceiling'
  <2>1. CASE w = u
    BY <1>1, <1>4, <1>8, <1>9, <2>1
  <2>2. CASE w # u
    BY <1>1, <1>4, <1>8, <1>9, <2>2
  <2> QED BY <2>1, <2>2
<1>11. ASSUME NEW x \in Open'
       PROVE  \E v \in Open' : today' + Size(v)' + b <= Ceiling'
  <2>1. CASE w = u
    <3>1. Size(x)' = Size(x) /\ Size(x) \in Nat /\ Size(x) <= MaxBatch
      BY <1>3, <1>11
    <3>2. today' + Size(x)' + b <= Ceiling'
      BY <1>1, <1>4, <1>8, <1>9, <2>1, <3>1
    <3> QED BY <1>11, <3>2
  <2>2. CASE w # u /\ w \in Open'
    <3>1. today' + Size(w)' + b <= Ceiling'
      BY <1>1, <1>4, <1>8, <1>9
    <3> QED BY <2>2, <3>1
  <2>3. CASE w # u /\ w \notin Open'
    <3>1. Open' \subseteq (Open \ {u}) \ {w}
      BY <2>3
    <3>2. j <= k - 2
      <4>1. IsFiniteSet(Open) /\ Cardinality(Open) \in Nat
        BY OpenCounts
      <4>2. IsFiniteSet(Open \ {u}) /\ Cardinality(Open \ {u}) = k - 1
        BY <4>1, FS_RemoveElement DEF k
      <4>3. IsFiniteSet((Open \ {u}) \ {w}) /\ Cardinality((Open \ {u}) \ {w}) = (k - 1) - 1
        BY <2>3, <4>2, FS_RemoveElement
      <4>4. j <= Cardinality((Open \ {u}) \ {w})
        BY <3>1, <4>3, FS_Subset DEF j
      <4> QED BY <1>2, <4>3, <4>4
    <3>3. b + MaxBatch + MaxBatch <= a
      <4>1. /\ j - 1 \in Int /\ (j - 1) + 1 \in Int /\ ((j - 1) + 1) + 1 \in Int
            /\ k - 1 \in Int /\ ((j - 1) + 1) + 1 <= k - 1
        BY <1>2, <3>2
      <4>2. /\ Room(((j - 1) + 1) + 1) = Room((j - 1) + 1) + MaxBatch
            /\ Room((j - 1) + 1) = Room(j - 1) + MaxBatch
            /\ Room(((j - 1) + 1) + 1) <= Room(k - 1)
        BY <4>1, Rooms
      <4> QED BY <1>1, <1>7, <4>2 DEF a, b
    <3>4. Size(x)' = Size(x) /\ Size(x) \in Nat /\ Size(x) <= MaxBatch
      BY <1>3, <1>11
    <3>5. today' + Size(x)' + b <= Ceiling'
      BY <1>1, <1>4, <1>8, <1>9, <3>3, <3>4
    <3> QED BY <1>11, <3>5
  <2> QED BY <2>1, <2>2, <2>3
<1> QED BY <1>10, <1>11 DEF b, j

LEMMA CappedStep ==
  ASSUME TypeOK, Sent, Batched, Capped, [Next]_vars
  PROVE  Capped'
<1>0. TypeOK' /\ today \in Nat
  BY TypeStep DEF TypeOK
<1>1. ASSUME NEW u \in Uploads, NEW from, NEW to, Moves(u, from, to)
      PROVE  /\ \A v \in Uploads : upload'[v].batch = upload[v].batch
             /\ Open' \subseteq Open \cup {u}
             /\ upload'[u].pc \notin {"admitted", "recorded"} => Open' \subseteq Open \ {u}
             /\ Open \subseteq Open' \cup {u}
  BY <1>1 DEF Moves, Open
<1>2. ASSUME \A v \in Uploads : \/ upload'[v].pc = "idle"
                                \/ /\ upload'[v].pc = upload[v].pc
                                   /\ upload'[v].batch = upload[v].batch,
             today' = today \/ today' = 0, unread' = unread
      PROVE  Capped'
  <2>1. Open' \subseteq Open /\ \A v \in Open' : upload'[v].batch = upload[v].batch
    BY <1>2 DEF Open
  <2>2. today' <= today
    BY <1>0, <1>2
  <2> QED BY <1>0, <1>2, <2>1, <2>2, NoneOpens
<1>3. ASSUME NEW d \in Devices, NEW u \in Uploads, Send(d, u)
      PROVE  Capped'
  <2>1. Open' \subseteq Open /\ \A v \in Open' : upload'[v].batch = upload[v].batch
    BY <1>3, SendMakes DEF Open
  <2>2. today' <= today /\ unread' = unread
    BY <1>0, <1>3, SendMakes
  <2> QED BY <1>0, <2>1, <2>2, NoneOpens
<1>4. ASSUME NEW u \in Uploads, Moves(u, {"received"}, {"refused", "admitted"}), CheckDailyCap(u)
      PROVE  Capped'
  <2>1. u \notin Open /\ upload[u].pc = "received" /\ unread' = unread /\ today' = today
    BY <1>4 DEF Moves, Open, CheckDailyCap
  <2>2. /\ Open' \subseteq Open \cup {u} /\ Open \subseteq Open'
        /\ \A v \in Uploads : upload'[v].batch = upload[v].batch
    BY <1>1, <1>4, <2>1
  <2>3. CASE upload'[u].pc = "refused"
    <3>1. Open' \subseteq Open
      BY <2>2, <2>3 DEF Open
    <3>2. today' <= today /\ \A v \in Open' : upload'[v].batch = upload[v].batch
      BY <1>0, <2>1, <2>2 DEF Open
    <3> QED BY <1>0, <2>1, <3>1, <3>2, NoneOpens
  <2>4. CASE upload'[u].pc = "admitted"
    <3>1. ~WouldExceedCap(Size(u))
      BY <1>4, <2>4, GoesSame DEF CheckDailyCap, Size
    <3>2. DailyLogCap > 0 => today + Size(u) <= DailyLogCap
      BY <1>0, <3>1, Sizes, IngestAssumption DEF WouldExceedCap
    <3>3. CASE DailyLogCap > 0
      <4>1. today + Size(u) <= DailyLogCap
        BY <3>2, <3>3
      <4> QED BY <1>0, <2>1, <2>2, <4>1, OneOpens
    <3> QED BY <3>3 DEF Capped
  <2> QED BY <1>4, <2>3, <2>4 DEF Moves
<1>5. ASSUME NEW u \in Uploads, Moves(u, {"received"}, {"admitted"}), CounterUnreadable(u)
      PROVE  Capped'
  <2>1. u \notin Open /\ upload[u].pc = "received" /\ unread' = unread + 1 /\ today' = today
    BY <1>5 DEF Moves, Open, CounterUnreadable
  <2>2. /\ Open' \subseteq Open \cup {u} /\ Open \subseteq Open'
        /\ \A v \in Uploads : upload'[v].batch = upload[v].batch
    BY <1>1, <1>5, <2>1
  <2> QED BY <1>0, <2>1, <2>2, OneOpens
<1>6. ASSUME NEW u \in Uploads, Moves(u, {"recorded"}, {"stored"}), Store(u)
      PROVE  Capped'
  <2>1. u \in Open /\ Open' \subseteq Open \ {u} /\ \A v \in Uploads : upload'[v].batch = upload[v].batch
    BY <1>1, <1>6 DEF Moves, Open
  <2>2. unread' = unread /\ today' = today + Charge(upload[u].batch)
    BY <1>6 DEF Store
  <2> QED BY <1>0, <2>1, <2>2, StoreFits
<1>7. ASSUME NEW u \in Uploads, NEW from, NEW to, Moves(u, from, to),
             to \cap {"admitted", "recorded"} = {} \/ from = {"admitted"},
             today' = today, unread' = unread
      PROVE  Capped'
  <2>1. Open' \subseteq Open /\ \A v \in Open' : upload'[v].batch = upload[v].batch
    <3>1. u \in Open' => u \in Open
      BY <1>7 DEF Moves, Open
    <3> QED BY <1>1, <1>7, <3>1 DEF Open
  <2>2. today' <= today
    BY <1>0, <1>7
  <2> QED BY <1>0, <1>7, <2>1, <2>2, NoneOpens
<1>8. ASSUME NEW u \in Uploads,
             \/ Moves(u, {"received"}, {"failed"}) /\ Unreadable(u)
             \/ Moves(u, {"admitted"}, {"recorded"}) /\ (UpsertSessions(u) \/ SessionsLost(u))
             \/ Moves(u, {"recorded"}, {"failed"}) /\ StoreFails(u)
             \/ Moves(u, {"stored"}, {"taken"}) /\ Publish(u)
      PROVE  Capped'
  <2>1. today' = today /\ unread' = unread
    BY <1>8 DEF Unreadable, UpsertSessions, SessionsLost, StoreFails, Publish
  <2> QED BY <1>7, <1>8, <2>1
<1> QED BY <1>2, <1>3, <1>4, <1>5, <1>6, <1>8, UploadSteps

\* The cap is checked without a lock and the charge comes later: for any number
\* of concurrent uploads the day's counter passes the cap by at most a batch for
\* each upload but one, and one for each check that could not be made.
THEOREM OvershootSafe == Spec => []OvershootBounded
<1>1. Init => Genuine /\ Batched /\ Capped
  <2> SUFFICES ASSUME Init PROVE Genuine /\ Batched /\ Capped
    OBVIOUS
  <2>1. Genuine /\ Batched /\ Open = {}
    BY DEF Init, Idle, Genuine, Batched, Open
  <2>2. DailyLogCap > 0 => today <= Ceiling
    <3> DEFINE n == Cardinality(Uploads)
               a == Room(n - 1)
    <3>1. n \in Nat /\ MaxBatch \in Nat /\ MaxBatch > 0 /\ DailyLogCap \in Int
          /\ today = 0 /\ unread = 0
      BY IngestAssumption, FS_CardinalityType DEF Init
    <3>2. n - 1 \in Int /\ 0 - 1 \in Int /\ 0 - 1 <= n - 1
      BY <3>1
    <3>3. /\ Room(n - 1) \in Int /\ Room(0 - 1) \in Int
          /\ Room(0 - 1) <= Room(n - 1) /\ Room(0 - 1) + MaxBatch = 0
      <4>1. Room(n - 1) \in Int /\ Room(0 - 1) <= Room(n - 1)
        BY <3>2, Rooms
      <4>2. 0 - 1 + 1 = 0 /\ Room(0 - 1) = 0 - MaxBatch
        BY <3>1 DEF Room
      <4> QED BY <3>1, <4>1, <4>2
    <3>4. a \in Int /\ 0 <= a + MaxBatch
      <4> HIDE DEF n
      <4> QED BY <3>1, <3>2, <3>3
    <3>5. Ceiling = (IF DailyLogCap < MaxBatch THEN MaxBatch ELSE DailyLogCap) + a
      <4>1. n - 1 + unread = n - 1
        BY <3>1
      <4> QED BY <4>1 DEF Ceiling
    <3> HIDE DEF a, n
    <3> QED BY <3>1, <3>4, <3>5
  <2> QED BY <2>1, <2>2 DEF Capped
<1>2. TypeOK /\ Sent /\ Genuine /\ Batched /\ Capped /\ [Next]_vars
        => Genuine' /\ Batched' /\ Capped'
  BY GenuineStep, BatchedStep, CappedStep
<1>3. Capped => OvershootBounded
  BY DEF Capped, OvershootBounded, Ceiling, Room
<1> QED BY <1>1, <1>2, <1>3, IngestTypes, PTL DEF Spec

----------------------------------------------------------------------------
(* The charge.                                                             *)

LEMMA TableIs ==
  /\ \A x : x \in Table <=> \E l \in Logs : \E n \in 1 .. rows[l] : x = <<l, n>>
  /\ \A x : x \in Table' <=> \E l \in Logs : \E n \in 1 .. rows'[l] : x = <<l, n>>
BY DEF Table

\* The rows an upload adds are as many as the logs it inserts.
LEMMA NewRows ==
  ASSUME TypeOK, NEW I, I \subseteq Logs
  PROVE  /\ IsFiniteSet({<<l, rows[l] + 1>> : l \in I})
         /\ Cardinality({<<l, rows[l] + 1>> : l \in I}) = Cardinality(I)
<1> DEFINE T == {<<l, rows[l] + 1>> : l \in I}
           f == [l \in I |-> <<l, rows[l] + 1>>]
<1>1. IsFiniteSet(I)
  BY IngestAssumption, FS_Subset
<1>2. f \in Bijection(I, T)
  <2>1. f \in [I -> T]
    OBVIOUS
  <2>2. \A a, b \in I : f[a] = f[b] => a = b
    OBVIOUS
  <2>3. \A t \in T : \E a \in I : f[a] = t
    OBVIOUS
  <2> HIDE DEF f, T
  <2> QED BY <2>1, <2>2, <2>3 DEF Bijection, Injection, Surjection, IsInjective
<1> HIDE DEF f, T
<1>3. ExistsBijection(I, T)
  BY <1>2 DEF ExistsBijection
<1> QED BY <1>1, <1>3, FS_Bijection DEF T

\* The counters are right, and the table is finite.
Charged == IsFiniteSet(Table) /\ ChargedForRows

LEMMA ChargedStep ==
  ASSUME TypeOK, Charged, [Next]_vars
  PROVE  Charged'
<1>0. today \in Nat /\ past \in Nat /\ \A l \in Logs : rows[l] \in Nat
  BY DEF TypeOK
<1>1. ASSUME NEW u \in Uploads, Store(u)
      PROVE  Charged'
  <2> DEFINE I == Inserted(upload[u].batch)
             New == {<<l, rows[l] + 1>> : l \in I}
  <2>1. /\ \A l \in Logs : rows'[l] = IF l \in I THEN rows[l] + 1 ELSE rows[l]
        /\ today' = today + Cardinality(I) /\ past' = past
        /\ I \subseteq Logs
    BY <1>1 DEF Store, Charge, Inserted, TypeOK, UploadType
  <2> HIDE DEF I
  <2>2. IsFiniteSet(New) /\ Cardinality(New) = Cardinality(I)
    BY <2>1, NewRows
  <2>3. Table' = Table \cup New
    <3>1. \A l \in Logs : l \in I => 1 .. rows'[l] = (1 .. rows[l]) \cup {rows[l] + 1}
      BY <1>0, <2>1
    <3>2. \A l \in Logs : l \notin I => 1 .. rows'[l] = 1 .. rows[l]
      BY <2>1
    <3>3. ASSUME NEW x \in Table'
          PROVE  x \in Table \cup New
      <4>1. PICK l \in Logs : \E n \in 1 .. rows'[l] : x = <<l, n>>
        BY TableIs
      <4>2. CASE l \in I
        <5>1. PICK n \in 1 .. rows'[l] : x = <<l, n>>
          BY <4>1
        <5>2. n \in 1 .. rows[l] \/ n = rows[l] + 1
          BY <3>1, <4>2
        <5> QED BY <4>2, <5>1, <5>2, TableIs
      <4>3. CASE l \notin I
        <5>1. PICK n \in 1 .. rows[l] : x = <<l, n>>
          BY <3>2, <4>1, <4>3
        <5> QED BY <5>1, TableIs
      <4> QED BY <4>2, <4>3
    <3>4. ASSUME NEW x \in Table
          PROVE  x \in Table'
      <4>1. PICK l \in Logs : \E n \in 1 .. rows[l] : x = <<l, n>>
        BY TableIs
      <4>2. PICK n \in 1 .. rows[l] : x = <<l, n>>
        BY <4>1
      <4>3. n \in 1 .. rows'[l]
        BY <3>1, <3>2
      <4> QED BY <4>2, <4>3, TableIs
    <3>5. ASSUME NEW l \in I
          PROVE  <<l, rows[l] + 1>> \in Table'
      <4>1. l \in Logs /\ rows[l] + 1 \in 1 .. rows'[l]
        BY <2>1, <3>1
      <4> QED BY <4>1, TableIs
    <3> QED BY <3>3, <3>4, <3>5
  <2>4. Table \cap New = {}
    <3>1. ASSUME NEW l \in I, <<l, rows[l] + 1>> \in Table
          PROVE  FALSE
      <4>1. PICK m \in Logs : \E n \in 1 .. rows[m] : <<l, rows[l] + 1>> = <<m, n>>
        BY <3>1, TableIs
      <4>2. l \in Logs /\ l = m /\ rows[l] + 1 \in 1 .. rows[m]
        BY <2>1, <4>1
      <4>3. rows[l] \in Nat /\ rows[l] + 1 \in 1 .. rows[l]
        BY <1>0, <4>1, <4>2
      <4> QED BY <4>3
    <3> QED BY <3>1
  <2> HIDE DEF New
  <2>5. IsFiniteSet(Table)
    BY DEF Charged
  <2>6. IsFiniteSet(Table') /\ Cardinality(Table') = Cardinality(Table) + Cardinality(New)
    <3>1. /\ IsFiniteSet(Table \cup New)
          /\ Cardinality(Table \cup New)
               = Cardinality(Table) + Cardinality(New) - Cardinality(Table \cap New)
      BY <2>2, <2>5, FS_Union
    <3>2. Cardinality(Table \cap New) = 0
      BY <2>4, FS_EmptySet
    <3>3. Cardinality(Table) \in Nat /\ Cardinality(New) \in Nat
      BY <2>2, <2>5, FS_CardinalityType
    <3> QED BY <2>3, <3>1, <3>2, <3>3
  <2>7. Cardinality(Table) \in Nat /\ Cardinality(I) \in Nat /\ Cardinality(New) \in Nat
    BY <2>2, <2>5, FS_CardinalityType
  <2>8. today + past = Cardinality(Table)
    BY DEF Charged, ChargedForRows
  <2>9. today' + past' = Cardinality(Table')
    <3> DEFINE c == Cardinality(Table)
               d == Cardinality(Table')
               i == Cardinality(I)
    <3>1. c \in Nat /\ i \in Nat /\ d = c + i /\ today + past = c /\ today' = today + i
      BY <2>1, <2>2, <2>6, <2>7, <2>8
    <3> HIDE DEF c, d, i
    <3>2. today' + past' = d
      BY <1>0, <2>1, <3>1
    <3> QED BY <3>2 DEF d
  <2> QED BY <2>6, <2>9 DEF Charged, ChargedForRows
<1>2. CASE Midnight
  <2>1. Table' = Table /\ today' + past' = today + past
    BY <1>0, <1>2 DEF Midnight, Table
  <2> QED BY <2>1 DEF Charged, ChargedForRows
<1>3. ASSUME UNCHANGED <<rows, today, past>>
      PROVE  Charged'
  BY <1>3 DEF Charged, ChargedForRows, Table
<1> QED
  BY <1>1, <1>2, <1>3
  DEF Next, Serve, vars, Capture, Send, GiveUp, CheckDailyCap, UpsertSessions,
      Publish, Respond, Unreadable, CounterUnreadable, SessionsLost, StoreFails, Crash

\* A project is charged for the rows it has, however uploads interleave, fail and
\* come twice; and the cap holds up to what running without a lock costs.
THEOREM ChargesSafe == Spec => []ChargesAreRight
<1>1. Init => Charged
  <2> SUFFICES ASSUME Init PROVE Charged
    OBVIOUS
  <2>1. \A l \in Logs : rows[l] = 0
    BY DEF Init
  <2>2. Table = {}
    BY <2>1, TableIs
  <2>3. today = 0 /\ past = 0
    BY DEF Init
  <2> QED BY <2>2, <2>3, FS_EmptySet DEF Charged, ChargedForRows
<1>2. TypeOK /\ Charged /\ [Next]_vars => Charged'
  BY ChargedStep
<1>3. Charged /\ OvershootBounded => ChargesAreRight
  BY DEF Charged, ChargesAreRight
<1> QED BY <1>1, <1>2, <1>3, IngestTypes, OvershootSafe, PTL DEF Spec
=============================================================================
