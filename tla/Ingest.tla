------------------------------- MODULE Ingest -------------------------------
(***************************************************************************)
(* Log ingestion for one project: POST /api/logs/dump from the handler     *)
(* (server/handlers/log_handler.go) through LogService.DumpLogs            *)
(* (internal/services/log_service.go) to the rows and the daily counter    *)
(* (log_repo.go, usage_repo.go), with the phones that upload.              *)
(*                                                                         *)
(* A request runs in a goroutine of its own, so the steps of DumpLogs of   *)
(* different uploads interleave: reading the counter, recording the        *)
(* launches, the one transaction, the publication, the answer.  The phone  *)
(* is external; what is assumed of it is what the server's comments say:   *)
(* it deletes a batch on a 200 and puts it back on anything else.          *)
(*                                                                         *)
(* Days are not numbered: today is the counter of the current UTC day and  *)
(* past the sum of the counters of the days gone by.                       *)
(***************************************************************************)
EXTENDS Integers, FiniteSets

CONSTANTS
  Devices,       \* phones, one launch of the app on each
  Logs,          \* what the app writes; a member is its client id
  WrittenOn,     \* the device whose app writes the log
  Anonymous,     \* the logs an SDK sends without an id (uuid.Nil)
  Uploads,       \* requests the server can be handling at a time
  None,
  DailyLogCap,   \* zero or less: uncapped
  MaxBatch,      \* the SDK's batch size
  MaxFaults      \* bound of the model: failures and hang-ups in a history

ASSUME IngestAssumption ==
  /\ None \notin Devices
  /\ WrittenOn \in [Logs -> Devices]
  /\ IsFiniteSet(Logs) /\ Anonymous \subseteq Logs /\ IsFiniteSet(Uploads)
  /\ DailyLogCap \in Int /\ MaxBatch \in Nat \ {0} /\ MaxFaults \in Nat

VARIABLES
  phone,     \* per device: captured so far, still in SQLite, being sent
  upload,    \* the request goroutines
  rows,      \* rows of the logs table, per client id
  launched,  \* devices whose launch has a row in the sessions table
  today,     \* project_usage_daily.log_count for the current UTC day
  past,      \*   and the sum of the earlier days'
  shown,     \* logs handed to the live tail's publisher
  unread,    \* uploads let through because the counter could not be read
  faults

vars == <<phone, upload, rows, launched, today, past, shown, unread, faults>>

PhoneType == [captured: SUBSET Logs, outbox: SUBSET Logs, sending: SUBSET Logs]

\* awaited: the phone has not hung up.
UploadType ==
  [pc: {"idle", "received", "admitted", "recorded", "stored",
        "taken", "refused", "failed"},
   device: Devices \cup {None}, batch: SUBSET Logs, awaited: BOOLEAN]

TypeOK ==
  /\ phone \in [Devices -> PhoneType]
  /\ upload \in [Uploads -> UploadType]
  /\ rows \in [Logs -> Nat]
  /\ launched \subseteq Devices
  /\ today \in Nat /\ past \in Nat
  /\ shown \subseteq Logs
  /\ unread \in Nat /\ faults \in Nat

Idle == [pc |-> "idle", device |-> None, batch |-> {}, awaited |-> FALSE]

Init ==
  /\ phone = [d \in Devices |-> [captured |-> {}, outbox |-> {}, sending |-> {}]]
  /\ upload = [u \in Uploads |-> Idle]
  /\ rows = [l \in Logs |-> 0]
  /\ launched = {}
  /\ today = 0 /\ past = 0
  /\ shown = {}
  /\ unread = 0 /\ faults = 0

\* One more thing goes wrong, while the bound allows.
Fault == faults < MaxFaults /\ faults' = faults + 1

Goes(u, pc) == upload' = [upload EXCEPT ![u].pc = pc]

----------------------------------------------------------------------------
(* The phone.                                                              *)

Capture(d, l) ==
  /\ WrittenOn[l] = d
  /\ l \notin phone[d].captured
  /\ phone' = [phone EXCEPT ![d] =
       [captured |-> phone[d].captured \cup {l},
        outbox |-> phone[d].outbox \cup {l}, sending |-> phone[d].sending]]
  /\ UNCHANGED <<upload, rows, launched, today, past, shown, unread, faults>>

\* The sync worker has one upload out at a time.
Send(d, u) ==
  /\ upload[u].pc = "idle"
  /\ phone[d].sending = {}
  /\ \E batch \in SUBSET phone[d].outbox :
       /\ Cardinality(batch) \in 1 .. MaxBatch
       /\ phone' = [phone EXCEPT ![d].sending = batch]
       /\ upload' = [upload EXCEPT ![u] =
            [pc |-> "received", device |-> d, batch |-> batch, awaited |-> TRUE]]
  /\ UNCHANGED <<rows, launched, today, past, shown, unread, faults>>

\* The phone times out or loses its network and puts the batch back.  The
\* request goes on without it, or is lost: see Unreadable.
GiveUp(d) ==
  /\ phone[d].sending # {}
  /\ Fault
  /\ phone' = [phone EXCEPT ![d].sending = {}]
  /\ upload' = [u \in Uploads |->
       IF upload[u].device = d THEN [upload[u] EXCEPT !.awaited = FALSE]
                               ELSE upload[u]]
  /\ UNCHANGED <<rows, launched, today, past, shown, unread>>

----------------------------------------------------------------------------
(* DumpLogs.                                                               *)

\* The early returns of the handler and of the loop over the archive.
Unreadable(u) ==
  /\ upload[u].pc = "received"
  /\ Fault
  /\ Goes(u, "failed")
  /\ UNCHANGED <<phone, rows, launched, today, past, shown, unread>>

\* Slip: the counter compared with the cap, the batch left out.
AlreadyPastCap(incoming) == DailyLogCap > 0 /\ today > DailyLogCap

\* Slip: the counter read without its day.
PastCapForEver(incoming) ==
  DailyLogCap > 0 /\ today + past + incoming > DailyLogCap

WouldExceedCap(incoming) == DailyLogCap > 0 /\ today + incoming > DailyLogCap

\* Slip: launches recorded before the cap is looked at.
CheckCapAfterSessions(u) ==
  /\ upload[u].pc = "received"
  /\ Goes(u, IF WouldExceedCap(Cardinality(upload[u].batch))
             THEN "refused" ELSE "admitted")
  /\ launched' = launched \cup {upload[u].device}
  /\ UNCHANGED <<phone, rows, today, past, shown, unread, faults>>

CheckDailyCap(u) ==
  /\ upload[u].pc = "received"
  /\ Goes(u, IF WouldExceedCap(Cardinality(upload[u].batch))
             THEN "refused" ELSE "admitted")
  /\ UNCHANGED <<phone, rows, launched, today, past, shown, unread, faults>>

\* CountForDay fails: the batch is let through.
CounterUnreadable(u) ==
  /\ upload[u].pc = "received"
  /\ DailyLogCap > 0
  /\ Fault
  /\ Goes(u, "admitted")
  /\ unread' = unread + 1
  /\ UNCHANGED <<phone, rows, launched, today, past, shown>>

UpsertSessions(u) ==
  /\ upload[u].pc = "admitted"
  /\ Goes(u, "recorded")
  /\ launched' = launched \cup {upload[u].device}
  /\ UNCHANGED <<phone, rows, today, past, shown, unread, faults>>

\* A session that cannot be recorded is logged and swallowed.
SessionsLost(u) ==
  /\ upload[u].pc = "admitted"
  /\ Fault
  /\ Goes(u, "recorded")
  /\ UNCHANGED <<phone, rows, launched, today, past, shown, unread>>

\* Slip: no conflict target, every row offered is written.
InsertedTwice(batch) == batch

\* ON CONFLICT (project_id, client_id) DO NOTHING; a null client id never
\* conflicts.
Inserted(batch) == {l \in batch : l \in Anonymous \/ rows[l] = 0}

\* Slip: the project is charged for what was offered.
ChargeOffered(batch) == Cardinality(batch)

\* RowsAffected
Charge(batch) == Cardinality(Inserted(batch))

\* Slip: the live tail is told from inside the transaction.
StorePublishing(u) ==
  /\ upload[u].pc = "recorded"
  /\ Goes(u, "stored")
  /\ rows' = [l \in Logs |->
       IF l \in Inserted(upload[u].batch) THEN rows[l] + 1 ELSE rows[l]]
  /\ today' = today + Charge(upload[u].batch)
  /\ shown' = shown \cup upload[u].batch
  /\ UNCHANGED <<phone, launched, past, unread, faults>>

\* insertIncomingLogs: the rows and the counter commit together.
Store(u) ==
  /\ upload[u].pc = "recorded"
  /\ Goes(u, "stored")
  /\ rows' = [l \in Logs |->
       IF l \in Inserted(upload[u].batch) THEN rows[l] + 1 ELSE rows[l]]
  /\ today' = today + Charge(upload[u].batch)
  /\ UNCHANGED <<phone, launched, past, shown, unread, faults>>

\* Slip: the transaction's error dropped on the way out.
StoreErrorSwallowed(u) ==
  /\ upload[u].pc = "recorded"
  /\ Fault
  /\ Goes(u, "taken")
  /\ UNCHANGED <<phone, rows, launched, today, past, shown, unread>>

StoreFails(u) ==
  /\ upload[u].pc = "recorded"
  /\ Fault
  /\ Goes(u, "failed")
  /\ UNCHANGED <<phone, rows, launched, today, past, shown, unread>>

\* Everything offered is published, replayed or not.
Publish(u) ==
  /\ upload[u].pc = "stored"
  /\ Goes(u, "taken")
  /\ shown' = shown \cup upload[u].batch
  /\ UNCHANGED <<phone, rows, launched, today, past, unread, faults>>

Settled(u) == upload[u].pc \in {"taken", "refused", "failed"}

\* The phone p after the answer to r.
Told(p, r) ==
  [captured |-> p.captured, sending |-> {},
   outbox |-> IF r.pc = "taken" THEN p.outbox \ r.batch ELSE p.outbox]

\* The answer.  A 200 makes the phone delete the batch, a 429 or an error
\* leaves it in the outbox; nobody reads the answer of an abandoned request.
Respond(u) ==
  /\ Settled(u)
  /\ upload' = [upload EXCEPT ![u] = Idle]
  /\ IF upload[u].awaited
     THEN phone' = [phone EXCEPT ![upload[u].device] = Told(@, upload[u])]
     ELSE UNCHANGED phone
  /\ UNCHANGED <<rows, launched, today, past, shown, unread, faults>>

----------------------------------------------------------------------------
\* The process dies and comes back: every request in flight is gone, and an
\* open transaction with it.
Crash ==
  /\ \E u \in Uploads : upload[u].pc # "idle"
  /\ Fault
  /\ upload' = [u \in Uploads |-> Idle]
  /\ phone' = [d \in Devices |-> [phone[d] EXCEPT !.sending = {}]]
  /\ UNCHANGED <<rows, launched, today, past, shown, unread>>

\* UsageDay moves on, UTC: the new day has no row yet, which reads as zero.
Midnight ==
  /\ today > 0
  /\ today' = 0
  /\ past' = past + today
  /\ UNCHANGED <<phone, upload, rows, launched, shown, unread, faults>>

Serve(u) ==
  \/ CheckDailyCap(u) \/ UpsertSessions(u) \/ Store(u) \/ Publish(u) \/ Respond(u)

Next ==
  \/ \E d \in Devices, l \in Logs : Capture(d, l)
  \/ \E d \in Devices, u \in Uploads : Send(d, u)
  \/ \E d \in Devices : GiveUp(d)
  \/ \E u \in Uploads : Serve(u)
  \/ \E u \in Uploads : Unreadable(u) \/ CounterUnreadable(u)
  \/ \E u \in Uploads : SessionsLost(u) \/ StoreFails(u)
  \/ Crash
  \/ Midnight

Spec == Init /\ [][Next]_vars

\* A request goroutine keeps running, the sync worker keeps trying and days
\* go by.
Fairness ==
  /\ \A u \in Uploads : WF_vars(Serve(u))
  /\ \A d \in Devices : WF_vars(\E u \in Uploads : Send(d, u))
  /\ WF_vars(Midnight)

FairSpec == Spec /\ Fairness

----------------------------------------------------------------------------
Stored(l) == rows[l] > 0

\* A log the app wrote is on the phone or in the database, whatever was
\* lost, refused, retried or killed on the way: the phone deletes a whole
\* batch on a 200, so a 200 must mean that the whole batch is stored.
NothingLost ==
  \A d \in Devices : \A l \in phone[d].captured :
    l \in phone[d].outbox \/ Stored(l)

\* A replayed batch inserts nothing: a log with a client id has one row, even
\* when the first upload of it is still running as the second one arrives.
StoredOnce == \A l \in Logs \ Anonymous : rows[l] <= 1

\* The rows of the table, numbered log by log.
Table == UNION {{l} \X (1 .. rows[l]) : l \in Logs}

\* A project is charged for the rows it has, no more and no less: the
\* counters of all days add up to the rows of the table.
ChargedForRows == today + past = Cardinality(Table)

\* The cap is checked without a lock, so it can be passed by one batch for
\* each other upload running at the time (and one for each upload whose check
\* could not be made), by no more, and midnight between check and insert does
\* not add to it.  The day's first batches of an instance whose cap is smaller
\* than a batch are the exception the bound allows for.
OvershootBounded ==
  DailyLogCap > 0 =>
    today <= (IF DailyLogCap < MaxBatch THEN MaxBatch ELSE DailyLogCap)
               + (Cardinality(Uploads) - 1 + unread) * MaxBatch

\* The counters tell the truth and the cap means something, though neither the
\* check nor the charge holds a lock and batches come twice.
ChargesAreRight == ChargedForRows /\ OvershootBounded

\* The cap is decided before the launches are recorded, so that a refused
\* upload leaves no launch without logs behind: as long as nothing failed, a
\* launch in the table has logs there, or an admitted upload that brings them.
LaunchesHaveLogs ==
  faults = 0 =>
    \A d \in launched :
      \/ \E l \in phone[d].captured : Stored(l)
      \/ \E u \in Uploads : upload[u].device = d /\ upload[u].pc = "recorded"

----------------------------------------------------------------------------
(* Ingestion implements delivery.                                          *)

Written == UNION {phone[d].captured : d \in Devices}

D == INSTANCE Delivery WITH
       written <- Written, stored <- {l \in Logs : Stored(l)}, shown <- shown

\* Through lost answers, replays, failed transactions and crashes, all a reader
\* sees is logs going from written to stored, and from stored to the live tail.
ImplementsDelivery == D!Spec

\* Nothing the app wrote stays on the phone for ever: a refusal ends with the
\* day, a failure with the retry.
EverythingArrives == D!Arrival
=============================================================================
