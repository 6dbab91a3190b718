-------------------------- MODULE RetentionProofs --------------------------
(***************************************************************************)
(* Proofs that what the clean-up keeps is whole and that what goes goes in *)
(* its time: for any number of logs, launches, projects and uploads, any   *)
(* windows and batch sizes, and any number of failures and crashes.        *)
(***************************************************************************)
EXTENDS Retention, TLAPS

----------------------------------------------------------------------------
(* Types.                                                                  *)

LaunchType == [row: BOOLEAN, seen: Ages]
UploadType == [pc: {"idle", "sent", "checked", "recorded", "done"}, log: Logs, seen: Ages]
RunType == [pc: Phases, window: Windows, batches: 0 .. MaxBatches - 1]

Typed ==
  /\ log \in [Logs -> LogType]
  /\ launch \in [Launches -> LaunchType]
  /\ usage \subseteq Ages
  /\ deleted \subseteq Projects
  /\ upload \in [Uploads -> UploadType]
  /\ settings \in [window: Windows, loaded: BOOLEAN]
  /\ run \in RunType
  /\ due \in BOOLEAN
  /\ faults \in 0 .. MaxFaults
  /\ past \in [behind: SUBSET Launches, late: SUBSET Logs]

LEMMA Numbers ==
  /\ MaxAge \in Nat /\ MaxAge > 0 /\ MaxFaults \in Nat /\ UsageGraceDays \in Nat
  /\ MaxBatches \in Nat /\ MaxBatches > 0 /\ BatchSize \in Nat
  /\ 0 \in Ages /\ 0 \in 0 .. MaxBatches - 1
  /\ \A w \in Windows : /\ w[1] \in Nat /\ w[2] \in Nat
                        /\ Horizon(w) \in Nat /\ Horizon(w) < MaxAge
<1>1. PICK w \in Windows : TRUE
  BY RetentionAssumption
<1>2. ASSUME NEW v \in Windows
      PROVE  /\ v[1] \in Nat /\ v[2] \in Nat
             /\ Horizon(v) \in Nat /\ Horizon(v) < MaxAge
  <2>1. v[1] \in Nat /\ v[2] \in Nat
    BY RetentionAssumption
  <2> QED BY <2>1, RetentionAssumption DEF Horizon
<1>3. MaxAge > 0
  BY <1>2, RetentionAssumption
<1> QED BY <1>2, <1>3, RetentionAssumption DEF Ages

LEMMA AsleepType ==
  Asleep \in RunType /\ Asleep.pc = "idle"
BY Numbers, RetentionAssumption DEF Asleep, RunType, Phases

LEMMA UnusedType ==
  ASSUME NEW l \in Logs, NEW pc \in {"idle", "done"}
  PROVE  Unused(pc) \in UploadType /\ Unused(pc).pc = pc
BY Numbers DEF Unused, UploadType

\* Ages go up by one, to the bound.
LEMMA OlderIs ==
  /\ \A a \in Ages : Older(a) \in Ages /\ a <= Older(a)
  /\ \A a, b \in Ages : a <= b => Older(a) <= Older(b)
BY Numbers DEF Ages, Older

\* Cleanup moves on to a phase, or goes to sleep.
LEMMA GotoIs ==
  ASSUME run \in RunType, NEW pc \in Phases, Goto(pc)
  PROVE  /\ run' \in RunType /\ run'.pc = pc
         /\ pc # "idle" => run'.window = run.window
<1>1. CASE pc = "idle"
  BY <1>1, AsleepType DEF Goto
<1>2. CASE pc # "idle"
  BY <1>2, Numbers DEF Goto, RunType
<1> QED BY <1>1, <1>2

\* The same phase goes on with its next batch.
LEMMA BatchesOn ==
  ASSUME run \in RunType, NEW gone, Again(gone), run' = [run EXCEPT !.batches = @ + 1]
  PROVE  run' \in RunType /\ run'.pc = run.pc /\ run'.window = run.window
<1>1. run.batches + 1 \in 0 .. MaxBatches - 1
  BY Numbers DEF RunType, Again
<1> QED BY <1>1 DEF RunType

LEMMA TypedIs == (TypeOK <=> Typed) /\ (TypeOK' <=> Typed')
BY DEF TypeOK, Typed, LaunchType, UploadType, RunType

LEMMA TypeInit == Init => TypeOK
<1> SUFFICES ASSUME Init PROVE Typed
  BY TypedIs
<1>1. log \in [Logs -> LogType] /\ launch \in [Launches -> LaunchType]
  BY Numbers DEF Init, LogType, LaunchType
<1>2. upload \in [Uploads -> UploadType]
  BY UnusedType, RetentionAssumption DEF Init
<1>3. run \in RunType
  BY AsleepType DEF Init
<1>4. faults \in 0 .. MaxFaults
  BY Numbers DEF Init
<1> QED BY <1>1, <1>2, <1>3, <1>4 DEF Init, Typed

\* What the steps of an upload change.
LEMMA UploadSteps ==
  ASSUME Typed, NEW u \in Uploads, Serve(u) \/ UpsertFails(u)
  PROVE  /\ upload' \in [Uploads -> UploadType]
         /\ \A v \in Uploads : v # u => upload'[v] = upload[v]
         /\ Insert(u) => upload'[u].pc = "done"
         /\ ~Insert(u) => /\ upload'[u].log = upload[u].log /\ upload'[u].seen = upload[u].seen
                          /\ upload'[u].pc \in {"checked", "recorded"}
                          /\ Authenticate(u) => upload'[u].pc = "checked"
         /\ upload[u].pc \in {"sent", "checked", "recorded"}
<1>1. CASE Authenticate(u)
  BY <1>1 DEF Authenticate, Insert, Typed, UploadType
<1>2. CASE Upsert(u)
  <2>1. upload' = [upload EXCEPT ![u].pc = "recorded"] /\ upload[u].pc = "checked"
    BY <1>2 DEF Upsert
  <2>2. ~Insert(u) /\ ~Authenticate(u)
    BY <2>1 DEF Insert, Authenticate
  <2> QED BY <2>1, <2>2 DEF Typed, UploadType
<1>3. CASE UpsertFails(u)
  <2>1. upload' = [upload EXCEPT ![u].pc = "recorded"] /\ upload[u].pc = "checked"
    BY <1>3 DEF UpsertFails
  <2>2. ~Insert(u) /\ ~Authenticate(u)
    BY <2>1 DEF Insert, Authenticate
  <2> QED BY <2>1, <2>2 DEF Typed, UploadType
<1>4. CASE Insert(u)
  <2>1. upload' = [upload EXCEPT ![u] = Unused("done")] /\ upload[u].pc = "recorded"
    BY <1>4, Zenon DEF Insert
  <2>2. Unused("done") \in UploadType /\ Unused("done").pc = "done"
    BY UnusedType, RetentionAssumption
  <2> QED BY <1>4, <2>1, <2>2 DEF Typed
<1> QED BY <1>1, <1>2, <1>3, <1>4 DEF Serve

\* Upsert writes the launch; a launch the row of which was newer is remembered.
LEMMA UpsertIs ==
  ASSUME Typed, NEW u \in Uploads, Upsert(u)
  PROVE  LET s == LaunchOf[upload[u].log] IN
         /\ s \in Launches
         /\ launch'[s] = [row |-> TRUE, seen |-> upload[u].seen]
         /\ \A t \in Launches : t # s => launch'[t] = launch[t]
         /\ launch' \in [Launches -> LaunchType]
         /\ past' \in [behind: SUBSET Launches, late: SUBSET Logs]
         /\ past'.late = past.late /\ past.behind \subseteq past'.behind
         /\ past'.behind \subseteq past.behind \cup {s}
         /\ FallsBehind(s, upload[u].seen) => s \in past'.behind
<1> DEFINE s == LaunchOf[upload[u].log]
           x == [row |-> TRUE, seen |-> upload[u].seen]
           b == past.behind \cup {s}
<1>1. s \in Launches /\ upload[u].seen \in Ages
  BY RetentionAssumption DEF Typed, UploadType
<1>2. x \in LaunchType
  BY <1>1 DEF LaunchType
<1>3. launch' = [launch EXCEPT ![s] = x]
  BY DEF Upsert
<1>4. past' = IF FallsBehind(s, upload[u].seen)
              THEN [past EXCEPT !.behind = b] ELSE past
  BY Zenon DEF Upsert
<1> HIDE DEF s, x, b
<1>5. /\ launch'[s] = x /\ \A t \in Launches : t # s => launch'[t] = launch[t]
      /\ launch' \in [Launches -> LaunchType]
  BY <1>1, <1>2, <1>3 DEF Typed
<1>6. /\ b \in SUBSET Launches /\ past.behind \subseteq b /\ s \in b /\ b \subseteq past.behind \cup {s}
  BY <1>1 DEF Typed, b
<1>7. /\ past' \in [behind: SUBSET Launches, late: SUBSET Logs]
      /\ past'.late = past.late /\ past.behind \subseteq past'.behind
      /\ past'.behind \subseteq past.behind \cup {s}
      /\ FallsBehind(s, upload[u].seen) => s \in past'.behind
  BY <1>4, <1>6 DEF Typed
<1> QED BY <1>1, <1>5, <1>7 DEF s, x

\* Insert brings a row to life, or finds the log there.
LEMMA InsertIs ==
  ASSUME Typed, NEW u \in Uploads, Insert(u)
  PROVE  LET l == upload[u].log IN
         /\ l \in Logs /\ UNCHANGED <<launch, deleted, settings, run, due, faults>>
         /\ \/ log[l].row # "none" /\ UNCHANGED <<log, usage, past>>
            \/ /\ log[l].row = "none"
               /\ log'[l] = [log[l] EXCEPT !.row = "live", !.since = 0]
               /\ \A m \in Logs : m # l => log'[m] = log[m]
               /\ log' \in [Logs -> LogType]
               /\ usage' = usage \cup {0}
               /\ past' \in [behind: SUBSET Launches, late: SUBSET Logs]
               /\ past'.behind = past.behind /\ past.late \subseteq past'.late
               /\ ~launch[LaunchOf[l]].row => l \in past'.late
               /\ run.pc # "idle" /\ log[l].age > Horizon(run.window) => l \in past'.late
<1> DEFINE l == upload[u].log
           x == [log[l] EXCEPT !.row = "live", !.since = 0]
           b == past.late \cup {l}
           c == ~launch[LaunchOf[l]].row \/ (run.pc # "idle" /\ log[l].age > Horizon(run.window))
<1>1. l \in Logs
  BY DEF Typed, UploadType
<1>2. UNCHANGED <<launch, deleted, settings, run, due, faults>>
  BY DEF Insert
<1>3. CASE log[l].row # "none"
  BY <1>1, <1>2, <1>3 DEF Insert
<1>4. CASE log[l].row = "none"
  <2>1. /\ log' = [log EXCEPT ![l].row = "live", ![l].since = 0]
        /\ usage' = usage \cup {0}
        /\ past' = IF c THEN [past EXCEPT !.late = b] ELSE past
    BY <1>4, Zenon DEF Insert
  <2>2. /\ log'[l] = x /\ \A m \in Logs : m # l => log'[m] = log[m]
        /\ log' \in [Logs -> LogType]
    <3>0. log[l] \in LogType /\ 0 \in Ages
      BY <1>1, Numbers DEF Typed
    <3>1. x \in LogType
      BY <3>0 DEF LogType
    <3>2. log' = [log EXCEPT ![l] = x]
      BY <2>1
    <3> HIDE DEF x
    <3> QED BY <1>1, <3>1, <3>2 DEF Typed
  <2>3. b \in SUBSET Logs /\ past.late \subseteq b /\ l \in b
    BY <1>1 DEF Typed
  <2> HIDE DEF b
  <2>4. /\ past' \in [behind: SUBSET Launches, late: SUBSET Logs]
        /\ past'.behind = past.behind /\ past.late \subseteq past'.late
        /\ c => l \in past'.late
    <3> HIDE DEF c, l
    <3> QED BY <2>1, <2>3 DEF Typed
  <2> QED BY <1>1, <1>2, <1>4, <2>1, <2>2, <2>4
<1> QED BY <1>3, <1>4

\* An upload that cannot record its launch says so.
LEMMA UpsertFailsIs ==
  ASSUME Typed, NEW u \in Uploads, UpsertFails(u)
  PROVE  /\ past' \in [behind: SUBSET Launches, late: SUBSET Logs]
         /\ past'.late = past.late /\ past.behind \subseteq past'.behind
         /\ LaunchOf[upload[u].log] \in past'.behind
         /\ faults' \in 0 .. MaxFaults
<1> DEFINE b == past.behind \cup {LaunchOf[upload[u].log]}
<1>1. b \in SUBSET Launches /\ past.behind \subseteq b /\ LaunchOf[upload[u].log] \in b
  BY RetentionAssumption DEF Typed, UploadType
<1>2. past' = [past EXCEPT !.behind = b]
  BY Zenon DEF UpsertFails
<1> HIDE DEF b
<1>3. faults' \in 0 .. MaxFaults
  BY Numbers DEF UpsertFails, Fault, Typed
<1> QED BY <1>1, <1>2, <1>3 DEF Typed

LEMMA BuildIs ==
  ASSUME Typed, NEW u \in Uploads, NEW l \in Logs, Build(u, l)
  PROVE  /\ upload' \in [Uploads -> UploadType] /\ upload[u].pc = "idle"
         /\ upload'[u].pc = "sent" /\ upload'[u].log = l /\ upload'[u].seen = 0
         /\ \A v \in Uploads : v # u => upload'[v] = upload[v]
         /\ log' \in [Logs -> LogType]
         /\ log'[l].written
         /\ log[l].written => log' = log
         /\ ~log[l].written => log'[l].row = "none"
         /\ \A m \in Logs : m # l => log'[m] = log[m]
<1>1. [pc |-> "sent", log |-> l, seen |-> 0] \in UploadType
  BY Numbers DEF UploadType
<1>2. [written |-> TRUE, row |-> "none", age |-> 0, since |-> 0] \in LogType
  BY Numbers DEF LogType
<1>3. CASE log[l].written
  BY <1>1, <1>3 DEF Build, Typed
<1>4. CASE ~log[l].written
  BY <1>1, <1>2, <1>4 DEF Build, Typed
<1> QED BY <1>3, <1>4

\* A day makes everything that has an age older.
LEMMA DayIs ==
  ASSUME Typed, Day
  PROVE  /\ log' \in [Logs -> LogType] /\ launch' \in [Launches -> LaunchType]
         /\ usage' \subseteq Ages /\ upload' \in [Uploads -> UploadType]
         /\ \A l \in Logs : /\ log'[l].written = log[l].written /\ log'[l].row = log[l].row
                            /\ log'[l].age = IF log[l].written THEN Older(log[l].age) ELSE log[l].age
         /\ \A s \in Launches : /\ launch'[s].row = launch[s].row
                                /\ launch[s].row => launch'[s].seen = Older(launch[s].seen)
         /\ \A u \in Uploads : /\ upload'[u].pc = upload[u].pc /\ upload'[u].log = upload[u].log
                               /\ upload[u].pc \notin {"idle", "done"} =>
                                    upload'[u].seen = Older(upload[u].seen)
<1>1. ASSUME NEW l \in Logs
      PROVE  /\ log'[l] \in LogType
             /\ log'[l].written = log[l].written /\ log'[l].row = log[l].row
             /\ log'[l].age = IF log[l].written THEN Older(log[l].age) ELSE log[l].age
  <2> DEFINE a == IF log[l].written THEN Older(log[l].age) ELSE log[l].age
             b == IF log[l].row = "soft" THEN Older(log[l].since) ELSE log[l].since
  <2>1. log'[l] = [log[l] EXCEPT !.age = a, !.since = b]
    BY DEF Day
  <2>2. log[l] \in LogType /\ a \in Ages /\ b \in Ages
    BY OlderIs DEF Typed, LogType
  <2> HIDE DEF a, b
  <2>3. log'[l] \in LogType /\ log'[l].written = log[l].written /\ log'[l].row = log[l].row
        /\ log'[l].age = a
    BY <2>1, <2>2 DEF LogType
  <2> QED BY <2>3 DEF a
<1>2. ASSUME NEW s \in Launches
      PROVE  /\ launch'[s] \in LaunchType /\ launch'[s].row = launch[s].row
             /\ launch[s].row => launch'[s].seen = Older(launch[s].seen)
  <2> DEFINE a == IF launch[s].row THEN Older(launch[s].seen) ELSE launch[s].seen
  <2>1. launch'[s] = [launch[s] EXCEPT !.seen = a]
    BY DEF Day
  <2>2. launch[s] \in LaunchType /\ a \in Ages
    BY OlderIs DEF Typed, LaunchType
  <2> HIDE DEF a
  <2>3. launch'[s] \in LaunchType /\ launch'[s].row = launch[s].row /\ launch'[s].seen = a
    BY <2>1, <2>2 DEF LaunchType
  <2> QED BY <2>3 DEF a
<1>3. ASSUME NEW u \in Uploads
      PROVE  /\ upload'[u] \in UploadType
             /\ upload'[u].pc = upload[u].pc /\ upload'[u].log = upload[u].log
             /\ upload[u].pc \notin {"idle", "done"} => upload'[u].seen = Older(upload[u].seen)
  <2> DEFINE a == IF upload[u].pc \in {"idle", "done"} THEN upload[u].seen ELSE Older(upload[u].seen)
  <2>1. upload'[u] = [upload[u] EXCEPT !.seen = a]
    BY DEF Day
  <2>2. upload[u] \in UploadType /\ a \in Ages
    BY OlderIs DEF Typed, UploadType
  <2> HIDE DEF a
  <2>3. upload'[u] \in UploadType /\ upload'[u].pc = upload[u].pc /\ upload'[u].log = upload[u].log
        /\ upload'[u].seen = a
    BY <2>1, <2>2 DEF UploadType
  <2> QED BY <2>3 DEF a
<1>4. log' \in [Logs -> LogType] /\ launch' \in [Launches -> LaunchType]
      /\ upload' \in [Uploads -> UploadType]
  <2>1. /\ log' = [l \in Logs |-> log'[l]] /\ launch' = [s \in Launches |-> launch'[s]]
        /\ upload' = [u \in Uploads |-> upload'[u]]
    BY DEF Day
  <2> QED BY <1>1, <1>2, <1>3, <2>1
<1>5. usage' \subseteq Ages
  BY OlderIs DEF Day, Typed
<1> QED BY <1>1, <1>2, <1>3, <1>4, <1>5

LEMMA CrashIs ==
  ASSUME Typed, Crash
  PROVE  /\ upload' \in [Uploads -> UploadType] /\ run' \in RunType /\ run'.pc = "idle"
         /\ settings' \in [window: Windows, loaded: BOOLEAN]
         /\ faults' \in 0 .. MaxFaults
         /\ \A u \in Uploads :
              /\ upload'[u].log = upload[u].log /\ upload'[u].seen = upload[u].seen
              /\ upload'[u].pc # "recorded"
              /\ upload'[u].pc \in {"sent", "checked", "recorded"}
                   => upload[u].pc \in {"sent", "checked", "recorded"}
<1>1. ASSUME NEW u \in Uploads
      PROVE  /\ upload'[u] \in UploadType
             /\ upload'[u].log = upload[u].log /\ upload'[u].seen = upload[u].seen
             /\ upload'[u].pc # "recorded"
             /\ upload'[u].pc \in {"sent", "checked", "recorded"}
                  => upload[u].pc \in {"sent", "checked", "recorded"}
  <2> DEFINE a == IF upload[u].pc \in {"checked", "recorded"} THEN "sent" ELSE upload[u].pc
  <2>1. upload'[u] = [upload[u] EXCEPT !.pc = a]
    BY DEF Crash
  <2>2. upload[u] \in UploadType
    BY DEF Typed
  <2> QED BY <2>1, <2>2 DEF UploadType
<1>2. upload' \in [Uploads -> UploadType]
  <2>1. upload' = [u \in Uploads |-> upload'[u]]
    BY DEF Crash
  <2> QED BY <1>1, <2>1
<1>3. run' \in RunType /\ run'.pc = "idle"
  BY AsleepType DEF Crash
<1>4. settings' \in [window: Windows, loaded: BOOLEAN] /\ faults' \in 0 .. MaxFaults
  BY Numbers DEF Crash, Fault, Typed
<1> QED BY <1>1, <1>2, <1>3, <1>4

\* The phases of the clean-up.
LEMMA CleanupTypes ==
  ASSUME Typed, Cleanup
  PROVE  /\ log' \in [Logs -> LogType] /\ launch' \in [Launches -> LaunchType]
         /\ usage' \subseteq Ages /\ run' \in RunType
         /\ UNCHANGED <<deleted, upload, settings, due, faults, past>>
         /\ run'.pc # "idle" => run'.window = run.window
         /\ run.pc # "idle"
         /\ PurgeOrphanedLogs => run'.pc \in {"orphaned logs", "soft delete"}
         /\ SoftDeleteBefore => run'.pc = "purge"
         /\ PurgeSoftDeleted => run'.pc = "usage"
         /\ PurgeUsageBefore => run'.pc = "orphaned sessions"
         /\ PurgeOrphanedSessions => run'.pc \in {"orphaned sessions", "sessions"}
         /\ PurgeSessionsBefore => run'.pc = "idle"
<1>0. run \in RunType /\ Phases = {"idle", "orphaned logs", "soft delete", "purge", "usage",
                                   "orphaned sessions", "sessions"}
  BY DEF Typed, Phases
<1>1. ASSUME PurgeOrphanedLogs
      PROVE  /\ run' \in RunType /\ run'.pc \in {"orphaned logs", "soft delete"}
             /\ run'.window = run.window /\ log' \in [Logs -> LogType] /\ run.pc = "orphaned logs"
  <2>1. PICK gone \in SUBSET OrphanLogs :
          /\ log' = [l \in Logs |-> IF l \in gone THEN [log[l] EXCEPT !.row = "none"] ELSE log[l]]
          /\ IF Again(gone) THEN run' = [run EXCEPT !.batches = @ + 1] ELSE Goto("soft delete")
    BY <1>1 DEF PurgeOrphanedLogs
  <2>2. log' \in [Logs -> LogType]
    <3>1. log \in [Logs -> LogType]
      BY DEF Typed
    <3>2. \A l \in Logs : [log[l] EXCEPT !.row = "none"] \in LogType
      BY <3>1 DEF LogType
    <3> QED BY <2>1, <3>1, <3>2
  <2>3. run.pc = "orphaned logs"
    BY <1>1 DEF PurgeOrphanedLogs
  <2>4. CASE Again(gone)
    BY <1>0, <2>1, <2>2, <2>3, <2>4, BatchesOn
  <2>5. CASE ~Again(gone)
    BY <1>0, <2>1, <2>2, <2>3, <2>5, GotoIs
  <2> QED BY <2>4, <2>5
<1>2. ASSUME SoftDeleteBefore
      PROVE  /\ run' \in RunType /\ run'.pc = "purge" /\ run'.window = run.window
             /\ log' \in [Logs -> LogType] /\ run.pc = "soft delete"
  <2>1. log' \in [Logs -> LogType]
    BY <1>2, Numbers DEF SoftDeleteBefore, Typed, LogType
  <2> QED BY <1>0, <1>2, <2>1, GotoIs DEF SoftDeleteBefore
<1>3. ASSUME PurgeSoftDeleted
      PROVE  /\ run' \in RunType /\ run'.pc = "usage" /\ run'.window = run.window
             /\ log' \in [Logs -> LogType] /\ run.pc = "purge"
  <2>1. log' \in [Logs -> LogType]
    BY <1>3 DEF PurgeSoftDeleted, Typed, LogType
  <2> QED BY <1>0, <1>3, <2>1, GotoIs DEF PurgeSoftDeleted
<1>4. ASSUME PurgeUsageBefore
      PROVE  /\ run' \in RunType /\ run'.pc = "orphaned sessions" /\ run'.window = run.window
             /\ usage' \subseteq Ages /\ run.pc = "usage"
  BY <1>0, <1>4, GotoIs DEF PurgeUsageBefore, Typed
<1>5. ASSUME PurgeOrphanedSessions
      PROVE  /\ run' \in RunType /\ run'.pc \in {"orphaned sessions", "sessions"}
             /\ run'.window = run.window /\ launch' \in [Launches -> LaunchType]
             /\ run.pc = "orphaned sessions"
  <2>1. PICK gone \in SUBSET OrphanLaunches :
          /\ launch' = [s \in Launches |-> IF s \in gone THEN [row |-> FALSE, seen |-> 0] ELSE launch[s]]
          /\ IF Again(gone) THEN run' = [run EXCEPT !.batches = @ + 1] ELSE Goto("sessions")
    BY <1>5 DEF PurgeOrphanedSessions
  <2>2. launch' \in [Launches -> LaunchType]
    BY <2>1, Numbers DEF Typed, LaunchType
  <2>3. run.pc = "orphaned sessions"
    BY <1>5 DEF PurgeOrphanedSessions
  <2>4. CASE Again(gone)
    BY <1>0, <2>1, <2>2, <2>3, <2>4, BatchesOn
  <2>5. CASE ~Again(gone)
    BY <1>0, <2>1, <2>2, <2>3, <2>5, GotoIs
  <2> QED BY <2>4, <2>5
<1>6. ASSUME PurgeSessionsBefore
      PROVE  /\ run' \in RunType /\ run'.pc = "idle" /\ launch' \in [Launches -> LaunchType]
             /\ run.pc = "sessions"
  <2>1. launch' \in [Launches -> LaunchType]
    BY <1>6, Numbers DEF PurgeSessionsBefore, Typed, LaunchType
  <2> QED BY <1>0, <1>6, <2>1, GotoIs DEF PurgeSessionsBefore
<1>7. /\ UNCHANGED <<deleted, upload, settings, due, faults, past>>
      /\ PurgeOrphanedLogs \/ SoftDeleteBefore \/ PurgeSoftDeleted => UNCHANGED <<launch, usage>>
      /\ PurgeOrphanedSessions \/ PurgeSessionsBefore => UNCHANGED <<log, usage>>
      /\ PurgeUsageBefore => UNCHANGED <<log, launch>>
  BY DEF Cleanup, PurgeOrphanedLogs, SoftDeleteBefore, PurgeSoftDeleted, PurgeUsageBefore,
         PurgeOrphanedSessions, PurgeSessionsBefore
<1>8. /\ log' \in [Logs -> LogType] /\ launch' \in [Launches -> LaunchType]
      /\ usage' \subseteq Ages /\ run' \in RunType
      /\ run'.pc # "idle" => run'.window = run.window
      /\ run.pc # "idle"
  BY <1>1, <1>2, <1>3, <1>4, <1>5, <1>6, <1>7 DEF Cleanup, Typed
<1> QED BY <1>1, <1>2, <1>3, <1>4, <1>5, <1>6, <1>7, <1>8

LEMMA TypeStep == TypeOK /\ [Next]_vars => TypeOK'
<1> SUFFICES ASSUME Typed, [Next]_vars PROVE Typed'
  BY TypedIs
<1>1. CASE UNCHANGED vars
  BY <1>1 DEF vars, Typed
<1>2. ASSUME NEW u \in Uploads, NEW l \in Logs, Build(u, l) PROVE Typed'
  <2>1. upload' \in [Uploads -> UploadType] /\ log' \in [Logs -> LogType]
    BY <1>2, BuildIs
  <2> QED BY <1>2, <2>1 DEF Build, Typed
<1>3. ASSUME NEW u \in Uploads, Serve(u) \/ UpsertFails(u) PROVE Typed'
  <2>1. upload' \in [Uploads -> UploadType]
    BY <1>3, UploadSteps
  <2>2. CASE Authenticate(u)
    BY <2>1, <2>2 DEF Authenticate, Typed
  <2>3. CASE Upsert(u)
    <3>1. launch' \in [Launches -> LaunchType] /\ past' \in [behind: SUBSET Launches, late: SUBSET Logs]
      BY <2>3, UpsertIs
    <3> QED BY <2>1, <2>3, <3>1 DEF Upsert, Typed
  <2>4. CASE Insert(u)
    <3>1. UNCHANGED <<launch, deleted, settings, run, due, faults>>
      BY <2>4 DEF Insert
    <3>2. log' \in [Logs -> LogType] /\ usage' \subseteq Ages
          /\ past' \in [behind: SUBSET Launches, late: SUBSET Logs]
      BY <2>4, InsertIs, Numbers DEF Typed
    <3> QED BY <2>1, <3>1, <3>2 DEF Typed
  <2>5. CASE UpsertFails(u)
    <3>1. faults' \in 0 .. MaxFaults /\ past' \in [behind: SUBSET Launches, late: SUBSET Logs]
      BY <2>5, UpsertFailsIs
    <3> QED BY <2>1, <2>5, <3>1 DEF UpsertFails, Typed
  <2> QED BY <1>3, <2>2, <2>3, <2>4, <2>5 DEF Serve
<1>4. ASSUME NEW p \in Projects, DeleteProject(p) PROVE Typed'
  BY <1>4 DEF DeleteProject, Typed
<1>5. ASSUME NEW w \in Windows, ChangeWindows(w) PROVE Typed'
  BY <1>5 DEF ChangeWindows, Typed
<1>6. CASE Day
  <2>1. /\ log' \in [Logs -> LogType] /\ launch' \in [Launches -> LaunchType]
        /\ usage' \subseteq Ages /\ upload' \in [Uploads -> UploadType]
    BY <1>6, DayIs
  <2> QED BY <1>6, <2>1 DEF Day, Typed
<1>7. CASE Crash
  <2>1. /\ upload' \in [Uploads -> UploadType] /\ run' \in RunType
        /\ settings' \in [window: Windows, loaded: BOOLEAN]
        /\ faults' \in 0 .. MaxFaults
    BY <1>7, CrashIs
  <2> QED BY <1>7, <2>1 DEF Crash, Typed
<1>8. CASE Start
  <2>1. [pc |-> "orphaned logs", window |-> settings.window, batches |-> 0] \in RunType
    BY Numbers DEF RunType, Phases, Typed
  <2> QED BY <1>8, <2>1 DEF Start, Typed
<1>9. CASE Cleanup
  <2>1. /\ log' \in [Logs -> LogType] /\ launch' \in [Launches -> LaunchType]
        /\ usage' \subseteq Ages /\ run' \in RunType
        /\ UNCHANGED <<deleted, upload, settings, due, faults, past>>
    BY <1>9, CleanupTypes
  <2> QED BY <2>1 DEF Typed
<1>10. CASE StatementFails
  <2>1. AfterFailure \in Phases
    BY DEF AfterFailure, Phases
  <2>2. run' \in RunType
    BY <1>10, <2>1, GotoIs DEF StatementFails, Typed
  <2>3. faults' \in 0 .. MaxFaults
    BY <1>10, Numbers DEF StatementFails, Fault, Typed
  <2> QED BY <1>10, <2>2, <2>3 DEF StatementFails, Typed
<1> QED BY <1>1, <1>2, <1>3, <1>4, <1>5, <1>6, <1>7, <1>8, <1>9, <1>10 DEF Next

\* Every value stays of its kind.
THEOREM RetentionTypes == Spec => []TypeOK
<1>1. Init => TypeOK
  BY TypeInit
<1>2. TypeOK /\ [Next]_vars => TypeOK'
  BY TypeStep
<1> QED BY <1>1, <1>2, PTL DEF Spec

----------------------------------------------------------------------------
(* The inductive invariant.                                                *)

\* A payload that will be stored, if nothing goes wrong.
Underway(u) == upload[u].pc \in {"sent", "checked", "recorded"}
Launched(u) == LaunchOf[upload[u].log]

\* A log whose launch must be there, unless the launch itself fell behind.
Shown(l) == Visible(l) /\ l \notin past.late

\* Only what the app has written is sent, and only what was sent has a row.
Written ==
  /\ \A l \in Logs : log[l].row # "none" => log[l].written
  /\ \A u \in Uploads : Underway(u) => log[upload[u].log].written

\* A payload was built after the logs in it.
Dated == \A u \in Uploads : Underway(u) => upload[u].seen <= log[upload[u].log].age

\* Between Upsert and Insert nobody writes an older launch unnoticed.
Recorded ==
  \A u \in Uploads : upload[u].pc = "recorded" /\ Launched(u) \notin past.behind =>
    (launch[Launched(u)].row => launch[Launched(u)].seen <= upload[u].seen)

\* A launch is as young as its logs.
Whole ==
  \A l \in Logs : Shown(l) /\ LaunchOf[l] \notin past.behind =>
    launch[LaunchOf[l]].row /\ launch[LaunchOf[l]].seen <= log[l].age

\* A run has read the settings, and they allowed it.
InRun == run.pc # "idle" => settings.loaded /\ ValidWindow(run.window)

\* Once the old logs are out of sight, every log that is not is within the horizon
\* of the sessions: their purge takes no launch of it.
AfterSoftDelete == {"purge", "usage", "orphaned sessions", "sessions"}
Spared ==
  run.pc \in AfterSoftDelete => \A l \in Logs : Shown(l) => log[l].age <= Horizon(run.window)

\* The day's counter is there, and the purge that is coming leaves it.
Counted ==
  \A l \in Logs : Visible(l) =>
    \E a \in usage : a <= log[l].age /\ (run.pc \in {"purge", "usage"} => a <= UsageCutoff)

Kept == Written /\ Dated /\ Recorded /\ Whole /\ InRun /\ Spared /\ Counted
IInv == Kept /\ NothingYoungDeleted

LEMMA KeptInit == Init => IInv
<1> SUFFICES ASSUME Init PROVE IInv
  OBVIOUS
<1>1. \A l \in Logs : log[l].row = "none"
  BY DEF Init
<1>2. \A u \in Uploads : upload[u].pc = "idle"
  BY UnusedType, RetentionAssumption DEF Init
<1>3. run.pc = "idle"
  BY AsleepType DEF Init
<1>4. Written /\ Dated /\ Recorded
  BY <1>1, <1>2 DEF Written, Dated, Recorded, Underway
<1>5. Whole /\ Counted /\ NothingYoungDeleted
  BY <1>1 DEF Whole, Counted, Shown, Visible, NothingYoungDeleted
<1>6. InRun /\ Spared
  BY <1>3 DEF InRun, Spared, AfterSoftDelete
<1> QED BY <1>4, <1>5, <1>6 DEF IInv, Kept

\* The app writes a log and a payload is built.
LEMMA BuildKeeps ==
  ASSUME Typed, IInv, NEW u \in Uploads, NEW l \in Logs, Build(u, l)
  PROVE  IInv'
<1> USE DEF IInv, Kept
<1>1. UNCHANGED <<launch, usage, deleted, settings, run, due, faults, past>>
  BY DEF Build
<1>2. \A m \in Logs : /\ log'[m].row = log[m].row
                      /\ log[m].written => log'[m] = log[m]
                      /\ log[m].row # "none" => log'[m] = log[m]
  BY BuildIs DEF Written
<1>3. \A v \in Uploads : v # u => upload'[v] = upload[v]
  BY BuildIs
<1>4. /\ upload'[u].pc = "sent" /\ upload'[u].log = l /\ upload'[u].seen = 0
      /\ log'[l].written /\ log'[l] \in LogType
  BY BuildIs
<1>5. Written'
  <2>1. \A m \in Logs : log'[m].row # "none" => log'[m].written
    BY <1>2 DEF Written
  <2>2. ASSUME NEW v \in Uploads, Underway(v)' PROVE log'[upload'[v].log].written
    <3>1. CASE v = u
      BY <1>4, <3>1
    <3>2. CASE v # u
      BY <1>2, <1>3, <2>2, <3>2 DEF Written, Underway, Typed, UploadType
    <3> QED BY <3>1, <3>2
  <2> QED BY <2>1, <2>2 DEF Written
<1>6. Dated'
  <2> SUFFICES ASSUME NEW v \in Uploads, Underway(v)'
               PROVE  upload'[v].seen <= log'[upload'[v].log].age
    BY DEF Dated
  <2>1. CASE v = u
    BY <1>4, <2>1, Numbers DEF LogType, Ages
  <2>2. CASE v # u
    BY <1>2, <1>3, <2>2 DEF Dated, Written, Underway, Typed, UploadType
  <2> QED BY <2>1, <2>2
<1>7. Recorded'
  BY <1>1, <1>3, <1>4 DEF Recorded, Launched
<1>8. \A m \in Logs : Visible(m)' => Visible(m) /\ log'[m] = log[m]
  BY <1>1, <1>2 DEF Visible, Orphan
<1>9. Whole' /\ Counted' /\ Spared'
  BY <1>1, <1>8 DEF Whole, Counted, Spared, Shown, UsageCutoff
<1>10. NothingYoungDeleted' /\ InRun'
  BY <1>1, <1>2 DEF NothingYoungDeleted, InRun
<1> QED BY <1>5, <1>6, <1>7, <1>9, <1>10

\* A payload moves on, and stores nothing yet.
LEMMA AuthenticateKeeps ==
  ASSUME Typed, IInv, NEW u \in Uploads, Authenticate(u)
  PROVE  IInv'
<1> USE DEF IInv, Kept
<1>1. UNCHANGED <<log, launch, usage, deleted, settings, run, due, faults, past>>
  BY DEF Authenticate
<1>2. \A v \in Uploads : /\ upload'[v].log = upload[v].log /\ upload'[v].seen = upload[v].seen
                         /\ Underway(v)' => Underway(v)
                         /\ upload'[v].pc = "recorded" => upload[v].pc = "recorded"
  BY DEF Authenticate, Underway, Typed, UploadType
<1>3. Written' /\ Dated' /\ Recorded'
  BY <1>1, <1>2 DEF Written, Dated, Recorded, Launched
<1>4. Whole' /\ Counted' /\ Spared' /\ InRun' /\ NothingYoungDeleted'
  BY <1>1 DEF Whole, Counted, Spared, InRun, NothingYoungDeleted, Shown, Visible, Orphan, UsageCutoff
<1> QED BY <1>3, <1>4

LEMMA UpsertKeeps ==
  ASSUME Typed, IInv, NEW u \in Uploads, Upsert(u)
  PROVE  IInv'
<1> USE DEF IInv, Kept
<1> DEFINE s == LaunchOf[upload[u].log]
<1>1. UNCHANGED <<log, usage, deleted, settings, run, due, faults>>
  BY DEF Upsert
<1>2. /\ s \in Launches
      /\ launch'[s].row /\ launch'[s].seen = upload[u].seen
      /\ \A t \in Launches : t # s => launch'[t] = launch[t]
      /\ past'.late = past.late /\ past.behind \subseteq past'.behind
      /\ FallsBehind(s, upload[u].seen) => s \in past'.behind
  <2>1. /\ s \in Launches
        /\ launch'[s] = [row |-> TRUE, seen |-> upload[u].seen]
        /\ \A t \in Launches : t # s => launch'[t] = launch[t]
        /\ past'.late = past.late /\ past.behind \subseteq past'.behind
        /\ FallsBehind(s, upload[u].seen) => s \in past'.behind
    BY UpsertIs, Zenon
  <2> QED BY <2>1
<1>3. \A v \in Uploads : /\ upload'[v].log = upload[v].log /\ upload'[v].seen = upload[v].seen
                         /\ Underway(v)' => Underway(v)
                         /\ v # u /\ upload'[v].pc = "recorded" => upload[v].pc = "recorded"
  BY UploadSteps DEF Serve, Underway, Upsert, Insert
<1>4. \A v \in Uploads : upload[v].seen \in Nat /\ LaunchOf[upload[v].log] \in Launches
  BY RetentionAssumption DEF Typed, UploadType, Ages
<1>5. Written' /\ Dated'
  BY <1>1, <1>3 DEF Written, Dated
<1>6. Recorded'
  <2> SUFFICES ASSUME NEW v \in Uploads, upload'[v].pc = "recorded", Launched(v)' \notin past'.behind,
                      launch'[Launched(v)'].row
               PROVE  launch'[Launched(v)'].seen <= upload'[v].seen
    BY DEF Recorded
  <2>1. Launched(v)' = Launched(v) /\ Launched(v) \in Launches
    BY <1>3, <1>4 DEF Launched
  <2>2. CASE v = u
    BY <1>2, <1>3, <1>4, <2>1, <2>2 DEF Launched
  <2>3. CASE v # u /\ LaunchOf[upload[v].log] = s
    <3>1. ~FallsBehind(s, upload[u].seen) /\ upload[v].pc = "recorded"
      BY <1>2, <1>3, <2>1, <2>3 DEF Launched
    <3>2. ~(upload[v].seen < upload[u].seen)
      BY <2>3, <3>1 DEF FallsBehind, Launched
    <3> QED BY <1>2, <1>3, <1>4, <2>1, <2>3, <3>2 DEF Launched
  <2>4. CASE v # u /\ LaunchOf[upload[v].log] # s
    BY <1>2, <1>3, <2>1, <2>4 DEF Recorded, Launched
  <2> QED BY <2>2, <2>3, <2>4
<1>7. Whole'
  <2> SUFFICES ASSUME NEW l \in Logs, Shown(l)', LaunchOf[l] \notin past'.behind
               PROVE  launch'[LaunchOf[l]].row /\ launch'[LaunchOf[l]].seen <= log'[l].age
    BY DEF Whole
  <2>1. Shown(l) /\ LaunchOf[l] \notin past.behind /\ LaunchOf[l] \in Launches
    BY <1>1, <1>2, RetentionAssumption DEF Shown, Visible, Orphan
  <2>2. launch[LaunchOf[l]].row /\ launch[LaunchOf[l]].seen <= log[l].age
    BY <2>1 DEF Whole
  <2>3. CASE LaunchOf[l] = s
    <3>1. ~(launch[s].seen < upload[u].seen)
      BY <1>2, <2>2, <2>3 DEF FallsBehind
    <3>2. launch[s].seen \in Nat /\ log[l].age \in Nat
      BY <1>2 DEF Typed, LaunchType, LogType, Ages
    <3> QED BY <1>1, <1>2, <1>4, <2>2, <2>3, <3>1, <3>2
  <2>4. CASE LaunchOf[l] # s
    BY <1>1, <1>2, <2>1, <2>2, <2>4
  <2> QED BY <2>3, <2>4
<1>8. Counted' /\ Spared' /\ InRun' /\ NothingYoungDeleted'
  BY <1>1, <1>2 DEF Counted, Spared, InRun, NothingYoungDeleted, Shown, Visible, Orphan, UsageCutoff
<1> QED BY <1>5, <1>6, <1>7, <1>8

LEMMA UpsertFailsKeeps ==
  ASSUME Typed, IInv, NEW u \in Uploads, UpsertFails(u)
  PROVE  IInv'
<1> USE DEF IInv, Kept
<1>1. UNCHANGED <<log, launch, usage, deleted, settings, run, due>>
  BY DEF UpsertFails
<1>2. /\ past'.late = past.late /\ past.behind \subseteq past'.behind
      /\ Launched(u) \in past'.behind
  BY UpsertFailsIs DEF Launched
<1>3. \A v \in Uploads : /\ upload'[v].log = upload[v].log /\ upload'[v].seen = upload[v].seen
                         /\ Underway(v)' => Underway(v)
                         /\ v # u /\ upload'[v].pc = "recorded" => upload[v].pc = "recorded"
  BY UploadSteps DEF Underway, UpsertFails, Insert
<1>4. Written' /\ Dated' /\ Recorded'
  BY <1>1, <1>2, <1>3 DEF Written, Dated, Recorded, Launched
<1>5. Whole'
  BY <1>1, <1>2 DEF Whole, Shown, Visible, Orphan
<1>6. Counted' /\ Spared' /\ InRun' /\ NothingYoungDeleted'
  BY <1>1, <1>2 DEF Counted, Spared, InRun, NothingYoungDeleted, Shown, Visible, Orphan, UsageCutoff
<1> QED BY <1>4, <1>5, <1>6

----------------------------------------------------------------------------
LEMMA InsertKeeps ==
  ASSUME Typed, IInv, NEW u \in Uploads, Insert(u)
  PROVE  IInv'
<1> USE DEF IInv, Kept
<1> DEFINE l == upload[u].log
<1>1. l \in Logs /\ UNCHANGED <<launch, deleted, settings, run, due, faults>>
  BY InsertIs, Zenon
<1>2. \A v \in Uploads :
        /\ Underway(v)' => v # u
        /\ v # u => upload'[v] = upload[v]
  BY UploadSteps DEF Serve, Underway
<1>3. upload[u].pc = "recorded" /\ upload[u].log = l
  BY DEF Insert
<1>4. CASE UNCHANGED <<log, usage, past>>
  <2>1. Written' /\ Dated' /\ Recorded'
    BY <1>1, <1>2, <1>4 DEF Written, Dated, Recorded, Launched, Underway
  <2>2. Whole' /\ Counted' /\ Spared' /\ InRun' /\ NothingYoungDeleted'
    BY <1>1, <1>4 DEF Whole, Counted, Spared, InRun, NothingYoungDeleted, Shown, Visible, Orphan, UsageCutoff
  <2> QED BY <2>1, <2>2
<1>5. CASE log[l].row = "none" /\ ~UNCHANGED <<log, usage, past>>
  <2>1. /\ log'[l] = [log[l] EXCEPT !.row = "live", !.since = 0]
        /\ \A m \in Logs : m # l => log'[m] = log[m]
        /\ usage' = usage \cup {0}
        /\ past'.behind = past.behind /\ past.late \subseteq past'.late
        /\ ~launch[LaunchOf[l]].row => l \in past'.late
        /\ run.pc # "idle" /\ log[l].age > Horizon(run.window) => l \in past'.late
    BY <1>5, InsertIs, Zenon
  <2>2. log'[l].row = "live" /\ log'[l].written = log[l].written /\ log'[l].age = log[l].age
    BY <1>1, <2>1 DEF Typed, LogType
  <2>3. \A m \in Logs : log'[m].written = log[m].written /\ log'[m].age = log[m].age
    BY <2>1, <2>2
  <2>4. log[l].written /\ upload[u].seen <= log[l].age
    BY <1>3 DEF Written, Dated, Underway
  <2>5. \A m \in Logs : log[m].age \in Nat
    BY DEF Typed, LogType, Ages
  <2> HIDE DEF l
  <2>6. Written'
    <3>1. \A m \in Logs : log'[m].row # "none" => log'[m].written
      BY <2>1, <2>3, <2>4 DEF Written
    <3>2. ASSUME NEW v \in Uploads, Underway(v)' PROVE log'[upload'[v].log].written
      BY <1>2, <2>3, <3>2 DEF Written, Underway, Typed, UploadType
    <3> QED BY <3>1, <3>2 DEF Written
  <2>7. Dated'
    <3> SUFFICES ASSUME NEW v \in Uploads, Underway(v)'
                 PROVE  upload'[v].seen <= log'[upload'[v].log].age
      BY DEF Dated
    <3> QED BY <1>2, <2>3 DEF Dated, Underway, Typed, UploadType
  <2>8. Recorded'
    BY <1>1, <1>2, <2>1 DEF Recorded, Launched, Underway
  <2>9. \A m \in Logs : /\ m # l /\ Visible(m)' => Visible(m)
                        /\ m # l /\ Shown(m)' => Shown(m)
    BY <1>1, <2>1 DEF Visible, Orphan, Shown
  <2>10. Whole'
    <3> SUFFICES ASSUME NEW m \in Logs, Shown(m)', LaunchOf[m] \notin past'.behind
                 PROVE  launch'[LaunchOf[m]].row /\ launch'[LaunchOf[m]].seen <= log'[m].age
      BY DEF Whole
    <3>1. CASE m # l
      BY <1>1, <2>1, <2>3, <2>9, <3>1 DEF Whole
    <3>2. CASE m = l
      <4>1. launch[LaunchOf[l]].row
        BY <2>1, <3>2 DEF Shown
      <4>2. launch[LaunchOf[l]].seen <= upload[u].seen
        BY <1>3, <2>1, <3>2, <4>1 DEF Recorded, Launched
      <4>3. launch[LaunchOf[l]].seen \in Nat /\ upload[u].seen \in Nat
        BY <1>1, RetentionAssumption DEF Typed, LaunchType, UploadType, Ages
      <4> QED BY <1>1, <2>3, <2>4, <2>5, <3>2, <4>1, <4>2, <4>3
    <3> QED BY <3>1, <3>2
  <2>11. Spared'
    <3> SUFFICES ASSUME run'.pc \in AfterSoftDelete, NEW m \in Logs, Shown(m)'
                 PROVE  log'[m].age <= Horizon(run'.window)
      BY DEF Spared
    <3>1. CASE m # l
      BY <1>1, <2>3, <2>9, <3>1 DEF Spared
    <3>2. CASE m = l
      <4>1. ~(log[l].age > Horizon(run.window))
        BY <1>1, <2>1, <3>2 DEF Shown, AfterSoftDelete
      <4>2. Horizon(run.window) \in Nat /\ log[l].age \in Nat
        BY <1>1, <2>5, Numbers DEF Typed, RunType
      <4> QED BY <1>1, <2>3, <3>2, <4>1, <4>2
    <3> QED BY <3>1, <3>2
  <2>12. Counted'
    <3> SUFFICES ASSUME NEW m \in Logs, Visible(m)'
                 PROVE  \E a \in usage' : /\ a <= log'[m].age
                                          /\ run'.pc \in {"purge", "usage"} => a <= UsageCutoff'
      BY DEF Counted
    <3>1. UsageCutoff' = UsageCutoff /\ UsageCutoff \in Nat
      BY <1>1, Numbers DEF UsageCutoff, Typed, RunType
    <3>2. 0 <= log'[m].age /\ 0 <= UsageCutoff'
      BY <2>3, <2>5, <3>1
    <3>3. 0 \in usage'
      BY <2>1
    <3> QED BY <3>2, <3>3
  <2>13. InRun' /\ NothingYoungDeleted'
    BY <1>1, <2>1, <2>2 DEF InRun, NothingYoungDeleted
  <2> QED BY <2>6, <2>7, <2>8, <2>10, <2>11, <2>12, <2>13
<1>6. log[l].row = "none" \/ UNCHANGED <<log, usage, past>>
  BY InsertIs, Zenon
<1> QED BY <1>4, <1>5, <1>6

LEMMA DayKeeps ==
  ASSUME Typed, IInv, Day
  PROVE  IInv'
<1> USE DEF IInv, Kept
<1>1. /\ run.pc = "idle" /\ UNCHANGED <<deleted, settings, run, faults, past>>
      /\ usage' = {Older(a) : a \in usage}
  BY DEF Day
<1>2. \A l \in Logs : /\ log'[l].written = log[l].written /\ log'[l].row = log[l].row
                      /\ log[l].written => log'[l].age = Older(log[l].age)
  BY DayIs
<1>3. \A s \in Launches : /\ launch'[s].row = launch[s].row
                          /\ launch[s].row => launch'[s].seen = Older(launch[s].seen)
  BY DayIs
<1>4. \A u \in Uploads : /\ upload'[u].pc = upload[u].pc /\ upload'[u].log = upload[u].log
                         /\ Underway(u) => upload'[u].seen = Older(upload[u].seen)
  BY DayIs DEF Underway
<1>5. /\ \A l \in Logs : log[l].age \in Ages /\ LaunchOf[l] \in Launches
      /\ \A s \in Launches : launch[s].seen \in Ages
      /\ \A u \in Uploads : upload[u].seen \in Ages /\ upload[u].log \in Logs
      /\ usage \subseteq Ages
  BY RetentionAssumption DEF Typed, LogType, LaunchType, UploadType
<1>6. Written'
  BY <1>2, <1>4, <1>5 DEF Written, Underway
<1>7. Dated'
  <2> SUFFICES ASSUME NEW v \in Uploads, Underway(v)'
               PROVE  upload'[v].seen <= log'[upload'[v].log].age
    BY DEF Dated
  <2>1. Underway(v)
    BY <1>4 DEF Underway
  <2> QED BY <1>2, <1>4, <1>5, <2>1, OlderIs DEF Dated, Written
<1>8. Recorded'
  <2> SUFFICES ASSUME NEW v \in Uploads, upload'[v].pc = "recorded", Launched(v)' \notin past'.behind,
                      launch'[Launched(v)'].row
               PROVE  launch'[Launched(v)'].seen <= upload'[v].seen
    BY DEF Recorded
  <2>1. Launched(v)' = Launched(v) /\ Launched(v) \in Launches /\ Underway(v) /\ upload[v].pc = "recorded"
    BY <1>4, <1>5 DEF Launched, Underway
  <2>2. launch[Launched(v)].row /\ launch[Launched(v)].seen <= upload[v].seen
    BY <1>1, <1>3, <2>1 DEF Recorded
  <2>3. launch'[Launched(v)].seen = Older(launch[Launched(v)].seen) /\ upload'[v].seen = Older(upload[v].seen)
    BY <1>3, <1>4, <2>1, <2>2
  <2>4. launch[Launched(v)].seen \in Ages /\ upload[v].seen \in Ages
    BY <1>5, <2>1
  <2> QED BY <2>1, <2>2, <2>3, <2>4, OlderIs
<1>9. \A l \in Logs : /\ Visible(l)' => Visible(l) /\ log[l].written
                      /\ Shown(l)' => Shown(l)
  BY <1>1, <1>2 DEF Visible, Orphan, Shown, Written
<1>10. Whole'
  <2> SUFFICES ASSUME NEW l \in Logs, Shown(l)', LaunchOf[l] \notin past'.behind
               PROVE  launch'[LaunchOf[l]].row /\ launch'[LaunchOf[l]].seen <= log'[l].age
    BY DEF Whole
  <2>1. log[l].written /\ Shown(l)
    BY <1>9 DEF Shown
  <2>2. launch[LaunchOf[l]].row /\ launch[LaunchOf[l]].seen <= log[l].age
    BY <1>1, <2>1 DEF Whole
  <2>3. launch'[LaunchOf[l]].seen = Older(launch[LaunchOf[l]].seen) /\ log'[l].age = Older(log[l].age)
    BY <1>2, <1>3, <1>5, <2>1, <2>2
  <2>4. launch[LaunchOf[l]].seen \in Ages /\ log[l].age \in Ages
    BY <1>5
  <2> QED BY <1>3, <1>5, <2>2, <2>3, <2>4, OlderIs
<1>11. Counted'
  <2> SUFFICES ASSUME NEW l \in Logs, Visible(l)'
               PROVE  \E a \in usage' : a <= log'[l].age
    BY <1>1 DEF Counted
  <2>1. PICK a \in usage : a <= log[l].age
    BY <1>9 DEF Counted
  <2>2. Older(a) \in usage' /\ log'[l].age = Older(log[l].age)
    BY <1>1, <1>2, <1>9
  <2>3. Older(a) <= Older(log[l].age)
    BY <1>5, <2>1, OlderIs
  <2> QED BY <2>2, <2>3
<1>12. Spared' /\ InRun'
  BY <1>1 DEF Spared, InRun, AfterSoftDelete
<1>13. NothingYoungDeleted'
  <2> SUFFICES ASSUME NEW l \in Logs, log'[l].row = "soft" PROVE log'[l].age > MinRetentionDays
    BY DEF NothingYoungDeleted
  <2>1. log[l].row = "soft" /\ log[l].written
    BY <1>2 DEF Written
  <2>2. log[l].age > 1 /\ log'[l].age = Older(log[l].age)
    BY <1>2, <2>1 DEF NothingYoungDeleted, MinRetentionDays
  <2>3. log[l].age <= Older(log[l].age) /\ log[l].age \in Nat /\ Older(log[l].age) \in Nat
    BY <1>5, OlderIs DEF Ages
  <2> QED BY <2>2, <2>3 DEF MinRetentionDays
<1> QED BY <1>6, <1>7, <1>8, <1>10, <1>11, <1>12, <1>13

\* The steps that touch neither a row nor a payload: a project is deleted, the
\* windows change, a run begins or gives up, the process dies.
LEMMA AroundKeeps ==
  ASSUME Typed, IInv, UNCHANGED <<log, launch, usage, past>>,
         deleted \subseteq deleted',
         \A v \in Uploads :
           /\ upload'[v].log = upload[v].log /\ upload'[v].seen = upload[v].seen
           /\ Underway(v)' => Underway(v)
           /\ upload'[v].pc = "recorded" => upload[v].pc = "recorded"
  PROVE  /\ Written' /\ Dated' /\ Recorded' /\ Whole' /\ NothingYoungDeleted'
         /\ \A l \in Logs : (Visible(l)' => Visible(l)) /\ (Shown(l)' => Shown(l))
<1> USE DEF IInv, Kept
<1>1. Written' /\ Dated' /\ Recorded'
  BY DEF Written, Dated, Recorded, Launched
<1>2. \A l \in Logs : (Visible(l)' => Visible(l)) /\ (Shown(l)' => Shown(l))
  BY DEF Visible, Orphan, Shown
<1>3. Whole' /\ NothingYoungDeleted'
  BY <1>2 DEF Whole, NothingYoungDeleted
<1> QED BY <1>1, <1>2, <1>3

----------------------------------------------------------------------------
LEMMA AroundSteps ==
  ASSUME Typed, IInv,
         \/ \E p \in Projects : DeleteProject(p)
         \/ \E w \in Windows : ChangeWindows(w)
         \/ Crash \/ Start \/ StatementFails
  PROVE  IInv'
<1> USE DEF IInv, Kept
<1>1. UNCHANGED <<log, launch, usage, past>> /\ deleted \subseteq deleted'
  BY DEF DeleteProject, ChangeWindows, Crash, Start, StatementFails
<1>2. \A v \in Uploads :
        /\ upload'[v].log = upload[v].log /\ upload'[v].seen = upload[v].seen
        /\ Underway(v)' => Underway(v)
        /\ upload'[v].pc = "recorded" => upload[v].pc = "recorded"
  <2>1. CASE Crash
    BY <2>1, CrashIs DEF Underway
  <2>2. CASE UNCHANGED upload
    BY <2>2 DEF Underway
  <2> QED BY <2>1, <2>2 DEF DeleteProject, ChangeWindows, Start, StatementFails
<1>3. /\ Written' /\ Dated' /\ Recorded' /\ Whole' /\ NothingYoungDeleted'
      /\ \A l \in Logs : (Visible(l)' => Visible(l)) /\ (Shown(l)' => Shown(l))
  BY <1>1, <1>2, AroundKeeps
<1>4. \A l \in Logs : Visible(l)' => \E a \in usage' : a <= log'[l].age
  BY <1>1, <1>3 DEF Counted
<1>5. CASE (\E p \in Projects : DeleteProject(p)) \/ (\E w \in Windows : ChangeWindows(w))
  <2>1. run' = run /\ settings'.loaded = settings.loaded
    BY <1>5 DEF DeleteProject, ChangeWindows, Typed
  <2> QED BY <1>1, <1>3, <2>1 DEF InRun, Spared, Counted, UsageCutoff
<1>6. CASE Crash
  BY <1>3, <1>4, <1>6, CrashIs DEF InRun, Spared, Counted, AfterSoftDelete
<1>7. CASE Start
  <2>1. run' = run \/ (MayRun /\ run'.pc = "orphaned logs" /\ run'.window = settings.window)
    BY <1>7 DEF Start
  <2>2. settings' = settings /\ run.pc = "idle"
    BY <1>7 DEF Start
  <2>3. run'.pc \in {"idle", "orphaned logs"}
    BY <2>1, <2>2
  <2> QED BY <1>3, <1>4, <2>1, <2>2, <2>3 DEF InRun, Spared, Counted, AfterSoftDelete, MayRun
<1>8. CASE StatementFails
  <2>1. settings' = settings /\ run.pc # "idle" /\ Goto(AfterFailure)
    BY <1>8 DEF StatementFails
  <2>2. /\ run.pc \in Phases /\ AfterFailure \in Phases
        /\ AfterFailure \in AfterSoftDelete => run.pc \in AfterSoftDelete
        /\ AfterFailure \notin {"purge", "usage"}
    BY <2>1 DEF AfterFailure, AfterSoftDelete, Phases, Typed, RunType
  <2>3. run'.pc = AfterFailure /\ (AfterFailure # "idle" => run'.window = run.window)
    BY <2>1, <2>2, GotoIs DEF Typed
  <2>4. InRun' /\ Counted'
    BY <1>4, <2>1, <2>2, <2>3 DEF InRun, Counted
  <2>5. Spared'
    BY <1>1, <1>3, <2>1, <2>2, <2>3 DEF Spared, AfterSoftDelete
  <2> QED BY <1>3, <2>4, <2>5
<1> QED BY <1>5, <1>6, <1>7, <1>8

\* The statements of the run that are about logs.
LEMMA LogPhasesKeep ==
  ASSUME Typed, IInv, PurgeOrphanedLogs \/ SoftDeleteBefore \/ PurgeSoftDeleted
  PROVE  IInv'
<1> USE DEF IInv, Kept
<1>1. UNCHANGED <<launch, usage, deleted, upload, settings, due, faults, past>>
  BY DEF PurgeOrphanedLogs, SoftDeleteBefore, PurgeSoftDeleted
<1>2. Cleanup /\ run.pc # "idle" /\ (run'.pc # "idle" => run'.window = run.window)
  BY CleanupTypes DEF Cleanup
<1>3. \A l \in Logs : /\ log'[l].written = log[l].written /\ log'[l].age = log[l].age
                      /\ log'[l].row \in {log[l].row, "none", "soft"}
                      /\ log'[l].row # "none" => log[l].row # "none"
                      /\ log'[l].row = "soft" =>
                           log[l].row = "soft" \/ (SoftDeleteBefore /\ log[l].age > run.window[1])
  <2>1. CASE PurgeOrphanedLogs
    <3>1. PICK gone \in SUBSET OrphanLogs :
            log' = [l \in Logs |-> IF l \in gone THEN [log[l] EXCEPT !.row = "none"] ELSE log[l]]
      BY <2>1 DEF PurgeOrphanedLogs
    <3>2. ASSUME NEW l \in Logs
          PROVE  /\ log'[l].written = log[l].written /\ log'[l].age = log[l].age
                 /\ log'[l].row = log[l].row \/ (log'[l].row = "none" /\ log[l].row # "none")
      <4>1. log[l] \in LogType /\ (l \in gone => log[l].row # "none")
        BY <3>1 DEF Typed, OrphanLogs
      <4>2. log'[l] = IF l \in gone THEN [log[l] EXCEPT !.row = "none"] ELSE log[l]
        BY <3>1
      <4> QED BY <4>1, <4>2 DEF LogType
    <3> QED BY <3>2
  <2>2. CASE SoftDeleteBefore
    BY <2>2 DEF SoftDeleteBefore, Typed, LogType
  <2>3. CASE PurgeSoftDeleted
    BY <2>3 DEF PurgeSoftDeleted, Typed, LogType
  <2> QED BY <2>1, <2>2, <2>3
<1>4. \A l \in Logs : (Visible(l)' => Visible(l)) /\ (Shown(l)' => Shown(l))
  BY <1>1, <1>3 DEF Visible, Orphan, Shown
<1>5. Written' /\ Dated' /\ Recorded'
  BY <1>1, <1>3 DEF Written, Dated, Recorded, Launched, Underway, Typed, UploadType
<1>6. Whole'
  BY <1>1, <1>3, <1>4 DEF Whole
<1>7. InRun' /\ run.window \in Windows /\ ValidWindow(run.window)
  BY <1>1, <1>2 DEF InRun, Typed, RunType
<1>8. NothingYoungDeleted'
  <2> SUFFICES ASSUME NEW l \in Logs, log'[l].row = "soft" PROVE log'[l].age > MinRetentionDays
    BY DEF NothingYoungDeleted
  <2>1. CASE log[l].row = "soft"
    BY <1>3, <2>1 DEF NothingYoungDeleted
  <2>2. CASE log[l].age > run.window[1]
    <3>1. run.window[1] \in Nat /\ run.window[1] >= 1 /\ log[l].age \in Nat
      BY <1>7, Numbers DEF ValidWindow, MinRetentionDays, Typed, LogType, Ages
    <3> QED BY <1>3, <2>2, <3>1 DEF MinRetentionDays
  <2> QED BY <1>3, <2>1, <2>2
<1>9. Spared' /\ Counted'
  <2>1. CASE PurgeOrphanedLogs
    <3>1. run'.pc \in {"orphaned logs", "soft delete"}
      BY <1>2, <2>1, CleanupTypes
    <3> QED BY <1>1, <1>3, <1>4, <3>1 DEF Spared, Counted, AfterSoftDelete
  <2>2. CASE SoftDeleteBefore
    <3>1. run'.pc = "purge" /\ run'.window = run.window
      BY <1>2, <2>2, CleanupTypes
    <3>2. ASSUME NEW l \in Logs, Visible(l)' PROVE ~(log[l].age > run.window[1])
      BY <1>4, <2>2, <3>2 DEF SoftDeleteBefore, Visible, Typed, LogType
    <3>3. /\ run.window[1] \in Nat /\ run.window[2] \in Nat /\ UsageGraceDays \in Nat
          /\ \A l \in Logs : log[l].age \in Nat
          /\ \A a \in usage : a \in Nat
      BY <1>7, Numbers DEF Typed, LogType, Ages
    <3>4. ASSUME NEW l \in Logs, Visible(l)'
          PROVE  log'[l].age <= Horizon(run'.window) /\ log'[l].age <= UsageCutoff'
      BY <1>3, <3>1, <3>2, <3>3, <3>4 DEF Horizon, UsageCutoff
    <3>5. Spared'
      BY <3>4 DEF Spared, Shown
    <3>6. Counted'
      <4> SUFFICES ASSUME NEW l \in Logs, Visible(l)'
                   PROVE  \E a \in usage' : a <= log'[l].age /\ a <= UsageCutoff'
        BY DEF Counted
      <4>1. PICK a \in usage : a <= log[l].age
        BY <1>4 DEF Counted
      <4>2. UsageCutoff' \in Nat
        BY <3>1, <3>3 DEF UsageCutoff
      <4> QED BY <1>1, <1>3, <3>3, <3>4, <4>1, <4>2
    <3> QED BY <3>5, <3>6
  <2>3. CASE PurgeSoftDeleted
    <3>1. run'.pc = "usage" /\ run.pc = "purge" /\ run'.window = run.window
      BY <1>2, <2>3, CleanupTypes DEF PurgeSoftDeleted
    <3> QED BY <1>1, <1>3, <1>4, <3>1 DEF Spared, Counted, AfterSoftDelete, UsageCutoff
  <2> QED BY <2>1, <2>2, <2>3
<1> QED BY <1>5, <1>6, <1>7, <1>8, <1>9

\* The statements that are about counters and launches.
LEMMA LaunchPhasesKeep ==
  ASSUME Typed, IInv, PurgeUsageBefore \/ PurgeOrphanedSessions \/ PurgeSessionsBefore
  PROVE  IInv'
<1> USE DEF IInv, Kept
<1>1. UNCHANGED <<log, deleted, upload, settings, due, faults, past>>
  BY DEF PurgeUsageBefore, PurgeOrphanedSessions, PurgeSessionsBefore
<1>2. Cleanup /\ run.pc # "idle" /\ (run'.pc # "idle" => run'.window = run.window)
  BY CleanupTypes DEF Cleanup
<1>3. \A l \in Logs : (Visible(l)' <=> Visible(l)) /\ (Shown(l)' <=> Shown(l))
  BY <1>1 DEF Visible, Orphan, Shown
<1>4. Written' /\ Dated' /\ NothingYoungDeleted' /\ InRun'
  BY <1>1, <1>2 DEF Written, Dated, Underway, NothingYoungDeleted, InRun
<1>5. Spared'
  <2>1. run'.pc \in AfterSoftDelete => run.pc \in AfterSoftDelete
    BY <1>2, CleanupTypes
       DEF AfterSoftDelete, PurgeUsageBefore, PurgeOrphanedSessions, PurgeSessionsBefore
  <2>2. run'.pc \in AfterSoftDelete => run'.window = run.window
    BY <1>2 DEF AfterSoftDelete
  <2> QED BY <1>1, <1>3, <2>1, <2>2 DEF Spared
<1>6. Counted'
  <2>1. run'.pc \notin {"purge", "usage"}
    BY <1>2, CleanupTypes
  <2>2. \A l \in Logs : Visible(l) => \E a \in usage' : a <= log[l].age
    <3>1. CASE PurgeUsageBefore
      <4>1. usage' = {a \in usage : a <= UsageCutoff} /\ run.pc = "usage"
        BY <3>1 DEF PurgeUsageBefore
      <4> QED BY <4>1 DEF Counted
    <3>2. CASE ~PurgeUsageBefore
      <4>1. usage' = usage
        BY <3>2 DEF PurgeOrphanedSessions, PurgeSessionsBefore
      <4> QED BY <4>1 DEF Counted
    <3> QED BY <3>1, <3>2
  <2> QED BY <1>1, <1>3, <2>1, <2>2 DEF Counted
<1>7. \A s \in Launches : launch'[s] = launch[s] \/ launch'[s].row = FALSE
  <2>1. CASE PurgeUsageBefore
    BY <2>1 DEF PurgeUsageBefore
  <2>2. CASE PurgeOrphanedSessions
    <3>1. PICK gone \in SUBSET OrphanLaunches :
            launch' = [s \in Launches |-> IF s \in gone THEN [row |-> FALSE, seen |-> 0] ELSE launch[s]]
      BY <2>2 DEF PurgeOrphanedSessions
    <3> QED BY <3>1
  <2>3. CASE PurgeSessionsBefore
    BY <2>3 DEF PurgeSessionsBefore
  <2> QED BY <2>1, <2>2, <2>3
<1>8. Recorded'
  BY <1>1, <1>7, RetentionAssumption DEF Recorded, Launched, Typed, UploadType
<1>9. ASSUME NEW l \in Logs, Shown(l), LaunchOf[l] \notin past.behind
      PROVE  launch'[LaunchOf[l]] = launch[LaunchOf[l]]
  <2>0. LaunchOf[l] \in Launches
    BY RetentionAssumption
  <2>1. CASE PurgeUsageBefore
    BY <2>1 DEF PurgeUsageBefore
  <2>2. CASE PurgeOrphanedSessions
    <3>1. PICK gone \in SUBSET OrphanLaunches :
            launch' = [s \in Launches |-> IF s \in gone THEN [row |-> FALSE, seen |-> 0] ELSE launch[s]]
      BY <2>2 DEF PurgeOrphanedSessions
    <3>2. LaunchOf[l] \notin gone
      BY <1>9, <3>1 DEF Shown, Visible, OrphanLaunches
    <3> QED BY <2>0, <3>1, <3>2
  <2>3. CASE PurgeSessionsBefore
    <3>1. log[l].age <= Horizon(run.window)
      BY <1>9, <2>3 DEF Spared, AfterSoftDelete, PurgeSessionsBefore
    <3>2. launch[LaunchOf[l]].seen <= log[l].age
      BY <1>9 DEF Whole
    <3>3. /\ launch[LaunchOf[l]].seen \in Nat /\ log[l].age \in Nat
          /\ Horizon(run.window) \in Nat
      BY <2>0, Numbers DEF Typed, LaunchType, LogType, RunType, Ages
    <3>4. ~(launch[LaunchOf[l]].seen > SessionCutoff)
      BY <3>1, <3>2, <3>3 DEF SessionCutoff
    <3> QED BY <2>0, <2>3, <3>4 DEF PurgeSessionsBefore
  <2> QED BY <2>1, <2>2, <2>3
<1>10. Whole'
  BY <1>1, <1>3, <1>9 DEF Whole
<1> QED BY <1>4, <1>5, <1>6, <1>8, <1>10

----------------------------------------------------------------------------
LEMMA KeptStep == TypeOK /\ IInv /\ [Next]_vars => IInv'
<1> SUFFICES ASSUME Typed, IInv, [Next]_vars PROVE IInv'
  BY TypedIs
<1>1. CASE UNCHANGED vars
  BY <1>1 DEF vars, IInv, Kept, Written, Dated, Recorded, Whole, InRun, Spared, Counted,
              NothingYoungDeleted, Underway, Launched, Shown, Visible, Orphan, UsageCutoff
<1>2. CASE \E u \in Uploads, l \in Logs : Build(u, l)
  BY <1>2, BuildKeeps
<1>3. CASE \E u \in Uploads : Serve(u) \/ UpsertFails(u)
  BY <1>3, AuthenticateKeeps, UpsertKeeps, InsertKeeps, UpsertFailsKeeps DEF Serve
<1>4. CASE \/ \E p \in Projects : DeleteProject(p)
           \/ \E w \in Windows : ChangeWindows(w)
           \/ Crash \/ Start \/ StatementFails
  BY <1>4, AroundSteps
<1>5. CASE Day
  BY <1>5, DayKeeps
<1>6. CASE Cleanup
  BY <1>6, LogPhasesKeep, LaunchPhasesKeep DEF Cleanup
<1> QED BY <1>1, <1>2, <1>3, <1>4, <1>5, <1>6 DEF Next

THEOREM Invariant == Spec => [](TypeOK /\ IInv)
<1>1. Init => TypeOK /\ IInv
  BY TypeInit, KeptInit
<1>2. TypeOK /\ IInv /\ [Next]_vars => TypeOK' /\ IInv'
  BY TypeStep, KeptStep
<1> QED BY <1>1, <1>2, PTL DEF Spec

\* A log that can be found can be attributed and counted: its launch has a row,
\* its day a counter, through every interleaving of uploads with the nights.
THEOREM KeptSafe == Spec => []KeptIsWhole
<1>1. TypeOK /\ IInv => KeptIsWhole
  <2> SUFFICES ASSUME TypeOK, IInv PROVE Attributable /\ CountersCoverVisibleLogs
    BY DEF KeptIsWhole
  <2>1. Attributable
    BY DEF Attributable, IInv, Kept, Whole, Shown
  <2>2. CountersCoverVisibleLogs
    BY DEF CountersCoverVisibleLogs, IInv, Kept, Counted
  <2> QED BY <2>1, <2>2
<1> QED BY <1>1, Invariant, PTL

\* A step that takes the last of a row.
LEMMA WhatVanishes ==
  ASSUME Typed, IInv, [Next]_vars, NEW l \in Logs, Vanishes(l)
  PROVE  /\ settings.loaded
         /\ ~Orphan(LaunchOf[l]) =>
              /\ log[l].row = "soft"
              /\ \E w \in Windows : ValidWindow(w) /\ log[l].since >= w[2]
<1>1. log' # log
  BY DEF Vanishes
<1>2. ~(\E u \in Uploads, m \in Logs : Build(u, m))
  BY BuildIs DEF Vanishes, IInv, Kept, Written
<1>3. \A u \in Uploads : ~Insert(u)
  <2> SUFFICES ASSUME NEW u \in Uploads, Insert(u) PROVE FALSE
    OBVIOUS
  <2> DEFINE m == upload[u].log
  <2>1. /\ m \in Logs
        /\ log'[m] = [log[m] EXCEPT !.row = "live", !.since = 0]
        /\ \A k \in Logs : k # m => log'[k] = log[k]
    BY <1>1, InsertIs, Zenon
  <2>2. log'[m].row = "live"
    BY <2>1 DEF Typed, LogType
  <2> HIDE DEF m
  <2> QED BY <2>1, <2>2 DEF Vanishes
<1>4. ~Day
  BY DayIs DEF Vanishes
<1>5. Cleanup /\ (PurgeOrphanedLogs \/ SoftDeleteBefore \/ PurgeSoftDeleted)
  BY <1>1, <1>2, <1>3, <1>4
     DEF Next, vars, Serve, Authenticate, Upsert, UpsertFails, DeleteProject, ChangeWindows,
         Crash, Start, StatementFails, Cleanup, PurgeUsageBefore, PurgeOrphanedSessions,
         PurgeSessionsBefore
<1>6. settings.loaded /\ ValidWindow(run.window) /\ run.window \in Windows
  <2>1. run.pc # "idle" /\ run.window \in Windows
    BY <1>5, CleanupTypes DEF Typed, RunType
  <2> QED BY <2>1 DEF IInv, Kept, InRun
<1>7. CASE PurgeOrphanedLogs
  <2>1. PICK gone \in SUBSET OrphanLogs :
          log' = [k \in Logs |-> IF k \in gone THEN [log[k] EXCEPT !.row = "none"] ELSE log[k]]
    BY <1>7 DEF PurgeOrphanedLogs
  <2>2. l \in gone
    BY <2>1 DEF Vanishes
  <2> QED BY <1>6, <2>2 DEF OrphanLogs
<1>8. CASE SoftDeleteBefore
  <2>1. log'[l].row \in {log[l].row, "soft"}
    BY <1>8 DEF SoftDeleteBefore, Typed, LogType
  <2> QED BY <2>1 DEF Vanishes
<1>9. CASE PurgeSoftDeleted
  <2>1. PICK later \in BOOLEAN :
          log' = [k \in Logs |-> IF log[k].row = "soft" /\ GraceOver(k, later)
                                 THEN [log[k] EXCEPT !.row = "none"] ELSE log[k]]
    BY <1>9 DEF PurgeSoftDeleted
  <2>2. log[l].row = "soft" /\ GraceOver(l, later)
    BY <2>1 DEF Vanishes
  <2>3. log[l].since \in Nat /\ run.window[2] \in Nat
    BY <1>6, Numbers DEF Typed, LogType, Ages
  <2>4. log[l].since >= run.window[2]
    BY <2>2, <2>3 DEF GraceOver
  <2> QED BY <1>6, <2>2, <2>4
<1> QED BY <1>5, <1>7, <1>8, <1>9

\* A process that never read its settings only adds rows.
LEMMA WhatIsUnread ==
  ASSUME Typed, IInv, [Next]_vars, ~settings.loaded, NEW l \in Logs
  PROVE  log[l].row = log'[l].row \/ log[l].row = "none"
<1>1. ~Cleanup
  BY CleanupTypes DEF IInv, Kept, InRun
<1>2. CASE log' = log
  BY <1>2
<1>3. CASE \E u \in Uploads, m \in Logs : Build(u, m)
  BY <1>3, BuildIs DEF IInv, Kept, Written
<1>4. CASE \E u \in Uploads : Insert(u)
  <2>1. PICK u \in Uploads : Insert(u)
    BY <1>4
  <2> DEFINE m == upload[u].log
  <2>2. \/ log' = log
        \/ log[m].row = "none" /\ \A k \in Logs : k # m => log'[k] = log[k]
    BY <2>1, InsertIs, Zenon
  <2> HIDE DEF m
  <2> QED BY <2>2
<1>5. CASE Day
  BY <1>5, DayIs
<1> QED BY <1>1, <1>2, <1>3, <1>4, <1>5
     DEF Next, vars, Serve, Authenticate, Upsert, UpsertFails, DeleteProject, ChangeWindows,
         Crash, Start, StatementFails

\* No log goes before its time, and none for good before it was out of sight for
\* a grace period some setting allowed; nothing goes while the settings are unread.
THEOREM GoneSafe == Spec => GoneInItsTime
<1>1. TypeOK /\ IInv => NothingYoungDeleted
  BY DEF IInv
<1>2. TypeOK /\ IInv /\ [Next]_vars =>
        [/\ \A l \in Logs : Vanishes(l) /\ ~Orphan(LaunchOf[l]) =>
              /\ log[l].row = "soft"
              /\ \E w \in Windows : ValidWindow(w) /\ log[l].since >= w[2]
         /\ ~settings.loaded => \A l \in Logs : log[l].row = log'[l].row \/ log[l].row = "none"]_vars
  <2> SUFFICES ASSUME Typed, IInv, [Next]_vars
               PROVE  /\ \A l \in Logs : Vanishes(l) /\ ~Orphan(LaunchOf[l]) =>
                           /\ log[l].row = "soft"
                           /\ \E w \in Windows : ValidWindow(w) /\ log[l].since >= w[2]
                      /\ ~settings.loaded =>
                           \A l \in Logs : log[l].row = log'[l].row \/ log[l].row = "none"
    BY TypedIs
  <2> QED BY WhatVanishes, WhatIsUnread
<1> QED BY <1>1, <1>2, Invariant, PTL DEF Spec, GoneInItsTime, RecoverableUntilPurged
=============================================================================
