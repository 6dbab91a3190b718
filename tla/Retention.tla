----------------------------- MODULE Retention -----------------------------
(***************************************************************************)
(* The nightly clean-up, RetentionService.Cleanup, over the tables logs,   *)
(* sessions and project_usage_daily, while phones go on uploading, projects*)
(* are deleted, an operator changes the windows and the process crashes.   *)
(*                                                                         *)
(* Every statement of Cleanup is a step.  Times are ages in days, counted  *)
(* up by Day and capped at MaxAge, which is past every horizon.  A payload *)
(* is stamped when the phone builds it and may arrive days later, in any   *)
(* order; the phone is external.  A clean-up ends before the next day.     *)
(***************************************************************************)
EXTENDS Naturals, FiniteSets

CONSTANTS
  Logs, Launches, Projects,
  LaunchOf, ProjectOf,  \* a log's session_id, a session's project_id
  Uploads,
  Windows,              \* <<RetentionDays, PurgeAfterDays>> as the row may hold
  UsageGraceDays,       \* usageGraceDays
  BatchSize,            \* orphanBatchSize
  MaxBatches,           \* orphanMaxBatches
  MaxAge,               \* bound of the model: ages are not told apart beyond
  MaxFaults             \* bound of the model: failures in a history

MinRetentionDays == 1
MinPurgeAfterDays == 1

Horizon(w) == w[1] + w[2]

ASSUME RetentionAssumption ==
  /\ LaunchOf \in [Logs -> Launches] /\ ProjectOf \in [Launches -> Projects]
  /\ Logs # {} /\ IsFiniteSet(Logs) /\ IsFiniteSet(Launches)
  /\ Windows \subseteq Nat \X Nat /\ Windows # {}
  /\ UsageGraceDays \in Nat /\ BatchSize \in Nat \ {0} /\ MaxBatches \in Nat \ {0}
  /\ MaxAge \in Nat /\ MaxFaults \in Nat
  /\ \A w \in Windows : Horizon(w) < MaxAge /\ w[1] + UsageGraceDays < MaxAge

VARIABLES
  log,      \* per log: its row, the age of its timestamp and of its deleted_at
  launch,   \* the sessions table: per launch, is there a row, age of last_seen_at
  usage,    \* the ages of the days that have a counter
  deleted,  \* projects with deleted_at set
  upload,   \* payloads, on the phone and in the server
  settings, \* the windows in force, and whether they were ever read
  run,      \* the clean-up
  due,      \* three o'clock has come and no run has begun since
  faults,
  past      \* what the properties remember: launches whose row fell behind what
            \* was sent, logs stored without a launch or under a run past them

vars == <<log, launch, usage, deleted, upload, settings, run, due, faults, past>>

Ages == 0 .. MaxAge

\* written: the app has written it; deleted_at counts from the soft delete.
LogType ==
  [written: BOOLEAN, row: {"none", "live", "soft"}, age: Ages, since: Ages]

Phases == {"idle", "orphaned logs", "soft delete", "purge", "usage",
           "orphaned sessions", "sessions"}

TypeOK ==
  /\ log \in [Logs -> LogType]
  /\ launch \in [Launches -> [row: BOOLEAN, seen: Ages]]
  /\ usage \subseteq Ages
  /\ deleted \subseteq Projects
  /\ upload \in [Uploads -> [pc: {"idle", "sent", "checked", "recorded", "done"},
                             log: Logs, seen: Ages]]
  /\ settings \in [window: Windows, loaded: BOOLEAN]
  /\ run \in [pc: Phases, window: Windows, batches: 0 .. MaxBatches - 1]
  /\ due \in BOOLEAN
  /\ faults \in 0 .. MaxFaults
  /\ past \in [behind: SUBSET Launches, late: SUBSET Logs]

\* Between two runs.
Asleep == [pc |-> "idle", window |-> CHOOSE w \in Windows : TRUE, batches |-> 0]

\* A payload that is not built yet, or has been answered.
Unused(pc) == [pc |-> pc, log |-> CHOOSE l \in Logs : TRUE, seen |-> 0]

Init ==
  /\ log = [l \in Logs |-> [written |-> FALSE, row |-> "none", age |-> 0, since |-> 0]]
  /\ launch = [s \in Launches |-> [row |-> FALSE, seen |-> 0]]
  /\ usage = {}
  /\ deleted = {}
  /\ upload = [u \in Uploads |-> Unused("idle")]
  /\ settings \in [window: Windows, loaded: {TRUE}]
  /\ run = Asleep
  /\ due = FALSE
  /\ faults = 0
  /\ past = [behind |-> {}, late |-> {}]

Fault == faults < MaxFaults /\ faults' = faults + 1

Orphan(s) == ProjectOf[s] \in deleted
OrphanLogs == {l \in Logs : log[l].row # "none" /\ Orphan(LaunchOf[l])}
OrphanLaunches == {s \in Launches : launch[s].row /\ Orphan(s)}

----------------------------------------------------------------------------
(* Uploads: Authenticate, upsertSessions and insertIncomingLogs, as far as *)
(* the rows the clean-up is about.                                         *)

\* The app writes a log, the phone builds a payload with it.  A log is sent
\* again when the answer to an earlier payload was lost.
Build(u, l) ==
  /\ upload[u].pc = "idle"
  /\ log' = IF log[l].written THEN log
            ELSE [log EXCEPT ![l] = [written |-> TRUE, row |-> "none", age |-> 0, since |-> 0]]
  /\ upload' = [upload EXCEPT ![u] = [pc |-> "sent", log |-> l, seen |-> 0]]
  /\ UNCHANGED <<launch, usage, deleted, settings, run, due, faults, past>>

\* ValidateProjectCredentials
Authenticate(u) ==
  /\ upload[u].pc = "sent"
  /\ ~Orphan(LaunchOf[upload[u].log])
  /\ upload' = [upload EXCEPT ![u].pc = "checked"]
  /\ UNCHANGED <<log, launch, usage, deleted, settings, run, due, faults, past>>

\* The row would be older than what was sent for it: than it says now, or than a
\* payload that was recorded and is not stored yet, if a purge has taken its row.
FallsBehind(s, seen) ==
  \/ launch[s].row /\ launch[s].seen < seen
  \/ \E v \in Uploads : /\ upload[v].pc = "recorded" /\ LaunchOf[upload[v].log] = s
                         /\ upload[v].seen < seen

\* Upsert writes the last_seen_at it is given, older or newer than the row's.
Upsert(u) ==
  LET s == LaunchOf[upload[u].log] IN
  /\ upload[u].pc = "checked"
  /\ launch' = [launch EXCEPT ![s] = [row |-> TRUE, seen |-> upload[u].seen]]
  /\ upload' = [upload EXCEPT ![u].pc = "recorded"]
  /\ past' = IF FallsBehind(s, upload[u].seen)
             THEN [past EXCEPT !.behind = @ \cup {s}] ELSE past
  /\ UNCHANGED <<log, usage, deleted, settings, run, due, faults>>

\* A session that cannot be recorded is logged and swallowed.
UpsertFails(u) ==
  /\ upload[u].pc = "checked"
  /\ Fault
  /\ upload' = [upload EXCEPT ![u].pc = "recorded"]
  /\ past' = [past EXCEPT !.behind = @ \cup {LaunchOf[upload[u].log]}]
  /\ UNCHANGED <<log, launch, usage, deleted, settings, run, due>>

\* CreateBatch and the day's counter.  The index on the client id sees the rows
\* that are soft-deleted as well, and no longer those that were purged.
Insert(u) ==
  LET l == upload[u].log
      s == LaunchOf[l]
      running == run.pc # "idle" /\ log[l].age > Horizon(run.window) IN
  /\ upload[u].pc = "recorded"
  /\ IF log[l].row = "none"
     THEN /\ log' = [log EXCEPT ![l].row = "live", ![l].since = 0]
          /\ usage' = usage \cup {0}
          /\ past' = IF ~launch[s].row \/ running
                     THEN [past EXCEPT !.late = @ \cup {l}] ELSE past
     ELSE UNCHANGED <<log, usage, past>>
  /\ upload' = [upload EXCEPT ![u] = Unused("done")]
  /\ UNCHANGED <<launch, deleted, settings, run, due, faults>>

----------------------------------------------------------------------------
(* The rest of the world.                                                  *)

\* DeleteProject touches neither logs nor sessions.
DeleteProject(p) ==
  /\ p \notin deleted
  /\ deleted' = deleted \cup {p}
  /\ UNCHANGED <<log, launch, usage, upload, settings, run, due, faults, past>>

\* The windows change, by the form or by hand in the table; a run under way
\* keeps the ones it has read.
ChangeWindows(w) ==
  /\ w # settings.window
  /\ settings' = [settings EXCEPT !.window = w]
  /\ UNCHANGED <<log, launch, usage, deleted, upload, run, due, faults, past>>

Older(a) == IF a < MaxAge THEN a + 1 ELSE a

Day ==
  /\ run.pc = "idle"
  /\ log' = [l \in Logs |->
       [log[l] EXCEPT !.age = IF log[l].written THEN Older(@) ELSE @,
                      !.since = IF log[l].row = "soft" THEN Older(@) ELSE @]]
  /\ launch' = [s \in Launches |->
       [launch[s] EXCEPT !.seen = IF launch[s].row THEN Older(@) ELSE @]]
  /\ usage' = {Older(a) : a \in usage}
  /\ upload' = [u \in Uploads |->
       [upload[u] EXCEPT !.seen = IF upload[u].pc \in {"idle", "done"} THEN @ ELSE Older(@)]]
  /\ due' = TRUE
  /\ UNCHANGED <<deleted, settings, run, faults, past>>

\* The process dies and comes back, with the settings read or not.  A phone
\* sends the payload it had no answer to again.
Crash ==
  /\ Fault
  /\ run' = Asleep
  /\ settings' \in [window: {settings.window}, loaded: BOOLEAN]
  /\ upload' = [u \in Uploads |->
       [upload[u] EXCEPT !.pc = IF @ \in {"checked", "recorded"} THEN "sent" ELSE @]]
  /\ UNCHANGED <<log, launch, usage, deleted, due, past>>

----------------------------------------------------------------------------
(* Cleanup.                                                                *)

Goto(pc) == run' = IF pc = "idle" THEN Asleep ELSE [run EXCEPT !.pc = pc, !.batches = 0]

\* Slip: the windows are taken as they are.
AnyWindow(w) == TRUE

\* ValidRetentionDays and ValidPurgeAfterDays; their upper ends are out of reach.
ValidWindow(w) == w[1] >= MinRetentionDays /\ w[2] >= MinPurgeAfterDays

\* Slip: a boot that could not read the settings is not told apart.
RunsUnread == ValidWindow(settings.window)

MayRun == settings.loaded /\ ValidWindow(settings.window)

\* Three o'clock.  The windows are read once, at the top.
Start ==
  /\ run.pc = "idle" /\ due
  /\ due' = FALSE
  /\ run' = IF MayRun
            THEN [pc |-> "orphaned logs", window |-> settings.window, batches |-> 0]
            ELSE run
  /\ UNCHANGED <<log, launch, usage, deleted, upload, settings, faults, past>>

\* One batch: what goes, and is there another one.
Batch(rows, gone) ==
  /\ gone \subseteq rows
  /\ IF Cardinality(rows) < BatchSize THEN gone = rows
                                      ELSE Cardinality(gone) = BatchSize

Again(gone) == Cardinality(gone) = BatchSize /\ run.batches + 1 < MaxBatches

\* PurgeOrphanedLogs, up to MaxBatches times: rows that join a deleted project,
\* soft-deleted or not.
PurgeOrphanedLogs ==
  /\ run.pc = "orphaned logs"
  /\ \E gone \in SUBSET OrphanLogs :
       /\ Batch(OrphanLogs, gone)
       /\ log' = [l \in Logs |-> IF l \in gone THEN [log[l] EXCEPT !.row = "none"] ELSE log[l]]
       /\ IF Again(gone) THEN run' = [run EXCEPT !.batches = @ + 1] ELSE Goto("soft delete")
  /\ UNCHANGED <<launch, usage, deleted, upload, settings, due, faults, past>>

SoftDeleteBefore ==
  /\ run.pc = "soft delete"
  /\ log' = [l \in Logs |->
       IF log[l].row = "live" /\ log[l].age > run.window[1]
       THEN [log[l] EXCEPT !.row = "soft", !.since = 0] ELSE log[l]]
  /\ Goto("purge")
  /\ UNCHANGED <<launch, usage, deleted, upload, settings, due, faults, past>>

\* Slip: the grace period is measured from the log's own timestamp.
GraceOverByAge(l, later) == log[l].age > run.window[2]

\* deleted_at was written during a run.  On the night the grace period ends it is
\* over if this run comes to its statement later in the night than that one did.
GraceOver(l, later) ==
  log[l].since > run.window[2] \/ (later /\ log[l].since = run.window[2])

PurgeSoftDeleted ==
  /\ run.pc = "purge"
  /\ \E later \in BOOLEAN :
       log' = [l \in Logs |->
         IF log[l].row = "soft" /\ GraceOver(l, later)
         THEN [log[l] EXCEPT !.row = "none"] ELSE log[l]]
  /\ Goto("usage")
  /\ UNCHANGED <<launch, usage, deleted, upload, settings, due, faults, past>>

UsageCutoff == run.window[1] + UsageGraceDays

PurgeUsageBefore ==
  /\ run.pc = "usage"
  /\ usage' = {a \in usage : a <= UsageCutoff}
  /\ Goto("orphaned sessions")
  /\ UNCHANGED <<log, launch, deleted, upload, settings, due, faults, past>>

PurgeOrphanedSessions ==
  /\ run.pc = "orphaned sessions"
  /\ \E gone \in SUBSET OrphanLaunches :
       /\ Batch(OrphanLaunches, gone)
       /\ launch' = [s \in Launches |->
            IF s \in gone THEN [row |-> FALSE, seen |-> 0] ELSE launch[s]]
       /\ IF Again(gone) THEN run' = [run EXCEPT !.batches = @ + 1] ELSE Goto("sessions")
  /\ UNCHANGED <<log, usage, deleted, upload, settings, due, faults, past>>

\* Slip: purgeOlderThan, the shorter of the two windows.
SessionCutoffByPurge == run.window[2]

\* Slip: the sessions are never too old, and the table grows without bound.
SessionCutoffNever == MaxAge

\* Retention and purge together.
SessionCutoff == Horizon(run.window)

PurgeSessionsBefore ==
  /\ run.pc = "sessions"
  /\ launch' = [s \in Launches |->
       IF launch[s].row /\ launch[s].seen > SessionCutoff
       THEN [row |-> FALSE, seen |-> 0] ELSE launch[s]]
  /\ Goto("idle")
  /\ UNCHANGED <<log, usage, deleted, upload, settings, due, faults, past>>

\* Slip: a failed soft delete does not end the run.
AfterFailureKeepsOn ==
  CASE run.pc = "orphaned logs" -> "soft delete"
    [] run.pc = "soft delete" -> "purge"
    [] run.pc = "purge" -> "usage"
    [] run.pc = "usage" -> "orphaned sessions"
    [] run.pc = "orphaned sessions" -> "sessions"
    [] OTHER -> "idle"

\* Where a failed statement leads: the two phases on logs end the run, the
\* others are logged.
AfterFailure ==
  CASE run.pc = "orphaned logs" -> "soft delete"
    [] run.pc = "usage" -> "orphaned sessions"
    [] run.pc = "orphaned sessions" -> "sessions"
    [] OTHER -> "idle"

StatementFails ==
  /\ run.pc # "idle"
  /\ Fault
  /\ Goto(AfterFailure)
  /\ UNCHANGED <<log, launch, usage, deleted, upload, settings, due, past>>

Cleanup ==
  \/ PurgeOrphanedLogs \/ SoftDeleteBefore \/ PurgeSoftDeleted
  \/ PurgeUsageBefore \/ PurgeOrphanedSessions \/ PurgeSessionsBefore

Serve(u) == Authenticate(u) \/ Upsert(u) \/ Insert(u)

Next ==
  \/ \E u \in Uploads, l \in Logs : Build(u, l)
  \/ \E u \in Uploads : Serve(u) \/ UpsertFails(u)
  \/ \E p \in Projects : DeleteProject(p)
  \/ \E w \in Windows : ChangeWindows(w)
  \/ Day \/ Crash
  \/ Start \/ Cleanup \/ StatementFails

Spec == Init /\ [][Next]_vars

\* Days go by, the cron fires, a run and a request that have begun go on.
Fairness ==
  /\ WF_vars(Day) /\ WF_vars(Start) /\ WF_vars(Cleanup)
  /\ \A u \in Uploads : WF_vars(Upsert(u) \/ Insert(u))

FairSpec == Spec /\ Fairness

----------------------------------------------------------------------------
(* Properties.                                                             *)

Visible(l) == log[l].row = "live" /\ ~Orphan(LaunchOf[l])

\* A log that can be found can be attributed: its launch has a row, through which
\* `user:`, `device:` and `app_version:` reach it.  The exceptions are launches
\* whose last_seen_at a delayed payload left behind another's or a failed one did
\* not move on, and logs stored after their launch had gone or past the horizon
\* of the run then under way.
Attributable ==
  \A l \in Logs : Visible(l) =>
    \/ launch[LaunchOf[l]].row
    \/ LaunchOf[l] \in past.behind
    \/ l \in past.late

\* Whatever the row of settings holds, a log of a living project is not deleted
\* on the day it was written or the day after: the refused zero would take all.
NothingYoungDeleted ==
  \A l \in Logs : log[l].row = "soft" => log[l].age > MinRetentionDays

\* The day on which a visible log arrived still has its counter.
CountersCoverVisibleLogs ==
  \A l \in Logs : Visible(l) => \E a \in usage : a <= log[l].age

\* What is kept is whole: a log that can be found has its launch and its day.
KeptIsWhole == TypeOK /\ Attributable /\ CountersCoverVisibleLogs

Vanishes(l) == log[l].row # "none" /\ log'[l].row = "none"

\* A row of a living project goes for good only after it was out of sight for
\* a grace period some setting allowed, however the windows were
\* changed in between; and a process that never read its settings removes
\* nothing, not even for a deleted project.
RecoverableUntilPurged ==
  [][/\ \A l \in Logs : Vanishes(l) /\ ~Orphan(LaunchOf[l]) =>
          /\ log[l].row = "soft"
          /\ \E w \in Windows : ValidWindow(w) /\ log[l].since >= w[2]
     /\ ~settings.loaded => \A l \in Logs : log[l].row = log'[l].row \/ log[l].row = "none"]_vars

\* What goes, goes in its time: out of sight when it is old, for good when it was
\* out of sight long enough.
GoneInItsTime == []NothingYoungDeleted /\ RecoverableUntilPurged

Unreadable == ~settings.loaded \/ ~ValidWindow(settings.window)

\* Nothing stays for ever: a launch and its logs are gone one day, however many
\* nights the batches take, whichever statement failed on the way, whether the
\* project was deleted and whichever upload was admitted before it was; unless
\* the clean-up may not run.
EverythingExpires ==
  \A s \in Launches :
    launch[s].row ~>
      (Unreadable \/ (/\ ~launch[s].row
                      /\ \A l \in Logs : LaunchOf[l] = s => log[l].row = "none"))

=============================================================================
