------------------------------ MODULE Settings ------------------------------
(***************************************************************************)
(* Instance settings and what hangs on them: InstanceSettingsService over  *)
(* the instance_settings table, the handlers that save a card of the       *)
(* settings page, the clock and the zone the views render in, and the      *)
(* daily question to GitHub (VersionService).                              *)
(*                                                                         *)
(* A save copies the cache, looks for the row, writes the whole row and    *)
(* replaces the cache, each in a step of its own.  A setting is 0 where it *)
(* is the default; the update check is on at 0 and off at 1.               *)
(***************************************************************************)
EXTENDS Naturals, Sequences, SequencesExt

CONSTANTS
  Requests,   \* requests and scheduled checks, each made once
  Releases,   \* what GitHub may name as its latest release, <<major, minor>>
  Version,    \* app.Version
  None,
  MaxFaults   \* bound of the model: failures and restarts in a history

Cards == {"clock", "zone", "retention", "limits", "check"}
Values == {0, 1}
AllSettings == [Cards -> Values]

ASSUME SettingsAssumption ==
  /\ Releases \subseteq Nat \X Nat /\ Version \in Nat \X Nat
  /\ None \notin Requests \cup Releases /\ MaxFaults \in Nat

VARIABLES
  rows,    \* the table, in the order of its ids
  cached,  \* cached
  loaded,  \* isLoaded
  view,    \* the views' zone and clock, and what they show about releases
  state,   \* VersionService.state
  latest,  \* external: the latest release on GitHub
  req,
  faults,
  past     \* what the properties remember: the value last stored from each card,
           \* did a save cross another, was one made on settings never read, did
           \* a display card stop half way

vars == <<rows, cached, loaded, view, state, latest, req, faults, past>>

Default == [c \in Cards |-> 0]
On(s) == s["check"] = 0

\* Nothing learned, or the last check failed: no release.
Unknown == [release |-> None, behind |-> FALSE]
VersionState == [release: Releases \cup {None}, behind: BOOLEAN]

\* What a form sends for a zone the server does not know, and for no field at all.
Bad == 2
Absent == 3

\* zone: what a display card will save next; found: the id of the row to update.
RequestType ==
  [pc: {"idle", "find", "create", "update", "cache", "zone", "render",
        "ask", "fetch", "record", "publish", "done"},
   card: Cards, zone: Values \cup {Bad, Absent}, copy: AllSettings,
   found: Nat, answer: VersionState]

TypeOK ==
  /\ rows \in Seq([id: Nat, value: AllSettings])
  /\ cached \in AllSettings /\ loaded \in BOOLEAN
  /\ view \in [zone: Values, clock: Values, update: VersionState]
  /\ state \in VersionState /\ latest \in Releases
  /\ req \in [Requests -> RequestType]
  /\ faults \in Nat
  /\ past \in [last: AllSettings, crossed: BOOLEAN, blind: BOOLEAN, half: BOOLEAN]

\* Get: the first row, or the defaults.
Stored == IF rows = <<>> THEN Default ELSE rows[1].value

Fresh(pc) ==
  [pc |-> pc, card |-> "check", zone |-> Absent, copy |-> Default,
   found |-> 0, answer |-> Unknown]

\* Slip: a failed Load counts as read.
BootLoaded(ok, row) == [cached |-> IF ok THEN row ELSE Default, loaded |-> TRUE]

\* Load fails open: the defaults stay, and Loaded says so.
Boot(ok, row) == [cached |-> IF ok THEN row ELSE Default, loaded |-> ok]

Rendered(s) == [zone |-> s["zone"], clock |-> s["clock"], update |-> Unknown]

\* main: Load, SetTimeZone and SetTwelveHourClock, with nobody served yet.
Init ==
  /\ rows \in {<<>>} \cup {<<[id |-> 1, value |-> s]>> : s \in AllSettings}
  /\ \E ok \in BOOLEAN :
       /\ cached = Boot(ok, Stored).cached
       /\ loaded = Boot(ok, Stored).loaded
  /\ view = Rendered(cached)
  /\ state = Unknown
  /\ latest \in Releases
  /\ req = [r \in Requests |-> Fresh("idle")]
  /\ faults = 0
  /\ past = [last |-> Stored, crossed |-> FALSE, blind |-> FALSE, half |-> FALSE]

Fault == faults < MaxFaults /\ faults' = faults + 1
At(r, pc) == req[r].pc = pc
Goto(r, pc) == req' = [req EXCEPT ![r].pc = pc]

\* A save that has copied the cache and has not replaced it yet.
Saving(r) == req[r].pc \in {"find", "create", "update", "cache"}

----------------------------------------------------------------------------
(* Saving a card.                                                          *)

\* Slip: the setter starts from the defaults.
CopyOfDefaults(c, v) == [Default EXCEPT ![c] = v]

\* Current, with the card's own fields replaced.
CopyOf(c, v) == [cached EXCEPT ![c] = v]

\* Two saves are under way at once: one of them may be lost.
Crossing(r) == \E q \in Requests \ {r} : Saving(q)

StartSave(r, c, v, zone) ==
  /\ req' = [req EXCEPT ![r] = [Fresh("find") EXCEPT
       !.card = c, !.zone = zone, !.copy = CopyOf(c, v)]]
  /\ past' = [past EXCEPT !.crossed = @ \/ Crossing(r), !.blind = @ \/ ~loaded]

\* UpdateRetention, UpdateLimits, SetUpdateCheckEnabled, after validation.
SaveCard(r, c, v) ==
  /\ At(r, "idle")
  /\ c \in {"retention", "limits", "check"}
  /\ StartSave(r, c, v, Absent)
  /\ UNCHANGED <<rows, cached, loaded, view, state, latest, faults>>

\* UpdateDisplay: the clock first, if the form has one, then the zone.
SaveDisplay(r, clock, zone) ==
  /\ At(r, "idle")
  /\ IF clock = Absent
     THEN /\ req' = [req EXCEPT ![r] = [Fresh("zone") EXCEPT !.zone = zone]]
          /\ UNCHANGED past
     ELSE StartSave(r, "clock", clock, zone)
  /\ UNCHANGED <<rows, cached, loaded, view, state, latest, faults>>

\* Save looks for the first row ...
FindRow(r) ==
  /\ At(r, "find")
  /\ req' = IF rows = <<>> THEN [req EXCEPT ![r].pc = "create"]
            ELSE [req EXCEPT ![r].pc = "update", ![r].found = rows[1].id]
  /\ UNCHANGED <<rows, cached, loaded, view, state, latest, faults, past>>

StoredBy(r) == [past EXCEPT !.last[req[r].card] = req[r].copy[req[r].card]]

\* ... creates one when there was none; ids are made before the insert, so the
\* later of two may come first ...
CreateRow(r) ==
  /\ At(r, "create")
  /\ \E i \in 1 .. Len(rows) + 1 :
       rows' = InsertAt(rows, i, [id |-> Len(rows) + 1, value |-> req[r].copy])
  /\ past' = StoredBy(r)
  /\ Goto(r, "cache")
  /\ UNCHANGED <<cached, loaded, view, state, latest, faults>>

\* Slip: Updates with the struct skips what is zero.
WrittenNonZero(old, new) == [c \in Cards |-> IF new[c] = 0 THEN old[c] ELSE new[c]]

\* Every field goes in the map.
Written(old, new) == new

\* ... and otherwise updates the row it found.
UpdateRow(r) ==
  /\ At(r, "update")
  /\ rows' = [i \in DOMAIN rows |->
       IF rows[i].id = req[r].found
       THEN [rows[i] EXCEPT !.value = Written(@, req[r].copy)] ELSE rows[i]]
  /\ past' = StoredBy(r)
  /\ Goto(r, "cache")
  /\ UNCHANGED <<cached, loaded, view, state, latest, faults>>

\* Where a saved card leads.
AfterSave(q) ==
  CASE q.card = "clock" -> "zone"
    [] q.card = "zone" -> "render"
    [] q.card = "check" /\ On(q.copy) -> "ask"
    [] OTHER -> "done"

\* The cache is replaced by the copy, under the lock.
RefreshCache(r) ==
  /\ At(r, "cache")
  /\ cached' = req[r].copy
  /\ Goto(r, AfterSave(req[r]))
  /\ UNCHANGED <<rows, loaded, view, state, latest, faults, past>>

\* The second setter of the display card.
SaveZone(r) ==
  /\ At(r, "zone") /\ req[r].zone \in Values
  /\ StartSave(r, "zone", req[r].zone, Absent)
  /\ UNCHANGED <<rows, cached, loaded, view, state, latest, faults>>

\* A zone this server does not know: the card answers, with the clock saved.
RefuseZone(r) ==
  /\ At(r, "zone") /\ req[r].zone = Bad
  /\ past' = [past EXCEPT !.half = TRUE]
  /\ Goto(r, "done")
  /\ UNCHANGED <<rows, cached, loaded, view, state, latest, faults>>

\* Slip: the page moves with the zone and not with the clock.
ZoneShown(v, s) == [v EXCEPT !.zone = s["zone"]]

\* SetTimeZone and SetTwelveHourClock.
Shown(v, s) == [v EXCEPT !.zone = s["zone"], !.clock = s["clock"]]

\* The display card moves the pages to what Current says by then.
Render(r) ==
  /\ At(r, "render")
  /\ view' = Shown(view, cached)
  /\ Goto(r, "done")
  /\ UNCHANGED <<rows, cached, loaded, state, latest, faults, past>>

\* A statement fails: the card says so and leaves the cache alone.
SaveFails(r) ==
  /\ req[r].pc \in {"find", "create", "update"}
  /\ Fault
  /\ past' = [past EXCEPT !.half = @ \/ req[r].card = "zone"]
  /\ Goto(r, "done")
  /\ UNCHANGED <<rows, cached, loaded, view, state, latest>>

----------------------------------------------------------------------------
(* VersionService.Check: at boot, every night, and from the About card.    *)

\* Slip: not knowing is taken for permission.
MayAskUnread == On(cached)

MayAsk == loaded /\ On(cached)

Ask(r) ==
  /\ At(r, "idle") \/ At(r, "ask")
  /\ req' = [req EXCEPT ![r] =
       IF MayAsk THEN Fresh("fetch") ELSE [Fresh("publish") EXCEPT !.answer = state]]
  /\ UNCHANGED <<rows, cached, loaded, view, state, latest, faults, past>>

\* IsNewer: by number, part after part.
IsNewer(release) ==
  \/ release[1] > Version[1]
  \/ release[1] = Version[1] /\ release[2] > Version[2]

\* fetch: GitHub's answer, or none.
Fetch(r) ==
  /\ At(r, "fetch")
  /\ req' = [req EXCEPT ![r].pc = "record",
       ![r].answer = [release |-> latest, behind |-> IsNewer(latest)]]
  /\ UNCHANGED <<rows, cached, loaded, view, state, latest, faults, past>>

FetchFails(r) ==
  /\ At(r, "fetch")
  /\ Fault
  /\ req' = [req EXCEPT ![r].pc = "record", ![r].answer = Unknown]
  /\ UNCHANGED <<rows, cached, loaded, view, state, latest, past>>

Record(r) ==
  /\ At(r, "record")
  /\ state' = req[r].answer
  /\ Goto(r, "publish")
  /\ UNCHANGED <<rows, cached, loaded, view, latest, faults, past>>

\* SetUpdateState with what Check returned.
Publish(r) ==
  /\ At(r, "publish")
  /\ view' = [view EXCEPT !.update = req[r].answer]
  /\ Goto(r, "done")
  /\ UNCHANGED <<rows, cached, loaded, state, latest, faults, past>>

----------------------------------------------------------------------------
\* GitHub publishes a release, or withdraws one.
Release(v) ==
  /\ v # latest
  /\ latest' = v
  /\ UNCHANGED <<rows, cached, loaded, view, state, req, faults, past>>

\* The process ends and boots again.
Restart ==
  /\ Fault
  /\ \E ok \in BOOLEAN :
       /\ cached' = Boot(ok, Stored).cached
       /\ loaded' = Boot(ok, Stored).loaded
  /\ view' = Rendered(cached')
  /\ state' = Unknown
  /\ req' = [r \in Requests |-> IF At(r, "idle") THEN req[r] ELSE Fresh("done")]
  /\ UNCHANGED <<rows, latest, past>>

Save(r) ==
  \/ \E c \in Cards, v \in Values : SaveCard(r, c, v)
  \/ \E clock \in Values \cup {Absent}, zone \in Values \cup {Bad} : SaveDisplay(r, clock, zone)
  \/ FindRow(r) \/ CreateRow(r) \/ UpdateRow(r) \/ RefreshCache(r)
  \/ SaveZone(r) \/ RefuseZone(r) \/ Render(r) \/ SaveFails(r)

Check(r) == Ask(r) \/ Fetch(r) \/ FetchFails(r) \/ Record(r) \/ Publish(r)

Next ==
  \/ \E r \in Requests : Save(r) \/ Check(r)
  \/ \E v \in Releases : Release(v)
  \/ Restart

Spec == Init /\ [][Next]_vars

----------------------------------------------------------------------------
(* Properties.                                                             *)

Quiet == \A r \in Requests : req[r].pc \in {"idle", "done"}

\* Saving one card never disturbs another: the row holds, card by card, what was
\* last stored from it, through failed statements and restarts.  The exceptions
\* are two saves under way at once and a save by a process that never read its
\* settings.
CardsKeepApart ==
  past.crossed \/ past.blind \/ Stored = past.last

\* What the process works with is what the next boot will read, once the saves
\* under way are over; with the same exceptions.
CacheIsRow ==
  Quiet /\ loaded => past.crossed \/ past.blind \/ cached = Stored

\* The pages show times the way the setting says, unless a display card stopped
\* between its two halves or two saves crossed.
ViewsFollow ==
  Quiet => past.crossed \/ past.half
             \/ (view.zone = cached["zone"] /\ view.clock = cached["clock"])

\* What an operator set last is what the row holds, what the process works with
\* and what the pages show.
SettingsAgree == TypeOK /\ CardsKeepApart /\ CacheIsRow /\ ViewsFollow

\* A question goes out only if the operator's last word, across failed saves,
\* restarts and boots that could not read it, was that it may.
OffMeansOff ==
  [][\A r \in Requests :
       req[r].pc \in {"idle", "ask"} /\ req'[r].pc = "fetch"
         => past.crossed \/ past.blind \/ On(past.last) \/ Crossing(r)]_vars

=============================================================================
