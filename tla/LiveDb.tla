------------------------------- MODULE LiveDb -------------------------------
(***************************************************************************)
(* The database browser of a live session: LiveDatabase, -Rows, -Cell and  *)
(* -Save over Hub.Ask, the fragments of view/live_db.templ, and the        *)
(* read-only tools of mcptools/tools_livedb.go.  Every fragment is a round *)
(* trip through the phone: asked, worked out by the device on what it      *)
(* holds then, and drawn when the answer gets back, if it does.            *)
(*                                                                         *)
(* A database has one table of one column that may be NULL, its rows in    *)
(* the order of their handles.  The device is external: it writes only where the row *)
(* still holds what the question says it held.                             *)
(***************************************************************************)
EXTENDS Integers, Sequences, FiniteSets, Functions

CONSTANTS
  Dbs,          \* what the app may register, in this order
  Handles,      \* row handles the tables use
  Exact,        \* integers up to here survive encoding/json: 2^53, scaled
  Limit,        \* pageSize and liveDBRowsLimit
  Starts,       \* what the device may hold and how it may be registered at first
  Viewed,       \* databases whose namespace is a view: no row handle
  Texts,        \* what a person may type
  None,
  MaxQuestions, \* bound of the model: questions put to the device
  MaxOpen,      \* bound of the model: questions of the page under way at once
  MaxChanges    \* bound of the model: changes made behind the page

Null == [type |-> "null", text |-> ""]
Str(t) == [type |-> "string", text |-> t]
Number(t) == [type |-> "number", text |-> t]
Blob == [type |-> "blob", text |-> ""]
Numerals == {"1", "2"}
Gone == [type |-> "gone", text |-> ""]
Mixed == -1

\* What a cell may hold.
Values == {Null, Blob} \cup {Str(t) : t \in Texts \cup Numerals \cup {""}}
          \cup {Number(t) : t \in Numerals}

ASSUME LiveDbAssumption ==
  /\ Dbs \in Seq(STRING) /\ Handles \subseteq Nat \ {0} /\ IsFiniteSet(Handles)
  /\ Exact \in Nat /\ Exact % 4 = 0
  /\ Limit \in Nat \ {0} /\ None \notin Range(Dbs)
  /\ MaxQuestions \in Nat /\ MaxOpen \in Nat /\ MaxChanges \in Nat
  /\ \A s \in Starts : /\ s.table \in [Range(Dbs) -> [Handles -> Values \cup {Gone}]]
                        /\ s.registry \in [Range(Dbs) -> {"absent", "reading", "writing"}]

VARIABLES
  table,      \* external: what each database holds
  registry,   \* external: how the app registered each database
  connected,  \* is the session in the hub
  manage,     \* may the reader manage the project
  asked,      \* questions the hub is waiting on, or has an answer for
  late,       \* updates nobody waits for any more, which the device may still run
  pane,       \* #db-pane
  grid,       \* #db-grid
  editor,     \* the open cell editor
  banner,     \* #db-save-result
  count,      \* questions put so far
  changes,
  past        \* what the properties remember: the rows shown so far and the row set
              \* the grid's come from; the version of the row set; updates run

vars == <<table, registry, connected, manage, asked, late, pane, grid, editor, banner,
          count, changes, past>>

page == <<pane, grid, editor, banner>>
device == <<table, registry>>

-----------------------------------------------------------------------------
(* Values on their way out and back.                                       *)

\* encoding/json decodes a number into a float64: past 2^53 the odd integers
\* become a neighbour (up to twice that bound).
Float(n) == IF n <= Exact \/ n % 2 = 0 THEN n ELSE 4 * ((n + 1) \div 4)

\* A form field: JSON text, quoted or bare.
Raw(quoted, text) == [quoted |-> quoted, text |-> text]

\* Slip: every value goes back as a string.
ScalarString(v) == Raw(TRUE, v.text)

ScalarJSON(v) ==
  IF v.type = "string" THEN Raw(TRUE, v.text)
  ELSE Raw(FALSE, IF v = Null THEN "null" ELSE v.text)

\* Slip: a field is the text it is.
JsonText(raw) == IF raw.text = "" THEN Null ELSE Str(raw.text)

JsonScalar(raw) ==
  CASE raw.quoted -> Str(raw.text)
    [] ~raw.quoted /\ raw.text \in {"", "null"} -> Null
    [] ~raw.quoted /\ raw.text \in Numerals -> Number(raw.text)
    [] OTHER -> Str(raw.text)

UnquoteJSON(raw) == IF raw = Raw(FALSE, "null") THEN "" ELSE raw.text

-----------------------------------------------------------------------------
(* The device (external).                                                  *)

Registered == {db \in Range(Dbs) : registry[db] # "absent"}

\* The k-th of a set of numbers.
Nth(S, k) == CHOOSE n \in S : Cardinality({m \in S : m < n}) = k - 1

\* What is registered, in the order of Dbs.
Sources ==
  LET at == {i \in DOMAIN Dbs : Dbs[i] \in Registered}
  IN  [k \in 1..Cardinality(at) |-> Dbs[Nth(at, k)]]

Writable(db) == registry[db] = "writing"

Present(db) == {h \in Handles : table[db][h] # Gone}

\* The handles of the rows, in the order asked for.
Ordered(db, sort) ==
  LET n == Cardinality(Present(db))
  IN  [k \in 1..n |-> Nth(Present(db), IF sort = "desc" THEN n + 1 - k ELSE k)]

\* A blob is summed up in words and marked read only.
Cell(v) ==
  IF v.type = "blob" THEN [v |-> Str("blob"), ro |-> TRUE] ELSE [v |-> v, ro |-> FALSE]

\* row and held are not sent: the row this really is, and what it held.
RowOf(db, h) ==
  [handle |-> IF db \in Viewed THEN None ELSE h, cell |-> Cell(table[db][h]),
   row |-> h, held |-> table[db][h]]

NoReply == [ok |-> FALSE, code |-> "", current |-> Null, rows |-> <<>>, more |-> FALSE,
            stopped |-> FALSE, writable |-> FALSE, sources |-> <<>>, sets |-> 0]
Ok == [NoReply EXCEPT !.ok = TRUE]

\* A page ends at the limit, at the last row or where it gets too big to send.
RowsReplies(q) ==
  LET all == Ordered(q.db, q.sort)
      left == IF q.offset >= Len(all) THEN 0 ELSE Len(all) - q.offset
      full == IF left < Limit THEN left ELSE Limit
  IN  {[Ok EXCEPT !.rows = [i \in 1..n |-> RowOf(q.db, all[q.offset + i])],
                  !.more = n < left, !.stopped = n < full,
                  !.writable = Writable(q.db), !.sets = past.sets] :
       n \in IF full = 0 THEN {0} ELSE 1..full}

\* Text is stored as the column's type has it: a number where it reads as one
\* and the column says so, else the text.
StoredAs(value) ==
  IF value = None THEN {Null}
  ELSE {Str(value)} \cup {Number(t) : t \in Numerals \cap {value}}

\* The row the handle names still holds what was seen.
Matches(q) ==
  /\ q.handle \in Handles
  /\ table[q.db][q.handle] = q.was

CanRun(q) ==
  /\ q.db \in Registered /\ Writable(q.db) /\ q.db \notin Viewed /\ Matches(q)

UpdateReply(q) ==
  IF CanRun(q) THEN Ok
  ELSE IF q.db \in Registered /\ Writable(q.db) /\ q.db \notin Viewed /\ ~Matches(q)
  THEN [NoReply EXCEPT !.code = "row_changed",
                       !.current = IF q.handle \in Handles THEN table[q.db][q.handle] ELSE Null]
  ELSE NoReply

\* What the device may answer to a question that reads.
ReadReplies(q) ==
  CASE q.op = "sources" -> {[Ok EXCEPT !.sources = Sources]}
    [] q.op # "sources" /\ q.db \notin Registered -> {NoReply}
    [] q.op \in {"namespaces", "schema"} /\ q.db \in Registered -> {Ok}
    [] OTHER -> RowsReplies(q)

-----------------------------------------------------------------------------
(* The fragments.                                                          *)

\* rowsURL: every piece of grid state, and only that.
RowsURL(d, offset, sort) == [db |-> d.db, offset |-> offset, sort |-> sort]

\* Slip: Next steps by the page size.
NextByPageSize(d) == RowsURL(d, d.offset + Limit, d.sort)

NextURL(d) == RowsURL(d, d.offset + Len(d.rows), d.sort)

PrevURL(d) == RowsURL(d, IF d.offset > Limit THEN d.offset - Limit ELSE 0, d.sort)

SameURL(d) == RowsURL(d, d.offset, d.sort)

\* The first click on a header sorts up, the next one down.
HeaderURL(d) == RowsURL(d, 0, IF d.sort = "asc" THEN "desc" ELSE "asc")

Arrows(d) ==
  (IF d.offset > 0 THEN {PrevURL(d)} ELSE {}) \cup (IF d.more THEN {NextURL(d)} ELSE {})

\* Where the links of a grid lead: its header, Refresh, and the arrows when there
\* is something behind them.
LiveDBGrid(d) == IF ~d.ok THEN {} ELSE {HeaderURL(d), SameURL(d)} \cup Arrows(d)

\* Slip: a summed-up cell opens as well.
CellsWithHandle(d) == {i \in 1..Len(d.rows) : d.writable /\ d.rows[i].handle # None}

\* liveDBCell: the rows whose cell is a button.
LiveDBCell(d) ==
  {i \in 1..Len(d.rows) : d.writable /\ ~d.rows[i].cell.ro /\ d.rows[i].handle # None}

\* Slip: Esc goes to the first page.
CellURLFirstPage(d, i) ==
  [place |-> RowsURL(d, 0, d.sort), row |-> Float(d.rows[i].handle),
   was |-> ScalarJSON(d.rows[i].cell.v),
   at |-> d.rows[i].row, held |-> d.rows[i].held]

\* Slip: the handle of the row above.
CellURLRowAbove(d, i) ==
  [place |-> SameURL(d), row |-> Float(d.rows[IF i > 1 THEN i - 1 ELSE i].handle),
   was |-> ScalarJSON(d.rows[i].cell.v),
   at |-> d.rows[i].row, held |-> d.rows[i].held]

\* cellURL, LiveDatabaseCell and LiveDBCellEditor: what this page was shown.
\* The handle's own JSON form is left out (a number stays one); at and held are
\* not sent.
CellURL(d, i) ==
  [place |-> SameURL(d), row |-> Float(d.rows[i].handle),
   was |-> ScalarJSON(d.rows[i].cell.v),
   at |-> d.rows[i].row, held |-> d.rows[i].held]

\* LiveDBCellEditor: what its buttons send, the old value's text if nothing was
\* typed over it.  NULL has a button of its own.
CellEditor(e) == Texts \cup {UnquoteJSON(e.was), None}

\* The rail's picker, drawn only over several sources.
SchemaRail == IF Len(pane.sources) > 1 THEN Range(pane.sources) ELSE {}

NoGrid == [db |-> None, offset |-> 0, sort |-> "", ok |-> FALSE, rows |-> <<>>, more |-> FALSE,
           stopped |-> FALSE, writable |-> FALSE]
NoEditor == [place |-> RowsURL(NoGrid, 0, ""), row |-> 0, was |-> Raw(FALSE, ""), at |-> 0,
             held |-> Null]
NoPane == [open |-> FALSE, sources |-> <<>>, selected |-> None, tables |-> FALSE]
NoBanner == [kind |-> "none", id |-> 0]

\* LiveDatabaseRows on the device's answer.
GridOf(q, reply) ==
  [db |-> q.db, offset |-> q.offset, sort |-> q.sort, ok |-> reply.ok, rows |-> reply.rows,
   more |-> reply.more, stopped |-> reply.stopped, writable |-> reply.writable]

\* Slip: whatever is not a conflict went through.
ResultByCode(q, reply) ==
  [kind |-> IF reply.code = "row_changed" THEN "warn" ELSE "ok", id |-> q.id]

LiveDBSaveResult(q, reply) ==
  [kind |-> IF reply.ok THEN "ok" ELSE IF reply.code = "row_changed" THEN "warn" ELSE "err",
   id |-> q.id]

-----------------------------------------------------------------------------
(* Questions.                                                              *)

\* tab: is it the Database tab's; target: is the part of the page the answer is
\* for still there; form: is the form that sent it; from: the sources a namespaces
\* question follows.  base, at and held are what the properties know of it, and
\* are not sent.
Question(by, op, place) ==
  [id |-> count + 1, by |-> by, op |-> op, db |-> place.db, offset |-> place.offset,
   sort |-> place.sort, handle |-> 0, was |-> Null, value |-> None, manage |-> manage,
   tab |-> FALSE, target |-> TRUE, form |-> TRUE, from |-> <<>>,
   base |-> past.base, at |-> 0, held |-> Null, answered |-> FALSE, reply |-> NoReply]

\* askDevice and askDB: a session that is not there is answered 404, which
\* changes nothing on the page; else the hub puts the question.
Ask(q) ==
  /\ count < MaxQuestions
  /\ Cardinality(asked) < MaxOpen
  /\ connected
  /\ count' = count + 1
  /\ asked' = asked \cup {q}
  /\ UNCHANGED <<device, connected, manage, late, page, changes, past>>

\* LiveDatabase, from the stream page's Database tab, which asks again on every
\* click, or from the picker.
LiveDatabase ==
  \/ Ask([Question("page", "sources", RowsURL(NoGrid, 0, "")) EXCEPT !.tab = TRUE])
  \/ \E db \in SchemaRail :
       Ask(Question("page", "sources", [db |-> db, offset |-> 0, sort |-> ""]))

\* The rail's button for a table.
OpenTable ==
  /\ pane.tables
  /\ Ask(Question("page", "rows", [db |-> pane.selected, offset |-> 0, sort |-> ""]))

\* LiveDatabaseRows, from a link of the grid or from the editor's Esc.
LiveDatabaseRows ==
  \E url \in LiveDBGrid(grid) \cup (IF editor = NoEditor THEN {} ELSE {editor.place}) :
    Ask(Question("page", "rows", url))

\* Slip: the editor asks the device for the value again.
CellAsksAgain ==
  /\ connected
  /\ \E i \in LiveDBCell(grid) :
       editor' = [CellURL(grid, i) EXCEPT
                    !.was = ScalarJSON(Cell(table[grid.db][grid.rows[i].row]).v)]
  /\ UNCHANGED <<device, connected, manage, asked, late, pane, grid, banner, count, changes, past>>

\* LiveDatabaseCell answers from the request alone.
LiveDatabaseCell ==
  /\ connected
  /\ \E i \in LiveDBCell(grid) : editor' = CellURL(grid, i)
  /\ UNCHANGED <<device, connected, manage, asked, late, pane, grid, banner, count, changes, past>>

Update(value) ==
  [Question("page", "update", editor.place) EXCEPT
     !.handle = editor.row, !.was = JsonScalar(editor.was), !.value = value,
     !.at = editor.at, !.held = editor.held]

\* LiveDatabaseSave, behind RequireProjectManage: what was typed over the old
\* value's text, or the NULL button.  A form waits for its own answer.
LiveDatabaseSave ==
  /\ editor # NoEditor
  /\ manage
  /\ \A q \in asked : q.op = "update" => ~q.form
  /\ \E value \in CellEditor(editor) : Ask(Update(value))

\* The tools, whose operations are literals.  Nothing here depends on what they
\* read, so the model lets them ask only beside a page that shows no rows.
AgentAsks ==
  /\ asked = {} /\ grid = NoGrid
  /\ \E op \in {"namespaces", "schema", "rows"}, db \in Range(Dbs) :
       \/ Ask(Question("agent", "sources", RowsURL(NoGrid, 0, "")))
       \/ Ask(Question("agent", op, [db |-> db, offset |-> 0, sort |-> ""]))

-----------------------------------------------------------------------------
(* Answers.                                                                *)

\* The grid is swapped: the forms in it go.
Swapped(qs) == {[q EXCEPT !.form = FALSE] : q \in qs}

\* Slip: the picker swaps the rail only.
KeptTargets(qs) == Swapped(qs)

\* The pane is swapped: answers meant for what was in it have nowhere to go.  The
\* Database tab's own question is for the slot the pane stands in.
Detached(qs) ==
  {IF q.op \in {"sources", "namespaces"} /\ q.tab THEN q
   ELSE [q EXCEPT !.target = FALSE, !.form = FALSE] : q \in qs}

Undrawn == UNCHANGED <<page, past>>

\* A page of rows drawn joins the rows shown before it, each with the order and
\* the row set it comes from.  base is the row set of a grid whose links all led
\* here over that row set; a first page starts one, a page of another ends it.
Show(q, reply) ==
  past' = [past EXCEPT
    !.base = IF q.offset = 0 \/ reply.sets = q.base THEN reply.sets ELSE Mixed,
    !.shown = @ \cup {<<reply.sets, q.sort, reply.rows[i].row>> : i \in 1..Len(reply.rows)}]

\* LiveDBPane: an empty slot for the grid and for what a save says.
DrawPane(sources, selected, tables) ==
  /\ pane' = [open |-> TRUE, sources |-> sources, selected |-> selected, tables |-> tables]
  /\ grid' = NoGrid /\ editor' = NoEditor /\ banner' = NoBanner
  /\ past' = [past EXCEPT !.shown = {}, !.base = Mixed]

\* The first answer of LiveDatabase: which database to open.  The second
\* question is of the same request; a session gone by then is a 404.
DrawSources(q, reply) ==
  LET selected == IF q.db = None /\ reply.sources # <<>> THEN reply.sources[1] ELSE q.db
      rest == asked \ {q}
  IN  IF reply.ok /\ selected # None
      THEN /\ asked' = rest \cup
                (IF connected
                 THEN {[q EXCEPT !.op = "namespaces", !.db = selected, !.from = reply.sources,
                                 !.answered = FALSE, !.reply = NoReply]}
                 ELSE {})
           /\ Undrawn
      ELSE /\ asked' = Detached(rest)
           /\ DrawPane(reply.sources, q.db, FALSE)

DrawNamespaces(q, reply) ==
  /\ asked' = Detached(asked \ {q})
  /\ DrawPane(q.from, q.db, reply.ok)

DrawGrid(q, reply) ==
  /\ grid' = GridOf(q, reply)
  /\ editor' = NoEditor
  /\ IF reply.ok THEN Show(q, reply) ELSE UNCHANGED past
  /\ asked' = Swapped(asked \ {q})
  /\ UNCHANGED <<pane, banner>>

\* A save answers into its own slot; on success it tells the grid, which asks for
\* the page it is showing.  A form that is gone tells nobody.
DrawSave(q, reply) ==
  LET reload == reply.ok /\ q.form /\ grid.ok /\ connected
  IN  /\ banner' = LiveDBSaveResult(q, reply)
      /\ asked' = (asked \ {q}) \cup
                  (IF reload THEN {Question("page", "rows", SameURL(grid))} ELSE {})
      /\ count' = IF reload THEN count + 1 ELSE count
      /\ UNCHANGED <<pane, grid, editor, past>>

\* What an answer, or the lack of one, does to the page.
Draw(q, reply) ==
  /\ \/ /\ q.by = "agent" \/ ~q.target
        /\ asked' = asked \ {q}
        /\ Undrawn /\ UNCHANGED count
     \/ /\ q.by = "page" /\ q.target
        /\ \/ q.op = "sources" /\ DrawSources(q, reply) /\ UNCHANGED count
           \/ q.op = "namespaces" /\ DrawNamespaces(q, reply) /\ UNCHANGED count
           \/ q.op = "rows" /\ DrawGrid(q, reply) /\ UNCHANGED count
           \/ q.op = "update" /\ DrawSave(q, reply)
  /\ UNCHANGED <<device, connected, manage, changes>>

\* External: the device works out an answer that reads.
DeviceReads ==
  /\ connected
  /\ \E q \in asked :
       /\ ~q.answered /\ q.op # "update"
       /\ \E reply \in ReadReplies(q) :
            asked' = (asked \ {q}) \cup {[q EXCEPT !.answered = TRUE, !.reply = reply]}
  /\ UNCHANGED <<device, connected, manage, late, page, count, changes, past>>

\* External: an update is run where the row still holds what was seen.
Runs(q) ==
  IF CanRun(q)
  THEN /\ \E v \in StoredAs(q.value) : table' = [table EXCEPT ![q.db][q.handle] = v]
       /\ past' = [past EXCEPT !.run = @ \cup {q.id}]
  ELSE UNCHANGED <<table, past>>

DeviceUpdates ==
  /\ connected
  /\ \E q \in asked :
       /\ ~q.answered /\ q.op = "update"
       /\ Runs(q)
       /\ asked' = (asked \ {q}) \cup {[q EXCEPT !.answered = TRUE, !.reply = UpdateReply(q)]}
  /\ UNCHANGED <<registry, connected, manage, late, page, count, changes>>

\* External: an update nobody waits for is run late, or lost.
LateUpdate ==
  /\ \E q \in late :
       /\ late' = late \ {q}
       /\ Runs(q) \/ UNCHANGED <<table, past>>
  /\ UNCHANGED <<registry, connected, manage, asked, page, count, changes>>

\* The answer reaches the hub and is drawn.
Answered ==
  \E q \in asked :
    /\ q.answered
    /\ Draw(q, q.reply)
    /\ UNCHANGED late

\* ErrDeviceSilent, ErrDeviceGone, or an answer nobody can read.  What the device
\* was told to do it may still do.
AskFails ==
  \E q \in asked :
    /\ Draw(q, NoReply)
    /\ late' = IF q.op = "update" /\ ~q.answered THEN late \cup {q} ELSE late

-----------------------------------------------------------------------------
(* Behind the page.                                                        *)

Changed ==
  /\ changes < MaxChanges
  /\ changes' = changes + 1
  /\ UNCHANGED <<asked, late, page, count>>

\* External: the app writes a row, or deletes one.
AppWrites ==
  /\ Changed
  /\ \E db \in Registered, v \in {Number("1"), Blob, Gone} :
       \E h \in Present(db) :
         /\ v # table[db][h]
         /\ table' = [table EXCEPT ![db][h] = v]
         /\ past' = [past EXCEPT !.sets = IF v = Gone THEN @ + 1 ELSE @]
  /\ UNCHANGED <<registry, connected, manage>>

\* External: the app registers its databases anew.
AppRegisters ==
  /\ Changed
  /\ \E db \in Range(Dbs), how \in {"absent", "reading", "writing"} :
       registry' = [registry EXCEPT ![db] = how]
  /\ UNCHANGED <<table, connected, manage, past>>

\* The session leaves the hub; a device that comes back has another.
Disconnects ==
  /\ connected
  /\ Changed
  /\ connected' = FALSE
  /\ UNCHANGED <<device, manage, past>>

\* Somebody lowers the reader's level.
Demoted ==
  /\ manage
  /\ Changed
  /\ manage' = FALSE
  /\ UNCHANGED <<device, connected, past>>

Init ==
  /\ \E s \in Starts : table = s.table /\ registry = s.registry
  /\ connected = TRUE /\ manage = TRUE
  /\ asked = {} /\ late = {}
  /\ pane = NoPane /\ grid = NoGrid /\ editor = NoEditor /\ banner = NoBanner
  /\ count = 0 /\ changes = 0
  /\ past = [shown |-> {}, base |-> Mixed, sets |-> 0, run |-> {}]

Next ==
  \/ LiveDatabase \/ OpenTable \/ LiveDatabaseRows \/ LiveDatabaseCell \/ LiveDatabaseSave
  \/ AgentAsks \/ DeviceReads \/ DeviceUpdates \/ LateUpdate \/ Answered \/ AskFails
  \/ AppWrites \/ AppRegisters \/ Disconnects \/ Demoted

Spec == Init /\ [][Next]_vars

-----------------------------------------------------------------------------
(* Properties.                                                             *)

\* Every part of the state keeps its shape; a question's old value is one the
\* device's values can be compared with (jsonScalar), and a value written is one
\* a column can hold.
TypeOK ==
  /\ table \in [Range(Dbs) -> [Handles -> Values \cup {Gone}]]
  /\ registry \in [Range(Dbs) -> {"absent", "reading", "writing"}]
  /\ connected \in BOOLEAN /\ manage \in BOOLEAN /\ count \in Nat /\ changes \in 0..MaxChanges
  /\ \A q \in asked \cup late :
       /\ q.id \in 1..count /\ q.db \in Range(Dbs) \cup {None} /\ q.offset \in Nat
       /\ q.op \in {"sources", "namespaces", "schema", "rows", "update"}
       /\ q.was \in Values
       /\ q.op = "update" => q.at \in Handles
  /\ grid.db \in Range(Dbs) \cup {None} /\ grid.offset \in Nat
  /\ pane.selected \in Range(Dbs) \cup {None} /\ Range(pane.sources) \subseteq Range(Dbs)
  /\ banner.kind \in {"none", "ok", "warn", "err"}
  /\ past.run \subseteq 1..count

\* What was run in this step.
RunNow == {q \in asked \cup late : q.id \in past'.run \ past.run}

\* A write lands on the row the editor was opened on and replaces the value that
\* row held when its page was read, whatever the app, a retry or a late answer did
\* in between (cellURL: "what lets the device reject a row the app changed
\* underneath").  Rows numbered past 2^53 are excepted: their handle is rounded.
NoLostUpdate ==
  [][\A q \in RunNow :
       \/ q.at > Exact
       \/ /\ table[q.db][q.at] = q.held
          /\ \A db \in Range(Dbs), h \in Handles :
               table'[db][h] # table[db][h] => db = q.db /\ h = q.at]_vars

\* A row nobody has touched since it was shown is never refused as a conflict: a
\* value goes out and comes back with its type (scalarJSON, jsonScalar), and a
\* cell shown only in part is not offered.  Rounded handles are excepted.
RefusalsAreHonest ==
  [][\A q \in asked, a \in asked' :
       /\ a.id = q.id /\ ~q.answered /\ a.answered
       /\ a.reply.code = "row_changed" /\ q.at <= Exact
       => table[q.db][q.at] # q.held]_vars

\* "updated" means the write was run, and "Nothing was written" that it was not.
BannersAreTrue ==
  /\ banner.kind = "ok" => banner.id \in past.run
  /\ banner.kind = "warn" => banner.id \notin past.run

\* The grid is of the database picked on the rail, however late answers arrive.
GridIsOfThePane == grid.db # None => pane.selected = grid.db

\* Esc goes back to the page the open editor stands on.
EscKeepsThePlace == editor # NoEditor => editor.place = SameURL(grid)

\* The parts of the page belong together and tell the truth, each of them swapped
\* by answers of its own: picker and grid, grid and editor, banner and device.
PageBelongsTogether == TypeOK /\ GridIsOfThePane /\ EscKeepsThePlace /\ BannersAreTrue

\* Whatever arrows were pressed, and however early pages stopped for size, every
\* row before the end of the page on the screen has been on the screen; and
\* without a next page, every row has.
PagesLeaveNothingOut ==
  grid.ok /\ past.base = past.sets =>
    LET all == Ordered(grid.db, grid.sort)
        end == IF grid.more THEN grid.offset + Len(grid.rows) ELSE Len(all)
    IN  \A i \in 1..end : <<past.base, grid.sort, all[i]>> \in past.shown

=============================================================================
