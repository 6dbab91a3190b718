---------------------------- MODULE LiveDbProofs ----------------------------
(***************************************************************************)
(* Proofs about the database browser: no write replaces what its author    *)
(* was not shown, no row nobody touched is refused, the parts of the page  *)
(* belong together and paging leaves no row out; for any tables, any number*)
(* of questions under way, and answers that are late, lost or out of order.*)
(***************************************************************************)
EXTENDS LiveDb, FunctionTheorems, FiniteSetTheorems, TLAPS

----------------------------------------------------------------------------
(* Types.                                                                  *)

Names == Range(Dbs)
Sorts == {"", "asc", "desc"}
Ops == {"sources", "namespaces", "schema", "rows", "update"}
TypedIn == Texts \cup Numerals \cup {"", None}

PlaceType == [db: Names \cup {None}, offset: Nat, sort: Sorts]
CellType == [v: Values, ro: BOOLEAN] \cup {[v |-> Str("blob"), ro |-> TRUE]}
RowType ==
  [handle: Handles \cup {None}, cell: CellType, row: Handles, held: Values]
ReplyType ==
  [ok: BOOLEAN, code: {"", "row_changed"}, current: Values \cup {Gone}, rows: Seq(RowType),
   more: BOOLEAN, stopped: BOOLEAN, writable: BOOLEAN, sources: Seq(Names), sets: Nat]
QuestionType ==
  [id: Nat, by: {"page", "agent"}, op: Ops, db: Names \cup {None}, offset: Nat, sort: Sorts,
   handle: Nat, was: Values, value: TypedIn, manage: BOOLEAN, tab: BOOLEAN, target: BOOLEAN,
   form: BOOLEAN, from: Seq(Names), base: Int, at: Nat, held: Values, answered: BOOLEAN,
   reply: ReplyType]
RawType == [quoted: BOOLEAN, text: Texts \cup Numerals \cup {""}] \cup {Raw(FALSE, "null")}
GridType ==
  [db: Names \cup {None}, offset: Nat, sort: Sorts, ok: BOOLEAN, rows: Seq(RowType), more: BOOLEAN,
   stopped: BOOLEAN, writable: BOOLEAN]
EditorType == [place: PlaceType, row: Nat, was: RawType, at: Nat, held: Values]
PaneType == [open: BOOLEAN, sources: Seq(Names), selected: Names \cup {None}, tables: BOOLEAN]
BannerType == [kind: {"none", "ok", "warn", "err"}, id: Nat]
PastType == [shown: SUBSET (Nat \X Sorts \X Handles), base: Int, sets: Nat, run: SUBSET Nat]

Typed ==
  /\ table \in [Names -> [Handles -> Values \cup {Gone}]]
  /\ registry \in [Names -> {"absent", "reading", "writing"}]
  /\ connected \in BOOLEAN /\ manage \in BOOLEAN
  /\ count \in Nat /\ changes \in 0 .. MaxChanges
  /\ asked \subseteq QuestionType /\ late \subseteq QuestionType
  /\ pane \in PaneType /\ grid \in GridType /\ editor \in EditorType /\ banner \in BannerType
  /\ past \in PastType

----------------------------------------------------------------------------
(* The inductive invariant.                                                *)

Numbered(q) == q.id \in 1 .. count

\* A number is one question's, and that is waited for or left behind.
OneEach ==
  /\ \A q \in asked \cup late : Numbered(q)
  /\ \A q, a \in asked : q.id = a.id => q = a
  /\ \A q, a \in late : q.id = a.id => q = a
  /\ \A q \in asked, a \in late : q.id # a.id

\* What was drawn is what the device said of the row.
Shows(row) == row.cell = Cell(row.held) /\ row.handle \in {row.row, None}
ShowsAll(rows) == \A i \in 1 .. Len(rows) : Shows(rows[i])

\* A question that writes names the row and the value its author was shown.
Says(q) == q.op = "update" => q.at \in Handles /\ q.handle = Float(q.at) /\ q.was = q.held

\* What an answer means: the write was run, or it was not; rows come from the
\* device.
Means(q) ==
  /\ q.reply.code = "row_changed" => q.op = "update" /\ ~q.reply.ok
  /\ q.answered \/ q.reply = NoReply
  /\ q.id \in past.run <=> q.op = "update" /\ q.answered /\ q.reply.ok
  /\ ShowsAll(q.reply.rows) /\ (Len(q.reply.rows) > 0 => q.reply.ok)

Questions ==
  /\ \A q \in asked : Says(q) /\ Means(q)
  /\ \A q \in late : Says(q) /\ q.op = "update" /\ q.id \notin past.run
  /\ \A i \in past.run : i \in 1 .. count

\* The last save that was refused is over.
Refused ==
  banner.kind = "warn" =>
    banner.id \in 1 .. count /\ \A q \in asked \cup late : q.id # banner.id

ForThePage(q) == q.by = "page" /\ q.target /\ q.op = "rows"

\* Rows asked for are of the database on the rail, as those on the screen are, and
\* the editor stands among them.
InPlace ==
  /\ \A q \in asked : ForThePage(q) => q.db = pane.selected
  /\ grid.db # None \/ grid.ok => grid.db = pane.selected
  /\ ShowsAll(grid.rows) /\ (Len(grid.rows) > 0 => grid.ok)
  /\ editor # NoEditor =>
       /\ grid.ok /\ editor.place = SameURL(grid)
       /\ editor.at \in Handles /\ editor.row = Float(editor.at)
       /\ editor.held # Blob /\ editor.was = ScalarJSON(editor.held)

\* A page of the rows as they are: where it starts, and whether it is the last.
Cut(d) ==
  LET all == Ordered(d.db, d.sort)
  IN  /\ \A i \in 1 .. Len(d.rows) :
           d.offset + i \in 1 .. Len(all) /\ d.rows[i].row = all[d.offset + i]
      /\ ~d.more => d.offset + Len(d.rows) >= Len(all)
      /\ d.more => d.offset + Len(d.rows) <= Len(all)

\* The first n rows have been on the screen.
Covered(db, sort, n) ==
  LET all == Ordered(db, sort)
  IN  \A i \in 1 .. Len(all) : i <= n => <<past.sets, sort, all[i]>> \in past.shown

\* What is said of the rows as they are now holds now; what was said of earlier
\* ones is marked by their number.
PagedQuestion(q) ==
  /\ q.base <= past.sets /\ q.reply.sets <= past.sets
  /\ q.op = "rows" /\ q.reply.ok => q.db \in Names
  /\ q.op = "rows" /\ q.reply.ok /\ q.reply.sets = past.sets => Cut(GridOf(q, q.reply))
  /\ ForThePage(q) /\ q.base = past.sets /\ q.db \in Names => Covered(q.db, q.sort, q.offset)

PagedGrid ==
  /\ grid.ok => grid.db \in Names
  /\ grid.ok /\ past.base = past.sets =>
       Cut(grid) /\ Covered(grid.db, grid.sort, grid.offset + Len(grid.rows))

Paged ==
  /\ past.base <= past.sets
  /\ \A q \in asked : PagedQuestion(q)
  /\ PagedGrid

IInv == OneEach /\ Questions /\ BannersAreTrue /\ Refused /\ InPlace /\ Paged

----------------------------------------------------------------------------
(* Order.                                                                  *)

\* A set of n numbers has a k-th for every k up to n: the places of its members
\* differ, and are as many as they are.
LEMMA NthIs ==
  ASSUME NEW S \in SUBSET Nat, IsFiniteSet(S), NEW k \in 1 .. Cardinality(S)
  PROVE  Nth(S, k) \in S
<1> DEFINE Below(x) == {m \in S : m < x}
<1> DEFINE place == [x \in S |-> Cardinality(Below(x)) + 1]
<1>1. Cardinality(S) \in Nat
  BY FS_CardinalityType
<1>2. \A x \in S : /\ IsFiniteSet(Below(x)) /\ Cardinality(Below(x)) \in Nat
                   /\ Cardinality(Below(x)) < Cardinality(S)
  <2> SUFFICES ASSUME NEW x \in S
               PROVE  /\ IsFiniteSet(Below(x)) /\ Cardinality(Below(x)) \in Nat
                      /\ Cardinality(Below(x)) < Cardinality(S)
    OBVIOUS
  <2>1. Below(x) \in SUBSET S /\ Below(x) # S
    OBVIOUS
  <2> HIDE DEF Below
  <2>2. IsFiniteSet(Below(x)) /\ Cardinality(Below(x)) \in Nat
    BY <2>1, FS_Subset, FS_CardinalityType
  <2> QED
    BY <1>1, <2>1, <2>2, FS_Subset
<1>3. \A x, y \in S : x < y => Cardinality(Below(x)) < Cardinality(Below(y))
  <2> SUFFICES ASSUME NEW x \in S, NEW y \in S, x < y
               PROVE  Cardinality(Below(x)) < Cardinality(Below(y))
    OBVIOUS
  <2>1. \A m \in S : m < x => m < y
    <3>1. S \subseteq Nat
      OBVIOUS
    <3> QED
      BY <3>1
  <2>2. Below(x) \in SUBSET Below(y) /\ x \in Below(y) /\ x \notin Below(x)
    <3>1. ~(x < x)
      <4>1. S \subseteq Nat
        OBVIOUS
      <4> QED
        BY <4>1
    <3> QED
      BY <2>1, <3>1
  <2> HIDE DEF Below
  <2>3. Below(x) # Below(y)
    BY <2>2
  <2> QED
    BY <1>2, <2>2, <2>3, FS_Subset
<1>4. place \in Injection(S, 1 .. Cardinality(S))
  <2>1. \A x \in S : place[x] \in 1 .. Cardinality(S)
    <3> HIDE DEF Below
    <3> QED
      BY <1>1, <1>2
  <2>2. ASSUME NEW x \in S, NEW y \in S, place[x] = place[y]
        PROVE  x = y
    <3>1. Cardinality(Below(x)) = Cardinality(Below(y))
      <4> HIDE DEF Below
      <4> QED
        BY <1>2, <2>2
    <3>2. ~(x < y) /\ ~(y < x)
      <4> HIDE DEF Below
      <4> QED
        BY <1>2, <1>3, <3>1
    <3> QED
      BY <3>2
  <2>3. place \in [S -> 1 .. Cardinality(S)]
    <3> HIDE DEF Below
    <3> QED
      BY <2>1
  <2> HIDE DEF place
  <2> QED
    BY <2>2, <2>3 DEF Injection, IsInjective
<1>5. place \in Surjection(S, 1 .. Cardinality(S))
  <2> HIDE DEF place
  <2> QED
    BY <1>1, <1>4, FS_Injection, FS_Interval
<1>6. PICK x \in S : place[x] = k
  <2> HIDE DEF place
  <2> QED
    BY <1>5 DEF Surjection
<1>7. Cardinality(Below(x)) = k - 1
  <2> HIDE DEF Below
  <2> QED
    BY <1>2, <1>6
<1> QED
  BY <1>7 DEF Nth

\* The rows that are there, one after the other.
LEMMA OrderedIs ==
  ASSUME NEW db, NEW sort
  PROVE  /\ Present(db) \subseteq Handles /\ Cardinality(Present(db)) \in Nat
         /\ Ordered(db, sort) \in Seq(Present(db))
         /\ Len(Ordered(db, sort)) = Cardinality(Present(db))
         /\ \A i \in 1 .. Len(Ordered(db, sort)) : Ordered(db, sort)[i] \in Present(db)
<1>1. Present(db) \in SUBSET Handles /\ Present(db) \in SUBSET Nat
  BY LiveDbAssumption DEF Present
<1>2. IsFiniteSet(Present(db)) /\ Cardinality(Present(db)) \in Nat
  BY <1>1, LiveDbAssumption, FS_Subset, FS_CardinalityType
<1> DEFINE S == Present(db)  n == Cardinality(S)
           at(k) == Nth(S, IF sort = "desc" THEN n + 1 - k ELSE k)
<1>3. \A k \in 1 .. n : at(k) \in S
  <2> SUFFICES ASSUME NEW k \in 1 .. n PROVE at(k) \in S
    OBVIOUS
  <2> DEFINE j == IF sort = "desc" THEN n + 1 - k ELSE k
  <2>1. j \in 1 .. n
    <3>1. n \in Nat
      BY <1>2
    <3> HIDE DEF n
    <3> QED
      BY <3>1
  <2> HIDE DEF j, S
  <2>2. Nth(S, j) \in S
    BY <1>1, <1>2, <2>1, NthIs DEF S
  <2> QED
    BY <2>2 DEF j
<1>4. Ordered(db, sort) = [k \in 1 .. n |-> at(k)]
  BY DEF Ordered
<1> HIDE DEF at, S, n
<1>5. n \in Nat /\ n = Cardinality(Present(db)) /\ S = Present(db)
  BY <1>2 DEF n, S
<1>6. Ordered(db, sort) \in Seq(Present(db)) /\ Len(Ordered(db, sort)) = n
  BY <1>3, <1>4, <1>5
<1> QED
  BY <1>1, <1>2, <1>3, <1>4, <1>5, <1>6

\* The sources are names.
LEMMA SourcesAre == Sources \in Seq(Names)
<1> DEFINE S == {i \in DOMAIN Dbs : Dbs[i] \in Registered}
<1>1. Dbs \in Seq(STRING) /\ Len(Dbs) \in Nat /\ DOMAIN Dbs = 1 .. Len(Dbs)
  BY LiveDbAssumption
<1>2. S \in SUBSET (1 .. Len(Dbs)) /\ S \in SUBSET Nat
  BY <1>1
<1>3. IsFiniteSet(S) /\ Cardinality(S) \in Nat
  <2>1. IsFiniteSet(1 .. Len(Dbs))
    BY <1>1, FS_Interval
  <2> HIDE DEF S
  <2> QED
    BY <1>2, <2>1, FS_Subset, FS_CardinalityType
<1>4. \A k \in 1 .. Cardinality(S) : Nth(S, k) \in S
  <2> HIDE DEF S
  <2> QED
    BY <1>2, <1>3, NthIs
<1>5. \A k \in 1 .. Cardinality(S) : Dbs[Nth(S, k)] \in Names
  <2> HIDE DEF S
  <2> QED
    BY <1>1, <1>2, <1>4 DEF Names, Range
<1>6. Sources = [k \in 1 .. Cardinality(S) |-> Dbs[Nth(S, k)]]
  BY DEF Sources
<1> HIDE DEF S
<1> QED
  BY <1>3, <1>5, <1>6

----------------------------------------------------------------------------
(* Values on their way out and back.                                       *)

\* The ways a field is read.
LEMMA Reading ==
  ASSUME NEW t
  PROVE  /\ JsonScalar(Raw(TRUE, t)) = Str(t)
         /\ JsonScalar(Raw(FALSE, "null")) = Null
         /\ t \in Numerals => JsonScalar(Raw(FALSE, t)) = Number(t)
         /\ t \notin Numerals \cup {"", "null"} => JsonScalar(Raw(FALSE, t)) = Str(t)
         /\ JsonScalar(Raw(FALSE, "")) = Null
<1>1. JsonScalar(Raw(TRUE, t)) = Str(t)
  BY DEF JsonScalar, Raw
<1>2. JsonScalar(Raw(FALSE, "null")) = Null
  BY DEF JsonScalar, Raw, Numerals
<1>3. t \in Numerals => JsonScalar(Raw(FALSE, t)) = Number(t)
  BY DEF JsonScalar, Raw, Numerals
<1>4. t \notin Numerals \cup {"", "null"} => JsonScalar(Raw(FALSE, t)) = Str(t)
  BY DEF JsonScalar, Raw
<1>5. JsonScalar(Raw(FALSE, "")) = Null
  BY DEF JsonScalar, Raw, Numerals
<1> QED
  BY <1>1, <1>2, <1>3, <1>4, <1>5

\* What is not cut short comes back as it went out, with its type (scalarJSON,
\* jsonScalar).
LEMMA ComesBack ==
  ASSUME NEW v \in Values, v # Blob
  PROVE  ScalarJSON(v) \in RawType /\ JsonScalar(ScalarJSON(v)) = v
<1>1. CASE v = Null
  <2>1. ScalarJSON(v) = Raw(FALSE, "null")
    BY <1>1 DEF ScalarJSON, Null
  <2> QED
    BY <1>1, <2>1, Reading DEF RawType
<1>2. CASE \E t \in Texts \cup Numerals \cup {""} : v = Str(t)
  <2>1. PICK t \in Texts \cup Numerals \cup {""} : v = Str(t)
    BY <1>2
  <2>2. ScalarJSON(v) = Raw(TRUE, t)
    BY <2>1 DEF ScalarJSON, Str
  <2>3. Raw(TRUE, t) \in RawType
    BY DEF RawType, Raw
  <2> QED
    BY <2>1, <2>2, <2>3, Reading
<1>3. CASE \E t \in Numerals : v = Number(t)
  <2>1. PICK t \in Numerals : v = Number(t)
    BY <1>3
  <2>2. ScalarJSON(v) = Raw(FALSE, t)
    BY <2>1 DEF ScalarJSON, Number, Null
  <2>3. Raw(FALSE, t) \in RawType
    BY DEF RawType, Raw
  <2> QED
    BY <2>1, <2>2, <2>3, Reading
<1> QED
  BY <1>1, <1>2, <1>3 DEF Values

\* A form field is read as a value a cell may hold.
LEMMA RawsAreRead ==
  ASSUME NEW raw \in RawType
  PROVE  JsonScalar(raw) \in Values
<1>1. CASE raw = Raw(FALSE, "null")
  BY <1>1, Reading DEF Values
<1>2. CASE raw \in [quoted: BOOLEAN, text: Texts \cup Numerals \cup {""}]
  <2>1. PICK t \in Texts \cup Numerals \cup {""}, f \in BOOLEAN : raw = Raw(f, t)
    BY <1>2 DEF Raw
  <2>2. Null \in Values /\ Str(t) \in Values /\ (t \in Numerals => Number(t) \in Values)
    BY <2>1 DEF Values
  <2>3. CASE f = TRUE
    BY <2>1, <2>2, <2>3, Reading
  <2>4. CASE f = FALSE
    BY <2>1, <2>2, <2>4, Reading
  <2> QED
    BY <2>1, <2>3, <2>4
<1> QED
  BY <1>1, <1>2 DEF RawType

\* A handle stays a number, and the number it is up to the bound.
LEMMA Rounded ==
  ASSUME NEW n \in Nat
  PROVE  Float(n) \in Nat /\ (n <= Exact => Float(n) = n)
  BY LiveDbAssumption DEF Float

----------------------------------------------------------------------------
(* Questions.                                                              *)

\* a is q as the page left it: what is asked and what is known of it stay, and
\* nothing is drawn that would not have been.
Same(a, q) ==
  /\ a.id = q.id /\ a.by = q.by /\ a.op = q.op /\ a.db = q.db /\ a.offset = q.offset
  /\ a.sort = q.sort /\ a.handle = q.handle /\ a.was = q.was /\ a.value = q.value
  /\ a.base = q.base /\ a.at = q.at /\ a.held = q.held /\ (a.answered <=> q.answered)
  /\ a.reply = q.reply /\ a.from = q.from /\ (a.target => q.target)

LEMMA SwappedOne ==
  ASSUME NEW q \in QuestionType
  PROVE  [q EXCEPT !.form = FALSE] \in QuestionType /\ Same([q EXCEPT !.form = FALSE], q)
BY DEF QuestionType, Same

\* The grid is swapped: nothing asked is changed.
LEMMA SwappedIs ==
  ASSUME NEW qs, qs \subseteq QuestionType, NEW a \in Swapped(qs)
  PROVE  a \in QuestionType /\ \E q \in qs : a = [q EXCEPT !.form = FALSE] /\ Same(a, q)
<1>1. PICK q \in qs : a = [q EXCEPT !.form = FALSE]
  BY DEF Swapped
<1> QED
  BY <1>1, SwappedOne

\* What the pane does to a question.
Left(q) ==
  IF q.op \in {"sources", "namespaces"} /\ q.tab THEN q
  ELSE [q EXCEPT !.target = FALSE, !.form = FALSE]

LEMMA DetachedOne ==
  ASSUME NEW q \in QuestionType
  PROVE  Left(q) \in QuestionType /\ Same(Left(q), q) /\ ~ForThePage(Left(q))
<1>1. CASE q.op \in {"sources", "namespaces"} /\ q.tab
  BY <1>1 DEF Left, QuestionType, Same, ForThePage
<1>2. CASE ~(q.op \in {"sources", "namespaces"} /\ q.tab)
  <2> DEFINE a == [q EXCEPT !.target = FALSE, !.form = FALSE]
  <2>1. a \in QuestionType /\ Same(a, q) /\ ~a.target
    BY DEF QuestionType, Same
  <2>2. Left(q) = a
    BY <1>2 DEF Left
  <2> HIDE DEF a
  <2> QED
    BY <2>1, <2>2 DEF ForThePage
<1> QED
  BY <1>1, <1>2

\* The pane is swapped: no rows are waited for any more.
LEMMA DetachedIs ==
  ASSUME NEW qs, qs \subseteq QuestionType, NEW a \in Detached(qs)
  PROVE  a \in QuestionType /\ ~ForThePage(a) /\ \E q \in qs : a = Left(q) /\ Same(a, q)
<1>1. PICK q \in qs : a = Left(q)
  BY DEF Detached, Left
<1> QED
  BY <1>1, DetachedOne

\* The device answers.
With(q, reply) == [q EXCEPT !.answered = TRUE, !.reply = reply]

LEMMA WithIs ==
  ASSUME NEW q \in QuestionType, NEW reply \in ReplyType
  PROVE  LET a == With(q, reply)
         IN  /\ a \in QuestionType /\ a.answered /\ a.reply = reply
             /\ a.id = q.id /\ a.by = q.by /\ a.op = q.op /\ a.db = q.db /\ a.offset = q.offset
             /\ a.sort = q.sort /\ a.handle = q.handle /\ a.was = q.was /\ a.value = q.value
             /\ a.base = q.base /\ a.at = q.at /\ a.held = q.held /\ (a.target <=> q.target)
             /\ a.from = q.from
BY DEF With, QuestionType

LEMMA NoReplyIs ==
  /\ NoReply \in ReplyType
  /\ ~NoReply.ok /\ NoReply.code = "" /\ NoReply.rows = <<>> /\ NoReply.sets = 0
  /\ NoReply.sources = <<>>
<1>1. Null \in Values
  BY DEF Values
<1> QED
  BY <1>1 DEF NoReply, ReplyType

\* The second question of one request.
Further(q, reply, selected) ==
  [q EXCEPT !.op = "namespaces", !.db = selected, !.from = reply.sources,
            !.answered = FALSE, !.reply = NoReply]

LEMMA FurtherIs ==
  ASSUME NEW q \in QuestionType, NEW reply \in ReplyType, NEW selected \in Names
  PROVE  LET a == Further(q, reply, selected)
         IN  /\ a \in QuestionType /\ ~a.answered /\ a.reply = NoReply
             /\ a.id = q.id /\ a.op = "namespaces" /\ a.base = q.base /\ a.db = selected
             /\ a.from = reply.sources
<1>1. NoReply \in ReplyType /\ reply.sources \in Seq(Names)
  BY NoReplyIs DEF ReplyType
<1> HIDE DEF NoReply, ReplyType
<1> QED
  BY <1>1 DEF Further, QuestionType, Ops

\* A question as it is put.
LEMMA QuestionIs ==
  ASSUME Typed, NEW by \in {"page", "agent"}, NEW op \in Ops, NEW place \in PlaceType,
         NEW q, q = Question(by, op, place)
  PROVE  /\ q \in QuestionType
         /\ q.id = count + 1 /\ q.by = by /\ q.op = op /\ q.db = place.db
         /\ q.offset = place.offset /\ q.sort = place.sort /\ q.base = past.base
         /\ ~q.answered /\ q.reply = NoReply /\ q.target
<1>1. NoReply \in ReplyType /\ Null \in Values
  BY NoReplyIs DEF Values
<1>2. count + 1 \in Nat /\ manage \in BOOLEAN /\ past.base \in Int
  BY DEF Typed, PastType
<1>3. place.db \in Names \cup {None} /\ place.offset \in Nat /\ place.sort \in Sorts
  BY DEF PlaceType
<1>4. <<>> \in Seq(Names) /\ None \in TypedIn
  BY DEF TypedIn
<1> HIDE DEF NoReply, ReplyType, Null, Values, TypedIn, Sorts
<1> QED
  BY <1>1, <1>2, <1>3, <1>4 DEF Question, QuestionType

\* An update as it is put.
LEMMA UpdateIs ==
  ASSUME Typed, NEW value \in TypedIn, NEW a, a = Update(value)
  PROVE  /\ a \in QuestionType
         /\ a.id = count + 1 /\ a.by = "page" /\ a.op = "update" /\ a.base = past.base
         /\ a.handle = editor.row /\ a.was = JsonScalar(editor.was)
         /\ a.at = editor.at /\ a.held = editor.held
         /\ ~a.answered /\ a.reply = NoReply
<1>1. /\ editor.place \in PlaceType /\ editor.row \in Nat /\ editor.at \in Nat
      /\ editor.held \in Values /\ editor.was \in RawType
  <2>1. editor \in EditorType
    BY DEF Typed
  <2> HIDE DEF PlaceType, Values, RawType
  <2> QED BY <2>1 DEF EditorType
<1>2. JsonScalar(editor.was) \in Values
  BY <1>1, RawsAreRead
<1> DEFINE q == Question("page", "update", editor.place)
<1>3. a = [q EXCEPT !.handle = editor.row, !.was = JsonScalar(editor.was),
                    !.value = value, !.at = editor.at, !.held = editor.held]
  BY DEF Update
<1>4. "page" \in {"page", "agent"} /\ "update" \in Ops /\ q = Question("page", "update", editor.place)
  BY DEF Ops
<1> HIDE DEF q, NoReply, ReplyType, Values, TypedIn
<1>5. /\ q \in QuestionType /\ q.id = count + 1 /\ q.by = "page" /\ q.op = "update"
      /\ q.base = past.base /\ ~q.answered /\ q.reply = NoReply
  <2>1. editor.place \in PlaceType
    BY <1>1
  <2> QED BY <1>4, <2>1, QuestionIs
<1> DEFINE w == JsonScalar(editor.was)
<1> HIDE DEF w
<1>6. a = [q EXCEPT !.handle = editor.row, !.was = w, !.value = value,
                    !.at = editor.at, !.held = editor.held]
  BY <1>3 DEF w
<1>7. w \in Values
  BY <1>2 DEF w
<1>8. a \in QuestionType
  <2> DEFINE b == [q EXCEPT !.handle = editor.row, !.was = w, !.value = value]
  <2>1. b \in QuestionType
    BY <1>1, <1>5, <1>7 DEF QuestionType
  <2>2. a = [b EXCEPT !.at = editor.at, !.held = editor.held]
    BY <1>5, <1>6 DEF QuestionType
  <2> HIDE DEF b
  <2> QED BY <1>1, <2>1, <2>2 DEF QuestionType
<1>9. /\ a.id = q.id /\ a.by = q.by /\ a.op = q.op /\ a.base = q.base
      /\ a.answered = q.answered /\ a.reply = q.reply
  BY <1>5, <1>6 DEF QuestionType
<1>10. a.handle = editor.row /\ a.was = w /\ a.at = editor.at /\ a.held = editor.held
  BY <1>5, <1>6 DEF QuestionType
<1> HIDE DEF QuestionType
<1> QED
  BY <1>5, <1>8, <1>9, <1>10 DEF w

\* The Database tab's own.
LEMMA TabIs ==
  ASSUME Typed, NEW place \in PlaceType, NEW a,
         a = [Question("page", "sources", place) EXCEPT !.tab = TRUE]
  PROVE  /\ a \in QuestionType /\ a.id = count + 1 /\ a.op = "sources" /\ a.base = past.base
         /\ ~a.answered /\ a.reply = NoReply
<1> DEFINE q == Question("page", "sources", place)
<1>1. "page" \in {"page", "agent"} /\ "sources" \in Ops /\ q = Question("page", "sources", place)
  BY DEF Ops
<1>2. a = [q EXCEPT !.tab = TRUE]
  OBVIOUS
<1> HIDE DEF q, NoReply, ReplyType
<1>3. /\ q \in QuestionType /\ q.id = count + 1 /\ q.by = "page" /\ q.op = "sources"
      /\ q.base = past.base /\ ~q.answered /\ q.reply = NoReply
  BY <1>1, QuestionIs
<1> QED
  BY <1>2, <1>3 DEF QuestionType

----------------------------------------------------------------------------
(* What the device answers.                                                *)

LEMMA OkIs ==
  /\ Ok \in ReplyType /\ Ok.ok /\ Ok.code = "" /\ Ok.rows = <<>> /\ Ok.sets = 0
  /\ Ok.sources = <<>>
BY NoReplyIs DEF Ok, ReplyType

\* A row is sent with what it holds, or with the words for it.
LEMMA RowIs ==
  ASSUME Typed, NEW db \in Names, NEW h \in Present(db), NEW r, r = RowOf(db, h)
  PROVE  r \in RowType /\ Shows(r) /\ r.row = h /\ r.held = table[db][h]
<1>1. h \in Handles /\ table[db][h] \in Values
  BY DEF Typed, Present
<1>2. \A v \in Values : Cell(v) \in CellType
  BY DEF Cell, CellType
<1> HIDE DEF Values, CellType
<1> QED
  BY <1>1, <1>2 DEF RowOf, RowType, Shows

\* A page of rows is cut out of the rows as they are.
LEMMA RowsRepliesAre ==
  ASSUME Typed, NEW q \in QuestionType, q.db \in Names, NEW reply \in RowsReplies(q)
  PROVE  /\ reply \in ReplyType /\ reply.code = "" /\ reply.ok /\ reply.sets = past.sets
         /\ ShowsAll(reply.rows) /\ Cut(GridOf(q, reply))
<1> DEFINE all == Ordered(q.db, q.sort)
           left == IF q.offset >= Len(all) THEN 0 ELSE Len(all) - q.offset
           full == IF left < Limit THEN left ELSE Limit
           rows(n) == [i \in 1 .. n |-> RowOf(q.db, all[q.offset + i])]
<1>1. PICK n \in (IF full = 0 THEN {0} ELSE 1 .. full) :
        reply = [Ok EXCEPT !.rows = rows(n), !.more = n < left, !.stopped = n < full,
                           !.writable = Writable(q.db), !.sets = past.sets]
  BY DEF RowsReplies
<1>2. q.offset \in Nat /\ q.db \in Names /\ past.sets \in Nat
  BY DEF QuestionType, Typed, PastType
<1>3. Len(all) \in Nat /\ \A i \in 1 .. Len(all) : all[i] \in Present(q.db)
  BY OrderedIs
<1> HIDE DEF all
<1>4. left \in Nat /\ full \in Nat /\ n \in Nat /\ n <= left
  BY <1>2, <1>3, LiveDbAssumption
<1>5. n # 0 => q.offset + n <= Len(all)
  BY <1>2, <1>3, <1>4
<1>6. n >= left => q.offset + n >= Len(all)
  BY <1>2, <1>3, <1>4
<1> HIDE DEF left, full
<1>7. \A i \in 1 .. n : q.offset + i \in 1 .. Len(all)
  BY <1>2, <1>3, <1>4, <1>5
<1>8. /\ rows(n) \in Seq(RowType) /\ Len(rows(n)) = n
      /\ \A i \in 1 .. n : Shows(rows(n)[i]) /\ rows(n)[i].row = all[q.offset + i]
  <2>1. \A i \in 1 .. n : /\ rows(n)[i] = RowOf(q.db, all[q.offset + i])
                          /\ all[q.offset + i] \in Present(q.db)
    BY <1>3, <1>4, <1>7
  <2> DEFINE f == rows(n)
  <2>2. \A i \in 1 .. n : /\ f[i] \in RowType /\ Shows(f[i]) /\ f[i].row = all[q.offset + i]
    <3> SUFFICES ASSUME NEW i \in 1 .. n
                 PROVE  f[i] \in RowType /\ Shows(f[i]) /\ f[i].row = all[q.offset + i]
      OBVIOUS
    <3>1. f[i] = RowOf(q.db, all[q.offset + i]) /\ all[q.offset + i] \in Present(q.db)
      BY <2>1
    <3> HIDE DEF f
    <3> QED
      BY <1>2, <3>1, RowIs
  <2>3. DOMAIN f = 1 .. n /\ f = [i \in 1 .. n |-> f[i]]
    OBVIOUS
  <2> HIDE DEF f
  <2>4. f \in Seq(RowType) /\ Len(f) = n
    BY <1>4, <2>2, <2>3
  <2> QED
    BY <2>2, <2>4 DEF f
<1>9. Writable(q.db) \in BOOLEAN /\ (n < left) \in BOOLEAN /\ (n < full) \in BOOLEAN
  BY <1>4 DEF Writable
<1> HIDE DEF rows
<1>10. /\ reply \in ReplyType /\ reply.code = "" /\ reply.ok /\ reply.sets = past.sets
       /\ reply.rows = rows(n) /\ (reply.more <=> n < left)
  BY <1>1, <1>2, <1>8, <1>9, OkIs DEF ReplyType
<1>11. ShowsAll(reply.rows)
  BY <1>8, <1>10 DEF ShowsAll
<1>12. Cut(GridOf(q, reply))
  <2> DEFINE d == GridOf(q, reply)
  <2>1. /\ d.db = q.db /\ d.sort = q.sort /\ d.offset = q.offset /\ d.rows = rows(n)
        /\ (d.more <=> n < left)
    BY <1>10 DEF GridOf
  <2> HIDE DEF d
  <2>2. Len(d.rows) = n
    BY <1>8, <2>1
  <2>3. \A i \in 1 .. n : d.offset + i \in 1 .. Len(all) /\ d.rows[i].row = all[d.offset + i]
    BY <1>7, <1>8, <2>1
  <2>4. ~d.more => d.offset + n >= Len(all)
    BY <1>4, <1>6, <2>1
  <2>5. d.more => d.offset + n <= Len(all)
    BY <1>2, <1>3, <1>4, <1>5, <2>1 DEF left
  <2>6. all = Ordered(d.db, d.sort)
    BY <2>1 DEF all
  <2>7. Cut(d)
    BY <2>2, <2>3, <2>4, <2>5, <2>6 DEF Cut
  <2> QED
    BY <2>7 DEF d
<1> QED
  BY <1>10, <1>11, <1>12

\* An answer to a question that reads.
LEMMA ReadRepliesAre ==
  ASSUME Typed, NEW q \in QuestionType, q.op # "update", NEW reply \in ReadReplies(q)
  PROVE  /\ reply \in ReplyType /\ reply.code = "" /\ reply.sets <= past.sets
         /\ ShowsAll(reply.rows) /\ (Len(reply.rows) > 0 => reply.ok)
         /\ q.op = "rows" /\ reply.ok => Cut(GridOf(q, reply))
<1>0. past.sets \in Nat /\ 0 <= past.sets /\ q.op \in Ops /\ q.db \in Names \cup {None}
  BY DEF Typed, PastType, QuestionType
<1>a. ShowsAll(<<>>) /\ ~(Len(<<>>) > 0)
  BY DEF ShowsAll
<1>1. CASE q.op = "sources"
  <2>1. reply = [Ok EXCEPT !.sources = Sources]
    BY <1>1 DEF ReadReplies
  <2>2. /\ reply \in ReplyType /\ reply.code = "" /\ reply.sets = 0 /\ reply.rows = <<>>
    BY <2>1, SourcesAre, OkIs DEF ReplyType
  <2> QED
    BY <1>0, <1>a, <1>1, <2>2
<1>2. CASE reply = NoReply
  BY <1>0, <1>a, <1>2, NoReplyIs
<1>3. CASE reply = Ok /\ q.op # "rows"
  BY <1>0, <1>a, <1>3, OkIs
<1>4. CASE q.db \in Registered /\ reply \in RowsReplies(q)
  <2>1. q.db \in Names
    BY <1>4 DEF Registered, Names
  <2>2. /\ reply \in ReplyType /\ reply.code = "" /\ reply.ok /\ reply.sets = past.sets
        /\ ShowsAll(reply.rows) /\ Cut(GridOf(q, reply))
    BY <1>4, <2>1, RowsRepliesAre
  <2>3. reply.sets = past.sets
    BY <2>2, Zenon
  <2>4. reply.sets <= past.sets
    BY <1>0, <2>3
  <2> QED
    BY <2>2, <2>4, Zenon
<1>5. CASE q.op # "sources"
  <2>1. CASE q.db \notin Registered
    BY <1>2, <1>5, <2>1 DEF ReadReplies
  <2>2. CASE q.db \in Registered /\ q.op \in {"namespaces", "schema"}
    BY <1>3, <1>5, <2>2 DEF ReadReplies
  <2>3. CASE q.db \in Registered /\ q.op \notin {"namespaces", "schema"}
    BY <1>4, <1>5, <2>3 DEF ReadReplies
  <2> QED
    BY <2>1, <2>2, <2>3
<1> QED
  BY <1>1, <1>5

\* An answer to one that writes: run, refused as a conflict, or an error.
LEMMA UpdateReplyIs ==
  ASSUME Typed, NEW q \in QuestionType, NEW r, r = UpdateReply(q)
  PROVE  /\ r \in ReplyType /\ r.rows = <<>> /\ r.sets = 0
         /\ (r.ok <=> CanRun(q))
         /\ r.code = "row_changed" => ~r.ok /\ q.db \in Registered /\ ~Matches(q)
<1>1. CASE CanRun(q)
  BY <1>1, OkIs DEF UpdateReply
<1>2. CASE ~CanRun(q) /\ q.db \in Registered /\ Writable(q.db) /\ q.db \notin Viewed /\ ~Matches(q)
  <2> DEFINE v == IF q.handle \in Handles THEN table[q.db][q.handle] ELSE Null
  <2>1. v \in Values \cup {Gone}
    <3>1. Null \in Values /\ q.db \in Names
      BY <1>2 DEF Values, Registered, Names
    <3> HIDE DEF Values
    <3> QED
      BY <3>1 DEF Typed
  <2>2. r = [NoReply EXCEPT !.code = "row_changed", !.current = v]
    BY <1>2 DEF UpdateReply
  <2> HIDE DEF v, Values
  <2> QED
    BY <1>2, <2>1, <2>2, NoReplyIs DEF ReplyType
<1>3. CASE ~CanRun(q) /\ ~(q.db \in Registered /\ Writable(q.db) /\ q.db \notin Viewed /\ ~Matches(q))
  BY <1>3, NoReplyIs DEF UpdateReply
<1> QED
  BY <1>1, <1>2, <1>3

----------------------------------------------------------------------------
(* What the page asks.                                                     *)

\* Where rows can be asked for: the grid's links, the editor's Esc, the rail's
\* table.
Links ==
  LiveDBGrid(grid) \cup (IF editor = NoEditor THEN {} ELSE {editor.place})
    \cup {[db |-> pane.selected, offset |-> 0, sort |-> ""]}

\* A question as it is put.
Put(q) ==
  /\ q \in QuestionType /\ q.id = count + 1 /\ ~q.answered /\ q.reply = NoReply
  /\ q.base = past.base
  /\ q.op = "update" =>
       /\ editor # NoEditor /\ q.handle = editor.row /\ q.was = JsonScalar(editor.was)
       /\ q.at = editor.at /\ q.held = editor.held
  /\ q.op = "rows" /\ q.by = "page" =>
       \E url \in Links : q.db = url.db /\ q.offset = url.offset /\ q.sort = url.sort

LEMMA LinksAre ==
  ASSUME Typed, NEW url \in Links
  PROVE  url \in PlaceType
<1>1. grid \in GridType /\ Limit \in Nat /\ pane.selected \in Names \cup {None}
  BY LiveDbAssumption DEF Typed, PaneType
<1>2. /\ grid.db \in Names \cup {None} /\ grid.offset \in Nat /\ grid.sort \in Sorts
      /\ Len(grid.rows) \in Nat
  BY <1>1 DEF GridType
<1>3. ASSUME NEW o \in Nat, NEW s \in Sorts
      PROVE  RowsURL(grid, o, s) \in PlaceType
  BY <1>2 DEF RowsURL, PlaceType
<1>4. CASE url \in LiveDBGrid(grid)
  <2>1. HeaderURL(grid) \in PlaceType
    BY <1>3 DEF HeaderURL, Sorts
  <2>2. SameURL(grid) \in PlaceType
    BY <1>2, <1>3 DEF SameURL
  <2>3. NextURL(grid) \in PlaceType
    <3>1. grid.offset + Len(grid.rows) \in Nat
      BY <1>2
    <3> QED
      BY <1>2, <1>3, <3>1 DEF NextURL
  <2>4. PrevURL(grid) \in PlaceType
    <3> DEFINE o == IF grid.offset > Limit THEN grid.offset - Limit ELSE 0
    <3>1. o \in Nat
      BY <1>1, <1>2
    <3> HIDE DEF o
    <3>2. RowsURL(grid, o, grid.sort) \in PlaceType
      BY <1>2, <1>3, <3>1
    <3> QED
      BY <3>2 DEF PrevURL, o
  <2> QED
    BY <1>4, <2>1, <2>2, <2>3, <2>4 DEF LiveDBGrid, Arrows
<1>5. CASE editor # NoEditor /\ url = editor.place
  BY <1>5 DEF Typed, EditorType
<1>6. CASE url = [db |-> pane.selected, offset |-> 0, sort |-> ""]
  BY <1>1, <1>6 DEF PlaceType, Sorts
<1> QED
  BY <1>4, <1>5, <1>6 DEF Links

\* A link asks for its rows.
LEMMA LinkIsPut ==
  ASSUME Typed, NEW url \in Links, NEW q, q = Question("page", "rows", url)
  PROVE  Put(q) /\ q.target
<1>1. "page" \in {"page", "agent"} /\ "rows" \in Ops /\ url \in PlaceType
  BY LinksAre DEF Ops
<1>2. /\ q \in QuestionType /\ q.id = count + 1 /\ q.by = "page" /\ q.op = "rows"
      /\ q.db = url.db /\ q.offset = url.offset /\ q.sort = url.sort /\ q.base = past.base
      /\ ~q.answered /\ q.reply = NoReply /\ q.target
  BY <1>1, QuestionIs
<1> QED
  BY <1>2 DEF Put

Asking == LiveDatabase \/ OpenTable \/ LiveDatabaseRows \/ LiveDatabaseSave \/ AgentAsks

LEMMA Asks ==
  ASSUME Typed, Asking
  PROVE  \E q : Put(q) /\ Ask(q)
<1>0. ASSUME NEW db \in Names \cup {None}
      PROVE  [db |-> db, offset |-> 0, sort |-> ""] \in PlaceType
  BY DEF PlaceType, Sorts
<1>1. RowsURL(NoGrid, 0, "") \in PlaceType
  BY DEF RowsURL, NoGrid, PlaceType, Sorts
<1>2. ASSUME NEW by \in {"page", "agent"}, NEW op \in Ops, NEW place \in PlaceType,
             op # "update", ~(op = "rows" /\ by = "page"), Ask(Question(by, op, place))
      PROVE  \E q : Put(q) /\ Ask(q)
  <2> DEFINE q == Question(by, op, place)
  <2>1. q = Question(by, op, place) /\ Ask(q)
    BY <1>2
  <2> HIDE DEF q
  <2>2. /\ q \in QuestionType /\ q.id = count + 1 /\ q.by = by /\ q.op = op
        /\ q.base = past.base /\ ~q.answered /\ q.reply = NoReply
    BY <2>1, QuestionIs
  <2>3. Put(q)
    BY <1>2, <2>2 DEF Put
  <2> QED
    BY <2>1, <2>3
<1>3. CASE LiveDatabase
  <2>1. CASE Ask([Question("page", "sources", RowsURL(NoGrid, 0, "")) EXCEPT !.tab = TRUE])
    <3> DEFINE q == [Question("page", "sources", RowsURL(NoGrid, 0, "")) EXCEPT !.tab = TRUE]
               place == RowsURL(NoGrid, 0, "")
    <3>1. place \in PlaceType /\ q = [Question("page", "sources", place) EXCEPT !.tab = TRUE]
          /\ Ask(q)
      BY <1>1, <2>1
    <3> HIDE DEF q, place
    <3>2. /\ q \in QuestionType /\ q.id = count + 1 /\ q.op = "sources"
          /\ q.base = past.base /\ ~q.answered /\ q.reply = NoReply
      BY <3>1, TabIs
    <3>3. Put(q)
      BY <3>2 DEF Put
    <3> QED
      BY <3>1, <3>3
  <2>2. ASSUME NEW db \in SchemaRail,
               Ask(Question("page", "sources", [db |-> db, offset |-> 0, sort |-> ""]))
        PROVE  \E q : Put(q) /\ Ask(q)
    <3>1. db \in Names
      <4>1. pane.sources \in Seq(Names)
        BY DEF Typed, PaneType
      <4>2. \A i \in DOMAIN pane.sources : pane.sources[i] \in Names
        BY <4>1
      <4>3. PICK i \in DOMAIN pane.sources : db = pane.sources[i]
        BY <2>2 DEF SchemaRail, Range
      <4> QED
        BY <4>2, <4>3
    <3>2. "page" \in {"page", "agent"} /\ "sources" \in Ops
      BY DEF Ops
    <3> QED
      BY <1>0, <1>2, <2>2, <3>1, <3>2
  <2> QED
    BY <1>3, <2>1, <2>2 DEF LiveDatabase
<1>4. ASSUME NEW url \in Links, Ask(Question("page", "rows", url))
      PROVE  \E q : Put(q) /\ Ask(q)
  <2> DEFINE q == Question("page", "rows", url)
  <2>1. q = Question("page", "rows", url) /\ Ask(q)
    BY <1>4
  <2> HIDE DEF q
  <2> QED
    BY <2>1, LinkIsPut
<1>5. CASE OpenTable
  BY <1>4, <1>5 DEF OpenTable, Links
<1>6. CASE LiveDatabaseRows
  BY <1>4, <1>6 DEF LiveDatabaseRows, Links
<1>7. CASE LiveDatabaseSave
  <2>1. PICK value \in CellEditor(editor) : Ask(Update(value))
    BY <1>7 DEF LiveDatabaseSave
  <2>2. editor # NoEditor
    BY <1>7 DEF LiveDatabaseSave
  <2>3. value \in TypedIn
    <3>1. editor.was \in RawType
      BY DEF Typed, EditorType
    <3>2. UnquoteJSON(editor.was) \in Texts \cup Numerals \cup {""}
      <4>1. CASE editor.was = Raw(FALSE, "null")
        BY <4>1 DEF UnquoteJSON
      <4>2. CASE editor.was # Raw(FALSE, "null")
        BY <3>1, <4>2 DEF UnquoteJSON, RawType
      <4> QED
        BY <4>1, <4>2
    <3> QED
      BY <3>2 DEF CellEditor, TypedIn
  <2> DEFINE q == Update(value)
  <2>4. q = Update(value) /\ Ask(q)
    BY <2>1
  <2> HIDE DEF q
  <2>5. /\ q \in QuestionType /\ q.id = count + 1 /\ q.by = "page" /\ q.op = "update"
        /\ q.base = past.base /\ q.handle = editor.row /\ q.was = JsonScalar(editor.was)
        /\ q.at = editor.at /\ q.held = editor.held /\ ~q.answered /\ q.reply = NoReply
    BY <2>3, <2>4, UpdateIs
  <2>6. Put(q)
    BY <2>2, <2>5 DEF Put
  <2> QED
    BY <2>4, <2>6
<1>8. CASE AgentAsks
  <2>1. PICK op \in {"namespaces", "schema", "rows"}, db \in Range(Dbs) :
          \/ Ask(Question("agent", "sources", RowsURL(NoGrid, 0, "")))
          \/ Ask(Question("agent", op, [db |-> db, offset |-> 0, sort |-> ""]))
    BY <1>8 DEF AgentAsks
  <2>2. "agent" \in {"page", "agent"} /\ "sources" \in Ops /\ op \in Ops /\ db \in Names
        /\ op # "update"
    BY DEF Ops, Names
  <2>3. CASE Ask(Question("agent", "sources", RowsURL(NoGrid, 0, "")))
    BY <1>1, <1>2, <2>2, <2>3
  <2>4. CASE Ask(Question("agent", op, [db |-> db, offset |-> 0, sort |-> ""]))
    BY <1>0, <1>2, <2>2, <2>4
  <2> QED
    BY <2>1, <2>3, <2>4
<1> QED
  BY <1>3, <1>5, <1>6, <1>7, <1>8 DEF Asking

----------------------------------------------------------------------------
(* Types are kept.                                                         *)

\* Nothing drawn yet.
LEMMA Blanks ==
  NoPane \in PaneType /\ NoGrid \in GridType /\ NoEditor \in EditorType /\ NoBanner \in BannerType
<1>1. NoPane \in PaneType
  BY DEF NoPane, PaneType
<1>2. NoGrid \in GridType
  BY DEF NoGrid, GridType, Sorts
<1>3. NoEditor \in EditorType
  <2>1. RowsURL(NoGrid, 0, "") \in PlaceType
    BY DEF RowsURL, NoGrid, PlaceType, Sorts
  <2>2. Raw(FALSE, "") \in RawType /\ Null \in Values
    BY DEF Raw, RawType, Values
  <2> HIDE DEF Values, PlaceType, RawType
  <2> QED
    BY <2>1, <2>2 DEF NoEditor, EditorType
<1>4. NoBanner \in BannerType
  BY DEF NoBanner, BannerType
<1> QED
  BY <1>1, <1>2, <1>3, <1>4

LEMMA InitTyped == Init => Typed
<1> SUFFICES ASSUME Init PROVE Typed
  OBVIOUS
<1>1. table \in [Names -> [Handles -> Values \cup {Gone}]]
      /\ registry \in [Names -> {"absent", "reading", "writing"}]
  BY LiveDbAssumption DEF Init, Names
<1>2. [shown |-> {}, base |-> Mixed, sets |-> 0, run |-> {}] \in PastType
  BY DEF Mixed, PastType
<1>3. count \in Nat /\ changes \in 0 .. MaxChanges
  BY LiveDbAssumption DEF Init
<1> QED
  BY <1>1, <1>2, <1>3, Blanks DEF Init, Typed

\* What a stored value may be.
LEMMA StoredIs ==
  ASSUME NEW value \in TypedIn, NEW v \in StoredAs(value)
  PROVE  v \in Values
<1>1. CASE value = None
  BY <1>1 DEF StoredAs, Values
<1>2. CASE value # None
  BY <1>2 DEF StoredAs, TypedIn, Values
<1> QED
  BY <1>1, <1>2

\* An update that runs.
LEMMA RunsTyped ==
  ASSUME Typed, NEW q \in QuestionType, Runs(q)
  PROVE  table' \in [Names -> [Handles -> Values \cup {Gone}]] /\ past' \in PastType
<1>1. CASE CanRun(q)
  <2>1. PICK v \in StoredAs(q.value) : table' = [table EXCEPT ![q.db][q.handle] = v]
    BY <1>1 DEF Runs
  <2>2. past' = [past EXCEPT !.run = @ \cup {q.id}]
    BY <1>1 DEF Runs
  <2>3. q.value \in TypedIn /\ q.id \in Nat
    BY DEF QuestionType
  <2>4. v \in Values
    BY <2>3, StoredIs
  <2> HIDE DEF Values
  <2>5. table' \in [Names -> [Handles -> Values \cup {Gone}]]
    BY <2>1, <2>4 DEF Typed
  <2>6. past' \in PastType
    BY <2>2, <2>3 DEF Typed, PastType
  <2> QED
    BY <2>5, <2>6
<1>2. CASE ~CanRun(q)
  BY <1>2 DEF Runs, Typed
<1> QED
  BY <1>1, <1>2

\* The page is drawn: each of its parts keeps its shape.
LEMMA DrawnPane ==
  ASSUME Typed, NEW sources \in Seq(Names), NEW selected \in Names \cup {None},
         NEW tables \in BOOLEAN, DrawPane(sources, selected, tables)
  PROVE  /\ pane' \in PaneType /\ grid' \in GridType /\ editor' \in EditorType
         /\ banner' \in BannerType /\ past' \in PastType
<1>1. pane' \in PaneType
  BY DEF DrawPane, PaneType
<1>2. past' \in PastType
  <2>1. past \in PastType /\ past' = [past EXCEPT !.shown = {}, !.base = Mixed] /\ Mixed \in Int
    BY DEF Typed, DrawPane, Mixed
  <2> QED
    BY <2>1 DEF PastType
<1>3. grid' = NoGrid /\ editor' = NoEditor /\ banner' = NoBanner
  BY DEF DrawPane
<1> QED
  BY <1>1, <1>2, <1>3, Blanks

----------------------------------------------------------------------------
(* What becomes of an answer.                                              *)

\* It goes nowhere, asks further, redraws the pane, is the grid's, or ends a save.
Unused(q) == asked' = asked \ {q} /\ UNCHANGED <<page, past, count>>

AsksFurther(q, reply) ==
  /\ q.op = "sources"
  /\ \E selected \in Names : \/ asked' = (asked \ {q}) \cup {Further(q, reply, selected)}
                             \/ asked' = asked \ {q}
  /\ UNCHANGED <<page, past, count>>

RedrawsPane(q) ==
  /\ q.op \in {"sources", "namespaces"}
  /\ \E sources \in Seq(Names), selected \in Names \cup {None}, tables \in BOOLEAN :
       DrawPane(sources, selected, tables)
  /\ asked' = Detached(asked \ {q}) /\ count' = count

RedrawsGrid(q, reply) == ForThePage(q) /\ DrawGrid(q, reply) /\ count' = count

EndsSave(q, reply) == q.op = "update" /\ DrawSave(q, reply)

LEMMA Draws ==
  ASSUME Typed, NEW q \in asked, NEW reply \in ReplyType, Draw(q, reply)
  PROVE  /\ UNCHANGED <<device, connected, manage, changes>>
         /\ \/ Unused(q) \/ AsksFurther(q, reply) \/ RedrawsPane(q) \/ RedrawsGrid(q, reply)
            \/ EndsSave(q, reply)
<1>1. UNCHANGED <<device, connected, manage, changes>>
  BY DEF Draw
<1>2. /\ q.db \in Names \cup {None} /\ q.from \in Seq(Names) /\ reply.sources \in Seq(Names)
      /\ reply.ok \in BOOLEAN
  BY DEF Typed, QuestionType, ReplyType
<1>3. CASE q.by = "agent" \/ ~q.target
  <2>1. CASE asked' = asked \ {q} /\ Undrawn /\ UNCHANGED count
    BY <1>1, <2>1 DEF Unused, Undrawn
  <2>2. CASE q.by = "page" /\ q.target
    BY <1>3, <2>2
  <2> QED
    BY <2>1, <2>2 DEF Draw
<1>4. CASE ~(q.by = "agent" \/ ~q.target)
  <2>1. CASE q.op = "sources" /\ DrawSources(q, reply) /\ UNCHANGED count
    <3> DEFINE selected == IF q.db = None /\ reply.sources # <<>> THEN reply.sources[1] ELSE q.db
    <3>1. selected \in Names \cup {None}
      BY <1>2
    <3>2. CASE reply.ok /\ selected # None
      <4>1. /\ asked' = (asked \ {q}) \cup
                          (IF connected THEN {Further(q, reply, selected)} ELSE {})
            /\ Undrawn
        BY <2>1, <3>2 DEF DrawSources, Further
      <4>2. selected \in Names
        BY <3>1, <3>2
      <4> HIDE DEF selected
      <4> QED
        BY <1>1, <2>1, <4>1, <4>2 DEF AsksFurther, Undrawn
    <3>3. CASE ~(reply.ok /\ selected # None)
      <4>1. asked' = Detached(asked \ {q}) /\ DrawPane(reply.sources, q.db, FALSE)
        BY <2>1, <3>3 DEF DrawSources
      <4> QED
        BY <1>1, <1>2, <2>1, <4>1 DEF RedrawsPane
    <3> QED
      BY <3>2, <3>3
  <2>2. CASE q.op = "namespaces" /\ DrawNamespaces(q, reply) /\ UNCHANGED count
    <3>1. asked' = Detached(asked \ {q}) /\ DrawPane(q.from, q.db, reply.ok)
      BY <2>2 DEF DrawNamespaces
    <3> QED
      BY <1>1, <1>2, <2>2, <3>1 DEF RedrawsPane
  <2>3. CASE q.op = "rows" /\ DrawGrid(q, reply) /\ UNCHANGED count /\ q.by = "page" /\ q.target
    BY <1>1, <2>3 DEF RedrawsGrid, ForThePage
  <2>4. CASE q.op = "update" /\ DrawSave(q, reply)
    BY <1>1, <2>4 DEF EndsSave
  <2> QED
    BY <1>4, <2>1, <2>2, <2>3, <2>4 DEF Draw
<1> QED
  BY <1>1, <1>3, <1>4

\* A grid drawn.
LEMMA GridTyped ==
  ASSUME Typed, NEW q \in QuestionType, NEW reply \in ReplyType, DrawGrid(q, reply)
  PROVE  grid' \in GridType /\ editor' \in EditorType /\ past' \in PastType
<1>1. grid' = GridOf(q, reply) /\ editor' = NoEditor
  BY DEF DrawGrid
<1>2. grid' \in GridType
  BY <1>1 DEF GridOf, GridType, QuestionType, ReplyType
<1>3. past' \in PastType
  <2>1. CASE reply.ok
    <3> DEFINE seen == {<<reply.sets, q.sort, reply.rows[i].row>> : i \in 1 .. Len(reply.rows)}
               base == IF q.offset = 0 \/ reply.sets = q.base THEN reply.sets ELSE Mixed
    <3>1. past' = [past EXCEPT !.base = base, !.shown = @ \cup seen]
      BY <2>1 DEF DrawGrid, Show
    <3>2. base \in Int
      <4>1. reply.sets \in Nat
        BY DEF ReplyType
      <4>2. Mixed \in Int
        BY DEF Mixed
      <4> QED
        BY <4>1, <4>2
    <3>3. seen \subseteq Nat \X Sorts \X Handles
      <4>1. reply.sets \in Nat /\ q.sort \in Sorts /\ reply.rows \in Seq(RowType)
        BY DEF ReplyType, QuestionType
      <4>2. \A i \in 1 .. Len(reply.rows) : reply.rows[i] \in RowType
        BY <4>1
      <4>3. \A i \in 1 .. Len(reply.rows) : reply.rows[i].row \in Handles
        BY <4>2 DEF RowType
      <4> HIDE DEF Sorts
      <4> QED
        BY <4>1, <4>3
    <3> HIDE DEF seen, base
    <3> QED
      BY <3>1, <3>2, <3>3 DEF Typed, PastType
  <2>2. CASE ~reply.ok
    BY <2>2 DEF DrawGrid, Typed
  <2> QED
    BY <2>1, <2>2
<1> QED
  BY <1>1, <1>2, <1>3, Blanks

\* The banner of a save, and the grid's question after one that went through.
Reload(q, reply) == reply.ok /\ q.form /\ grid.ok /\ connected

LEMMA SaveIs ==
  ASSUME Typed, NEW q \in QuestionType, NEW reply \in ReplyType, DrawSave(q, reply)
  PROVE  /\ banner' \in BannerType /\ UNCHANGED <<pane, grid, editor, past>>
         /\ banner'.id = q.id
         /\ banner'.kind = IF reply.ok THEN "ok"
                           ELSE IF reply.code = "row_changed" THEN "warn" ELSE "err"
         /\ \/ asked' = asked \ {q} /\ count' = count
            \/ /\ reply.ok /\ grid.ok /\ count' = count + 1
               /\ \E a : /\ Put(a) /\ a.op = "rows" /\ a.by = "page"
                         /\ a.db = grid.db /\ a.offset = grid.offset /\ a.sort = grid.sort
                         /\ asked' = (asked \ {q}) \cup {a}
<1>1. /\ banner' = LiveDBSaveResult(q, reply) /\ UNCHANGED <<pane, grid, editor, past>>
      /\ asked' = (asked \ {q}) \cup
                    (IF Reload(q, reply) THEN {Question("page", "rows", SameURL(grid))} ELSE {})
      /\ count' = IF Reload(q, reply) THEN count + 1 ELSE count
  BY DEF DrawSave, Reload
<1>2. q.id \in Nat
  BY DEF QuestionType
<1>3. /\ banner' \in BannerType /\ banner'.id = q.id
      /\ banner'.kind = IF reply.ok THEN "ok"
                        ELSE IF reply.code = "row_changed" THEN "warn" ELSE "err"
  BY <1>1, <1>2 DEF LiveDBSaveResult, BannerType
<1>4. CASE Reload(q, reply)
  <2> DEFINE a == Question("page", "rows", SameURL(grid))
  <2>1. grid.ok /\ reply.ok
    BY <1>4 DEF Reload
  <2>2. SameURL(grid) \in Links
    BY <2>1 DEF Links, LiveDBGrid
  <2>3. SameURL(grid) \in PlaceType /\ "page" \in {"page", "agent"} /\ "rows" \in Ops
    BY <2>2, LinksAre DEF Ops
  <2>4. a = Question("page", "rows", SameURL(grid)) /\ asked' = (asked \ {q}) \cup {a}
    BY <1>1, <1>4
  <2> HIDE DEF a
  <2>5. Put(a)
    BY <2>2, <2>4, LinkIsPut
  <2>6. a.op = "rows" /\ a.by = "page" /\ a.db = SameURL(grid).db
        /\ a.offset = SameURL(grid).offset /\ a.sort = SameURL(grid).sort
    BY <2>3, <2>4, QuestionIs
  <2>7. a.db = grid.db /\ a.offset = grid.offset /\ a.sort = grid.sort
    BY <2>6 DEF SameURL, RowsURL
  <2> QED
    BY <1>1, <1>3, <1>4, <2>1, <2>4, <2>5, <2>6, <2>7
<1>5. CASE ~Reload(q, reply)
  BY <1>1, <1>3, <1>5
<1> QED
  BY <1>4, <1>5

----------------------------------------------------------------------------
(* Types are kept by every step.                                           *)

\* A blob summed up has no text of its own.
LEMMA BlobSent == ScalarJSON(Blob) \in RawType
<1>1. Blob.type = "blob" /\ Blob.text = "" /\ Null.type = "null"
  BY DEF Blob, Null
<1>2. Blob # Null
  BY <1>1
<1>3. ScalarJSON(Blob) = Raw(FALSE, "")
  BY <1>1, <1>2 DEF ScalarJSON
<1>4. Raw(FALSE, "") \in RawType
  BY DEF Raw, RawType
<1> QED
  BY <1>3, <1>4

\* Whatever becomes of an answer, the shapes are kept.
LEMMA DrawTyped ==
  ASSUME Typed, NEW q \in asked, NEW reply \in ReplyType, Draw(q, reply)
  PROVE  /\ UNCHANGED <<device, connected, manage, changes>>
         /\ asked' \subseteq QuestionType /\ count' \in Nat
         /\ pane' \in PaneType /\ grid' \in GridType /\ editor' \in EditorType
         /\ banner' \in BannerType /\ past' \in PastType
<1>1. /\ UNCHANGED <<device, connected, manage, changes>>
      /\ \/ Unused(q) \/ AsksFurther(q, reply) \/ RedrawsPane(q) \/ RedrawsGrid(q, reply)
         \/ EndsSave(q, reply)
  BY Draws
<1>2. /\ asked \subseteq QuestionType /\ q \in QuestionType /\ count \in Nat
      /\ pane \in PaneType /\ grid \in GridType /\ editor \in EditorType
      /\ banner \in BannerType /\ past \in PastType
  BY DEF Typed
<1> HIDE DEF QuestionType, PaneType, GridType, EditorType, BannerType, PastType
<1>3. CASE Unused(q)
  BY <1>1, <1>2, <1>3 DEF Unused, page
<1>4. CASE AsksFurther(q, reply)
  <2>1. \A selected \in Names : Further(q, reply, selected) \in QuestionType
    BY <1>2, FurtherIs
  <2> QED
    BY <1>1, <1>2, <1>4, <2>1 DEF AsksFurther, page
<1>5. CASE RedrawsPane(q)
  <2>1. asked' \subseteq QuestionType
    BY <1>2, <1>5, DetachedIs DEF RedrawsPane
  <2>2. PICK sources \in Seq(Names), selected \in Names \cup {None}, tables \in BOOLEAN :
          DrawPane(sources, selected, tables)
    BY <1>5 DEF RedrawsPane
  <2>3. count' = count
    BY <1>5 DEF RedrawsPane
  <2> QED
    BY <1>1, <1>2, <2>1, <2>2, <2>3, DrawnPane
<1>6. CASE RedrawsGrid(q, reply)
  <2>1. DrawGrid(q, reply) /\ count' = count
    BY <1>6 DEF RedrawsGrid
  <2>2. asked' \subseteq QuestionType /\ UNCHANGED <<pane, banner>>
    BY <1>2, <2>1, SwappedIs DEF DrawGrid
  <2>3. grid' \in GridType /\ editor' \in EditorType /\ past' \in PastType
    BY <1>2, <2>1, GridTyped
  <2> QED
    BY <1>1, <1>2, <2>1, <2>2, <2>3
<1>7. CASE EndsSave(q, reply)
  <2>1. DrawSave(q, reply)
    BY <1>7 DEF EndsSave
  <2>2. /\ banner' \in BannerType /\ UNCHANGED <<pane, grid, editor, past>>
        /\ \/ asked' = asked \ {q} /\ count' = count
           \/ /\ count' = count + 1
              /\ \E a : Put(a) /\ asked' = (asked \ {q}) \cup {a}
    BY <1>2, <2>1, SaveIs
  <2> QED
    BY <1>1, <1>2, <2>2 DEF Put
<1> QED
  BY <1>1, <1>3, <1>4, <1>5, <1>6, <1>7

LEMMA NextTyped ==
  ASSUME Typed, [Next]_vars
  PROVE  Typed'
<1>0. /\ table \in [Names -> [Handles -> Values \cup {Gone}]]
      /\ registry \in [Names -> {"absent", "reading", "writing"}]
      /\ connected \in BOOLEAN /\ manage \in BOOLEAN
      /\ count \in Nat /\ changes \in 0 .. MaxChanges
      /\ asked \subseteq QuestionType /\ late \subseteq QuestionType
      /\ pane \in PaneType /\ grid \in GridType /\ editor \in EditorType
      /\ banner \in BannerType /\ past \in PastType /\ MaxChanges \in Nat
  BY LiveDbAssumption DEF Typed
<1> HIDE DEF QuestionType, PaneType, GridType, EditorType, BannerType, PastType, ReplyType, Values
<1>1. CASE Asking
  <2>1. PICK q : Put(q) /\ Ask(q)
    BY <1>1, Asks
  <2> QED
    BY <1>0, <2>1 DEF Put, Ask, device, page, Typed
<1>2. CASE LiveDatabaseCell
  <2>1. PICK i \in LiveDBCell(grid) : editor' = CellURL(grid, i)
    BY <1>2 DEF LiveDatabaseCell
  <2>2. i \in 1 .. Len(grid.rows) /\ ~grid.rows[i].cell.ro /\ grid.rows[i].handle # None /\ grid.ok \in BOOLEAN
    BY <1>0, <2>1 DEF LiveDBCell, GridType
  <2>3. grid.rows[i] \in RowType
    BY <1>0, <2>2 DEF GridType
  <2>4. editor' \in EditorType
    <3> DEFINE r == grid.rows[i]
    <3>1. r \in RowType /\ ~r.cell.ro /\ r.handle # None
      BY <2>2, <2>3
    <3> HIDE DEF r
    <3>2. r.handle \in Nat /\ r.row \in Nat /\ r.held \in Values /\ r.cell \in CellType
      BY <3>1, LiveDbAssumption DEF RowType
    <3>3. r.cell.v \in Values
      BY <3>1, <3>2 DEF CellType
    <3>4. ScalarJSON(r.cell.v) \in RawType
      <4>1. CASE r.cell.v = Blob
        BY <4>1, BlobSent
      <4>2. CASE r.cell.v # Blob
        BY <3>3, <4>2, ComesBack
      <4> QED
        BY <4>1, <4>2
    <3>5. Float(r.handle) \in Nat
      BY <3>2, Rounded
    <3>6. SameURL(grid) \in PlaceType
      BY <1>0 DEF SameURL, RowsURL, GridType, PlaceType
    <3>7. editor' = [place |-> SameURL(grid), row |-> Float(r.handle),
                     was |-> ScalarJSON(r.cell.v), at |-> r.row, held |-> r.held]
      BY <2>1 DEF CellURL, r
    <3> HIDE DEF PlaceType, RawType
    <3> QED
      BY <3>2, <3>4, <3>5, <3>6, <3>7 DEF EditorType
  <2> QED
    BY <1>0, <1>2, <2>4 DEF LiveDatabaseCell, device, Typed
<1>3. CASE DeviceReads
  <2>0. PICK q \in asked :
          /\ q.op # "update"
          /\ \E reply \in ReadReplies(q) : asked' = (asked \ {q}) \cup {With(q, reply)}
    BY <1>3 DEF DeviceReads, With
  <2>1. PICK reply \in ReadReplies(q) : asked' = (asked \ {q}) \cup {With(q, reply)}
    BY <2>0
  <2>2. reply \in ReplyType
    BY <1>0, <2>0, ReadRepliesAre
  <2>3. With(q, reply) \in QuestionType
    BY <1>0, <2>2, WithIs
  <2> QED
    BY <1>0, <1>3, <2>1, <2>3 DEF DeviceReads, device, page, Typed
<1>4. CASE DeviceUpdates
  <2>1. PICK q \in asked : Runs(q) /\ asked' = (asked \ {q}) \cup {With(q, UpdateReply(q))}
    BY <1>4 DEF DeviceUpdates, With
  <2>2. UpdateReply(q) \in ReplyType
    BY <1>0, UpdateReplyIs
  <2>3. With(q, UpdateReply(q)) \in QuestionType
    BY <1>0, <2>2, WithIs
  <2>4. table' \in [Names -> [Handles -> Values \cup {Gone}]] /\ past' \in PastType
    BY <1>0, <2>1, RunsTyped
  <2> QED
    BY <1>0, <1>4, <2>1, <2>3, <2>4 DEF DeviceUpdates, page, Typed
<1>5. CASE LateUpdate
  <2>1. PICK q \in late : Runs(q) \/ UNCHANGED <<table, past>>
    BY <1>5 DEF LateUpdate
  <2>2. table' \in [Names -> [Handles -> Values \cup {Gone}]] /\ past' \in PastType
    BY <1>0, <2>1, RunsTyped
  <2>3. late' \subseteq late
    BY <1>5 DEF LateUpdate
  <2> QED
    BY <1>0, <1>5, <2>2, <2>3 DEF LateUpdate, page, Typed
<1>6. CASE Answered
  <2>1. PICK q \in asked : Draw(q, q.reply) /\ late' = late
    BY <1>6 DEF Answered
  <2>2. q.reply \in ReplyType
    BY <1>0 DEF QuestionType
  <2> QED
    BY <1>0, <2>1, <2>2, DrawTyped DEF device, Typed
<1>7. CASE AskFails
  <2>1. PICK q \in asked : Draw(q, NoReply) /\ late' \subseteq late \cup {q}
    BY <1>7 DEF AskFails
  <2> QED
    BY <1>0, <2>1, NoReplyIs, DrawTyped DEF device, Typed
<1>8. CASE AppWrites
  <2>1. PICK db \in Registered, v \in {Number("1"), Blob, Gone} :
          \E h \in Present(db) :
            /\ table' = [table EXCEPT ![db][h] = v]
            /\ past' = [past EXCEPT !.sets = IF v = Gone THEN @ + 1 ELSE @]
    BY <1>8 DEF AppWrites
  <2>2. v \in Values \cup {Gone}
    BY <2>1 DEF Values, Numerals
  <2>3. table' \in [Names -> [Handles -> Values \cup {Gone}]]
    <3>1. db \in Names
      BY DEF Registered, Names
    <3>2. PICK h \in Present(db) : table' = [table EXCEPT ![db][h] = v]
      BY <2>1
    <3>3. h \in Handles
      BY DEF Present
    <3> QED
      BY <1>0, <2>2, <3>1, <3>2, <3>3
  <2>4. past' \in PastType
    BY <1>0, <2>1 DEF PastType
  <2> QED
    BY <1>0, <1>8, <2>3, <2>4 DEF AppWrites, Changed, page, Typed
<1>9. CASE AppRegisters
  <2>1. registry' \in [Names -> {"absent", "reading", "writing"}]
    BY <1>0, <1>9 DEF AppRegisters
  <2> QED
    BY <1>0, <1>9, <2>1 DEF AppRegisters, Changed, page, Typed
<1>10. CASE Disconnects
  <2>1. changes' \in 0 .. MaxChanges
    BY <1>0, <1>10 DEF Disconnects, Changed
  <2> QED
    BY <1>0, <1>10, <2>1 DEF Disconnects, Changed, device, page, Typed
<1>11. CASE Demoted
  <2>1. changes' \in 0 .. MaxChanges
    BY <1>0, <1>11 DEF Demoted, Changed
  <2> QED
    BY <1>0, <1>11, <2>1 DEF Demoted, Changed, device, page, Typed
<1>12. CASE UNCHANGED vars
  BY <1>0, <1>12 DEF vars, Typed
<1> QED
  BY <1>1, <1>2, <1>3, <1>4, <1>5, <1>6, <1>7, <1>8, <1>9, <1>10, <1>11, <1>12 DEF Next, Asking

----------------------------------------------------------------------------
(* Questions after an answer was drawn.                                    *)

\* Every question left was waiting beside the one answered, follows it up, or is
\* the grid's after a save; and a number is still one question's.
LEMMA DrawAsked ==
  ASSUME Typed, OneEach, NEW q \in asked, NEW reply \in ReplyType, Draw(q, reply)
  PROVE  /\ \A a \in asked' :
              \/ \E p \in asked \ {q} : Same(a, p)
              \/ q.op = "sources" /\ \E s \in Names : a = Further(q, reply, s)
              \/ /\ Put(a) /\ a.op = "rows" /\ count' = count + 1
         /\ \A a, b \in asked' : a.id = b.id => a = b
         /\ count' \in {count, count + 1}
         /\ past'.run = past.run /\ past'.sets = past.sets
<1>1. \/ Unused(q) \/ AsksFurther(q, reply) \/ RedrawsPane(q) \/ RedrawsGrid(q, reply)
      \/ EndsSave(q, reply)
  BY Draws
<1>2. /\ asked \subseteq QuestionType /\ q \in QuestionType /\ count \in Nat /\ past \in PastType
  BY DEF Typed
<1>3. /\ \A a, b \in asked : a.id = b.id => a = b
      /\ \A a \in asked : a.id \in 1 .. count
  BY DEF OneEach, Numbered
<1>4. \A a : Same(a, a)
  BY DEF Same
<1>5. CASE Unused(q)
  <2>1. asked' = asked \ {q} /\ count' = count /\ past' = past
    BY <1>5 DEF Unused
  <2> QED
    BY <1>3, <1>4, <2>1
<1>6. CASE AsksFurther(q, reply)
  <2>1. /\ q.op = "sources" /\ count' = count /\ past' = past
        /\ \E s \in Names : \/ asked' = (asked \ {q}) \cup {Further(q, reply, s)}
                            \/ asked' = asked \ {q}
    BY <1>6 DEF AsksFurther
  <2>2. PICK s \in Names : \/ asked' = (asked \ {q}) \cup {Further(q, reply, s)}
                           \/ asked' = asked \ {q}
    BY <2>1
  <2> DEFINE f == Further(q, reply, s)
  <2>3. f.id = q.id /\ f = Further(q, reply, s)
    BY <1>2, FurtherIs
  <2> HIDE DEF f
  <2>4. \A a \in asked' : a \in asked \ {q} \/ a = f
    BY <2>2, <2>3
  <2>5. \A a \in asked \ {q} : a.id # q.id
    BY <1>3
  <2> QED
    BY <1>3, <1>4, <2>1, <2>3, <2>4, <2>5
<1>7. CASE RedrawsPane(q)
  <2>1. asked' = Detached(asked \ {q}) /\ count' = count
    BY <1>7 DEF RedrawsPane
  <2>2. past' = [past EXCEPT !.shown = {}, !.base = Mixed]
    BY <1>7 DEF RedrawsPane, DrawPane
  <2>3. past'.run = past.run /\ past'.sets = past.sets
    BY <1>2, <2>2 DEF PastType
  <2>4. asked \ {q} \subseteq QuestionType
    BY <1>2
  <2>5. \A a \in asked' : \E p \in asked \ {q} : a = Left(p) /\ Same(a, p)
    BY <2>1, <2>4, DetachedIs
  <2>6. ASSUME NEW a \in asked', NEW b \in asked', a.id = b.id
        PROVE  a = b
    <3>1. PICK p \in asked \ {q} : a = Left(p) /\ Same(a, p)
      BY <2>5
    <3>2. PICK r \in asked \ {q} : b = Left(r) /\ Same(b, r)
      BY <2>5
    <3>3. p.id = r.id
      BY <2>6, <3>1, <3>2 DEF Same
    <3> QED
      BY <1>3, <3>1, <3>2, <3>3
  <2> QED
    BY <2>1, <2>3, <2>5, <2>6
<1>8. CASE RedrawsGrid(q, reply)
  <2>1. asked' = Swapped(asked \ {q}) /\ count' = count
    BY <1>8 DEF RedrawsGrid, DrawGrid
  <2>2. past'.run = past.run /\ past'.sets = past.sets
    <3>1. DrawGrid(q, reply)
      BY <1>8 DEF RedrawsGrid
    <3>2. CASE reply.ok
      <4> DEFINE seen == {<<reply.sets, q.sort, reply.rows[i].row>> : i \in 1 .. Len(reply.rows)}
                 base == IF q.offset = 0 \/ reply.sets = q.base THEN reply.sets ELSE Mixed
      <4>1. past' = [past EXCEPT !.base = base, !.shown = @ \cup seen]
        BY <3>1, <3>2 DEF DrawGrid, Show
      <4> HIDE DEF seen, base
      <4> QED
        BY <1>2, <4>1 DEF PastType
    <3>3. CASE ~reply.ok
      BY <3>1, <3>3 DEF DrawGrid
    <3> QED
      BY <3>2, <3>3
  <2>4. asked \ {q} \subseteq QuestionType
    BY <1>2
  <2>5. \A a \in asked' : \E p \in asked \ {q} : a = [p EXCEPT !.form = FALSE] /\ Same(a, p)
    BY <2>1, <2>4, SwappedIs
  <2>6. ASSUME NEW a \in asked', NEW b \in asked', a.id = b.id
        PROVE  a = b
    <3>1. PICK p \in asked \ {q} : a = [p EXCEPT !.form = FALSE] /\ Same(a, p)
      BY <2>5
    <3>2. PICK r \in asked \ {q} : b = [r EXCEPT !.form = FALSE] /\ Same(b, r)
      BY <2>5
    <3>3. p.id = r.id
      BY <2>6, <3>1, <3>2 DEF Same
    <3> QED
      BY <1>3, <3>1, <3>2, <3>3
  <2> QED
    BY <2>1, <2>2, <2>5, <2>6
<1>9. CASE EndsSave(q, reply)
  <2>1. DrawSave(q, reply)
    BY <1>9 DEF EndsSave
  <2>2. past' = past
    BY <2>1 DEF DrawSave
  <2>3. \/ asked' = asked \ {q} /\ count' = count
        \/ /\ count' = count + 1
           /\ \E a : Put(a) /\ a.op = "rows" /\ asked' = (asked \ {q}) \cup {a}
    BY <1>2, <2>1, SaveIs
  <2>4. CASE asked' = asked \ {q} /\ count' = count
    BY <1>3, <1>4, <2>2, <2>4
  <2>5. CASE count' = count + 1 /\ \E a : Put(a) /\ a.op = "rows" /\ asked' = (asked \ {q}) \cup {a}
    <3>1. PICK x : Put(x) /\ x.op = "rows" /\ asked' = (asked \ {q}) \cup {x}
      BY <2>5
    <3>2. x.id = count + 1
      BY <3>1 DEF Put
    <3>3. \A a \in asked : a.id # x.id
      BY <1>2, <1>3, <3>2
    <3> QED
      BY <1>3, <1>4, <2>2, <2>5, <3>1, <3>3
  <2> QED
    BY <2>3, <2>4, <2>5
<1> QED
  BY <1>1, <1>5, <1>6, <1>7, <1>8, <1>9

----------------------------------------------------------------------------
(* A number is one question's.                                             *)

\* Questions that answer to numbers there were, or to the next.
LEMMA OneEachKept ==
  ASSUME Typed, OneEach, count' \in {count, count + 1},
         \A a \in asked' : \/ \E p \in asked : a.id = p.id
                           \/ a.id = count + 1 /\ count' = count + 1,
         \A a, b \in asked' : a.id = b.id => a = b,
         \A a \in late' : a \in late \/ (a \in asked /\ \A b \in asked' : b.id # a.id)
  PROVE  OneEach'
<1>1. count \in Nat
  BY DEF Typed
<1>2. /\ \A a \in asked \cup late : a.id \in 1 .. count
      /\ \A a, b \in late : a.id = b.id => a = b
      /\ \A a, b \in asked : a.id = b.id => a = b
      /\ \A a \in asked, b \in late : a.id # b.id
  BY DEF OneEach, Numbered
<1>3. \A a \in asked' \cup late' : a.id \in 1 .. count'
  BY <1>1, <1>2
<1>4. \A a, b \in late' : a.id = b.id => a = b
  BY <1>2
<1>5. \A a \in asked', b \in late' : a.id # b.id
  BY <1>1, <1>2
<1> QED
  BY <1>3, <1>4, <1>5 DEF OneEach, Numbered

LEMMA NextOneEach ==
  ASSUME Typed, OneEach, [Next]_vars
  PROVE  OneEach'
<1>0. /\ count \in Nat /\ asked \subseteq QuestionType /\ late \subseteq QuestionType
      /\ \A a, b \in asked : a.id = b.id => a = b
      /\ \A a \in asked \cup late : a.id \in 1 .. count
  BY DEF Typed, OneEach, Numbered
<1>1. CASE Asking
  <2>1. PICK q : Put(q) /\ Ask(q)
    BY <1>1, Asks
  <2>2. /\ asked' = asked \cup {q} /\ late' = late /\ count' = count + 1 /\ q.id = count + 1
    BY <2>1 DEF Ask, Put
  <2>3. \A a \in asked : a.id # q.id
    BY <1>0, <2>2
  <2> QED
    BY <1>0, <2>2, <2>3, OneEachKept
<1>2. ASSUME NEW q \in asked, NEW reply \in ReplyType,
             asked' = (asked \ {q}) \cup {With(q, reply)}, late' = late, count' = count
      PROVE  OneEach'
  <2>1. With(q, reply).id = q.id
    BY <1>0, <1>2, WithIs
  <2> QED
    BY <1>0, <1>2, <2>1, OneEachKept
<1>3. CASE DeviceReads
  <2>0. PICK q \in asked :
          /\ q.op # "update"
          /\ \E reply \in ReadReplies(q) : asked' = (asked \ {q}) \cup {With(q, reply)}
    BY <1>3 DEF DeviceReads, With
  <2>1. PICK reply \in ReadReplies(q) : asked' = (asked \ {q}) \cup {With(q, reply)}
    BY <2>0
  <2>2. reply \in ReplyType
    BY <1>0, <2>0, ReadRepliesAre
  <2> QED
    BY <1>2, <1>3, <2>1, <2>2 DEF DeviceReads
<1>4. CASE DeviceUpdates
  <2>1. PICK q \in asked : asked' = (asked \ {q}) \cup {With(q, UpdateReply(q))}
    BY <1>4 DEF DeviceUpdates, With
  <2>2. UpdateReply(q) \in ReplyType
    BY <1>0, UpdateReplyIs
  <2> QED
    BY <1>2, <1>4, <2>1, <2>2 DEF DeviceUpdates
<1>5. CASE LateUpdate
  <2>1. late' \subseteq late /\ asked' = asked /\ count' = count
    BY <1>5 DEF LateUpdate
  <2> QED
    BY <1>0, <2>1, OneEachKept
<1>6. ASSUME NEW q \in asked, NEW reply \in ReplyType, Draw(q, reply)
      PROVE  /\ count' \in {count, count + 1}
             /\ \A a \in asked' : \/ \E p \in asked : a.id = p.id
                                  \/ a.id = count + 1 /\ count' = count + 1
             /\ \A a, b \in asked' : a.id = b.id => a = b
             /\ q.op # "sources" => \A a \in asked' : a.id # q.id
  <2>1. /\ \A a \in asked' :
             \/ \E p \in asked \ {q} : Same(a, p)
             \/ q.op = "sources" /\ \E s \in Names : a = Further(q, reply, s)
             \/ Put(a) /\ a.op = "rows" /\ count' = count + 1
        /\ \A a, b \in asked' : a.id = b.id => a = b
        /\ count' \in {count, count + 1}
    BY <1>6, DrawAsked
  <2>2. \A s \in Names : Further(q, reply, s).id = q.id
    BY <1>0, <1>6, FurtherIs
  <2>3. ASSUME NEW a \in asked'
        PROVE  /\ \/ \E p \in asked : a.id = p.id
                  \/ a.id = count + 1 /\ count' = count + 1
               /\ q.op # "sources" => a.id # q.id
    <3>1. CASE \E p \in asked \ {q} : Same(a, p)
      <4>1. PICK p \in asked \ {q} : a.id = p.id
        BY <3>1 DEF Same
      <4> QED
        BY <1>0, <4>1
    <3>2. CASE q.op = "sources" /\ \E s \in Names : a = Further(q, reply, s)
      BY <2>2, <3>2
    <3>3. CASE Put(a) /\ count' = count + 1
      <4>1. a.id = count + 1
        BY <3>3 DEF Put
      <4> QED
        BY <1>0, <3>3, <4>1
    <3> QED
      BY <2>1, <3>1, <3>2, <3>3
  <2> QED
    BY <2>1, <2>3
<1>7. CASE Answered
  <2>1. PICK q \in asked : Draw(q, q.reply) /\ late' = late
    BY <1>7 DEF Answered
  <2>2. q.reply \in ReplyType
    BY <1>0 DEF QuestionType
  <2>3. /\ count' \in {count, count + 1}
        /\ \A a \in asked' : \/ \E p \in asked : a.id = p.id
                             \/ a.id = count + 1 /\ count' = count + 1
        /\ \A a, b \in asked' : a.id = b.id => a = b
    BY <1>6, <2>1, <2>2
  <2> QED
    BY <2>1, <2>3, OneEachKept
<1>8. CASE AskFails
  <2>1. PICK q \in asked : /\ Draw(q, NoReply)
                           /\ late' = IF q.op = "update" /\ ~q.answered THEN late \cup {q} ELSE late
    BY <1>8 DEF AskFails
  <2>2. /\ count' \in {count, count + 1}
        /\ \A a \in asked' : \/ \E p \in asked : a.id = p.id
                             \/ a.id = count + 1 /\ count' = count + 1
        /\ \A a, b \in asked' : a.id = b.id => a = b
        /\ q.op # "sources" => \A a \in asked' : a.id # q.id
    BY <1>6, <2>1, NoReplyIs
  <2>3. \A a \in late' : a \in late \/ (a \in asked /\ \A b \in asked' : b.id # a.id)
    BY <2>1, <2>2
  <2> QED
    BY <2>2, <2>3, OneEachKept
<1>9. CASE UNCHANGED <<asked, late, count>>
  BY <1>9 DEF OneEach, Numbered
<1> QED
  BY <1>1, <1>3, <1>4, <1>5, <1>7, <1>8, <1>9
     DEF Next, Asking, LiveDatabaseCell, AppWrites, AppRegisters, Disconnects, Demoted, Changed, vars

----------------------------------------------------------------------------
(* What questions say, and what their answers mean.                        *)

LEMMA SameSays ==
  ASSUME NEW a, NEW p, Same(a, p), Says(p)
  PROVE  Says(a)
BY DEF Same, Says

LEMMA SameMeans ==
  ASSUME NEW a, NEW p, Same(a, p), Means(p), past'.run = past.run
  PROVE  Means(a)'
BY DEF Same, Means

\* A save is put with the row and the value the editor was opened on.
LEMMA PutSays ==
  ASSUME Typed, InPlace, NEW a, Put(a)
  PROVE  Says(a)
<1> SUFFICES ASSUME a.op = "update"
             PROVE  a.at \in Handles /\ a.handle = Float(a.at) /\ a.was = a.held
  BY DEF Says
<1>1. /\ editor # NoEditor /\ a.handle = editor.row /\ a.was = JsonScalar(editor.was)
      /\ a.at = editor.at /\ a.held = editor.held
  BY DEF Put
<1>2. /\ editor.at \in Handles /\ editor.row = Float(editor.at)
      /\ editor.held # Blob /\ editor.was = ScalarJSON(editor.held)
  BY <1>1 DEF InPlace
<1>3. editor.held \in Values
  BY DEF Typed, EditorType
<1>4. JsonScalar(ScalarJSON(editor.held)) = editor.held
  BY <1>2, <1>3, ComesBack
<1> QED
  BY <1>1, <1>2, <1>4

\* Nothing was answered yet.
LEMMA UnansweredMeans ==
  ASSUME NEW a, ~a.answered, a.reply = NoReply, a.id \notin past'.run
  PROVE  Means(a)'
<1>1. ShowsAll(<<>>) /\ ~(Len(<<>>) > 0)
  BY DEF ShowsAll
<1> QED
  BY <1>1, NoReplyIs DEF Means

\* What an update does to the memory of updates.
LEMMA RunsIs ==
  ASSUME Typed, NEW q \in QuestionType, Runs(q)
  PROVE  /\ past'.run = IF CanRun(q) THEN past.run \cup {q.id} ELSE past.run
         /\ past'.shown = past.shown /\ past'.base = past.base /\ past'.sets = past.sets
<1>1. past \in PastType
  BY DEF Typed
<1>2. CASE CanRun(q)
  <2>1. past' = [past EXCEPT !.run = @ \cup {q.id}]
    BY <1>2 DEF Runs
  <2> QED
    BY <1>1, <1>2, <2>1 DEF PastType
<1>3. CASE ~CanRun(q)
  BY <1>3 DEF Runs
<1> QED
  BY <1>2, <1>3

LEMMA NextQuestions ==
  ASSUME Typed, OneEach, Questions, InPlace, [Next]_vars
  PROVE  Questions'
<1>0. /\ count \in Nat /\ asked \subseteq QuestionType /\ late \subseteq QuestionType
      /\ past \in PastType
      /\ \A a, b \in asked : a.id = b.id => a = b
      /\ \A a, b \in late : a.id = b.id => a = b
      /\ \A a \in asked, b \in late : a.id # b.id
      /\ \A a \in asked \cup late : a.id \in 1 .. count
  BY DEF Typed, OneEach, Numbered
<1>1. /\ \A a \in asked : Says(a) /\ Means(a)
      /\ \A a \in late : Says(a) /\ a.op = "update" /\ a.id \notin past.run
      /\ \A i \in past.run : i \in 1 .. count
  BY DEF Questions
<1>2. \A a \in asked : a.op # "update" \/ ~a.answered => a.id \notin past.run
  BY <1>1 DEF Means
<1>3. ASSUME NEW a \in asked, past'.run = past.run
      PROVE  Means(a)'
  BY <1>1, <1>3 DEF Means
<1>4. CASE Asking
  <2>1. PICK q : Put(q) /\ Ask(q)
    BY <1>4, Asks
  <2>2. /\ asked' = asked \cup {q} /\ late' = late /\ count' = count + 1 /\ past' = past
    BY <2>1 DEF Ask
  <2>3. Says(q) /\ ~q.answered /\ q.reply = NoReply /\ q.id = count + 1
    BY <2>1, PutSays DEF Put
  <2>4. Means(q)'
    <3>1. q.id \notin past'.run
      BY <1>0, <1>1, <2>2, <2>3
    <3> QED
      BY <2>3, <3>1, UnansweredMeans
  <2>5. \A i \in past'.run : i \in 1 .. count'
    BY <1>0, <1>1, <2>2
  <2> QED
    BY <1>1, <1>3, <2>2, <2>3, <2>4, <2>5 DEF Questions
<1>5. CASE DeviceReads
  <2>0. PICK q \in asked :
          /\ q.op # "update"
          /\ \E reply \in ReadReplies(q) : asked' = (asked \ {q}) \cup {With(q, reply)}
    BY <1>5 DEF DeviceReads, With
  <2>1. PICK reply \in ReadReplies(q) : asked' = (asked \ {q}) \cup {With(q, reply)}
    BY <2>0
  <2>2. /\ reply \in ReplyType /\ reply.code = ""
        /\ ShowsAll(reply.rows) /\ (Len(reply.rows) > 0 => reply.ok)
    BY <1>0, <2>0, ReadRepliesAre
  <2>3. late' = late /\ count' = count /\ past' = past
    BY <1>5 DEF DeviceReads
  <2> DEFINE w == With(q, reply)
  <2>4. w.answered /\ w.reply = reply /\ w.id = q.id /\ w.op = q.op
    <3>1. q \in QuestionType /\ reply \in ReplyType
      BY <1>0, <2>2
    <3> QED
      BY <3>1, WithIs
  <2> HIDE DEF w
  <2>5. Says(w) /\ Means(w)'
    BY <1>2, <2>0, <2>2, <2>3, <2>4 DEF Says, Means
  <2>6. asked' = (asked \ {q}) \cup {w}
    BY <2>1 DEF w
  <2> QED
    BY <1>1, <1>3, <2>3, <2>5, <2>6 DEF Questions
<1>6. CASE DeviceUpdates
  <2>1. PICK q \in asked : /\ q.op = "update" /\ ~q.answered /\ Runs(q)
                           /\ asked' = (asked \ {q}) \cup {With(q, UpdateReply(q))}
    BY <1>6 DEF DeviceUpdates, With
  <2>2. late' = late /\ count' = count
    BY <1>6 DEF DeviceUpdates
  <2>a. PICK r : r = UpdateReply(q)
    OBVIOUS
  <2>b. PICK w : w = With(q, r)
    OBVIOUS
  <2>3. /\ r \in ReplyType /\ r.rows = <<>> /\ (r.ok <=> CanRun(q))
        /\ r.code = "row_changed" => ~r.ok
    BY <1>0, <2>a, UpdateReplyIs
  <2>4. /\ w.answered /\ w.reply = r /\ w.id = q.id /\ w.op = q.op /\ w.at = q.at
        /\ w.handle = q.handle /\ w.was = q.was /\ w.held = q.held
    <3>1. q \in QuestionType
      BY <1>0
    <3> QED
      BY <2>3, <2>b, <3>1, WithIs
  <2>5. asked' = (asked \ {q}) \cup {w}
    BY <2>1, <2>a, <2>b
  <2>6. past'.run = IF CanRun(q) THEN past.run \cup {q.id} ELSE past.run
    BY <1>0, <2>1, RunsIs
  <2>7. q.id \notin past.run
    BY <1>2, <2>1
  <2>8. Says(w)
    BY <1>1, <2>4 DEF Says
  <2>9. Means(w)'
    <3>1. ShowsAll(<<>>) /\ ~(Len(<<>>) > 0)
      BY DEF ShowsAll
    <3>2. w.id \in past'.run <=> r.ok
      BY <2>3, <2>4, <2>6, <2>7
    <3>3. w.op = "update"
      BY <2>1, <2>4
    <3>4. w.reply.code = "row_changed" => ~w.reply.ok
      BY <2>3, <2>4
    <3>5. w.id \in past'.run <=> w.reply.ok
      BY <2>4, <3>2
    <3>6. w.reply.rows = <<>>
      BY <2>3, <2>4
    <3> QED
      BY <2>4, <3>1, <3>3, <3>4, <3>5, <3>6 DEF Means
  <2>10. ASSUME NEW a \in asked \ {q}
         PROVE  Says(a) /\ Means(a)'
    <3>1. a.id # q.id
      BY <1>0
    <3>2. a.id \in past'.run <=> a.id \in past.run
      BY <2>6, <3>1
    <3> QED
      BY <1>1, <3>2 DEF Means
  <2>11. \A a \in late : a.id \notin past'.run
    BY <1>0, <1>1, <2>6
  <2>12. \A i \in past'.run : i \in 1 .. count
    BY <1>0, <1>1, <2>6
  <2>13. \A a \in asked' : Says(a) /\ Means(a)'
    BY <2>5, <2>8, <2>9, <2>10
  <2>14. \A a \in late' : Says(a) /\ a.op = "update" /\ a.id \notin past'.run
    BY <1>1, <2>2, <2>11
  <2> QED
    BY <2>2, <2>12, <2>13, <2>14 DEF Questions
<1>7. CASE LateUpdate
  <2>1. PICK q \in late : late' = late \ {q} /\ (Runs(q) \/ UNCHANGED <<table, past>>)
    BY <1>7 DEF LateUpdate
  <2>2. asked' = asked /\ count' = count
    BY <1>7 DEF LateUpdate
  <2>3. past'.run \subseteq past.run \cup {q.id} /\ past.run \subseteq past'.run
    <3>1. CASE Runs(q)
      BY <1>0, <3>1, RunsIs
    <3>2. CASE UNCHANGED <<table, past>>
      BY <3>2
    <3> QED
      BY <2>1, <3>1, <3>2
  <2>4. ASSUME NEW a \in asked
        PROVE  Means(a)'
    <3>1. a.id # q.id
      BY <1>0
    <3>2. a.id \in past'.run <=> a.id \in past.run
      BY <2>3, <3>1
    <3> QED
      BY <1>1, <3>2 DEF Means
  <2>5. \A a \in late' : a.id \notin past'.run
    BY <1>0, <1>1, <2>1, <2>3
  <2>6. \A i \in past'.run : i \in 1 .. count
    BY <1>0, <1>1, <2>3
  <2> QED
    BY <1>1, <2>1, <2>2, <2>4, <2>5, <2>6 DEF Questions
<1>8. ASSUME NEW q \in asked, NEW reply \in ReplyType, Draw(q, reply)
      PROVE  /\ \A a \in asked' : Says(a) /\ Means(a)'
             /\ past'.run = past.run /\ \A i \in past'.run : i \in 1 .. count'
  <2>1. /\ \A a \in asked' :
             \/ \E p \in asked \ {q} : Same(a, p)
             \/ q.op = "sources" /\ \E s \in Names : a = Further(q, reply, s)
             \/ Put(a) /\ a.op = "rows" /\ count' = count + 1
        /\ count' \in {count, count + 1} /\ past'.run = past.run
    BY <1>8, DrawAsked
  <2>2. ASSUME NEW a \in asked'
        PROVE  Says(a) /\ Means(a)'
    <3>1. CASE \E p \in asked \ {q} : Same(a, p)
      BY <1>1, <2>1, <3>1, SameSays, SameMeans
    <3>2. CASE q.op = "sources" /\ \E s \in Names : a = Further(q, reply, s)
      <4>1. PICK s \in Names : a = Further(q, reply, s)
        BY <3>2
      <4>2. ~a.answered /\ a.reply = NoReply /\ a.id = q.id /\ a.op = "namespaces"
        BY <1>0, <4>1, FurtherIs
      <4>3. a.id \notin past'.run
        BY <1>2, <2>1, <3>2, <4>2
      <4> QED
        BY <4>2, <4>3, UnansweredMeans DEF Says
    <3>3. CASE Put(a) /\ a.op = "rows"
      <4>1. ~a.answered /\ a.reply = NoReply /\ a.id = count + 1
        BY <3>3 DEF Put
      <4>2. a.id \notin past'.run
        BY <1>0, <1>1, <2>1, <4>1
      <4> QED
        BY <3>3, <4>1, <4>2, UnansweredMeans DEF Says
    <3> QED
      BY <2>1, <3>1, <3>2, <3>3
  <2>3. \A i \in past'.run : i \in 1 .. count'
    BY <1>0, <1>1, <2>1
  <2> QED
    BY <2>1, <2>2, <2>3
<1>9. CASE Answered
  <2>1. PICK q \in asked : Draw(q, q.reply) /\ late' = late
    BY <1>9 DEF Answered
  <2>2. q.reply \in ReplyType
    BY <1>0 DEF QuestionType
  <2> QED
    BY <1>1, <1>8, <2>1, <2>2 DEF Questions
<1>10. CASE AskFails
  <2>1. PICK q \in asked : /\ Draw(q, NoReply)
                           /\ late' = IF q.op = "update" /\ ~q.answered THEN late \cup {q} ELSE late
    BY <1>10 DEF AskFails
  <2>2. /\ \A a \in asked' : Says(a) /\ Means(a)'
        /\ past'.run = past.run /\ \A i \in past'.run : i \in 1 .. count'
    BY <1>8, <2>1, NoReplyIs
  <2>3. \A a \in late' : Says(a) /\ a.op = "update" /\ a.id \notin past'.run
    BY <1>1, <1>2, <2>1, <2>2
  <2> QED
    BY <2>2, <2>3 DEF Questions
<1>11. CASE UNCHANGED <<asked, late, count>> /\ past'.run = past.run
  BY <1>1, <1>3, <1>11 DEF Questions
<1>12. CASE AppWrites
  <2>1. past'.run = past.run
    BY <1>0, <1>12 DEF AppWrites, PastType
  <2> QED
    BY <1>11, <1>12, <2>1 DEF AppWrites, Changed
<1> QED
  BY <1>4, <1>5, <1>6, <1>7, <1>9, <1>10, <1>11, <1>12
     DEF Next, Asking, LiveDatabaseCell, AppRegisters, Disconnects, Demoted, Changed, vars

----------------------------------------------------------------------------
(* What a save says.                                                       *)

\* The banner after an answer was drawn.
LEMMA DrawBanner ==
  ASSUME Typed, NEW q \in asked, NEW reply \in ReplyType, Draw(q, reply)
  PROVE  \/ banner' = banner
         \/ banner'.kind = "none"
         \/ /\ q.op = "update" /\ banner'.id = q.id
            /\ banner'.kind = IF reply.ok THEN "ok"
                              ELSE IF reply.code = "row_changed" THEN "warn" ELSE "err"
<1>1. \/ Unused(q) \/ AsksFurther(q, reply) \/ RedrawsPane(q) \/ RedrawsGrid(q, reply)
      \/ EndsSave(q, reply)
  BY Draws
<1>2. CASE Unused(q) \/ AsksFurther(q, reply) \/ RedrawsGrid(q, reply)
  BY <1>2 DEF Unused, AsksFurther, RedrawsGrid, DrawGrid, page
<1>3. CASE RedrawsPane(q)
  BY <1>3 DEF RedrawsPane, DrawPane, NoBanner
<1>4. CASE EndsSave(q, reply)
  <2>1. q.op = "update" /\ DrawSave(q, reply) /\ q \in QuestionType
    BY <1>4 DEF EndsSave, Typed
  <2> QED
    BY <2>1, SaveIs
<1> QED
  BY <1>1, <1>2, <1>3, <1>4

LEMMA NextBanners ==
  ASSUME Typed, OneEach, Questions, BannersAreTrue, Refused, [Next]_vars
  PROVE  BannersAreTrue' /\ Refused'
<1>0. /\ count \in Nat /\ asked \subseteq QuestionType /\ late \subseteq QuestionType
      /\ past \in PastType
      /\ \A a, b \in asked : a.id = b.id => a = b
      /\ \A a \in asked, b \in late : a.id # b.id
      /\ \A a \in asked \cup late : a.id \in 1 .. count
  BY DEF Typed, OneEach, Numbered
<1>1. /\ banner.kind = "ok" => banner.id \in past.run
      /\ banner.kind = "warn" => /\ banner.id \notin past.run /\ banner.id \in 1 .. count
                                 /\ \A a \in asked \cup late : a.id # banner.id
  BY DEF BannersAreTrue, Refused
<1>2. ASSUME banner' = banner, count' \in {count, count + 1},
             \A i \in past'.run \ past.run : \E a \in asked \cup late : i = a.id,
             past.run \subseteq past'.run,
             \A a \in asked' \cup late' :
               (\E p \in asked \cup late : a.id = p.id) \/ a.id = count + 1
      PROVE  BannersAreTrue' /\ Refused'
  <2>1. CASE banner.kind = "warn"
    <3>1. /\ banner.id \notin past.run /\ banner.id \in 1 .. count
          /\ \A a \in asked \cup late : a.id # banner.id
      BY <1>1, <2>1
    <3>2. banner.id \notin past'.run
      BY <1>2, <3>1
    <3>3. banner.id \in 1 .. count' /\ banner.id # count + 1
      BY <1>0, <1>2, <3>1
    <3>4. \A a \in asked' \cup late' : a.id # banner.id
      BY <1>2, <3>1, <3>3
    <3> QED
      BY <1>2, <2>1, <3>2, <3>3, <3>4 DEF BannersAreTrue, Refused
  <2>2. CASE banner.kind # "warn"
    BY <1>1, <1>2, <2>2 DEF BannersAreTrue, Refused
  <2> QED
    BY <2>1, <2>2
<1>3. CASE Asking
  <2>1. PICK q : Put(q) /\ Ask(q)
    BY <1>3, Asks
  <2>2. /\ asked' = asked \cup {q} /\ late' = late /\ count' = count + 1 /\ past' = past
        /\ banner' = banner /\ q.id = count + 1
    BY <2>1 DEF Ask, Put, page
  <2> QED
    BY <1>2, <2>2
<1>4. CASE DeviceReads
  <2>0. PICK q \in asked :
          /\ q.op # "update"
          /\ \E reply \in ReadReplies(q) : asked' = (asked \ {q}) \cup {With(q, reply)}
    BY <1>4 DEF DeviceReads, With
  <2>1. PICK reply \in ReadReplies(q) : asked' = (asked \ {q}) \cup {With(q, reply)}
    BY <2>0
  <2>2. q \in QuestionType /\ reply \in ReplyType
    BY <1>0, <2>0, ReadRepliesAre
  <2>3. With(q, reply).id = q.id
    BY <2>2, WithIs
  <2>4. late' = late /\ count' = count /\ past' = past /\ banner' = banner
    BY <1>4 DEF DeviceReads, page
  <2> QED
    BY <1>2, <2>1, <2>3, <2>4
<1>5. CASE DeviceUpdates
  <2>1. PICK q \in asked : /\ Runs(q)
                           /\ asked' = (asked \ {q}) \cup {With(q, UpdateReply(q))}
    BY <1>5 DEF DeviceUpdates, With
  <2>2. q \in QuestionType /\ UpdateReply(q) \in ReplyType
    BY <1>0, UpdateReplyIs
  <2>3. With(q, UpdateReply(q)).id = q.id
    BY <2>2, WithIs
  <2>4. late' = late /\ count' = count /\ banner' = banner
    BY <1>5 DEF DeviceUpdates, page
  <2>5. past'.run \subseteq past.run \cup {q.id} /\ past.run \subseteq past'.run
    BY <2>1, <2>2, RunsIs
  <2> QED
    BY <1>2, <2>1, <2>3, <2>4, <2>5
<1>6. CASE LateUpdate
  <2>1. PICK q \in late : late' = late \ {q} /\ (Runs(q) \/ UNCHANGED <<table, past>>)
    BY <1>6 DEF LateUpdate
  <2>2. asked' = asked /\ count' = count /\ banner' = banner
    BY <1>6 DEF LateUpdate, page
  <2>3. past'.run \subseteq past.run \cup {q.id} /\ past.run \subseteq past'.run
    <3>1. CASE Runs(q)
      BY <1>0, <3>1, RunsIs
    <3>2. CASE UNCHANGED <<table, past>>
      BY <3>2
    <3> QED
      BY <2>1, <3>1, <3>2
  <2> QED
    BY <1>2, <2>1, <2>2, <2>3
<1>7. ASSUME NEW q \in asked, NEW reply \in ReplyType, Draw(q, reply),
             late' = late \/ (reply = NoReply /\ late' = late \cup {q} /\ q.op = "update"),
             reply = NoReply \/ (late' = late /\ q.answered /\ reply = q.reply)
      PROVE  BannersAreTrue' /\ Refused'
  <2>1. /\ \A a \in asked' :
             \/ \E p \in asked \ {q} : Same(a, p)
             \/ q.op = "sources" /\ \E s \in Names : a = Further(q, reply, s)
             \/ Put(a) /\ a.op = "rows" /\ count' = count + 1
        /\ count' \in {count, count + 1} /\ past'.run = past.run
    BY <1>7, DrawAsked
  <2>2. q \in QuestionType
    BY <1>0
  <2>3. \A a \in asked' : \/ \E p \in asked \ {q} : a.id = p.id
                          \/ q.op = "sources" /\ a.id = q.id
                          \/ a.id = count + 1
    BY <1>7, <2>1, <2>2, FurtherIs DEF Same, Put
  <2>4. CASE banner' = banner
    BY <1>2, <1>7, <2>1, <2>3, <2>4
  <2>5. CASE banner'.kind = "none"
    BY <2>5 DEF BannersAreTrue, Refused
  <2>6. CASE /\ q.op = "update" /\ banner'.id = q.id
             /\ banner'.kind = IF reply.ok THEN "ok"
                               ELSE IF reply.code = "row_changed" THEN "warn" ELSE "err"
    <3>1. CASE reply = NoReply
      <4>1. banner'.kind = "err"
        BY <2>6, <3>1, NoReplyIs
      <4> QED
        BY <4>1 DEF BannersAreTrue, Refused
    <3>2. CASE late' = late /\ q.answered /\ reply = q.reply
      <4>1. q.id \in past.run <=> reply.ok
        BY <2>6, <3>2 DEF Questions, Means
      <4>2. BannersAreTrue'
        <5>1. banner'.kind = "ok" => reply.ok
          BY <2>6
        <5>2. banner'.kind = "warn" => ~reply.ok
          BY <2>6
        <5> QED
          BY <2>1, <2>6, <4>1, <5>1, <5>2 DEF BannersAreTrue
      <4>3. q.id \in 1 .. count'
        BY <1>0, <2>1
      <4>4. \A a \in asked' : a.id # q.id
        BY <1>0, <2>3, <2>6
      <4>5. \A a \in late' : a.id # q.id
        BY <1>0, <3>2
      <4> QED
        BY <2>6, <4>2, <4>3, <4>4, <4>5 DEF Refused
    <3> QED
      BY <1>7, <3>1, <3>2
  <2> QED
    BY <1>7, <2>4, <2>5, <2>6, DrawBanner
<1>8. CASE Answered
  <2>1. PICK q \in asked : q.answered /\ Draw(q, q.reply) /\ late' = late
    BY <1>8 DEF Answered
  <2>2. q.reply \in ReplyType
    BY <1>0 DEF QuestionType
  <2> QED
    BY <1>7, <2>1, <2>2
<1>9. CASE AskFails
  <2>1. PICK q \in asked : /\ Draw(q, NoReply)
                           /\ late' = IF q.op = "update" /\ ~q.answered THEN late \cup {q} ELSE late
    BY <1>9 DEF AskFails
  <2> QED
    BY <1>7, <2>1, NoReplyIs
<1>10. CASE UNCHANGED <<asked, late, count, banner>> /\ past'.run = past.run
  BY <1>2, <1>10
<1>11. CASE AppWrites
  <2>1. past'.run = past.run
    BY <1>0, <1>11 DEF AppWrites, PastType
  <2> QED
    BY <1>10, <1>11, <2>1 DEF AppWrites, Changed, page
<1> QED
  BY <1>3, <1>4, <1>5, <1>6, <1>8, <1>9, <1>10, <1>11
     DEF Next, Asking, LiveDatabaseCell, AppRegisters, Disconnects, Demoted, Changed, page, vars

----------------------------------------------------------------------------
(* The parts of the page belong together.                                  *)

\* A link leads to the database on the rail.
LEMMA LinksInPlace ==
  ASSUME InPlace, NEW url \in Links
  PROVE  url.db = pane.selected
<1>1. CASE url \in LiveDBGrid(grid)
  <2>1. grid.ok /\ grid.db = pane.selected
    BY <1>1 DEF LiveDBGrid, InPlace
  <2>2. url.db = grid.db
    BY <1>1 DEF LiveDBGrid, Arrows, HeaderURL, SameURL, NextURL, PrevURL, RowsURL
  <2> QED
    BY <2>1, <2>2
<1>2. CASE editor # NoEditor /\ url = editor.place
  <2>1. grid.ok /\ editor.place = SameURL(grid) /\ grid.db = pane.selected
    BY <1>2 DEF InPlace
  <2> QED
    BY <1>2, <2>1 DEF SameURL, RowsURL
<1>3. CASE url = [db |-> pane.selected, offset |-> 0, sort |-> ""]
  BY <1>3
<1> QED
  BY <1>1, <1>2, <1>3 DEF Links

\* A cell with a button shows what its row held, whole.
LEMMA CellIsWhole ==
  ASSUME Typed, InPlace, NEW i \in LiveDBCell(grid), NEW e, e = CellURL(grid, i)
  PROVE  /\ grid.ok /\ e.place = SameURL(grid) /\ e.at \in Handles /\ e.row = Float(e.at)
         /\ e.held # Blob /\ e.was = ScalarJSON(e.held)
<1> DEFINE r == grid.rows[i]
<1>1. i \in 1 .. Len(grid.rows) /\ ~r.cell.ro /\ r.handle # None
  BY DEF LiveDBCell
<1>2. grid.rows \in Seq(RowType)
  BY DEF Typed, GridType
<1>3. r \in RowType /\ Shows(r) /\ grid.ok
  BY <1>1, <1>2 DEF InPlace, ShowsAll
<1>4. /\ e.place = SameURL(grid) /\ e.row = Float(r.handle) /\ e.was = ScalarJSON(r.cell.v)
      /\ e.at = r.row /\ e.held = r.held
  BY DEF CellURL
<1>a. ~r.cell.ro
  BY <1>1
<1> HIDE DEF r
<1>5. r.cell = Cell(r.held) /\ r.handle = r.row /\ r.row \in Handles
  BY <1>1, <1>3 DEF Shows, RowType
<1>6. r.cell.v = r.held /\ r.held # Blob
  <2>1. CASE r.held.type = "blob"
    <3>1. r.cell = [v |-> Str("blob"), ro |-> TRUE]
      BY <1>5, <2>1 DEF Cell
    <3> QED
      BY <1>a, <3>1
  <2>2. CASE r.held.type # "blob"
    <3>1. r.cell = [v |-> r.held, ro |-> FALSE]
      BY <1>5, <2>2 DEF Cell
    <3>2. r.cell.v = r.held
      BY <3>1
    <3>3. Blob.type = "blob"
      BY DEF Blob
    <3> QED
      BY <2>2, <3>2, <3>3
  <2> QED
    BY <2>1, <2>2
<1> QED
  BY <1>3, <1>4, <1>5, <1>6

LEMMA DrawInPlace ==
  ASSUME Typed, OneEach, InPlace, NEW q \in asked, NEW reply \in ReplyType, Draw(q, reply),
         ShowsAll(reply.rows), Len(reply.rows) > 0 => reply.ok
  PROVE  InPlace'
<1>1. \/ Unused(q) \/ AsksFurther(q, reply) \/ RedrawsPane(q) \/ RedrawsGrid(q, reply)
      \/ EndsSave(q, reply)
  BY Draws
<1>2. /\ \A a \in asked' :
           \/ \E p \in asked \ {q} : Same(a, p)
           \/ q.op = "sources" /\ \E s \in Names : a = Further(q, reply, s)
           \/ Put(a) /\ a.op = "rows" /\ count' = count + 1
  BY DrawAsked
<1>3. \A a, p : Same(a, p) /\ ForThePage(a) => ForThePage(p) /\ a.db = p.db
  BY DEF Same, ForThePage
<1>4. /\ \A a \in asked : ForThePage(a) => a.db = pane.selected
      /\ grid.db # None \/ grid.ok => grid.db = pane.selected
      /\ ShowsAll(grid.rows) /\ (Len(grid.rows) > 0 => grid.ok)
  BY DEF InPlace
<1>5. q \in QuestionType /\ asked \subseteq QuestionType
  BY DEF Typed
<1>6. \A s \in Names : Further(q, reply, s).op = "namespaces"
  BY <1>5, FurtherIs
<1>7. \A a : Put(a) /\ ForThePage(a) => a.db = pane.selected
  <2> SUFFICES ASSUME NEW a, Put(a), ForThePage(a) PROVE a.db = pane.selected
    OBVIOUS
  <2>1. PICK url \in Links : a.db = url.db
    BY DEF Put, ForThePage
  <2> QED
    BY <2>1, LinksInPlace
<1>8. ASSUME pane' = pane
      PROVE  \A a \in asked' : ForThePage(a) => a.db = pane'.selected
  <2> SUFFICES ASSUME NEW a \in asked', ForThePage(a) PROVE a.db = pane.selected
    BY <1>8
  <2>1. CASE \E p \in asked \ {q} : Same(a, p)
    BY <1>3, <1>4, <2>1
  <2>2. CASE \E s \in Names : a = Further(q, reply, s)
    BY <1>6, <2>2 DEF ForThePage
  <2>3. CASE Put(a)
    BY <1>7, <2>3
  <2> QED
    BY <1>2, <2>1, <2>2, <2>3
<1>9. ShowsAll(<<>>) /\ ~(Len(<<>>) > 0)
  BY DEF ShowsAll
<1>10. CASE UNCHANGED <<pane, grid, editor>>
  BY <1>8, <1>10 DEF InPlace, SameURL, RowsURL
<1>11. CASE Unused(q) \/ AsksFurther(q, reply) \/ EndsSave(q, reply)
  BY <1>10, <1>11 DEF Unused, AsksFurther, EndsSave, DrawSave, page
<1>12. CASE RedrawsPane(q)
  <2>1. grid' = NoGrid /\ editor' = NoEditor /\ asked' = Detached(asked \ {q})
    BY <1>12 DEF RedrawsPane, DrawPane
  <2>2. \A a \in asked' : ~ForThePage(a)
    BY <1>5, <2>1, DetachedIs
  <2>3. grid'.db = None /\ ~grid'.ok /\ grid'.rows = <<>>
    BY <2>1 DEF NoGrid
  <2> QED
    BY <1>9, <2>1, <2>2, <2>3 DEF InPlace
<1>13. CASE RedrawsGrid(q, reply)
  <2>1. grid' = GridOf(q, reply) /\ editor' = NoEditor /\ pane' = pane
    BY <1>13 DEF RedrawsGrid, DrawGrid
  <2>2. q.db = pane.selected
    BY <1>4, <1>13 DEF RedrawsGrid
  <2>3. grid'.db = q.db /\ grid'.rows = reply.rows /\ (grid'.ok <=> reply.ok)
    BY <2>1 DEF GridOf
  <2> QED
    BY <1>8, <2>1, <2>2, <2>3 DEF InPlace
<1> QED
  BY <1>1, <1>11, <1>12, <1>13

LEMMA NextInPlace ==
  ASSUME Typed, OneEach, Questions, InPlace, [Next]_vars
  PROVE  InPlace'
<1>0. asked \subseteq QuestionType
  BY DEF Typed
<1>1. CASE Asking
  <2>1. PICK q : Put(q) /\ Ask(q)
    BY <1>1, Asks
  <2>2. asked' = asked \cup {q} /\ UNCHANGED <<pane, grid, editor>>
    BY <2>1 DEF Ask, page
  <2>3. ForThePage(q) => q.db = pane.selected
    <3> SUFFICES ASSUME ForThePage(q) PROVE q.db = pane.selected
      OBVIOUS
    <3>1. PICK url \in Links : q.db = url.db
      BY <2>1 DEF Put, ForThePage
    <3> QED
      BY <3>1, LinksInPlace
  <2> QED
    BY <2>2, <2>3 DEF InPlace, SameURL, RowsURL
<1>2. CASE LiveDatabaseCell
  <2>1. PICK i \in LiveDBCell(grid) : editor' = CellURL(grid, i)
    BY <1>2 DEF LiveDatabaseCell
  <2>2. asked' = asked /\ pane' = pane /\ grid' = grid
    BY <1>2 DEF LiveDatabaseCell
  <2>3. /\ grid.ok /\ editor'.place = SameURL(grid) /\ editor'.at \in Handles
        /\ editor'.row = Float(editor'.at) /\ editor'.held # Blob
        /\ editor'.was = ScalarJSON(editor'.held)
    BY <2>1, CellIsWhole
  <2> QED
    BY <2>2, <2>3 DEF InPlace, SameURL, RowsURL
<1>3. ASSUME NEW q \in asked, NEW reply \in ReplyType,
             asked' = (asked \ {q}) \cup {With(q, reply)}, UNCHANGED <<pane, grid, editor>>
      PROVE  InPlace'
  <2>1. ForThePage(With(q, reply)) => ForThePage(q)
    BY <1>0, <1>3, WithIs DEF ForThePage
  <2>2. With(q, reply).db = q.db
    BY <1>0, <1>3, WithIs
  <2> QED
    BY <1>3, <2>1, <2>2 DEF InPlace, SameURL, RowsURL
<1>4. CASE DeviceReads
  <2>0. PICK q \in asked :
          /\ q.op # "update"
          /\ \E reply \in ReadReplies(q) : asked' = (asked \ {q}) \cup {With(q, reply)}
    BY <1>4 DEF DeviceReads, With
  <2>1. PICK reply \in ReadReplies(q) : asked' = (asked \ {q}) \cup {With(q, reply)}
    BY <2>0
  <2>2. reply \in ReplyType
    BY <1>0, <2>0, ReadRepliesAre
  <2> QED
    BY <1>3, <1>4, <2>1, <2>2 DEF DeviceReads, page
<1>5. CASE DeviceUpdates
  <2>1. PICK q \in asked : asked' = (asked \ {q}) \cup {With(q, UpdateReply(q))}
    BY <1>5 DEF DeviceUpdates, With
  <2>2. UpdateReply(q) \in ReplyType
    BY <1>0, UpdateReplyIs
  <2> QED
    BY <1>3, <1>5, <2>1, <2>2 DEF DeviceUpdates, page
<1>6. CASE Answered
  <2>1. PICK q \in asked : Draw(q, q.reply)
    BY <1>6 DEF Answered
  <2>2. q.reply \in ReplyType
    BY <1>0 DEF QuestionType
  <2>3. ShowsAll(q.reply.rows) /\ (Len(q.reply.rows) > 0 => q.reply.ok)
    BY DEF Questions, Means
  <2> QED
    BY <2>1, <2>2, <2>3, DrawInPlace
<1>7. CASE AskFails
  <2>1. PICK q \in asked : Draw(q, NoReply)
    BY <1>7 DEF AskFails
  <2>2. ShowsAll(NoReply.rows) /\ ~(Len(NoReply.rows) > 0)
    <3>1. ShowsAll(<<>>) /\ ~(Len(<<>>) > 0)
      BY DEF ShowsAll
    <3> QED
      BY <3>1, NoReplyIs
  <2> QED
    BY <2>1, <2>2, NoReplyIs, DrawInPlace
<1>8. CASE UNCHANGED <<asked, pane, grid, editor>>
  BY <1>8 DEF InPlace, SameURL, RowsURL
<1> QED
  BY <1>1, <1>2, <1>4, <1>5, <1>6, <1>7, <1>8
     DEF Next, Asking, LateUpdate, AppWrites, AppRegisters, Disconnects, Demoted, Changed, page, vars

----------------------------------------------------------------------------
(* Paging.                                                                 *)

\* The order of the rows is theirs alone.
LEMMA OrderKept ==
  ASSUME NEW db, NEW sort, Present(db)' = Present(db)
  PROVE  Ordered(db, sort)' = Ordered(db, sort)
BY DEF Ordered

\* Rows that are still there are a page still.
LEMMA CutKept ==
  ASSUME NEW d, Present(d.db)' = Present(d.db), Cut(d)
  PROVE  Cut(d)'
<1>1. Ordered(d.db, d.sort)' = Ordered(d.db, d.sort)
  BY OrderKept
<1> QED
  BY <1>1 DEF Cut

LEMMA CoveredKept ==
  ASSUME NEW db, NEW sort, NEW n, Present(db)' = Present(db), past'.sets = past.sets,
         past.shown \subseteq past'.shown, Covered(db, sort, n)
  PROVE  Covered(db, sort, n)'
<1>1. Ordered(db, sort)' = Ordered(db, sort)
  BY OrderKept
<1> QED
  BY <1>1 DEF Covered

LEMMA CoveredLess ==
  ASSUME NEW db, NEW sort, NEW n \in Int, NEW m \in Int, m <= n, Covered(db, sort, n)
  PROVE  Covered(db, sort, m)
<1>1. \A i \in 1 .. Len(Ordered(db, sort)) : i <= m => i <= n
  <2>1. Len(Ordered(db, sort)) \in Nat
    BY OrderedIs
  <2> QED
    BY <2>1
<1> QED
  BY <1>1 DEF Covered

LEMMA CoveredNone ==
  ASSUME NEW db, NEW sort
  PROVE  Covered(db, sort, 0)
<1>1. Len(Ordered(db, sort)) \in Nat
  BY OrderedIs
<1>2. \A i \in 1 .. Len(Ordered(db, sort)) : ~(i <= 0)
  BY <1>1
<1> QED
  BY <1>2 DEF Covered

\* A question the page left alone.
LEMMA QuestionKept ==
  ASSUME NEW p \in QuestionType, NEW a, Same(a, p), PagedQuestion(p),
         \A db \in Names : Present(db)' = Present(db),
         past'.sets = past.sets, past.shown \subseteq past'.shown \/ ~ForThePage(a)
  PROVE  PagedQuestion(a)'
<1>1. /\ a.base = p.base /\ a.reply = p.reply /\ a.op = p.op /\ a.db = p.db /\ a.sort = p.sort
      /\ a.offset = p.offset /\ (ForThePage(a) => ForThePage(p))
  BY DEF Same, ForThePage
<1>2. GridOf(a, a.reply) = GridOf(p, p.reply)
  BY <1>1 DEF GridOf
<1>3. GridOf(p, p.reply).db = p.db
  BY DEF GridOf
<1>4. ASSUME p.op = "rows", p.reply.ok, p.reply.sets = past.sets
      PROVE  Cut(GridOf(p, p.reply))'
  <2>1. p.db \in Names /\ Cut(GridOf(p, p.reply))
    BY <1>4 DEF PagedQuestion
  <2> DEFINE d == GridOf(p, p.reply)
  <2>2. Present(d.db)' = Present(d.db) /\ Cut(d)
    BY <1>3, <2>1
  <2> HIDE DEF d
  <2>3. Cut(d)'
    BY <2>2, CutKept
  <2> QED
    BY <2>3 DEF d
<1>5. ASSUME ForThePage(a), p.base = past.sets, p.db \in Names
      PROVE  Covered(p.db, p.sort, p.offset)'
  <2>1. Covered(p.db, p.sort, p.offset)
    BY <1>1, <1>5 DEF PagedQuestion
  <2> QED
    BY <1>5, <2>1, CoveredKept
<1>6. /\ p.base <= past.sets /\ p.reply.sets <= past.sets
      /\ p.op = "rows" /\ p.reply.ok => p.db \in Names
  BY DEF PagedQuestion
<1> QED
  BY <1>1, <1>2, <1>4, <1>5, <1>6 DEF PagedQuestion

LEMMA GridKept ==
  ASSUME PagedGrid, grid' = grid, \A db \in Names : Present(db)' = Present(db),
         past'.sets = past.sets, past'.base = past.base, past.shown \subseteq past'.shown
  PROVE  PagedGrid'
<1>1. CASE grid.ok /\ past.base = past.sets
  <2>1. grid.db \in Names /\ Cut(grid) /\ Covered(grid.db, grid.sort, grid.offset + Len(grid.rows))
    BY <1>1 DEF PagedGrid
  <2>2. PICK d, n : d = grid /\ n = grid.offset + Len(grid.rows)
    OBVIOUS
  <2>3. Present(d.db)' = Present(d.db) /\ Cut(d) /\ Covered(d.db, d.sort, n)
    BY <2>1, <2>2
  <2>4. Cut(d)' /\ Covered(d.db, d.sort, n)'
    BY <2>3, CutKept, CoveredKept
  <2>5. d = grid' /\ n = grid'.offset + Len(grid'.rows)
    BY <2>2
  <2> QED
    BY <2>1, <2>4, <2>5 DEF PagedGrid, Cut, Covered
<1>2. CASE ~(grid.ok /\ past.base = past.sets)
  BY <1>2 DEF PagedGrid
<1> QED
  BY <1>1, <1>2

\* A page asked for begins no later than what was shown ends.
LEMMA PutPaged ==
  ASSUME Typed, InPlace, Paged, NEW a, Put(a)
  PROVE  PagedQuestion(a)
<1>1. past.sets \in Nat /\ past.base \in Int /\ past.base <= past.sets
  BY DEF Typed, PastType, Paged
<1>2. a.base = past.base /\ a.reply = NoReply /\ ~NoReply.ok /\ NoReply.sets = 0
  BY NoReplyIs DEF Put
<1>3. ASSUME ForThePage(a), a.base = past.sets
      PROVE  Covered(a.db, a.sort, a.offset)
  <2>1. PICK url \in Links : a.db = url.db /\ a.offset = url.offset /\ a.sort = url.sort
    BY <1>3 DEF Put, ForThePage
  <2>2. CASE a.offset = 0
    BY <2>2, CoveredNone
  <2>3. ASSUME grid.ok, a.db = grid.db, a.sort = grid.sort, a.offset \in Int,
               a.offset <= grid.offset + Len(grid.rows)
        PROVE  Covered(a.db, a.sort, a.offset)
    <3>1. Covered(grid.db, grid.sort, grid.offset + Len(grid.rows))
      BY <1>2, <1>3, <2>3 DEF Paged, PagedGrid
    <3>2. grid.offset + Len(grid.rows) \in Int
      BY DEF Typed, GridType
    <3> QED
      BY <2>3, <3>1, <3>2, CoveredLess
  <2>4. grid.offset \in Nat /\ Len(grid.rows) \in Nat /\ Limit \in Nat
    BY LiveDbAssumption DEF Typed, GridType
  <2>5. CASE grid.ok /\ url = SameURL(grid)
    <3>1. a.db = grid.db /\ a.sort = grid.sort /\ a.offset = grid.offset
      BY <2>1, <2>5 DEF SameURL, RowsURL
    <3> QED
      BY <2>3, <2>4, <2>5, <3>1
  <2>6. CASE grid.ok /\ url = NextURL(grid)
    <3>1. a.db = grid.db /\ a.sort = grid.sort /\ a.offset = grid.offset + Len(grid.rows)
      BY <2>1, <2>6 DEF NextURL, RowsURL
    <3> QED
      BY <2>3, <2>4, <2>6, <3>1
  <2>7. CASE grid.ok /\ url = PrevURL(grid)
    <3>1. /\ a.db = grid.db /\ a.sort = grid.sort
          /\ a.offset = IF grid.offset > Limit THEN grid.offset - Limit ELSE 0
      BY <2>1, <2>7 DEF PrevURL, RowsURL
    <3>2. a.offset \in Int /\ a.offset <= grid.offset + Len(grid.rows)
      BY <2>4, <3>1
    <3> QED
      BY <2>3, <2>7, <3>1, <3>2
  <2>8. CASE url = HeaderURL(grid)
    BY <2>1, <2>2, <2>8 DEF HeaderURL, RowsURL
  <2>9. CASE url \in LiveDBGrid(grid)
    BY <2>5, <2>6, <2>7, <2>8, <2>9 DEF LiveDBGrid, Arrows
  <2>10. CASE editor # NoEditor /\ url = editor.place
    BY <2>5, <2>10 DEF InPlace
  <2>11. CASE url = [db |-> pane.selected, offset |-> 0, sort |-> ""]
    BY <2>1, <2>2, <2>11
  <2> QED
    BY <2>9, <2>10, <2>11 DEF Links
<1> QED
  BY <1>1, <1>2, <1>3 DEF PagedQuestion

\* A page drawn over the row set it was cut from goes on where what was shown
\* ends, or starts anew.
LEMMA GridPaged ==
  ASSUME Typed, Paged, NEW q \in asked, RedrawsGrid(q, q.reply), table' = table
  PROVE  /\ PagedGrid' /\ past'.base <= past'.sets
         /\ past'.sets = past.sets /\ past.shown \subseteq past'.shown
<1> DEFINE reply == q.reply
<1>0. /\ past \in PastType /\ q \in QuestionType /\ reply \in ReplyType /\ q.op = "rows"
      /\ ForThePage(q) /\ PagedQuestion(q) /\ past.base <= past.sets
  BY DEF Typed, QuestionType, RedrawsGrid, ForThePage, Paged
<1>1. past.sets \in Nat /\ past.base \in Int /\ reply.sets \in Nat /\ q.base \in Int /\ q.offset \in Nat
  BY <1>0 DEF PastType, QuestionType, ReplyType
<1>2. /\ grid' = GridOf(q, reply)
      /\ IF reply.ok THEN Show(q, reply) ELSE UNCHANGED past
  BY DEF RedrawsGrid, DrawGrid
<1>3. /\ grid'.db = q.db /\ grid'.sort = q.sort /\ grid'.offset = q.offset
      /\ grid'.rows = reply.rows /\ (grid'.ok <=> reply.ok)
  BY <1>2 DEF GridOf
<1>4. CASE ~reply.ok
  BY <1>0, <1>2, <1>3, <1>4 DEF PagedGrid
<1>5. CASE reply.ok
  <2> DEFINE seen == {<<reply.sets, q.sort, reply.rows[i].row>> : i \in 1 .. Len(reply.rows)}
             base == IF q.offset = 0 \/ reply.sets = q.base THEN reply.sets ELSE Mixed
  <2>1. past' = [past EXCEPT !.base = base, !.shown = @ \cup seen]
    BY <1>2, <1>5 DEF Show
  <2>2. past'.base = base /\ past'.shown = past.shown \cup seen /\ past'.sets = past.sets
    <3> HIDE DEF base, seen
    <3> QED
      BY <1>0, <2>1 DEF PastType
  <2>3. reply.sets <= past.sets /\ q.db \in Names
    BY <1>0, <1>5 DEF PagedQuestion
  <2>4. Mixed = -1
    BY DEF Mixed
  <2>5. base <= past.sets
    BY <1>1, <2>3, <2>4
  <2>6. ASSUME base = past.sets
        PROVE  /\ Cut(grid)'
               /\ Covered(q.db, q.sort, q.offset + Len(reply.rows))'
    <3>1. reply.sets = past.sets /\ (q.offset = 0 \/ q.base = past.sets)
      BY <1>1, <2>4, <2>6
    <3>2. Cut(GridOf(q, reply))
      BY <1>0, <1>5, <3>1 DEF PagedQuestion
    <3>3. Covered(q.db, q.sort, q.offset)
      <4>1. CASE q.offset = 0
        BY <4>1, CoveredNone
      <4>2. CASE q.base = past.sets
        BY <1>0, <2>3, <4>2 DEF PagedQuestion
      <4> QED
        BY <3>1, <4>1, <4>2
    <3>4. \A db, sort : Ordered(db, sort)' = Ordered(db, sort)
      BY DEF Ordered, Present
    <3>5. PICK d : d = GridOf(q, reply)
      OBVIOUS
    <3>6. Cut(grid)'
      <4>1. Cut(d)' <=> Cut(d)
        BY <3>4 DEF Cut
      <4>2. grid' = d /\ Cut(d)'
        BY <1>2, <3>2, <3>5, <4>1
      <4> QED
        BY <4>2 DEF Cut
    <3>7. PICK all : all = Ordered(q.db, q.sort)
      OBVIOUS
    <3>8. all = Ordered(q.db, q.sort)'
      BY <3>4, <3>7
    <3>9. Len(all) \in Nat /\ Len(reply.rows) \in Nat
      <4>1. Len(all) \in Nat
        BY <3>7, OrderedIs
      <4>2. Len(reply.rows) \in Nat
        <5>1. reply \in ReplyType
          BY <1>0
        <5>2. reply.rows \in Seq(RowType)
          BY <5>1 DEF ReplyType
        <5> QED
          BY <5>2
      <4> QED
        BY <4>1, <4>2
    <3>10. \A i \in 1 .. Len(reply.rows) : reply.rows[i].row = all[q.offset + i]
      BY <3>2, <3>7 DEF Cut, GridOf
    <3>11. ASSUME NEW i \in 1 .. Len(all), i <= q.offset + Len(reply.rows)
           PROVE  <<past'.sets, q.sort, all[i]>> \in past'.shown
      <4>1. CASE i <= q.offset
        <5>1. <<past.sets, q.sort, all[i]>> \in past.shown
          BY <3>3, <3>7, <4>1 DEF Covered
        <5> HIDE DEF seen
        <5> QED
          BY <2>2, <5>1
      <4>2. CASE i > q.offset
        <5>1. PICK k \in 1 .. Len(reply.rows) : i = q.offset + k
          <6>1. i - q.offset \in 1 .. Len(reply.rows) /\ i = q.offset + (i - q.offset)
            BY <1>1, <3>9, <3>11, <4>2
          <6> QED
            BY <6>1
        <5>2. <<reply.sets, q.sort, reply.rows[k].row>> \in seen
          OBVIOUS
        <5>3. reply.rows[k].row = all[i]
          BY <3>10, <5>1
        <5> HIDE DEF seen
        <5> QED
          BY <2>2, <3>1, <5>2, <5>3
      <4> QED
        BY <1>1, <3>9, <4>1, <4>2
    <3>12. Covered(q.db, q.sort, q.offset + Len(reply.rows))'
      BY <3>8, <3>11 DEF Covered
    <3> QED
      BY <3>6, <3>12
  <2>7. PagedGrid'
    <3>1. PICK x, s, n : x = q.db /\ s = q.sort /\ n = q.offset + Len(reply.rows)
      OBVIOUS
    <3>2. base = past.sets => Cut(grid)' /\ Covered(x, s, n)'
      BY <2>6, <3>1
    <3>3. x = grid'.db /\ s = grid'.sort /\ n = grid'.offset + Len(grid'.rows)
      BY <1>3, <3>1
    <3> HIDE DEF base, seen
    <3>4. past'.base = past'.sets => Cut(grid)' /\ Covered(grid.db, grid.sort, grid.offset + Len(grid.rows))'
      BY <2>2, <3>2, <3>3 DEF Covered
    <3> QED
      BY <1>3, <2>3, <3>4 DEF PagedGrid
  <2>8. past.shown \subseteq past'.shown
    <3> HIDE DEF seen
    <3> QED
      BY <2>2
  <2> QED
    BY <2>2, <2>5, <2>7, <2>8
<1> QED
  BY <1>4, <1>5

\* Follow-ups show nothing.
LEMMA FurtherPaged ==
  ASSUME Typed, NEW q \in QuestionType, PagedQuestion(q), NEW reply \in ReplyType, NEW s \in Names,
         past'.sets = past.sets
  PROVE  PagedQuestion(Further(q, reply, s))'
<1>1. PICK a : a = Further(q, reply, s)
  OBVIOUS
<1>2. ~a.answered /\ a.reply = NoReply /\ a.op = "namespaces" /\ a.base = q.base
  BY <1>1, FurtherIs
<1>3. q.base <= past.sets /\ past.sets \in Nat
  BY DEF PagedQuestion, Typed, PastType
<1>4. ~a.reply.ok /\ a.reply.sets = 0
  BY <1>2, NoReplyIs
<1>5. a.base <= past'.sets /\ a.reply.sets <= past'.sets
  BY <1>2, <1>3, <1>4
<1>6. PagedQuestion(a)'
  BY <1>2, <1>4, <1>5 DEF PagedQuestion, ForThePage
<1> QED
  BY <1>1, <1>6

\* No value a column holds is the lack of a row.
LEMMA GoneIsNone == Gone \notin Values
<1>1. Gone.type = "gone" /\ Null.type = "null" /\ Blob.type = "blob"
  BY DEF Gone, Null, Blob
<1>2. \A t : Str(t).type = "string" /\ Number(t).type = "number"
  BY DEF Str, Number
<1> HIDE DEF Gone, Null, Blob, Str, Number
<1>3. SUFFICES ASSUME Gone \in Values PROVE FALSE
  OBVIOUS
<1>4. CASE Gone = Null
  BY <1>1, <1>4
<1>5. CASE Gone = Blob
  BY <1>1, <1>5
<1>6. CASE \E t : Gone = Str(t)
  BY <1>1, <1>2, <1>6
<1>7. CASE \E t : Gone = Number(t)
  BY <1>1, <1>2, <1>7
<1> QED
  BY <1>3, <1>4, <1>5, <1>6, <1>7 DEF Values

\* An update replaces a row that is there by a row.
LEMMA RunsPresent ==
  ASSUME Typed, NEW q \in QuestionType, Runs(q)
  PROVE  \A db \in Names : Present(db)' = Present(db)
<1>1. CASE CanRun(q)
  <2>1. PICK v \in StoredAs(q.value) : table' = [table EXCEPT ![q.db][q.handle] = v]
    BY <1>1 DEF Runs
  <2>2. v \in Values
    <3>1. q.value \in TypedIn
      BY DEF QuestionType
    <3> QED
      BY <3>1, StoredIs
  <2>3. q.db \in Names /\ q.handle \in Handles /\ table[q.db][q.handle] = q.was /\ q.was \in Values
    BY <1>1 DEF CanRun, Matches, Registered, Names, QuestionType
  <2> SUFFICES ASSUME NEW db \in Names, NEW h \in Handles
               PROVE  table'[db][h] = Gone <=> table[db][h] = Gone
    BY DEF Present
  <2>4. table \in [Names -> [Handles -> Values \cup {Gone}]]
    BY DEF Typed
  <2>5. CASE db = q.db /\ h = q.handle
    <3>1. table'[db][h] = v
      BY <2>1, <2>3, <2>4, <2>5
    <3> QED
      BY <2>2, <2>3, <2>5, <3>1, GoneIsNone
  <2>6. CASE ~(db = q.db /\ h = q.handle)
    BY <2>1, <2>3, <2>4, <2>6
  <2> QED
    BY <2>5, <2>6
<1>2. CASE ~CanRun(q)
  BY <1>2 DEF Runs, Present
<1> QED
  BY <1>1, <1>2

LEMMA DrawPaged ==
  ASSUME Typed, OneEach, InPlace, Paged, NEW q \in asked, NEW reply \in ReplyType, Draw(q, reply),
         reply = NoReply \/ reply = q.reply
  PROVE  Paged'
<1>1. /\ UNCHANGED <<device, connected, manage, changes>>
      /\ \/ Unused(q) \/ AsksFurther(q, reply) \/ RedrawsPane(q) \/ RedrawsGrid(q, reply)
         \/ EndsSave(q, reply)
  BY Draws
<1>2. /\ \A a \in asked' :
           \/ \E p \in asked \ {q} : Same(a, p)
           \/ q.op = "sources" /\ \E s \in Names : a = Further(q, reply, s)
           \/ Put(a) /\ a.op = "rows" /\ count' = count + 1
      /\ past'.sets = past.sets
  BY DrawAsked
<1>3. /\ past.base <= past.sets /\ PagedGrid /\ \A a \in asked : PagedQuestion(a)
      /\ asked \subseteq QuestionType /\ past \in PastType
  BY DEF Paged, Typed
<1>4. table' = table /\ \A db \in Names : Present(db)' = Present(db)
  BY <1>1 DEF device, Present
<1>5. \A a : Same(a, a)
  BY DEF Same
<1>6. ASSUME past.shown \subseteq past'.shown
      PROVE  \A a \in asked' : PagedQuestion(a)'
  <2> SUFFICES ASSUME NEW a \in asked' PROVE PagedQuestion(a)'
    OBVIOUS
  <2>1. CASE \E p \in asked \ {q} : Same(a, p)
    BY <1>2, <1>3, <1>4, <1>6, <2>1, QuestionKept
  <2>2. CASE \E s \in Names : a = Further(q, reply, s)
    BY <1>2, <1>3, <2>2, FurtherPaged
  <2>3. CASE Put(a)
    <3>1. PagedQuestion(a) /\ a \in QuestionType
      BY <2>3, PutPaged DEF Put
    <3> QED
      BY <1>2, <1>4, <1>5, <1>6, <3>1, QuestionKept
  <2> QED
    BY <1>2, <2>1, <2>2, <2>3
<1>7. CASE UNCHANGED <<grid, past>>
  <2>1. PagedGrid'
    BY <1>3, <1>4, <1>7, GridKept
  <2> QED
    BY <1>3, <1>6, <1>7, <2>1 DEF Paged
<1>8. CASE Unused(q) \/ AsksFurther(q, reply) \/ EndsSave(q, reply)
  BY <1>7, <1>8 DEF Unused, AsksFurther, EndsSave, DrawSave, page
<1>9. CASE RedrawsPane(q)
  <2>1. /\ asked' = Detached(asked \ {q}) /\ grid' = NoGrid
        /\ past' = [past EXCEPT !.shown = {}, !.base = Mixed]
    BY <1>9 DEF RedrawsPane, DrawPane
  <2>2. past'.base = -1 /\ past'.sets = past.sets /\ past.sets \in Nat
    BY <1>3, <2>1 DEF PastType, Mixed
  <2>3. ~grid'.ok
    BY <2>1 DEF NoGrid
  <2>4. ASSUME NEW a \in asked'
        PROVE  PagedQuestion(a)'
    <3>1. asked \ {q} \subseteq QuestionType
      BY <1>3
    <3>2. ~ForThePage(a) /\ \E p \in asked \ {q} : Same(a, p)
      BY <2>1, <3>1, DetachedIs
    <3>3. PICK p \in asked \ {q} : Same(a, p)
      BY <3>2
    <3> QED
      BY <1>2, <1>3, <1>4, <3>2, <3>3, QuestionKept
  <2> QED
    BY <2>2, <2>3, <2>4 DEF Paged, PagedGrid
<1>10. CASE RedrawsGrid(q, reply) /\ ~reply.ok
  <2>1. past' = past /\ grid' = GridOf(q, reply)
    BY <1>10 DEF RedrawsGrid, DrawGrid
  <2>2. ~grid'.ok
    BY <1>10, <2>1 DEF GridOf
  <2> QED
    BY <1>3, <1>6, <2>1, <2>2 DEF Paged, PagedGrid
<1>11. CASE RedrawsGrid(q, reply) /\ reply.ok
  <2>1. reply = q.reply
    BY <1>11, NoReplyIs
  <2>2. PagedGrid' /\ past'.base <= past'.sets /\ past.shown \subseteq past'.shown
    BY <1>4, <1>11, <2>1, GridPaged
  <2> QED
    BY <1>6, <2>2 DEF Paged
<1> QED
  BY <1>1, <1>8, <1>9, <1>10, <1>11

\* A row that goes makes a row set of its own; a row written stays.
LEMMA AppWritesPaged ==
  ASSUME Typed, Paged, AppWrites
  PROVE  Paged'
<1>1. PICK db \in Registered, v \in {Number("1"), Blob, Gone} :
        \E h \in Present(db) :
          /\ table' = [table EXCEPT ![db][h] = v]
          /\ past' = [past EXCEPT !.sets = IF v = Gone THEN @ + 1 ELSE @]
  BY DEF AppWrites
<1>2. PICK h \in Present(db) : table' = [table EXCEPT ![db][h] = v]
  BY <1>1
<1>3. /\ past.base <= past.sets /\ PagedGrid /\ \A a \in asked : PagedQuestion(a)
      /\ asked \subseteq QuestionType /\ past \in PastType
      /\ table \in [Names -> [Handles -> Values \cup {Gone}]]
  BY DEF Paged, Typed
<1>4. asked' = asked /\ grid' = grid
  BY DEF AppWrites, Changed, page
<1>5. past.sets \in Nat /\ past.base \in Int
  BY <1>3 DEF PastType
<1>6. CASE v = Gone
  <2>1. past'.sets = past.sets + 1 /\ past'.base = past.base
    <3>1. past' = [past EXCEPT !.sets = @ + 1]
      BY <1>1, <1>6
    <3> QED
      BY <1>3, <3>1 DEF PastType
  <2>2. ASSUME NEW a \in asked
        PROVE  PagedQuestion(a)'
    <3>1. a.base \in Int /\ a.reply \in ReplyType
      BY <1>3 DEF QuestionType
    <3>2. a.reply.sets \in Nat
      BY <3>1 DEF ReplyType
    <3>3. /\ a.base <= past.sets /\ a.reply.sets <= past.sets
          /\ a.op = "rows" /\ a.reply.ok => a.db \in Names
      BY <1>3 DEF PagedQuestion
    <3>4. /\ a.base <= past'.sets /\ a.reply.sets <= past'.sets
          /\ a.base # past'.sets /\ a.reply.sets # past'.sets
      BY <1>5, <2>1, <3>1, <3>2, <3>3
    <3> QED
      BY <3>3, <3>4 DEF PagedQuestion
  <2>3. past'.base <= past'.sets /\ past'.base # past'.sets
    BY <1>3, <1>5, <2>1
  <2>4. PagedGrid'
    BY <1>3, <1>4, <2>3 DEF PagedGrid
  <2> QED
    BY <1>4, <2>2, <2>3, <2>4 DEF Paged
<1>7. CASE v # Gone
  <2>1. past' = past
    <3>1. past' = [past EXCEPT !.sets = @]
      BY <1>1, <1>7
    <3> QED
      BY <1>3, <3>1 DEF PastType
  <2>2. \A x \in Names : Present(x)' = Present(x)
    <3> SUFFICES ASSUME NEW x \in Names, NEW k \in Handles
                 PROVE  table'[x][k] = Gone <=> table[x][k] = Gone
      BY DEF Present
    <3>1. db \in Names /\ h \in Handles /\ table[db][h] # Gone
      BY DEF Registered, Names, Present
    <3>2. CASE x = db /\ k = h
      <4>1. table'[x][k] = v
        BY <1>2, <1>3, <3>1, <3>2
      <4> QED
        BY <1>7, <3>1, <3>2, <4>1
    <3>3. CASE ~(x = db /\ k = h)
      BY <1>2, <1>3, <3>1, <3>3
    <3> QED
      BY <3>2, <3>3
  <2>3. \A a \in asked : PagedQuestion(a)'
    <3>1. \A a : Same(a, a)
      BY DEF Same
    <3> QED
      BY <1>3, <2>1, <2>2, <3>1, QuestionKept
  <2>4. PagedGrid'
    BY <1>3, <1>4, <2>1, <2>2, GridKept
  <2> QED
    BY <1>3, <1>4, <2>1, <2>3, <2>4 DEF Paged
<1> QED
  BY <1>6, <1>7

\* The device answers over the rows as they are.
LEMMA AnswerPaged ==
  ASSUME Typed, NEW q \in QuestionType, PagedQuestion(q), NEW reply \in ReplyType,
         reply.sets <= past.sets,
         q.op = "rows" /\ reply.ok => q.db \in Names /\ Cut(GridOf(q, reply))
  PROVE  PagedQuestion(With(q, reply))
<1>1. PICK w : w = With(q, reply)
  OBVIOUS
<1>2. /\ w.reply = reply /\ w.op = q.op /\ w.db = q.db /\ w.base = q.base
      /\ w.offset = q.offset /\ w.sort = q.sort
  BY <1>1, WithIs
<1>3. ForThePage(w) => ForThePage(q)
  BY <1>1, WithIs DEF ForThePage
<1>4. GridOf(w, w.reply) = GridOf(q, reply)
  BY <1>2 DEF GridOf
<1>5. /\ q.base <= past.sets
      /\ ForThePage(q) /\ q.base = past.sets /\ q.db \in Names => Covered(q.db, q.sort, q.offset)
  BY DEF PagedQuestion
<1>6. PagedQuestion(w)
  BY <1>2, <1>3, <1>4, <1>5 DEF PagedQuestion
<1> QED
  BY <1>1, <1>6

LEMMA NextPaged ==
  ASSUME Typed, OneEach, InPlace, Paged, [Next]_vars
  PROVE  Paged'
<1>0. /\ past.base <= past.sets /\ PagedGrid /\ \A a \in asked : PagedQuestion(a)
      /\ asked \subseteq QuestionType /\ late \subseteq QuestionType /\ past \in PastType
  BY DEF Paged, Typed
<1>1. \A a : Same(a, a)
  BY DEF Same
<1>2. ASSUME grid' = grid, \A db \in Names : Present(db)' = Present(db),
             past'.sets = past.sets, past'.base = past.base, past'.shown = past.shown,
             \A a \in asked' : a \in QuestionType /\ PagedQuestion(a)
      PROVE  Paged'
  <2>1. \A a \in asked' : PagedQuestion(a)'
    BY <1>1, <1>2, QuestionKept
  <2>2. PagedGrid'
    BY <1>0, <1>2, GridKept
  <2> QED
    BY <1>0, <1>2, <2>1, <2>2 DEF Paged
<1>3. table' = table => \A db \in Names : Present(db)' = Present(db)
  BY DEF Present
<1>4. CASE Asking
  <2>1. PICK q : Put(q) /\ Ask(q)
    BY <1>4, Asks
  <2>2. /\ asked' = asked \cup {q} /\ past' = past /\ table' = table /\ grid' = grid
        /\ q \in QuestionType
    BY <2>1 DEF Ask, Put, device, page
  <2>3. PagedQuestion(q)
    BY <2>1, PutPaged
  <2> QED
    BY <1>0, <1>2, <1>3, <2>2, <2>3
<1>5. CASE DeviceReads
  <2>0. PICK q \in asked :
          /\ q.op # "update"
          /\ \E reply \in ReadReplies(q) : asked' = (asked \ {q}) \cup {With(q, reply)}
    BY <1>5 DEF DeviceReads, With
  <2>1. PICK reply \in ReadReplies(q) : asked' = (asked \ {q}) \cup {With(q, reply)}
    BY <2>0
  <2>2. past' = past /\ table' = table /\ grid' = grid
    BY <1>5 DEF DeviceReads, device, page
  <2>3. /\ q \in QuestionType /\ reply \in ReplyType /\ reply.sets <= past.sets
        /\ q.op = "rows" /\ reply.ok => Cut(GridOf(q, reply))
    BY <1>0, <2>0, ReadRepliesAre
  <2>4. q.op = "rows" /\ reply.ok => q.db \in Names
    <3>1. q.op = "rows" /\ q.db \notin Registered => reply = NoReply
      BY DEF ReadReplies
    <3> QED
      BY <3>1, NoReplyIs DEF Registered, Names
  <2>5. With(q, reply) \in QuestionType
    BY <2>3, WithIs
  <2>6. PagedQuestion(With(q, reply))
    BY <1>0, <2>3, <2>4, AnswerPaged
  <2> QED
    BY <1>0, <1>2, <1>3, <2>1, <2>2, <2>5, <2>6
<1>6. CASE DeviceUpdates
  <2>1. PICK q \in asked : /\ q.op = "update" /\ Runs(q)
                           /\ asked' = (asked \ {q}) \cup {With(q, UpdateReply(q))}
    BY <1>6 DEF DeviceUpdates, With
  <2>2. grid' = grid
    BY <1>6 DEF DeviceUpdates, page
  <2>3. q \in QuestionType /\ UpdateReply(q) \in ReplyType /\ UpdateReply(q).sets = 0
    BY <1>0, UpdateReplyIs
  <2>4. With(q, UpdateReply(q)) \in QuestionType
    BY <2>3, WithIs
  <2>5. UpdateReply(q).sets <= past.sets
    BY <1>0, <2>3 DEF PastType
  <2>6. PagedQuestion(With(q, UpdateReply(q)))
    BY <1>0, <2>1, <2>3, <2>5, AnswerPaged
  <2>7. past'.shown = past.shown /\ past'.base = past.base /\ past'.sets = past.sets
    BY <2>1, <2>3, RunsIs
  <2>8. \A db \in Names : Present(db)' = Present(db)
    BY <2>1, <2>3, RunsPresent
  <2> QED
    BY <1>0, <1>2, <2>1, <2>2, <2>4, <2>6, <2>7, <2>8
<1>7. CASE LateUpdate
  <2>1. PICK q \in late : Runs(q) \/ UNCHANGED <<table, past>>
    BY <1>7 DEF LateUpdate
  <2>2. asked' = asked /\ grid' = grid
    BY <1>7 DEF LateUpdate, page
  <2>3. /\ past'.shown = past.shown /\ past'.base = past.base /\ past'.sets = past.sets
        /\ \A db \in Names : Present(db)' = Present(db)
    <3>1. CASE Runs(q)
      BY <1>0, <3>1, RunsIs, RunsPresent
    <3>2. CASE UNCHANGED <<table, past>>
      BY <1>3, <3>2
    <3> QED
      BY <2>1, <3>1, <3>2
  <2> QED
    BY <1>0, <1>2, <2>2, <2>3
<1>8. CASE Answered
  <2>1. PICK q \in asked : Draw(q, q.reply)
    BY <1>8 DEF Answered
  <2>2. q.reply \in ReplyType
    BY <1>0 DEF QuestionType
  <2> QED
    BY <2>1, <2>2, DrawPaged
<1>9. CASE AskFails
  BY <1>9, NoReplyIs, DrawPaged DEF AskFails
<1>10. CASE UNCHANGED <<table, asked, grid, past>>
  BY <1>0, <1>2, <1>3, <1>10
<1> QED
  BY <1>4, <1>5, <1>6, <1>7, <1>8, <1>9, <1>10, AppWritesPaged
     DEF Next, Asking, LiveDatabaseCell, AppRegisters, Disconnects, Demoted, Changed, page, device, vars

----------------------------------------------------------------------------
(* The browser.                                                            *)

LEMMA InitIInv == Init => IInv
<1> SUFFICES ASSUME Init PROVE IInv
  OBVIOUS
<1>1. /\ asked = {} /\ late = {} /\ grid = NoGrid /\ editor = NoEditor /\ banner = NoBanner
      /\ past.run = {} /\ past.base = Mixed /\ past.sets = 0
  BY DEF Init
<1>2. ~grid.ok /\ grid.db = None /\ grid.rows = <<>> /\ banner.kind = "none"
  BY <1>1 DEF NoGrid, NoBanner
<1>3. ShowsAll(<<>>) /\ ~(Len(<<>>) > 0)
  BY DEF ShowsAll
<1>4. OneEach /\ Questions /\ BannersAreTrue /\ Refused
  BY <1>1, <1>2 DEF OneEach, Questions, BannersAreTrue, Refused
<1>5. InPlace
  <2>1. \A q \in asked : ForThePage(q) => q.db = pane.selected
    BY <1>1
  <2>2. ~(grid.db # None \/ grid.ok) /\ editor = NoEditor
    BY <1>1, <1>2
  <2>3. ShowsAll(grid.rows) /\ (Len(grid.rows) > 0 => grid.ok)
    BY <1>2, <1>3
  <2> QED
    BY <2>1, <2>2, <2>3 DEF InPlace
<1>6. Paged
  <2>1. past.base <= past.sets
    BY <1>1 DEF Mixed
  <2> QED
    BY <1>1, <1>2, <2>1 DEF Paged, PagedGrid
<1> QED
  BY <1>4, <1>5, <1>6 DEF IInv

\* The invariant holds of every behaviour, with the shapes of the state.
THEOREM LiveDbInvariant == Spec => [](Typed /\ IInv)
<1>1. Init => Typed /\ IInv
  BY InitTyped, InitIInv
<1>2. Typed /\ IInv /\ [Next]_vars => (Typed /\ IInv)'
  <2> SUFFICES ASSUME Typed, IInv, [Next]_vars PROVE Typed' /\ IInv'
    OBVIOUS
  <2>1. OneEach /\ Questions /\ BannersAreTrue /\ Refused /\ InPlace /\ Paged
    BY DEF IInv
  <2>2. Typed' /\ OneEach' /\ Questions' /\ BannersAreTrue' /\ Refused' /\ InPlace' /\ Paged'
    BY <2>1, NextTyped, NextOneEach, NextQuestions, NextBanners, NextInPlace, NextPaged
  <2> QED
    BY <2>2 DEF IInv
<1> QED
  BY <1>1, <1>2, PTL DEF Spec

\* The parts of the page belong together, each of them swapped by answers of its
\* own: the grid is of the database on the rail, the editor stands on the grid's
\* page, and what a save says of a write is what became of it.
THEOREM PageSafe == Spec => []PageBelongsTogether
<1>1. Typed /\ IInv => PageBelongsTogether
  <2> SUFFICES ASSUME Typed, IInv PROVE PageBelongsTogether
    OBVIOUS
  <2>1. OneEach /\ Questions /\ BannersAreTrue /\ InPlace
    BY DEF IInv
  <2>2. TypeOK
    <3>1. /\ table \in [Names -> [Handles -> Values \cup {Gone}]]
          /\ registry \in [Names -> {"absent", "reading", "writing"}]
          /\ connected \in BOOLEAN /\ manage \in BOOLEAN /\ count \in Nat
          /\ changes \in 0 .. MaxChanges
      BY DEF Typed
    <3>2. ASSUME NEW q \in asked \cup late
          PROVE  /\ q.id \in 1 .. count /\ q.db \in Names \cup {None} /\ q.offset \in Nat
                 /\ q.op \in Ops /\ q.was \in Values
                 /\ q.op = "update" => q.at \in Handles
      <4>1. q \in QuestionType /\ q.id \in 1 .. count /\ Says(q)
        BY <2>1 DEF Typed, OneEach, Numbered, Questions
      <4>2. q.op = "update" => q.at \in Handles
        BY <4>1 DEF Says
      <4> HIDE DEF Values, ReplyType
      <4> QED
        BY <4>1, <4>2 DEF QuestionType
    <3>3. grid.db \in Names \cup {None} /\ grid.offset \in Nat
      BY DEF Typed, GridType
    <3>4. pane.selected \in Names \cup {None} /\ Range(pane.sources) \subseteq Names
      <4>1. pane.selected \in Names \cup {None} /\ pane.sources \in Seq(Names)
        BY DEF Typed, PaneType
      <4> QED
        BY <4>1 DEF Range
    <3>5. banner.kind \in {"none", "ok", "warn", "err"}
      BY DEF Typed, BannerType
    <3>6. past.run \subseteq 1 .. count
      BY <2>1 DEF Questions
    <3> HIDE DEF Values
    <3> QED
      BY <3>1, <3>2, <3>3, <3>4, <3>5, <3>6 DEF TypeOK, Names, Ops
  <2>3. GridIsOfThePane /\ EscKeepsThePlace
    BY <2>1 DEF InPlace, GridIsOfThePane, EscKeepsThePlace
  <2> QED
    BY <2>1, <2>2, <2>3 DEF PageBelongsTogether
<1> QED
  BY <1>1, LiveDbInvariant, PTL

\* Every row before the end of the page on the screen has been on the screen,
\* whatever arrows were pressed and however early pages stopped.
THEOREM PagesSafe == Spec => []PagesLeaveNothingOut
<1>1. Typed /\ IInv => PagesLeaveNothingOut
  <2> SUFFICES ASSUME Typed, IInv, grid.ok, past.base = past.sets,
                      NEW all, all = Ordered(grid.db, grid.sort),
                      NEW end, end = IF grid.more THEN grid.offset + Len(grid.rows) ELSE Len(all),
                      NEW i \in 1 .. end
               PROVE  <<past.base, grid.sort, all[i]>> \in past.shown
    BY DEF PagesLeaveNothingOut
  <2>1. Cut(grid) /\ Covered(grid.db, grid.sort, grid.offset + Len(grid.rows))
    BY DEF IInv, Paged, PagedGrid
  <2>2. /\ ~grid.more => grid.offset + Len(grid.rows) >= Len(all)
        /\ grid.more => grid.offset + Len(grid.rows) <= Len(all)
    BY <2>1 DEF Cut
  <2>3. \A j \in 1 .. Len(all) :
          j <= grid.offset + Len(grid.rows) => <<past.sets, grid.sort, all[j]>> \in past.shown
    BY <2>1 DEF Covered
  <2>4. Len(all) \in Nat
    BY OrderedIs
  <2>5. grid.offset + Len(grid.rows) \in Nat
    <3>1. grid.offset \in Nat /\ grid.rows \in Seq(RowType)
      BY DEF Typed, GridType
    <3> QED
      BY <3>1
  <2>6. i \in 1 .. Len(all) /\ i <= grid.offset + Len(grid.rows)
    <3>1. CASE grid.more
      BY <2>2, <2>4, <2>5, <3>1
    <3>2. CASE ~grid.more
      BY <2>2, <2>4, <2>5, <3>2
    <3> QED
      BY <3>1, <3>2
  <2> QED
    BY <2>3, <2>6
<1> QED
  BY <1>1, LiveDbInvariant, PTL

----------------------------------------------------------------------------
(* Writes.                                                                 *)

\* What an update run now replaces: what its author was shown, in that row.
LEMMA RunReplaces ==
  ASSUME Typed, NEW q \in QuestionType, Says(q), q.op = "update", Runs(q),
         q.id \in past'.run \ past.run, q.at <= Exact
  PROVE  /\ table[q.db][q.at] = q.held
         /\ \A db \in Names, h \in Handles :
              table'[db][h] # table[db][h] => db = q.db /\ h = q.at
<1>1. CanRun(q)
  BY RunsIs
<1>2. q.at \in Handles /\ q.handle = Float(q.at) /\ q.was = q.held
  BY DEF Says
<1>3. q.at \in Nat
  BY <1>2, LiveDbAssumption
<1>4. q.handle = q.at
  BY <1>2, <1>3, Rounded
<1>5. table[q.db][q.at] = q.held
  BY <1>1, <1>2, <1>4 DEF CanRun, Matches
<1>6. PICK v : table' = [table EXCEPT ![q.db][q.handle] = v]
  BY <1>1 DEF Runs
<1>7. table \in [Names -> [Handles -> Values \cup {Gone}]]
  BY DEF Typed
<1>8. ASSUME NEW db \in Names, NEW h \in Handles, ~(db = q.db /\ h = q.at)
      PROVE  table'[db][h] = table[db][h]
  <2> HIDE DEF Values
  <2> QED
    BY <1>4, <1>6, <1>7, <1>8
<1> QED
  BY <1>5, <1>8

\* Steps that run no update.
LEMMA RunsElsewhere ==
  ASSUME Typed, OneEach, [Next]_vars, ~DeviceUpdates, ~LateUpdate
  PROVE  past'.run = past.run
<1>0. past \in PastType
  BY DEF Typed
<1>1. CASE Asking
  <2>1. PICK q : Ask(q)
    BY <1>1, Asks
  <2> QED
    BY <2>1 DEF Ask
<1>2. CASE Answered
  <2>1. PICK q \in asked : Draw(q, q.reply)
    BY <1>2 DEF Answered
  <2>2. q.reply \in ReplyType
    BY DEF Typed, QuestionType
  <2> QED
    BY <2>1, <2>2, DrawAsked
<1>3. CASE AskFails
  BY <1>3, NoReplyIs, DrawAsked DEF AskFails
<1>4. CASE AppWrites
  <2>1. \E n : past' = [past EXCEPT !.sets = n]
    BY <1>4 DEF AppWrites
  <2> QED
    BY <1>0, <2>1 DEF PastType
<1>5. CASE past' = past
  BY <1>5
<1> QED
  BY <1>1, <1>2, <1>3, <1>4, <1>5
     DEF Next, Asking, LiveDatabaseCell, DeviceReads, AppRegisters, Disconnects, Demoted, vars

\* A write lands on the row its editor was opened on and replaces the value that
\* was shown there, whatever the app, a retry or a late answer did in between.
THEOREM WritesSafe == Spec => NoLostUpdate
<1>1. Typed /\ IInv /\ [Next]_vars =>
        [\A q \in RunNow :
           \/ q.at > Exact
           \/ /\ table[q.db][q.at] = q.held
              /\ \A db \in Range(Dbs), h \in Handles :
                   table'[db][h] # table[db][h] => db = q.db /\ h = q.at]_vars
  <2> SUFFICES ASSUME Typed, IInv, [Next]_vars, NEW q \in RunNow, ~(q.at > Exact)
               PROVE  /\ table[q.db][q.at] = q.held
                      /\ \A db \in Names, h \in Handles :
                           table'[db][h] # table[db][h] => db = q.db /\ h = q.at
    BY DEF Names
  <2>1. /\ OneEach /\ Questions /\ q \in asked \cup late /\ q \in QuestionType
        /\ q.id \in past'.run \ past.run
    BY DEF IInv, RunNow, Typed
  <2>2. /\ \A a, b \in asked : a.id = b.id => a = b
        /\ \A a, b \in late : a.id = b.id => a = b
        /\ \A a \in asked, b \in late : a.id # b.id
    BY <2>1 DEF OneEach
  <2>3. q.at <= Exact
    <3>1. q.at \in Nat /\ Exact \in Nat
      BY <2>1, LiveDbAssumption DEF QuestionType
    <3> QED
      BY <3>1
  <2>4. DeviceUpdates \/ LateUpdate
    BY <2>1, RunsElsewhere
  <2>5. PICK a \in asked \cup late : /\ Runs(a) /\ a.op = "update" /\ a \in QuestionType
                                     /\ a \in asked \/ a \in late
    <3>1. CASE DeviceUpdates
      BY <3>1 DEF DeviceUpdates, Typed
    <3>2. CASE LateUpdate
      <4>1. PICK a \in late : Runs(a) \/ UNCHANGED <<table, past>>
        BY <3>2 DEF LateUpdate
      <4>2. a.op = "update" /\ a \in QuestionType
        BY <2>1 DEF Questions, Typed
      <4> QED
        BY <2>1, <4>1, <4>2
    <3> QED
      BY <2>4, <3>1, <3>2
  <2>6. q.id = a.id
    <3>1. past'.run = past.run \cup {a.id} \/ past'.run = past.run
      BY <2>5, RunsIs
    <3> QED
      BY <2>1, <3>1
  <2>7. q = a
    BY <2>1, <2>2, <2>6
  <2>8. Says(q)
    BY <2>1 DEF Questions
  <2> QED
    BY <2>1, <2>3, <2>5, <2>7, <2>8, RunReplaces
<1> QED
  BY <1>1, LiveDbInvariant, PTL DEF Spec, NoLostUpdate

\* A row nobody has touched since it was shown is never refused as a conflict: its
\* value goes out and comes back with its type.
THEOREM RefusalsSafe == Spec => RefusalsAreHonest
<1>1. Typed /\ IInv /\ [Next]_vars =>
        [\A q \in asked, a \in asked' :
           /\ a.id = q.id /\ ~q.answered /\ a.answered
           /\ a.reply.code = "row_changed" /\ q.at <= Exact
           => table[q.db][q.at] # q.held]_vars
  <2> SUFFICES ASSUME Typed, IInv, [Next]_vars, NEW q \in asked, NEW a \in asked',
                      a.id = q.id, ~q.answered, a.answered,
                      a.reply.code = "row_changed", q.at <= Exact
               PROVE  table[q.db][q.at] # q.held
    OBVIOUS
  <2>1. /\ OneEach /\ Questions /\ Paged /\ q \in QuestionType /\ asked \subseteq QuestionType
        /\ count \in Nat
    BY DEF IInv, Typed
  <2>2. \A p, b \in asked : p.id = b.id => p = b
    BY <2>1 DEF OneEach
  <2>3. \A p \in asked : p.id \in 1 .. count
    BY <2>1 DEF OneEach, Numbered
  <2>4. ~(\E p \in asked : Same(a, p))
    BY <2>2 DEF Same
  <2>5. a \notin asked
    BY <2>2
  <2>6. CASE Asking
    <3>1. PICK p : Put(p) /\ Ask(p)
      BY <2>6, Asks
    <3>2. a = p
      BY <2>5, <3>1 DEF Ask
    <3> QED
      BY <3>1, <3>2 DEF Put
  <2>7. CASE DeviceReads
    <3>1. PICK p \in asked :
            /\ p.op # "update"
            /\ \E reply \in ReadReplies(p) : asked' = (asked \ {p}) \cup {With(p, reply)}
      BY <2>7 DEF DeviceReads, With
    <3>2. PICK reply \in ReadReplies(p) : asked' = (asked \ {p}) \cup {With(p, reply)}
      BY <3>1
    <3>3. p \in QuestionType /\ reply \in ReplyType /\ reply.code = ""
      BY <2>1, <3>1, ReadRepliesAre
    <3>4. a = With(p, reply)
      BY <2>5, <3>2
    <3>5. a.reply = reply
      BY <3>3, <3>4, WithIs
    <3> QED
      BY <3>3, <3>5
  <2>8. CASE DeviceUpdates
    <3>1. PICK p \in asked : /\ p.op = "update"
                             /\ asked' = (asked \ {p}) \cup {With(p, UpdateReply(p))}
      BY <2>8 DEF DeviceUpdates, With
    <3>2. /\ p \in QuestionType /\ UpdateReply(p) \in ReplyType
          /\ UpdateReply(p).code = "row_changed" => ~Matches(p)
      BY <2>1, <3>1, UpdateReplyIs
    <3>3. a = With(p, UpdateReply(p))
      BY <2>5, <3>1
    <3>4. a.reply = UpdateReply(p) /\ a.id = p.id
      BY <3>2, <3>3, WithIs
    <3>5. p = q
      BY <2>2, <3>4
    <3>6. ~Matches(q) /\ Says(q) /\ q.op = "update"
      BY <2>1, <3>1, <3>2, <3>4, <3>5 DEF Questions
    <3>7. q.at \in Handles /\ q.handle = Float(q.at) /\ q.was = q.held
      BY <3>6 DEF Says
    <3>8. q.at \in Nat
      BY <3>7, LiveDbAssumption
    <3>9. q.handle = q.at
      BY <3>7, <3>8, Rounded
    <3> QED
      BY <3>6, <3>7, <3>9 DEF Matches
  <2>9. ASSUME NEW p \in asked, NEW reply \in ReplyType, Draw(p, reply)
        PROVE  FALSE
    <3>1. \/ \E r \in asked \ {p} : Same(a, r)
          \/ p.op = "sources" /\ \E s \in Names : a = Further(p, reply, s)
          \/ Put(a)
      BY <2>1, <2>9, DrawAsked
    <3>2. CASE \E r \in asked \ {p} : Same(a, r)
      BY <2>4, <3>2
    <3>3. CASE \E s \in Names : a = Further(p, reply, s)
      <4>1. PICK s \in Names : a = Further(p, reply, s)
        BY <3>3
      <4>2. ~a.answered
        BY <2>1, <2>9, <4>1, FurtherIs
      <4> QED
        BY <4>2
    <3>4. CASE Put(a)
      BY <3>4 DEF Put
    <3> QED
      BY <3>1, <3>2, <3>3, <3>4
  <2>10. CASE Answered
    <3>1. PICK p \in asked : Draw(p, p.reply)
      BY <2>10 DEF Answered
    <3>2. p.reply \in ReplyType
      BY <2>1 DEF QuestionType
    <3> QED
      BY <2>9, <3>1, <3>2
  <2>11. CASE AskFails
    BY <2>9, <2>11, NoReplyIs DEF AskFails
  <2>12. CASE asked' = asked
    BY <2>5, <2>12
  <2> QED
    BY <2>6, <2>7, <2>8, <2>10, <2>11, <2>12
       DEF Next, Asking, LiveDatabaseCell, LateUpdate, AppWrites, AppRegisters, Disconnects,
           Demoted, Changed, vars
<1> QED
  BY <1>1, LiveDbInvariant, PTL DEF Spec, RefusalsAreHonest

=============================================================================
