-------------------------- MODULE DashboardProofs --------------------------
(***************************************************************************)
(* Proofs about what the dashboard shows and what it lets its readers do.  *)
(*                                                                         *)
(* Settings: what an operator set last is what the row holds, what the     *)
(* process works with and what the pages show, and no question goes to     *)
(* GitHub against the operator's word, for any number of concurrent        *)
(* requests, of releases, of failures and of restarts.                     *)
(*                                                                         *)
(* Screens: every control works when it is drawn, the table of roles is    *)
(* true, and a page that has gone stale gives nothing away, for any        *)
(* accounts and any number of changes behind the reader's back.            *)
(***************************************************************************)
EXTENDS Settings, Screens, SequenceTheorems, FiniteSetTheorems, TLAPS

----------------------------------------------------------------------------
(* Settings.                                                               *)

Row == [id: Nat, value: AllSettings]

PastType == [last: AllSettings, crossed: BOOLEAN, blind: BOOLEAN, half: BOOLEAN]

----------------------------------------------------------------------------
(* What the operations return.                                             *)

LEMMA DefaultType == Default \in AllSettings /\ \A c \in Cards : Default[c] = 0
BY DEF Default, AllSettings, Values

LEMMA UnknownType == Unknown \in VersionState
BY DEF Unknown, VersionState

LEMMA FreshType ==
  ASSUME NEW pc \in {"idle", "find", "create", "update", "cache", "zone", "render",
                     "ask", "fetch", "record", "publish", "done"}
  PROVE  Fresh(pc) \in RequestType /\ Fresh(pc).pc = pc
BY DefaultType, UnknownType DEF Fresh, RequestType, Cards

\* A request that only moves on.
LEMMA GotoIs ==
  ASSUME req \in [Requests -> RequestType], NEW r \in Requests,
         NEW pc \in {"idle", "find", "create", "update", "cache", "zone", "render",
                     "ask", "fetch", "record", "publish", "done"},
         Goto(r, pc)
  PROVE  /\ req' \in [Requests -> RequestType]
         /\ req'[r].pc = pc /\ req'[r].card = req[r].card /\ req'[r].zone = req[r].zone
         /\ req'[r].copy = req[r].copy /\ req'[r].found = req[r].found
         /\ \A q \in Requests : q # r => req'[q] = req[q]
BY DEF Goto, RequestType

LEMMA CopyType ==
  ASSUME NEW s \in AllSettings, NEW c \in Cards, NEW v \in Values
  PROVE  [s EXCEPT ![c] = v] \in AllSettings
BY DEF AllSettings

LEMMA StoredType ==
  ASSUME rows \in Seq(Row)
  PROVE  Stored \in AllSettings
<1>1. CASE rows = <<>>
  BY <1>1, DefaultType DEF Stored
<1>2. CASE rows # <<>>
  <2>1. 1 \in 1 .. Len(rows)
    BY <1>2, EmptySeq
  <2>2. rows[1] \in Row
    BY <2>1, ElementOfSeq
  <2> QED BY <1>2, <2>2 DEF Stored, Row
<1> QED BY <1>1, <1>2

LEMMA BootType ==
  ASSUME NEW ok \in BOOLEAN, NEW s \in AllSettings
  PROVE  /\ Boot(ok, s).cached \in AllSettings /\ Boot(ok, s).loaded = ok
         /\ ok => Boot(ok, s).cached = s
BY DefaultType DEF Boot

\* A save starts from the cache with the card's field replaced, and remembers
\* whether another save is under way and whether the settings were ever read.
LEMMA Starts ==
  ASSUME req \in [Requests -> RequestType], cached \in AllSettings, past \in PastType,
         NEW r \in Requests, NEW c \in Cards, NEW v \in Values,
         NEW zone \in Values \cup {Bad, Absent}, StartSave(r, c, v, zone)
  PROVE  /\ req' \in [Requests -> RequestType]
         /\ req'[r].pc = "find" /\ req'[r].card = c
         /\ req'[r].copy = [cached EXCEPT ![c] = v]
         /\ \A q \in Requests : q # r => req'[q] = req[q]
         /\ past' \in PastType
         /\ past'.last = past.last /\ past'.half = past.half
         /\ past'.crossed <=> (past.crossed \/ Crossing(r))
         /\ past'.blind <=> (past.blind \/ ~loaded)
<1> DEFINE f == Fresh("find")
           x == [f EXCEPT !.card = c, !.zone = zone, !.copy = CopyOf(c, v)]
           a == (past.crossed \/ Crossing(r))
           b == (past.blind \/ ~loaded)
<1>1. req' = [req EXCEPT ![r] = x]
  BY Zenon DEF StartSave
<1>2. f \in RequestType /\ f.pc = "find" /\ CopyOf(c, v) \in AllSettings
  BY FreshType, CopyType DEF CopyOf
<1>3. x \in RequestType /\ x.pc = "find" /\ x.card = c /\ x.copy = CopyOf(c, v)
  <2> HIDE DEF f
  <2> QED BY <1>2 DEF RequestType
<1>4. past' = [past EXCEPT !.crossed = a, !.blind = b]
  BY Zenon DEF StartSave
<1>5. a \in BOOLEAN /\ b \in BOOLEAN
  OBVIOUS
<1> HIDE DEF x, a, b
<1>6. /\ past' \in PastType /\ past'.last = past.last /\ past'.half = past.half
      /\ past'.crossed = a /\ past'.blind = b
  BY <1>4, <1>5 DEF PastType
<1>7. /\ req' \in [Requests -> RequestType]
      /\ req'[r].pc = "find" /\ req'[r].card = c
      /\ req'[r].copy = [cached EXCEPT ![c] = v]
      /\ \A q \in Requests : q # r => req'[q] = req[q]
  BY <1>1, <1>3 DEF CopyOf
<1> QED BY <1>6, <1>7 DEF a, b

\* The first row after one was put in at place i.
LEMMA InsertIs ==
  ASSUME NEW s \in Seq(Row), NEW i \in 1 .. Len(s) + 1, NEW e \in Row
  PROVE  /\ InsertAt(s, i, e) \in Seq(Row)
         /\ s = <<>> => InsertAt(s, i, e) = <<e>>
<1>0. Len(s) \in Nat /\ \A j \in 1 .. Len(s) : s[j] \in Row
  BY ElementOfSeq, LenProperties
<1>1. SubSeq(s, 1, i - 1) \in Seq(Row)
  <2>1. i - 1 \in Int /\ \A j \in 1 .. i - 1 : s[j] \in Row
    BY <1>0
  <2> QED BY <2>1, SubSeqProperties
<1>2. SubSeq(s, i, Len(s)) \in Seq(Row)
  <2>1. i \in Int /\ Len(s) \in Int /\ \A j \in i .. Len(s) : s[j] \in Row
    BY <1>0
  <2> QED BY <2>1, SubSeqProperties
<1>3. <<e>> \in Seq(Row)
  OBVIOUS
<1>4. SubSeq(s, 1, i - 1) \o <<e>> \in Seq(Row)
  BY <1>1, <1>3, ConcatProperties
<1>5. InsertAt(s, i, e) \in Seq(Row)
  BY <1>2, <1>4, ConcatProperties DEF InsertAt
<1>6. ASSUME s = <<>>
      PROVE  InsertAt(s, i, e) = <<e>>
  <2>1. i = 1 /\ Len(s) = 0
    BY <1>6
  <2>2. SubSeq(s, 1, i - 1) = <<>> /\ SubSeq(s, i, Len(s)) = <<>>
    BY <1>6, <2>1
  <2>3. <<>> \o <<e>> = <<e>> /\ <<e>> \o <<>> = <<e>>
    BY <1>3, ConcatEmptySeq
  <2>4. InsertAt(s, i, e) = (<<>> \o <<e>>) \o <<>>
    BY <2>2, Zenon DEF InsertAt
  <2> QED BY <2>3, <2>4
<1> QED BY <1>5, <1>6

----------------------------------------------------------------------------
(* Types.                                                                  *)

Typed ==
  /\ rows \in Seq(Row)
  /\ cached \in AllSettings /\ loaded \in BOOLEAN
  /\ view \in [zone: Values, clock: Values, update: VersionState]
  /\ state \in VersionState /\ latest \in Releases
  /\ req \in [Requests -> RequestType]
  /\ faults \in Nat
  /\ past \in PastType

LEMMA TypedIs == TypeOK <=> Typed
BY DEF TypeOK, Typed, Row, PastType

LEMMA RenderedType ==
  ASSUME NEW s \in AllSettings
  PROVE  Rendered(s) \in [zone: Values, clock: Values, update: VersionState]
BY UnknownType DEF Rendered, AllSettings, Cards

LEMMA TypeInit == Init => TypeOK
<1> SUFFICES ASSUME Init PROVE Typed
  BY TypedIs
<1>1. rows \in Seq(Row)
  <2>1. CASE rows = <<>>
    BY <2>1
  <2>2. ASSUME NEW s \in AllSettings, rows = <<[id |-> 1, value |-> s]>>
        PROVE  rows \in Seq(Row)
    BY <2>2 DEF Row
  <2> QED BY <2>1, <2>2 DEF Init
<1>2. cached \in AllSettings /\ loaded \in BOOLEAN
  BY <1>1, StoredType, BootType DEF Init
<1>3. view \in [zone: Values, clock: Values, update: VersionState]
  BY <1>2, RenderedType DEF Init
<1>4. state \in VersionState /\ latest \in Releases /\ faults \in Nat
  BY UnknownType DEF Init
<1>5. req \in [Requests -> RequestType]
  BY FreshType DEF Init
<1>6. past \in PastType
  BY <1>1, StoredType DEF Init, PastType
<1> QED BY <1>1, <1>2, <1>3, <1>4, <1>5, <1>6 DEF Typed

\* What a save puts into the table.
LEMMA RowsWritten ==
  ASSUME Typed, NEW r \in Requests, CreateRow(r) \/ UpdateRow(r)
  PROVE  /\ rows' \in Seq(Row)
         /\ past' = StoredBy(r) /\ past' \in PastType
         /\ past'.crossed = past.crossed /\ past'.blind = past.blind /\ past'.half = past.half
         /\ past'.last = [past.last EXCEPT ![req[r].card] = req[r].copy[req[r].card]]
         /\ CreateRow(r) /\ rows = <<>> => Stored' = req[r].copy
         /\ UpdateRow(r) /\ rows # <<>> /\ req[r].found = rows[1].id => Stored' = req[r].copy
<1> DEFINE c == req[r].card
           v == req[r].copy[c]
           l == [past.last EXCEPT ![c] = v]
<1>1. c \in Cards /\ req[r].copy \in AllSettings /\ past.last \in AllSettings /\ v \in Values
  BY DEF Typed, RequestType, PastType, AllSettings
<1>2. l \in AllSettings
  BY <1>1, CopyType
<1>3. past' = StoredBy(r)
  BY DEF CreateRow, UpdateRow
<1>4. past' = [past EXCEPT !.last = l]
  BY <1>3, Zenon DEF StoredBy
<1> HIDE DEF l
<1>5. /\ past' \in PastType /\ past'.last = l
      /\ past'.crossed = past.crossed /\ past'.blind = past.blind /\ past'.half = past.half
  BY <1>2, <1>4 DEF Typed, PastType
<1>6. CASE CreateRow(r)
  <2> DEFINE e == [id |-> Len(rows) + 1, value |-> req[r].copy]
  <2>1. PICK i \in 1 .. Len(rows) + 1 : rows' = InsertAt(rows, i, e)
    BY <1>6 DEF CreateRow
  <2>2. e \in Row /\ e.value = req[r].copy
    <3>1. Len(rows) \in Nat
      BY LenProperties DEF Typed
    <3> QED BY <1>1, <3>1 DEF Row
  <2> HIDE DEF e
  <2>3. rows' \in Seq(Row) /\ (rows = <<>> => rows' = <<e>>)
    BY <2>1, <2>2, InsertIs DEF Typed
  <2>4. rows = <<>> => Stored' = req[r].copy
    <3>1. <<e>> # <<>> /\ <<e>>[1] = e
      OBVIOUS
    <3>2. rows' # <<>> => Stored' = rows'[1].value
      BY DEF Stored
    <3> QED BY <2>2, <2>3, <3>1, <3>2
  <2>5. ~UpdateRow(r)
    BY <1>6 DEF CreateRow, UpdateRow, At
  <2> QED BY <1>3, <1>5, <2>3, <2>4, <2>5 DEF l
<1>7. CASE UpdateRow(r)
  <2>0. Len(rows) \in Nat /\ DOMAIN rows = 1 .. Len(rows) /\ \A i \in 1 .. Len(rows) : rows[i] \in Row
    BY LenProperties, ElementOfSeq DEF Typed
  <2>1. /\ DOMAIN rows' = 1 .. Len(rows)
        /\ rows' = [i \in 1 .. Len(rows) |-> rows'[i]]
        /\ \A i \in 1 .. Len(rows) :
             rows'[i] = IF rows[i].id = req[r].found
                        THEN [rows[i] EXCEPT !.value = req[r].copy] ELSE rows[i]
    <3> DEFINE f == [i \in 1 .. Len(rows) |->
                       IF rows[i].id = req[r].found
                       THEN [rows[i] EXCEPT !.value = req[r].copy] ELSE rows[i]]
    <3>1. rows' = f
      BY <1>7, <2>0, Zenon DEF UpdateRow, Written
    <3>2. /\ DOMAIN f = 1 .. Len(rows)
          /\ f = [i \in 1 .. Len(rows) |-> f[i]]
          /\ \A i \in 1 .. Len(rows) :
               f[i] = IF rows[i].id = req[r].found
                      THEN [rows[i] EXCEPT !.value = req[r].copy] ELSE rows[i]
      BY Zenon
    <3> HIDE DEF f
    <3> QED BY <3>1, <3>2
  <2>2. \A i \in 1 .. Len(rows) :
          /\ rows'[i] \in Row
          /\ rows[i].id = req[r].found => rows'[i].value = req[r].copy
    BY <1>1, <2>0, <2>1 DEF Row
  <2>3. rows' \in Seq(Row)
    BY <2>0, <2>1, <2>2
  <2>4. rows # <<>> => 1 \in 1 .. Len(rows) /\ rows' # <<>>
    <3>1. rows # <<>> => Len(rows) \in Nat \ {0}
      BY EmptySeq DEF Typed
    <3>2. rows # <<>> => 1 \in DOMAIN rows'
      BY <2>1, <3>1
    <3>3. 1 \notin DOMAIN <<>>
      OBVIOUS
    <3> QED BY <2>1, <3>2, <3>3
  <2>5. rows # <<>> /\ req[r].found = rows[1].id => Stored' = req[r].copy
    BY <2>2, <2>4 DEF Stored
  <2>6. ~CreateRow(r)
    BY <1>7 DEF CreateRow, UpdateRow, At
  <2> QED BY <1>3, <1>5, <2>3, <2>5, <2>6 DEF l
<1> QED BY <1>6, <1>7

\* A request that is about to save goes through StartSave with values of the form.
LEMMA SaveStarts ==
  ASSUME Typed, NEW r \in Requests,
         \/ \E c \in Cards, v \in Values : SaveCard(r, c, v)
         \/ \E clock \in Values \cup {Absent}, zone \in Values \cup {Bad} : SaveDisplay(r, clock, zone)
         \/ SaveZone(r)
  PROVE  /\ UNCHANGED <<rows, cached, loaded, view, state, latest, faults>>
         /\ ~Saving(r)
         /\ \/ /\ At(r, "idle")
               /\ req' \in [Requests -> RequestType] /\ req'[r].pc = "zone"
               /\ \A q \in Requests : q # r => req'[q] = req[q]
               /\ past' = past
            \/ \E c \in Cards, v \in Values, zone \in Values \cup {Bad, Absent} :
                 /\ StartSave(r, c, v, zone)
                 /\ c = "zone" => ~At(r, "idle")
                 /\ c # "zone" => At(r, "idle")
<1>1. ASSUME NEW c \in Cards, NEW v \in Values, SaveCard(r, c, v)
      PROVE  /\ StartSave(r, c, v, Absent) /\ c # "zone" /\ At(r, "idle")
             /\ UNCHANGED <<rows, cached, loaded, view, state, latest, faults>>
  BY <1>1 DEF SaveCard, At
<1>2. ASSUME NEW clock \in Values \cup {Absent}, NEW zone \in Values \cup {Bad},
             SaveDisplay(r, clock, zone)
      PROVE  /\ UNCHANGED <<rows, cached, loaded, view, state, latest, faults>>
             /\ At(r, "idle")
             /\ \/ /\ req' \in [Requests -> RequestType] /\ req'[r].pc = "zone"
                   /\ \A q \in Requests : q # r => req'[q] = req[q]
                   /\ past' = past
                \/ clock \in Values /\ StartSave(r, "clock", clock, zone)
  <2>1. CASE clock = Absent
    <3> DEFINE f == Fresh("zone")
               x == [f EXCEPT !.zone = zone]
    <3>1. f \in RequestType /\ f.pc = "zone"
      BY FreshType
    <3> HIDE DEF f
    <3>2. x \in RequestType /\ x.pc = "zone"
      BY <3>1 DEF RequestType
    <3>3. req' = [req EXCEPT ![r] = x] /\ past' = past
      BY <1>2, <2>1, Zenon DEF SaveDisplay, f
    <3> HIDE DEF x
    <3> QED BY <1>2, <3>2, <3>3 DEF SaveDisplay, Typed, At
  <2>2. CASE clock # Absent
    BY <1>2, <2>2 DEF SaveDisplay, At
  <2> QED BY <2>1, <2>2
<1>3. ASSUME SaveZone(r)
      PROVE  /\ UNCHANGED <<rows, cached, loaded, view, state, latest, faults>>
             /\ ~At(r, "idle") /\ ~Saving(r)
             /\ req[r].zone \in Values /\ StartSave(r, "zone", req[r].zone, Absent)
  BY <1>3 DEF SaveZone, At, Saving
<1>4. At(r, "idle") => ~Saving(r)
  BY DEF At, Saving
<1>5. "clock" \in Cards /\ "zone" \in Cards /\ "clock" # "zone"
  BY DEF Cards
<1>6. CASE \E c \in Cards, v \in Values : SaveCard(r, c, v)
  <2>1. PICK c \in Cards, v \in Values : SaveCard(r, c, v)
    BY <1>6
  <2>2. Absent \in Values \cup {Bad, Absent}
    OBVIOUS
  <2> QED BY <1>1, <1>4, <2>1, <2>2
<1>7. CASE \E clock \in Values \cup {Absent}, zone \in Values \cup {Bad} : SaveDisplay(r, clock, zone)
  <2>1. PICK clock \in Values \cup {Absent}, zone \in Values \cup {Bad} : SaveDisplay(r, clock, zone)
    BY <1>7
  <2>2. zone \in Values \cup {Bad, Absent}
    OBVIOUS
  <2>3. CASE clock \in Values /\ StartSave(r, "clock", clock, zone)
    BY <1>2, <1>4, <1>5, <2>1, <2>2, <2>3, Zenon
  <2> QED BY <1>2, <1>4, <2>1, <2>3
<1>8. CASE SaveZone(r)
  <2>1. Absent \in Values \cup {Bad, Absent}
    OBVIOUS
  <2>2. \E c \in Cards, v \in Values, zone \in Values \cup {Bad, Absent} :
          /\ StartSave(r, c, v, zone)
          /\ c = "zone" => ~At(r, "idle")
          /\ c # "zone" => At(r, "idle")
    <3>1. req[r].zone \in Values /\ StartSave(r, "zone", req[r].zone, Absent) /\ ~At(r, "idle")
      BY <1>3, <1>8
    <3> QED BY <1>5, <2>1, <3>1, Zenon
  <2>3. UNCHANGED <<rows, cached, loaded, view, state, latest, faults>> /\ ~Saving(r)
    BY <1>3, <1>8
  <2> QED BY <2>2, <2>3, Zenon
<1> QED BY <1>6, <1>7, <1>8

LEMMA TypeStep == TypeOK /\ [Next]_vars => TypeOK'
<1> SUFFICES ASSUME Typed, [Next]_vars PROVE Typed'
  BY DEF TypeOK, Typed, Row, PastType
<1>0. past \in PastType /\ Stored \in AllSettings
  BY StoredType DEF Typed
<1>1. ASSUME NEW r \in Requests, Save(r)
      PROVE  Typed'
  <2>1. CASE \/ \E c \in Cards, v \in Values : SaveCard(r, c, v)
             \/ \E clock \in Values \cup {Absent}, zone \in Values \cup {Bad} : SaveDisplay(r, clock, zone)
             \/ SaveZone(r)
    <3>1. req' \in [Requests -> RequestType] /\ past' \in PastType
      <4>1. ASSUME NEW c \in Cards, NEW v \in Values, NEW zone \in Values \cup {Bad, Absent},
                   StartSave(r, c, v, zone)
            PROVE  req' \in [Requests -> RequestType] /\ past' \in PastType
        BY <1>0, <4>1, Starts DEF Typed
      <4> QED BY <1>0, <2>1, <4>1, SaveStarts
    <3>2. UNCHANGED <<rows, cached, loaded, view, state, latest, faults>>
      BY <2>1, SaveStarts
    <3> QED BY <3>1, <3>2 DEF Typed
  <2>2. CASE FindRow(r)
    <3>1. req' \in [Requests -> RequestType]
      <4>1. CASE rows = <<>>
        BY <2>2, <4>1 DEF FindRow, Typed, RequestType
      <4>2. CASE rows # <<>>
        <5>1. rows[1].id \in Nat
          <6>1. 1 \in 1 .. Len(rows)
            BY <4>2, EmptySeq DEF Typed
          <6>2. rows[1] \in Row
            BY <6>1, ElementOfSeq DEF Typed
          <6> QED BY <6>2 DEF Row
        <5> DEFINE n == rows[1].id
        <5>2. req' = [req EXCEPT ![r].pc = "update", ![r].found = n]
          BY <2>2, <4>2, Zenon DEF FindRow
        <5>3. n \in Nat
          BY <5>1
        <5> HIDE DEF n
        <5>4. req[r] \in RequestType /\ req \in [Requests -> RequestType]
          BY DEF Typed
        <5> DEFINE q == [req[r] EXCEPT !.pc = "update", !.found = n]
        <5>5. q \in RequestType
          BY <5>3, <5>4 DEF RequestType
        <5>6. req' = [req EXCEPT ![r] = q]
          BY <5>2
        <5> HIDE DEF q
        <5> QED BY <5>4, <5>5, <5>6
      <4> QED BY <4>1, <4>2
    <3> QED BY <2>2, <3>1 DEF FindRow, Typed
  <2>3. CASE CreateRow(r) \/ UpdateRow(r)
    <3>1. req' \in [Requests -> RequestType]
      BY <2>3, GotoIs DEF CreateRow, UpdateRow, Typed
    <3> QED BY <2>3, <3>1, RowsWritten DEF CreateRow, UpdateRow, Typed
  <2>4. CASE RefreshCache(r)
    <3>1. req' \in [Requests -> RequestType]
      <4>1. AfterSave(req[r]) \in {"zone", "render", "ask", "done"}
        BY DEF AfterSave
      <4> QED BY <2>4, <4>1, GotoIs DEF RefreshCache, Typed
    <3>2. cached' \in AllSettings
      BY <2>4 DEF RefreshCache, Typed, RequestType
    <3> QED BY <2>4, <3>1, <3>2 DEF RefreshCache, Typed
  <2>5. CASE RefuseZone(r)
    <3>1. req' \in [Requests -> RequestType]
      BY <2>5, GotoIs DEF RefuseZone, Typed
    <3>2. past' \in PastType
      BY <1>0, <2>5 DEF RefuseZone, PastType
    <3> QED BY <2>5, <3>1, <3>2 DEF RefuseZone, Typed
  <2>6. CASE Render(r)
    <3>1. req' \in [Requests -> RequestType]
      BY <2>6, GotoIs DEF Render, Typed
    <3>2. view' \in [zone: Values, clock: Values, update: VersionState]
      BY <2>6 DEF Render, Typed, Shown, AllSettings, Cards
    <3> QED BY <2>6, <3>1, <3>2 DEF Render, Typed
  <2>7. CASE SaveFails(r)
    <3>1. req' \in [Requests -> RequestType]
      BY <2>7, GotoIs DEF SaveFails, Typed
    <3>2. past' \in PastType
      <4> DEFINE h == (past.half \/ req[r].card = "zone")
      <4>1. past' = [past EXCEPT !.half = h] /\ h \in BOOLEAN
        BY <2>7, Zenon DEF SaveFails
      <4> HIDE DEF h
      <4> QED BY <1>0, <4>1 DEF PastType
    <3>3. faults' \in Nat
      BY <2>7 DEF SaveFails, Fault, Typed
    <3> QED BY <2>7, <3>1, <3>2, <3>3 DEF SaveFails, Typed
  <2> QED BY <1>1, <2>1, <2>2, <2>3, <2>4, <2>5, <2>6, <2>7 DEF Save
<1>2. ASSUME NEW r \in Requests, Check(r)
      PROVE  Typed'
  <2>1. CASE Ask(r)
    <3> DEFINE f == Fresh("fetch")
               g == Fresh("publish")
               x == [g EXCEPT !.answer = state]
    <3>1. f \in RequestType /\ g \in RequestType
      BY FreshType
    <3>2. req' = [req EXCEPT ![r] = IF MayAsk THEN f ELSE x]
      BY <2>1, Zenon DEF Ask
    <3> HIDE DEF f, g
    <3>3. x \in RequestType
      BY <3>1 DEF RequestType, Typed
    <3> HIDE DEF x
    <3>4. req' \in [Requests -> RequestType]
      BY <3>1, <3>2, <3>3 DEF Typed
    <3> QED BY <2>1, <3>4 DEF Ask, Typed
  <2>2. CASE Fetch(r) \/ FetchFails(r)
    <3> DEFINE y == IF Fetch(r) THEN [release |-> latest, behind |-> IsNewer(latest)]
                                ELSE Unknown
    <3>1. y \in VersionState
      <4>1. IsNewer(latest) \in BOOLEAN
        BY DEF IsNewer
      <4> QED BY <4>1, UnknownType DEF VersionState, Typed
    <3>2. req' = [req EXCEPT ![r].pc = "record", ![r].answer = y]
      BY <2>2, Zenon DEF Fetch, FetchFails
    <3> HIDE DEF y
    <3> DEFINE q == [req[r] EXCEPT !.pc = "record", !.answer = y]
    <3>a. req[r] \in RequestType /\ req \in [Requests -> RequestType]
      BY DEF Typed
    <3>b. q \in RequestType
      BY <3>1, <3>a DEF RequestType
    <3>c. req' = [req EXCEPT ![r] = q]
      BY <3>2
    <3> HIDE DEF q
    <3>3. req' \in [Requests -> RequestType]
      BY <3>a, <3>b, <3>c
    <3> QED BY <2>2, <3>3 DEF Fetch, FetchFails, Fault, Typed
  <2>3. CASE Record(r) \/ Publish(r)
    <3>1. req' \in [Requests -> RequestType]
      BY <2>3, GotoIs DEF Record, Publish, Typed
    <3>2. req[r].answer \in VersionState
      BY DEF Typed, RequestType
    <3> QED BY <2>3, <3>1, <3>2 DEF Record, Publish, Typed
  <2> QED BY <1>2, <2>1, <2>2, <2>3 DEF Check
<1>3. CASE \E v \in Releases : Release(v)
  BY <1>3 DEF Release, Typed
<1>4. CASE Restart
  <2>1. cached' \in AllSettings /\ loaded' \in BOOLEAN
    BY <1>0, <1>4, BootType DEF Restart
  <2>2. view' \in [zone: Values, clock: Values, update: VersionState]
    BY <1>4, <2>1, RenderedType DEF Restart
  <2>3. req' \in [Requests -> RequestType]
    <3>1. Fresh("done") \in RequestType
      BY FreshType
    <3> QED BY <1>4, <3>1 DEF Restart, Typed
  <2> QED BY <1>4, <2>1, <2>2, <2>3, UnknownType DEF Restart, Fault, Typed
<1>5. CASE UNCHANGED vars
  BY <1>5 DEF vars, Typed
<1> QED BY <1>1, <1>2, <1>3, <1>4, <1>5 DEF Next

THEOREM SettingsTypes == Spec => []TypeOK
BY TypeInit, TypeStep, PTL DEF Spec

----------------------------------------------------------------------------
(* What an operator set last.                                              *)

\* The setting card of s replaced by what copy says of it.
Took(copy, s, card) == copy = [s EXCEPT ![card] = copy[card]]

\* While no save has crossed another there is one at a time, and it works on the
\* cache as it is.
OneAtATime ==
  ~past.crossed =>
    /\ \A q, r \in Requests : Saving(q) /\ Saving(r) => q = r
    /\ \A r \in Requests : Saving(r) => Took(req[r].copy, cached, req[r].card)

\* If moreover no save was made blind, the row holds the operator's last words,
\* the cache does but between writing and refreshing, and what a save found out
\* about the row still holds when it uses it.
RowKept ==
  ~past.crossed /\ ~past.blind =>
    /\ Stored = past.last
    /\ loaded /\ (\A r \in Requests : ~At(r, "cache")) => cached = Stored
    /\ \A r \in Requests :
         /\ Saving(r) => loaded
         /\ At(r, "create") => rows = <<>>
         /\ At(r, "update") => rows # <<>> /\ req[r].found = rows[1].id
         /\ At(r, "cache") => Stored = req[r].copy

\* A display card that has moved on from the clock, or stored the zone, and has
\* not moved the pages yet.
Owes(r) == req[r].pc \in {"zone", "render"} \/ (Saving(r) /\ req[r].card = "zone")

PagesFollow ==
  ~past.crossed /\ ~past.half =>
    ((\A r \in Requests : ~Owes(r)) =>
       view.zone = cached["zone"] /\ view.clock = cached["clock"])

Agreed == OneAtATime /\ RowKept /\ PagesFollow

\* Steps that neither write the row nor refresh the cache: saves go on as they
\* were, or end before they have written.
LEMMA SavesGoOn ==
  ASSUME OneAtATime, RowKept, UNCHANGED <<rows, cached, loaded>>,
         past'.last = past.last, past'.crossed = past.crossed, past'.blind = past.blind,
         \A q \in Requests : Saving(q)' \/ At(q, "cache") => req'[q] = req[q]
  PROVE  OneAtATime' /\ RowKept'
<1>1. Stored' = Stored
  BY DEF Stored
<1>2. \A q \in Requests : /\ Saving(q)' => Saving(q) /\ req'[q] = req[q]
                          /\ At(q, "cache") => At(q, "cache")'
  BY DEF Saving, At
<1>3. OneAtATime'
  BY <1>2 DEF OneAtATime
<1>4. \A q \in Requests : At(q, "create")' \/ At(q, "update")' \/ At(q, "cache")'
                            => Saving(q)'
  BY DEF At, Saving
<1>5. ASSUME ~past.crossed, ~past.blind
      PROVE  /\ loaded /\ (\A r \in Requests : ~At(r, "cache")') => cached = Stored
             /\ Stored = past.last
             /\ \A r \in Requests :
                  /\ Saving(r)' => loaded
                  /\ At(r, "create")' => rows = <<>>
                  /\ At(r, "update")' => rows # <<>> /\ req'[r].found = rows[1].id
                  /\ At(r, "cache")' => Stored = req'[r].copy
  BY <1>2, <1>4, <1>5 DEF RowKept, At
<1> QED BY <1>1, <1>3, <1>5 DEF RowKept

\* A save starts.
LEMMA SaveAgreed ==
  ASSUME Typed, OneAtATime, RowKept, NEW r \in Requests, ~Saving(r),
         NEW c \in Cards, NEW v \in Values, NEW zone \in Values \cup {Bad, Absent},
         StartSave(r, c, v, zone), UNCHANGED <<rows, cached, loaded>>
  PROVE  OneAtATime' /\ RowKept'
<1>1. /\ req'[r].pc = "find" /\ req'[r].card = c
      /\ req'[r].copy = [cached EXCEPT ![c] = v]
      /\ \A q \in Requests : q # r => req'[q] = req[q]
      /\ past'.last = past.last
      /\ past'.crossed <=> (past.crossed \/ Crossing(r))
      /\ past'.blind <=> (past.blind \/ ~loaded)
  BY Starts DEF Typed
<1>2. Stored' = Stored
  BY DEF Stored
<1>3. ~past'.crossed => ~past.crossed /\ \A q \in Requests : q # r => ~Saving(q)
  BY <1>1 DEF Crossing
<1>4. \A q \in Requests : q # r => (Saving(q)' <=> Saving(q))
  BY <1>1 DEF Saving
<1>5. Took(req'[r].copy, cached, c)
  <2>1. cached \in [Cards -> Values]
    BY DEF Typed, AllSettings
  <2> QED BY <1>1, <2>1 DEF Took
<1>6. OneAtATime'
  BY <1>1, <1>3, <1>4, <1>5 DEF OneAtATime
<1>7. ~At(r, "cache") /\ ~At(r, "create")' /\ ~At(r, "update")' /\ ~At(r, "cache")'
  BY <1>1 DEF At, Saving
<1>8. \A q \in Requests : q # r =>
        /\ At(q, "create")' <=> At(q, "create")
        /\ At(q, "update")' <=> At(q, "update")
        /\ At(q, "cache")' <=> At(q, "cache")
        /\ req'[q].found = req[q].found /\ req'[q].copy = req[q].copy
  BY <1>1 DEF At
<1>9. ASSUME ~past'.crossed, ~past'.blind
      PROVE  /\ Stored = past.last
             /\ loaded /\ (\A q \in Requests : ~At(q, "cache")') => cached = Stored
             /\ \A q \in Requests :
                  /\ Saving(q)' => loaded
                  /\ At(q, "create")' => rows = <<>>
                  /\ At(q, "update")' => rows # <<>> /\ req'[q].found = rows[1].id
                  /\ At(q, "cache")' => Stored = req'[q].copy
  <2>1. ~past.crossed /\ ~past.blind /\ loaded
    BY <1>1, <1>3, <1>9
  <2>2. Stored = past.last
    BY <2>1 DEF RowKept
  <2>3. (\A q \in Requests : ~At(q, "cache")') => cached = Stored
    BY <1>7, <1>8, <2>1 DEF RowKept
  <2>4. \A q \in Requests : q # r =>
                  /\ At(q, "create")' => rows = <<>>
                  /\ At(q, "update")' => rows # <<>> /\ req'[q].found = rows[1].id
                  /\ At(q, "cache")' => Stored = req'[q].copy
    BY <1>8, <2>1 DEF RowKept
  <2> QED BY <1>7, <2>1, <2>2, <2>3, <2>4
<1>10. RowKept'
  BY <1>1, <1>2, <1>9 DEF RowKept
<1> QED BY <1>6, <1>10

\* The only save looks for the row, writes it or refreshes the cache.
LEMMA FindAgreed ==
  ASSUME Typed, OneAtATime, RowKept, NEW r \in Requests, FindRow(r)
  PROVE  OneAtATime' /\ RowKept'
<1>1. /\ req'[r].pc = IF rows = <<>> THEN "create" ELSE "update"
      /\ rows # <<>> => req'[r].found = rows[1].id
      /\ req'[r].copy = req[r].copy /\ req'[r].card = req[r].card
      /\ \A q \in Requests : q # r => req'[q] = req[q]
      /\ UNCHANGED <<rows, cached, loaded, past>> /\ req[r].pc = "find"
  <2>0. UNCHANGED <<rows, cached, loaded, past>> /\ req[r].pc = "find"
    BY DEF FindRow, At
  <2>1. CASE rows = <<>>
    <3>1. req' = [req EXCEPT ![r].pc = "create"]
      BY <2>1, Zenon DEF FindRow
    <3> QED BY <2>0, <2>1, <3>1 DEF Typed, RequestType
  <2>2. CASE rows # <<>>
    <3> DEFINE n == rows[1].id
    <3>1. req' = [req EXCEPT ![r].pc = "update", ![r].found = n]
      BY <2>2, Zenon DEF FindRow
    <3> HIDE DEF n
    <3>2. /\ req'[r].pc = "update" /\ req'[r].found = n
          /\ req'[r].copy = req[r].copy /\ req'[r].card = req[r].card
          /\ \A q \in Requests : q # r => req'[q] = req[q]
      BY <3>1 DEF Typed, RequestType
    <3> QED BY <2>0, <2>2, <3>2 DEF n
  <2> QED BY <2>1, <2>2
<1>2. Stored' = Stored /\ Saving(r) /\ ~At(r, "cache") /\ ~At(r, "cache")'
  BY <1>1 DEF Stored, Saving, At
<1>3. \A q \in Requests : (Saving(q)' <=> Saving(q)) /\ (At(q, "cache")' <=> At(q, "cache"))
  BY <1>1 DEF Saving, At
<1>4. OneAtATime'
  BY <1>1, <1>3 DEF OneAtATime
<1>5. \A q \in Requests : At(q, "create") \/ At(q, "update") \/ At(q, "cache") => Saving(q)
  BY DEF At, Saving
<1>6. RowKept'
  <2>1. ASSUME ~past.crossed, ~past.blind, NEW q \in Requests
        PROVE  /\ Saving(q)' => loaded
               /\ At(q, "create")' => rows = <<>>
               /\ At(q, "update")' => rows # <<>> /\ req'[q].found = rows[1].id
               /\ At(q, "cache")' => Stored = req'[q].copy
    <3>1. CASE q = r
      BY <1>1, <1>2, <2>1, <3>1 DEF RowKept, At
    <3>2. CASE q # r
      <4>1. ~Saving(q)
        BY <1>2, <2>1, <3>2 DEF OneAtATime
      <4>2. req'[q] = req[q]
        BY <1>1, <3>2
      <4> QED BY <1>5, <4>1, <4>2 DEF At, Saving
    <3> QED BY <3>1, <3>2
  <2> QED BY <1>1, <1>2, <1>3, <2>1 DEF RowKept
<1> QED BY <1>4, <1>6

LEMMA WriteAgreed ==
  ASSUME Typed, OneAtATime, RowKept, NEW r \in Requests, CreateRow(r) \/ UpdateRow(r)
  PROVE  OneAtATime' /\ RowKept'
<1>1. /\ UNCHANGED <<cached, loaded>> /\ Goto(r, "cache")
      /\ (CreateRow(r) /\ At(r, "create")) \/ (UpdateRow(r) /\ At(r, "update"))
  BY DEF CreateRow, UpdateRow
<1>2. /\ req'[r].pc = "cache" /\ req'[r].card = req[r].card /\ req'[r].copy = req[r].copy
      /\ \A q \in Requests : q # r => req'[q] = req[q]
  BY <1>1, GotoIs DEF Typed
<1>3. Saving(r) /\ ~At(r, "cache") /\ Saving(r)' /\ At(r, "cache")'
  BY <1>1, <1>2 DEF Saving, At
<1>4. \A q \in Requests : Saving(q)' <=> Saving(q)
  BY <1>2, <1>3 DEF Saving
<1>5. past'.crossed = past.crossed /\ past'.blind = past.blind
      /\ past'.last = [past.last EXCEPT ![req[r].card] = req[r].copy[req[r].card]]
  BY RowsWritten
<1>6. OneAtATime'
  BY <1>1, <1>2, <1>4, <1>5 DEF OneAtATime
<1>7. \A q \in Requests : At(q, "create") \/ At(q, "update") \/ At(q, "cache") => Saving(q)
  BY DEF At, Saving
<1>8. ASSUME ~past.crossed, ~past.blind
      PROVE  /\ Stored' = past'.last /\ Stored' = req'[r].copy /\ loaded
             /\ \A q \in Requests : q # r => ~Saving(q)' /\ ~At(q, "create")' /\ ~At(q, "update")' /\ ~At(q, "cache")'
  <2>1. \A q \in Requests : q # r => ~Saving(q)
    BY <1>3, <1>8 DEF OneAtATime
  <2>2. \A q \in Requests : q # r => ~Saving(q)' /\ ~At(q, "create")' /\ ~At(q, "update")' /\ ~At(q, "cache")'
    BY <1>2, <1>4, <1>7, <2>1 DEF At
  <2>3. loaded /\ cached = past.last
    BY <1>3, <1>7, <1>8, <2>1 DEF RowKept
  <2>4. Stored' = req[r].copy
    BY <1>1, <1>8, RowsWritten DEF RowKept
  <2>5. past'.last = req[r].copy
    BY <1>3, <1>5, <1>8, <2>3 DEF OneAtATime, Took
  <2> QED BY <1>2, <2>2, <2>3, <2>4, <2>5
<1>9. ~At(r, "create")' /\ ~At(r, "update")'
  BY <1>2 DEF At
<1>10. ASSUME ~past.crossed, ~past.blind, NEW q \in Requests
       PROVE  /\ Saving(q)' => loaded'
              /\ ~At(q, "create")' /\ ~At(q, "update")'
              /\ At(q, "cache")' => Stored' = req'[q].copy
  <2>1. CASE q = r
    BY <1>1, <1>8, <1>9, <1>10, <2>1
  <2>2. CASE q # r
    BY <1>8, <1>10, <2>2
  <2> QED BY <2>1, <2>2
<1>11. RowKept'
  BY <1>3, <1>5, <1>8, <1>10 DEF RowKept
<1> QED BY <1>6, <1>11

LEMMA RefreshAgreed ==
  ASSUME Typed, OneAtATime, RowKept, PagesFollow, NEW r \in Requests, RefreshCache(r)
  PROVE  OneAtATime' /\ RowKept' /\ PagesFollow'
<1>1. /\ UNCHANGED <<rows, loaded, view, past>> /\ cached' = req[r].copy
      /\ req[r].pc = "cache" /\ Goto(r, AfterSave(req[r]))
  BY DEF RefreshCache, At
<1>2. AfterSave(req[r]) \in {"zone", "render", "ask", "done"}
  BY DEF AfterSave
<1>3. /\ req'[r].pc = AfterSave(req[r]) /\ req'[r].card = req[r].card
      /\ \A q \in Requests : q # r => req'[q] = req[q]
  BY <1>1, <1>2, GotoIs DEF Typed
<1>4. Saving(r) /\ At(r, "cache") /\ ~Saving(r)' /\ Stored' = Stored
  BY <1>1, <1>2, <1>3 DEF Saving, At, Stored
<1>5. ASSUME ~past.crossed, NEW q \in Requests
      PROVE  ~Saving(q)' /\ ~At(q, "create")' /\ ~At(q, "update")' /\ ~At(q, "cache")'
  <2>1. ~Saving(q)'
    <3>1. CASE q # r
      <4>1. ~Saving(q)
        BY <1>4, <1>5, <3>1 DEF OneAtATime
      <4> QED BY <1>3, <3>1, <4>1 DEF Saving
    <3> QED BY <1>4, <3>1
  <2> QED BY <2>1 DEF Saving, At
<1>6. OneAtATime'
  BY <1>1, <1>5 DEF OneAtATime
<1>7. RowKept'
  BY <1>1, <1>4, <1>5 DEF RowKept
<1>8. PagesFollow'
  <2> SUFFICES ASSUME ~past.crossed, ~past.half, \A q \in Requests : ~Owes(q)'
               PROVE  view.zone = cached'["zone"] /\ view.clock = cached'["clock"]
    BY <1>1 DEF PagesFollow
  <2>1. AfterSave(req[r]) \notin {"zone", "render"}
    BY <1>3 DEF Owes
  <2>2. req[r].card \notin {"clock", "zone"}
    BY <2>1 DEF AfterSave
  <2>3. \A q \in Requests : ~Owes(q)
    <3>1. \A q \in Requests : q # r => ~Owes(q)
      BY <1>3 DEF Owes, Saving
    <3>2. ~Owes(r)
      BY <1>1, <2>2 DEF Owes
    <3> QED BY <3>1, <3>2
  <2>4. view.zone = cached["zone"] /\ view.clock = cached["clock"]
    BY <2>3 DEF PagesFollow
  <2>5. Took(req[r].copy, cached, req[r].card)
    BY <1>4 DEF OneAtATime
  <2>6. cached'["zone"] = cached["zone"] /\ cached'["clock"] = cached["clock"]
    <3>1. cached \in [Cards -> Values] /\ "zone" \in Cards /\ "clock" \in Cards
      BY DEF Typed, AllSettings, Cards
    <3> QED BY <1>1, <2>2, <2>5, <3>1 DEF Took
  <2> QED BY <2>4, <2>6
<1> QED BY <1>6, <1>7, <1>8

\* The pages, when neither they nor the cache move: nobody who owed them a move
\* forgot it without saying so.
LEMMA PagesStay ==
  ASSUME PagesFollow, UNCHANGED <<view, cached>> \/ (UNCHANGED cached /\ view'.zone = view.zone /\ view'.clock = view.clock),
         ~past'.crossed => ~past.crossed,
         ~past'.half => ~past.half /\ \A q \in Requests : Owes(q) => Owes(q)'
  PROVE  PagesFollow'
BY DEF PagesFollow

\* A request that saves nothing, or whose statement fails.
LEMMA OthersAgreed ==
  ASSUME Typed, Agreed, NEW r \in Requests,
         RefuseZone(r) \/ Render(r) \/ SaveFails(r) \/ Check(r)
  PROVE  Agreed'
<1> DEFINE Fields == /\ past'.last = past.last
                     /\ past'.crossed = past.crossed /\ past'.blind = past.blind
<1>0. Fresh("fetch").pc = "fetch" /\ Fresh("publish").pc = "publish"
  BY DEF Fresh
<1>1. /\ UNCHANGED <<rows, cached, loaded>>
      /\ \A q \in Requests : q # r => req'[q] = req[q]
      /\ ~Saving(r)' /\ ~At(r, "cache")
  <2>1. CASE RefuseZone(r)
    BY <2>1, GotoIs DEF RefuseZone, Typed, Saving, At
  <2>2. CASE Render(r)
    BY <2>2, GotoIs DEF Render, Typed, Saving, At
  <2>3. CASE SaveFails(r)
    BY <2>3, GotoIs DEF SaveFails, Typed, Saving, At
  <2>4. CASE Ask(r)
    <3> DEFINE f == Fresh("fetch")
               g == Fresh("publish")
               x == [g EXCEPT !.answer = state]
    <3>1. f.pc = "fetch" /\ x.pc = "publish"
      BY DEF Fresh
    <3>2. req' = [req EXCEPT ![r] = IF MayAsk THEN f ELSE x]
      BY <2>4, Zenon DEF Ask
    <3> HIDE DEF f, x
    <3>3. req'[r].pc \in {"fetch", "publish"} /\ \A q \in Requests : q # r => req'[q] = req[q]
      BY <3>1, <3>2 DEF Typed
    <3> QED BY <2>4, <3>3 DEF Ask, Saving, At
  <2>5. CASE Fetch(r) \/ FetchFails(r)
    <3> DEFINE y == IF Fetch(r) THEN [release |-> latest, behind |-> IsNewer(latest)]
                                ELSE Unknown
    <3>1. req' = [req EXCEPT ![r].pc = "record", ![r].answer = y]
      BY <2>5, Zenon DEF Fetch, FetchFails
    <3> HIDE DEF y
    <3>2. req'[r].pc = "record" /\ \A q \in Requests : q # r => req'[q] = req[q]
      BY <3>1 DEF Typed, RequestType
    <3> QED BY <2>5, <3>2 DEF Fetch, FetchFails, Saving, At
  <2>6. CASE Record(r) \/ Publish(r)
    BY <2>6, GotoIs DEF Record, Publish, Typed, Saving, At
  <2> QED BY <2>1, <2>2, <2>3, <2>4, <2>5, <2>6 DEF Check
<1>2. Fields /\ (~past'.half => ~past.half /\ (SaveFails(r) => req[r].card # "zone"))
  <2>1. CASE RefuseZone(r)
    BY <2>1 DEF RefuseZone, SaveFails, At, Typed, PastType
  <2>2. CASE SaveFails(r)
    <3> DEFINE h == (past.half \/ req[r].card = "zone")
    <3>1. past' = [past EXCEPT !.half = h]
      BY <2>2, Zenon DEF SaveFails
    <3> HIDE DEF h
    <3>2. Fields /\ past'.half = h
      BY <3>1 DEF Typed, PastType
    <3> QED BY <3>2 DEF h
  <2>3. CASE Render(r) \/ Check(r)
    <3>1. past' = past
      BY <2>3 DEF Render, Check, Ask, Fetch, FetchFails, Record, Publish
    <3>2. ~SaveFails(r)
      BY <2>3 DEF Render, Check, Ask, Fetch, FetchFails, Record, Publish, SaveFails, At
    <3> QED BY <3>1, <3>2
  <2> QED BY <2>1, <2>2, <2>3
<1>3. \A q \in Requests : Saving(q)' \/ At(q, "cache") => req'[q] = req[q]
  BY <1>1
<1>4. OneAtATime' /\ RowKept'
  BY <1>1, <1>2, <1>3, SavesGoOn DEF Agreed
<1>5. PagesFollow'
  <2>1. CASE Render(r)
    <3>1. view'.zone = cached["zone"] /\ view'.clock = cached["clock"]
      BY <2>1 DEF Render, Shown, Typed
    <3> QED BY <1>1, <3>1 DEF PagesFollow
  <2>2. CASE RefuseZone(r)
    <3>1. past'.half
      BY <2>2 DEF RefuseZone, Typed, PastType
    <3> QED BY <3>1 DEF PagesFollow
  <2>3. CASE SaveFails(r) \/ Check(r)
    <3>1. view'.zone = view.zone /\ view'.clock = view.clock
      BY <2>3 DEF SaveFails, Check, Ask, Fetch, FetchFails, Record, Publish, Typed
    <3>2. ~past'.half => ~Owes(r)
      BY <1>2, <2>3 DEF SaveFails, Check, Ask, Fetch, FetchFails, Record, Publish, Owes, Saving, At
    <3>3. \A q \in Requests : q # r /\ Owes(q) => Owes(q)'
      BY <1>1 DEF Owes, Saving
    <3> QED BY <1>1, <1>2, <3>1, <3>2, <3>3, PagesStay DEF Agreed
  <2> QED BY <2>1, <2>2, <2>3
<1> QED BY <1>4, <1>5 DEF Agreed

LEMMA AgreedStep ==
  ASSUME TypeOK, Agreed, [Next]_vars
  PROVE  Agreed'
<1>0. Typed
  BY TypedIs
<1>1. ASSUME NEW r \in Requests, Save(r)
      PROVE  Agreed'
  <2>1. CASE \/ \E c \in Cards, v \in Values : SaveCard(r, c, v)
             \/ \E clock \in Values \cup {Absent}, zone \in Values \cup {Bad} : SaveDisplay(r, clock, zone)
             \/ SaveZone(r)
    <3>0. UNCHANGED <<rows, cached, loaded, view>> /\ ~Saving(r)
      BY <1>0, <2>1, SaveStarts
    <3>1. CASE /\ At(r, "idle")
               /\ req' \in [Requests -> RequestType] /\ req'[r].pc = "zone"
               /\ \A q \in Requests : q # r => req'[q] = req[q]
               /\ past' = past
      <4>1. \A q \in Requests : Saving(q)' \/ At(q, "cache") => req'[q] = req[q]
        BY <3>1 DEF Saving, At
      <4>2. OneAtATime' /\ RowKept'
        BY <3>0, <3>1, <4>1, SavesGoOn DEF Agreed
      <4>3. \A q \in Requests : Owes(q) => Owes(q)'
        BY <3>1 DEF Owes, Saving
      <4>4. PagesFollow'
        BY <3>0, <3>1, <4>3, PagesStay DEF Agreed
      <4> QED BY <4>2, <4>4 DEF Agreed
    <3>2. ASSUME NEW c \in Cards, NEW v \in Values, NEW zone \in Values \cup {Bad, Absent},
                 StartSave(r, c, v, zone), c # "zone" => At(r, "idle")
          PROVE  Agreed'
      <4>1. OneAtATime' /\ RowKept'
        BY <1>0, <3>0, <3>2, SaveAgreed DEF Agreed
      <4>2. /\ req'[r].pc = "find" /\ req'[r].card = c
            /\ \A q \in Requests : q # r => req'[q] = req[q]
            /\ past'.half = past.half
            /\ past'.crossed <=> (past.crossed \/ Crossing(r))
        BY <1>0, <3>2, Starts DEF Typed
      <4>3. \A q \in Requests : Owes(q) => Owes(q)'
        <5>1. Owes(r) => Owes(r)'
          BY <3>0, <3>2, <4>2 DEF Owes, Saving, At
        <5>2. \A q \in Requests : q # r => (Owes(q) => Owes(q)')
          BY <4>2 DEF Owes, Saving
        <5> QED BY <5>1, <5>2
      <4>4. PagesFollow'
        BY <3>0, <4>2, <4>3, PagesStay DEF Agreed
      <4> QED BY <4>1, <4>4 DEF Agreed
    <3> QED BY <1>0, <2>1, <3>1, <3>2, SaveStarts
  <2>2. CASE FindRow(r)
    <3>1. OneAtATime' /\ RowKept'
      BY <1>0, <2>2, FindAgreed DEF Agreed
    <3>2. /\ req'[r].pc \in {"create", "update"} /\ req'[r].card = req[r].card
          /\ \A q \in Requests : q # r => req'[q] = req[q]
      BY <1>0, <2>2 DEF FindRow, Typed, RequestType
    <3>3. UNCHANGED <<view, cached, past>> /\ req[r].pc = "find"
      BY <2>2 DEF FindRow, At
    <3>4. \A q \in Requests : Owes(q) => Owes(q)'
      BY <3>2, <3>3 DEF Owes, Saving
    <3>5. PagesFollow'
      BY <3>3, <3>4, PagesStay DEF Agreed
    <3> QED BY <3>1, <3>5 DEF Agreed
  <2>3. CASE CreateRow(r) \/ UpdateRow(r)
    <3>1. OneAtATime' /\ RowKept'
      BY <1>0, <2>3, WriteAgreed DEF Agreed
    <3>2. /\ UNCHANGED <<view, cached>> /\ Goto(r, "cache") /\ req[r].pc \in {"create", "update"}
      BY <2>3 DEF CreateRow, UpdateRow, At
    <3>3. /\ req'[r].pc = "cache" /\ req'[r].card = req[r].card
          /\ \A q \in Requests : q # r => req'[q] = req[q]
      BY <1>0, <3>2, GotoIs DEF Typed
    <3>4. \A q \in Requests : Owes(q) => Owes(q)'
      BY <3>2, <3>3 DEF Owes, Saving
    <3>5. past'.crossed = past.crossed /\ past'.half = past.half
      BY <1>0, <2>3, RowsWritten
    <3>6. PagesFollow'
      BY <3>2, <3>4, <3>5, PagesStay DEF Agreed
    <3> QED BY <3>1, <3>6 DEF Agreed
  <2>4. CASE RefreshCache(r)
    BY <1>0, <2>4, RefreshAgreed DEF Agreed
  <2>5. CASE RefuseZone(r) \/ Render(r) \/ SaveFails(r)
    BY <1>0, <2>5, OthersAgreed
  <2> QED BY <1>1, <2>1, <2>2, <2>3, <2>4, <2>5 DEF Save
<1>2. ASSUME NEW r \in Requests, Check(r)
      PROVE  Agreed'
  BY <1>0, <1>2, OthersAgreed
<1>3. CASE (\E v \in Releases : Release(v)) \/ UNCHANGED vars
  <2>1. UNCHANGED <<rows, cached, loaded, view, req, past>>
    BY <1>3 DEF Release, vars
  <2>2. OneAtATime' /\ RowKept'
    BY <2>1, SavesGoOn DEF Agreed
  <2>3. PagesFollow'
    BY <2>1, PagesStay DEF Agreed, Owes, Saving
  <2> QED BY <2>2, <2>3 DEF Agreed
<1>4. CASE Restart
  <2>1. \A q \in Requests : req'[q].pc \in {"idle", "done"}
    <3>1. Fresh("done").pc = "done"
      BY DEF Fresh
    <3> QED BY <1>4, <3>1 DEF Restart, At
  <2>2. \A q \in Requests : ~Saving(q)' /\ ~Owes(q)' /\ ~At(q, "create")' /\ ~At(q, "update")' /\ ~At(q, "cache")'
    BY <2>1 DEF Saving, Owes, At
  <2>3. UNCHANGED <<rows, past>> /\ Stored' = Stored
    BY <1>4 DEF Restart, Stored
  <2>4. loaded' => cached' = Stored
    BY <1>0, <1>4, StoredType, BootType DEF Restart, Typed
  <2>5. view'.zone = cached'["zone"] /\ view'.clock = cached'["clock"]
    BY <1>4 DEF Restart, Rendered
  <2>6. ~past.crossed /\ ~past.blind => Stored = past.last
    BY DEF Agreed, RowKept
  <2>7. OneAtATime'
    BY <2>2 DEF OneAtATime
  <2>8. RowKept'
    BY <2>2, <2>3, <2>4, <2>6 DEF RowKept
  <2>9. PagesFollow'
    BY <2>5 DEF PagesFollow
  <2> QED BY <2>7, <2>8, <2>9 DEF Agreed
<1> QED BY <1>1, <1>2, <1>3, <1>4 DEF Next

LEMMA AgreedInit == Init => Agreed
<1> SUFFICES ASSUME Init PROVE Agreed
  OBVIOUS
<1>0. Typed
  BY TypeInit, TypedIs
<1>1. \A q \in Requests : req[q].pc = "idle"
  BY DEF Init, Fresh
<1>2. \A q \in Requests : ~Saving(q) /\ ~At(q, "create") /\ ~At(q, "update") /\ ~At(q, "cache")
  BY <1>1 DEF Saving, At
<1>3. loaded => cached = Stored
  BY <1>0, StoredType, BootType DEF Init, Typed
<1>4. view.zone = cached["zone"] /\ view.clock = cached["clock"] /\ past.last = Stored
  BY DEF Init, Rendered
<1> QED BY <1>2, <1>3, <1>4 DEF Agreed, OneAtATime, RowKept, PagesFollow

\* However saves, checks, failures and restarts interleave, the row, the cache and
\* the pages agree on what an operator set last; the exceptions are the property's
\* own: saves that crossed, saves made blind and display cards that stopped half
\* way.
THEOREM SettingsSafe == Spec => []SettingsAgree
<1>1. TypeOK /\ Agreed /\ [Next]_vars => Agreed'
  BY AgreedStep
<1>2. TypeOK /\ Agreed => SettingsAgree
  <2> SUFFICES ASSUME TypeOK, Agreed PROVE SettingsAgree
    OBVIOUS
  <2>1. CardsKeepApart
    BY DEF Agreed, RowKept, CardsKeepApart
  <2>2. Quiet => \A r \in Requests : ~At(r, "cache") /\ ~Owes(r)
    BY DEF Quiet, At, Owes, Saving
  <2>3. CacheIsRow
    BY <2>2 DEF Agreed, RowKept, CacheIsRow
  <2>4. ViewsFollow
    BY <2>2 DEF Agreed, PagesFollow, ViewsFollow
  <2> QED BY <2>1, <2>3, <2>4 DEF SettingsAgree
<1> QED BY <1>1, <1>2, AgreedInit, SettingsTypes, PTL DEF Spec

\* Only Ask sends a question out, and only on the operator's last word.
LEMMA AskStep ==
  ASSUME TypeOK, Agreed, [Next]_vars, NEW r \in Requests,
         req[r].pc \in {"idle", "ask"}, req'[r].pc = "fetch",
         ~past.crossed, ~past.blind, ~Crossing(r)
  PROVE  On(past.last)
<1>0. Typed
  BY TypedIs
<1>1. ASSUME NEW q \in Requests, q # r, Save(q) \/ Check(q)
      PROVE  FALSE
  <2>1. req'[r] = req[r]
    <3>1. CASE \/ \E c \in Cards, v \in Values : SaveCard(q, c, v)
               \/ \E clock \in Values \cup {Absent}, zone \in Values \cup {Bad} : SaveDisplay(q, clock, zone)
               \/ SaveZone(q)
      <4>1. ASSUME NEW c \in Cards, NEW v \in Values, NEW zone \in Values \cup {Bad, Absent},
                   StartSave(q, c, v, zone)
            PROVE  req'[r] = req[r]
        BY <1>0, <1>1, <4>1, Starts DEF Typed
      <4> QED BY <1>0, <1>1, <3>1, <4>1, SaveStarts
    <3>2. CASE FindRow(q) \/ CreateRow(q) \/ UpdateRow(q) \/ RefreshCache(q) \/ RefuseZone(q)
               \/ Render(q) \/ SaveFails(q) \/ Check(q)
      BY <1>0, <1>1, <3>2 DEF FindRow, CreateRow, UpdateRow, RefreshCache, RefuseZone,
         Render, SaveFails, Check, Ask, Fetch, FetchFails, Record, Publish, Goto, Typed
    <3> QED BY <1>1, <3>1, <3>2 DEF Save
  <2> QED BY <2>1
<1>2. ASSUME Save(r)
      PROVE  FALSE
  <2>1. CASE \/ \E c \in Cards, v \in Values : SaveCard(r, c, v)
             \/ \E clock \in Values \cup {Absent}, zone \in Values \cup {Bad} : SaveDisplay(r, clock, zone)
             \/ SaveZone(r)
    <3>1. ASSUME NEW c \in Cards, NEW v \in Values, NEW zone \in Values \cup {Bad, Absent},
                 StartSave(r, c, v, zone)
          PROVE  req'[r].pc = "find"
      BY <1>0, <3>1, Starts DEF Typed
    <3> QED BY <1>0, <2>1, <3>1, SaveStarts
  <2>2. req[r].pc \notin {"find", "create", "update", "cache", "zone", "render"}
    OBVIOUS
  <2> QED BY <1>2, <2>1, <2>2 DEF Save, FindRow, CreateRow, UpdateRow, RefreshCache,
             RefuseZone, Render, SaveFails, At
<1>3. ~Restart
  <2>1. Fresh("done").pc = "done"
    BY DEF Fresh
  <2> QED BY <2>1 DEF Restart, At
<1>4. ~UNCHANGED vars /\ ~ \E v \in Releases : Release(v)
  BY DEF vars, Release
<1>5. Check(r)
  BY <1>1, <1>2, <1>3, <1>4 DEF Next
<1>6. Ask(r)
  BY <1>5 DEF Check, Fetch, FetchFails, Record, Publish, At
<1>7. MayAsk
  <2> DEFINE g == Fresh("publish")
             x == [g EXCEPT !.answer = state]
  <2>1. x.pc = "publish"
    BY DEF Fresh
  <2>2. ~MayAsk => req' = [req EXCEPT ![r] = x]
    BY <1>6, Zenon DEF Ask
  <2> HIDE DEF x
  <2> QED BY <1>0, <2>1, <2>2 DEF Typed
<1>8. \A q \in Requests : ~Saving(q)
  BY DEF Crossing, Saving
<1>9. \A q \in Requests : ~At(q, "cache")
  BY <1>8 DEF At, Saving
<1> QED BY <1>7, <1>9 DEF Agreed, RowKept, MayAsk, On

\* No question goes to GitHub against the operator's last word, through failed
\* saves, restarts and boots that could not read it.
THEOREM AsksSafe == Spec => OffMeansOff
<1>1. TypeOK /\ Agreed /\ [Next]_vars => Agreed'
  BY AgreedStep
<1>2. TypeOK /\ Agreed /\ [Next]_vars
        => [\A r \in Requests :
              req[r].pc \in {"idle", "ask"} /\ req'[r].pc = "fetch"
                => past.crossed \/ past.blind \/ On(past.last) \/ Crossing(r)]_vars
  BY AskStep
<1> QED BY <1>1, <1>2, AgreedInit, SettingsTypes, PTL DEF Spec, OffMeansOff

----------------------------------------------------------------------------
(* Controls.                                                               *)

\* A bare control names its request and nothing else.
LEMMA DoFields ==
  ASSUME NEW op \in Ops
  PROVE  /\ Do(op) \in Control
         /\ Do(op).op = op /\ Do(op).who = Nil /\ Do(op).role = Nil /\ Do(op).level = Nil
  BY DEF Do, Control

LEMMA PlainFields ==
  ASSUME NEW ops \in SUBSET Ops, NEW c \in Plain(ops)
  PROVE  /\ c \in Control /\ c.op \in ops
         /\ c.who = Nil /\ c.role = Nil /\ c.level = Nil
  BY DoFields DEF Plain

\* A control about an account names it.
LEMMA DoToFields ==
  ASSUME NEW op \in Ops, NEW u \in Users
  PROVE  /\ DoTo(op, u) \in Control
         /\ DoTo(op, u).op = op /\ DoTo(op, u).who = u
         /\ DoTo(op, u).role = Nil /\ DoTo(op, u).level = Nil
<1>1. DoTo(op, u) = [op |-> op, who |-> u, role |-> Nil, level |-> Nil]
  BY DEF DoTo, Do
<1> QED BY <1>1 DEF Control

LEMMA GrantsFields ==
  ASSUME NEW op \in Ops, NEW u \in Users, NEW c \in Grants(op, u)
  PROVE  /\ c \in Control
         /\ c.op = op /\ c.who = u /\ c.role = Nil /\ c.level \in Levels
<1>1. PICK l \in Levels : c = [DoTo(op, u) EXCEPT !.level = l]
  BY DEF Grants
<1>2. c = [op |-> op, who |-> u, role |-> Nil, level |-> l]
  BY <1>1 DEF DoTo, Do
<1> QED BY <1>2 DEF Control

----------------------------------------------------------------------------
(* Rights.                                                                 *)

\* Whoever may manage a project may read it, and whoever may delete it may
\* manage it.
LEMMA RightsAreNested ==
  ASSUME NEW u \in Users
  PROVE  /\ CanManage(u) => CanRead(u)
         /\ CanDelete(u) => CanManage(u) /\ u \in Accounts
  BY ScreensAssumption DEF CanManage, CanRead, CanDelete, Accounts, Roles, Levels

\* Requests with a gate of their own or a service that may refuse.
Guarded ==
  ReadRoutes \cup ManageRoutes \cup DeleteRoutes \cup InstanceRoutes \cup CreateRoutes
    \cup {"add", "reset", "role", "delete_member"}

\* What every account may ask for.
LEMMA UnguardedWorks ==
  ASSUME NEW u \in Accounts, NEW c, c.op \notin Guarded
  PROVE  May(u, c)
<1> DEFINE op == c.op
<1>1. /\ op \notin ReadRoutes /\ op \notin ManageRoutes /\ op \notin DeleteRoutes
      /\ op \notin InstanceRoutes /\ op \notin CreateRoutes
      /\ op \notin {"add", "reset", "role", "delete_member"}
  BY DEF Guarded
<1>2. op \notin LoadsProject
  BY <1>1 DEF LoadsProject, ReadRoutes, ManageRoutes
<1>3. Routed(u, c)
  BY <1>1, <1>2 DEF Routed, RequireProjectAccess, RequireProjectManage,
     RequireProjectDelete, RequireSuperAdmin
<1>4. Serves(u, c)
  BY <1>1 DEF Serves, SetProjectAccess, RemoveProjectAccess, CreateMember,
     ResetMemberPassword, ChangeRole, DeleteMember, LocksProject, ManageRoutes, DeleteRoutes
<1> QED BY <1>3, <1>4 DEF May

\* The reading screens, for who may read a live project.
LEMMA ReadingWorks ==
  ASSUME NEW u \in Accounts, NEW c, c.op \in ReadRoutes,
         CanRead(u), project = "live" \/ c.op = "screen"
  PROVE  May(u, c)
<1> DEFINE op == c.op
<1>1. /\ op \notin ManageRoutes /\ op \notin DeleteRoutes
      /\ op \notin InstanceRoutes /\ op \notin CreateRoutes
      /\ op \notin {"add", "reset", "role", "delete_member"}
  BY DEF ReadRoutes, TabOps, ManageRoutes, DeleteRoutes, InstanceRoutes, CreateRoutes
<1>2. op \in LoadsProject => project = "live"
  BY DEF LoadsProject, TabOps
<1>3. Routed(u, c)
  BY <1>1, <1>2 DEF Routed, RequireProjectAccess, RequireProjectManage,
     RequireProjectDelete, RequireSuperAdmin
<1>4. Serves(u, c)
  BY <1>1 DEF Serves, SetProjectAccess, RemoveProjectAccess, CreateMember,
     ResetMemberPassword, ChangeRole, DeleteMember, LocksProject, ManageRoutes, DeleteRoutes
<1> QED BY <1>3, <1>4 DEF May

\* What managing takes, for who may manage a live project.
LEMMA ManagingWorks ==
  ASSUME NEW u \in Accounts,
         NEW c, c.op \in ManageRoutes, CanManage(u),
         project = "live" \/ c.op \in {"grant", "remove", "reveal", "hide"},
         c.op = "grant" => c.who \in Accounts /\ role[c.who] # "super_admin",
         c.op = "remove" => c.who # u
  PROVE  May(u, c)
<1> DEFINE op == c.op
<1>1. /\ op \notin DeleteRoutes /\ op \notin InstanceRoutes /\ op \notin CreateRoutes
      /\ op \notin {"add", "reset", "role", "delete_member"}
  BY DEF ReadRoutes, TabOps, ManageRoutes, DeleteRoutes, InstanceRoutes, CreateRoutes
<1>2. op \in LoadsProject => project = "live"
  BY DEF LoadsProject, TabOps
<1>0. CanRead(u)
  BY RightsAreNested DEF Accounts
<1>3. Routed(u, c)
  BY <1>0, <1>1, <1>2 DEF Routed, RequireProjectAccess, RequireProjectManage,
     RequireProjectDelete, RequireSuperAdmin
<1>4. Serves(u, c)
  BY <1>1 DEF Serves, SetProjectAccess, RemoveProjectAccess, CreateMember,
     ResetMemberPassword, ChangeRole, DeleteMember, LocksProject, ManageRoutes, DeleteRoutes
<1> QED BY <1>3, <1>4 DEF May

LEMMA DeletingWorks ==
  ASSUME NEW u \in Users,
         NEW c, c.op = "delete", CanDelete(u), project = "live"
  PROVE  May(u, c)
<1>1. CanManage(u) /\ CanRead(u) /\ u \in Accounts
  BY RightsAreNested
<1>2. Routed(u, c)
  BY <1>1 DEF Routed, RequireProjectAccess, RequireProjectManage, RequireProjectDelete,
     RequireSuperAdmin, ManageRoutes, InstanceRoutes, CreateRoutes, LoadsProject, TabOps
<1>3. Serves(u, c)
  BY DEF Serves, SetProjectAccess, RemoveProjectAccess, CreateMember,
     ResetMemberPassword, ChangeRole, DeleteMember, LocksProject
<1> QED BY <1>1, <1>2, <1>3 DEF May

LEMMA CreatingWorks ==
  ASSUME NEW u \in Accounts, NEW c, c.op \in CreateRoutes, CanCreateProjects(u)
  PROVE  May(u, c)
<1>2. Routed(u, c)
  BY DEF Routed, RequireProjectAccess, RequireProjectManage, RequireProjectDelete,
     RequireSuperAdmin, ManageRoutes, ReadRoutes, DeleteRoutes, InstanceRoutes,
     CreateRoutes, LoadsProject, TabOps
<1>3. Serves(u, c)
  BY DEF Serves, SetProjectAccess, RemoveProjectAccess, CreateMember, CreateRoutes,
     ResetMemberPassword, ChangeRole, DeleteMember, LocksProject
<1> QED BY <1>2, <1>3 DEF May

LEMMA RunningWorks ==
  ASSUME NEW u \in Accounts, NEW c, c.op \in InstanceRoutes, role[u] = "super_admin"
  PROVE  May(u, c)
<1>2. Routed(u, c)
  BY DEF Routed, RequireProjectAccess, RequireProjectManage, RequireProjectDelete,
     RequireSuperAdmin, ManageRoutes, ReadRoutes, DeleteRoutes, InstanceRoutes,
     CreateRoutes, LoadsProject, TabOps
<1>3. Serves(u, c)
  BY DEF Serves, SetProjectAccess, RemoveProjectAccess, CreateMember, InstanceRoutes,
     ResetMemberPassword, ChangeRole, DeleteMember, LocksProject
<1> QED BY <1>2, <1>3 DEF May

\* What is done to accounts passes the routes and rests with the service.
LEMMA AccountsWork ==
  ASSUME NEW u \in Accounts, NEW c, c.op \in {"add", "reset", "role", "delete_member"}
  PROVE  /\ Routed(u, c)
         /\ c.op = "add" => (May(u, c) <=> CreateMember(u, c))
         /\ c.op = "reset" => (May(u, c) <=> ResetMemberPassword(u, c))
         /\ c.op = "role" => (May(u, c) <=> ChangeRole(u, c))
         /\ c.op = "delete_member" => (May(u, c) <=> DeleteMember(u, c))
<1>2. Routed(u, c)
  BY DEF Routed, RequireProjectAccess, RequireProjectManage, RequireProjectDelete,
     RequireSuperAdmin, ManageRoutes, ReadRoutes, DeleteRoutes, InstanceRoutes,
     CreateRoutes, LoadsProject, TabOps
<1>3. SetProjectAccess(u, c) /\ RemoveProjectAccess(u, c) /\ LocksProject(c)
  BY DEF SetProjectAccess, RemoveProjectAccess, LocksProject
<1>4. c.op # "add" => CreateMember(u, c)
  BY DEF CreateMember
<1>5. c.op # "reset" => ResetMemberPassword(u, c)
  BY DEF ResetMemberPassword
<1>6. c.op # "role" => ChangeRole(u, c)
  BY DEF ChangeRole
<1>7. c.op # "delete_member" => DeleteMember(u, c)
  BY DEF DeleteMember
<1> QED BY <1>2, <1>3, <1>4, <1>5, <1>6, <1>7 DEF May, Serves

\* Two super admins are more than one.
LEMMA TwoSuperAdmins ==
  ASSUME NEW u \in SuperAdmins, NEW v \in SuperAdmins, u # v
  PROVE  Cardinality(SuperAdmins) > 1
<1>1. IsFiniteSet(SuperAdmins)
  BY ScreensAssumption, FS_Subset DEF SuperAdmins
<1>2. {u, v} \subseteq SuperAdmins /\ IsFiniteSet({u, v})
  BY <1>1, FS_Subset
<1>3. Cardinality({u, v}) = 2
  <2>1. IsFiniteSet({u}) /\ Cardinality({u}) = 1
    BY FS_Singleton
  <2>2. {u, v} = {u} \cup {v}
    OBVIOUS
  <2>3. v \notin {u}
    OBVIOUS
  <2> DEFINE S == {u}
  <2>4. IsFiniteSet(S) /\ Cardinality(S) = 1 /\ v \notin S
    BY <2>1, <2>3
  <2> HIDE DEF S
  <2>5. Cardinality(S \cup {v}) = Cardinality(S) + 1
    BY <2>4, FS_AddElement
  <2>6. Cardinality(S \cup {v}) = 2
    BY <2>4, <2>5
  <2> QED BY <2>2, <2>6 DEF S
<1>4. Cardinality({u, v}) <= Cardinality(SuperAdmins)
  BY <1>1, <1>2, FS_Subset
<1>5. Cardinality(SuperAdmins) \in Nat
  BY <1>1, FS_CardinalityType
<1> QED BY <1>3, <1>4, <1>5

----------------------------------------------------------------------------
(* The table of roles.                                                     *)

\* What a cell promises.
LEMMA CellSays ==
  ASSUME NEW u, NEW r
  PROVE  /\ \A x : x = "yes" => Cell(x, u, r)
         /\ \A x : x = "on" => (Cell(x, u, r) <=> level[u] # Nil)
         /\ \A x : x = "maintained" => (Cell(x, u, r) <=> level[u] = "maintainer")
         /\ \A x : x = "members" => (Cell(x, u, r) <=> r = "member")
         /\ \A x : x = "admins and members" => (Cell(x, u, r) <=> r \in {"admin", "member"})
         /\ \A x : x = "no" => ~Cell(x, u, r)
  BY DEF Cell

\* What the table promises, row by row.
LEMMA MatrixSays ==
  ASSUME NEW u \in Accounts, NEW r
  PROVE  /\ Cell(RolesMatrix["visible"][role[u]], u, r) <=>
              role[u] = "super_admin" \/ level[u] # Nil
         /\ Cell(RolesMatrix["create"][role[u]], u, r) <=> CanCreateProjects(u)
         /\ Cell(RolesMatrix["delete"][role[u]], u, r) <=> CanDelete(u)
         /\ Cell(RolesMatrix["settings"][role[u]], u, r) <=> CanManage(u)
         /\ Cell(RolesMatrix["access"][role[u]], u, r) <=> CanManage(u)
         /\ Cell(RolesMatrix["accounts"][role[u]], u, r) <=>
              role[u] = "super_admin" \/ (role[u] = "admin" /\ r = "member")
         /\ Cell(RolesMatrix["reset"][role[u]], u, r) <=>
              (role[u] = "super_admin" /\ r \in {"admin", "member"})
                \/ (role[u] = "admin" /\ r = "member")
         /\ Cell(RolesMatrix["roles"][role[u]], u, r) <=> role[u] = "super_admin"
         /\ Cell(RolesMatrix["instance"][role[u]], u, r) <=> role[u] = "super_admin"
<1>0. role[u] \in {"super_admin", "admin", "member"}
  BY DEF Accounts, Roles
<1>a. ASSUME NEW x, NEW y, NEW z
      PROVE  /\ role[u] = "super_admin" => MatrixRow(x, y, z)[role[u]] = x
             /\ role[u] = "admin" => MatrixRow(x, y, z)[role[u]] = y
             /\ role[u] = "member" => MatrixRow(x, y, z)[role[u]] = z
  BY DEF MatrixRow
<1>1. Cell(RolesMatrix["visible"][role[u]], u, r) <=>
        role[u] = "super_admin" \/ level[u] # Nil
  <2>1. RolesMatrix["visible"] = MatrixRow("yes", "on", "on")
    BY DEF RolesMatrix
  <2>2. PICK x : x = RolesMatrix["visible"][role[u]]
    OBVIOUS
  <2>3. x = IF role[u] = "super_admin" THEN "yes" ELSE IF role[u] = "admin" THEN "on" ELSE "on"
    BY <1>0, <1>a, <2>1, <2>2
  <2>4. Cell(x, u, r) <=>
          role[u] = "super_admin" \/ level[u] # Nil
    BY <1>0, <2>3, CellSays
  <2> QED BY <2>2, <2>4
<1>2. Cell(RolesMatrix["create"][role[u]], u, r) <=>
        CanCreateProjects(u)
  <2>1. RolesMatrix["create"] = MatrixRow("yes", "yes", "no")
    BY DEF RolesMatrix
  <2>2. PICK x : x = RolesMatrix["create"][role[u]]
    OBVIOUS
  <2>3. x = IF role[u] = "super_admin" THEN "yes" ELSE IF role[u] = "admin" THEN "yes" ELSE "no"
    BY <1>0, <1>a, <2>1, <2>2
  <2>4. Cell(x, u, r) <=>
          CanCreateProjects(u)
    BY <1>0, <2>3, CellSays DEF CanCreateProjects
  <2> QED BY <2>2, <2>4
<1>3. Cell(RolesMatrix["delete"][role[u]], u, r) <=>
        CanDelete(u)
  <2>1. RolesMatrix["delete"] = MatrixRow("yes", "maintained", "no")
    BY DEF RolesMatrix
  <2>2. PICK x : x = RolesMatrix["delete"][role[u]]
    OBVIOUS
  <2>3. x = IF role[u] = "super_admin" THEN "yes" ELSE IF role[u] = "admin" THEN "maintained" ELSE "no"
    BY <1>0, <1>a, <2>1, <2>2
  <2>4. Cell(x, u, r) <=>
          CanDelete(u)
    BY <1>0, <2>3, CellSays DEF CanDelete
  <2> QED BY <2>2, <2>4
<1>4. Cell(RolesMatrix["settings"][role[u]], u, r) <=>
        CanManage(u)
  <2>1. RolesMatrix["settings"] = MatrixRow("yes", "maintained", "maintained")
    BY DEF RolesMatrix
  <2>2. PICK x : x = RolesMatrix["settings"][role[u]]
    OBVIOUS
  <2>3. x = IF role[u] = "super_admin" THEN "yes" ELSE IF role[u] = "admin" THEN "maintained" ELSE "maintained"
    BY <1>0, <1>a, <2>1, <2>2
  <2>4. Cell(x, u, r) <=>
          CanManage(u)
    BY <1>0, <2>3, CellSays DEF CanManage, Accounts
  <2> QED BY <2>2, <2>4
<1>5. Cell(RolesMatrix["access"][role[u]], u, r) <=>
        CanManage(u)
  <2>1. RolesMatrix["access"] = MatrixRow("yes", "maintained", "maintained")
    BY DEF RolesMatrix
  <2>2. PICK x : x = RolesMatrix["access"][role[u]]
    OBVIOUS
  <2>3. x = IF role[u] = "super_admin" THEN "yes" ELSE IF role[u] = "admin" THEN "maintained" ELSE "maintained"
    BY <1>0, <1>a, <2>1, <2>2
  <2>4. Cell(x, u, r) <=>
          CanManage(u)
    BY <1>0, <2>3, CellSays DEF CanManage, Accounts
  <2> QED BY <2>2, <2>4
<1>6. Cell(RolesMatrix["accounts"][role[u]], u, r) <=>
        role[u] = "super_admin" \/ (role[u] = "admin" /\ r = "member")
  <2>1. RolesMatrix["accounts"] = MatrixRow("yes", "members", "no")
    BY DEF RolesMatrix
  <2>2. PICK x : x = RolesMatrix["accounts"][role[u]]
    OBVIOUS
  <2>3. x = IF role[u] = "super_admin" THEN "yes" ELSE IF role[u] = "admin" THEN "members" ELSE "no"
    BY <1>0, <1>a, <2>1, <2>2
  <2>4. Cell(x, u, r) <=>
          role[u] = "super_admin" \/ (role[u] = "admin" /\ r = "member")
    BY <1>0, <2>3, CellSays
  <2> QED BY <2>2, <2>4
<1>7. Cell(RolesMatrix["reset"][role[u]], u, r) <=>
        (role[u] = "super_admin" /\ r \in {"admin", "member"})
          \/ (role[u] = "admin" /\ r = "member")
  <2>1. RolesMatrix["reset"] = MatrixRow("admins and members", "members", "no")
    BY DEF RolesMatrix
  <2>2. PICK x : x = RolesMatrix["reset"][role[u]]
    OBVIOUS
  <2> DEFINE both == "admins and members"
  <2>a. RolesMatrix["reset"] = MatrixRow(both, "members", "no")
    BY <2>1
  <2> HIDE DEF both
  <2>3. x = IF role[u] = "super_admin" THEN both ELSE IF role[u] = "admin" THEN "members" ELSE "no"
    BY <1>0, <1>a, <2>a, <2>2
  <2> USE DEF both
  <2>4. Cell(x, u, r) <=>
          (role[u] = "super_admin" /\ r \in {"admin", "member"})
          \/ (role[u] = "admin" /\ r = "member")
    BY <1>0, <2>3, CellSays
  <2> QED BY <2>2, <2>4
<1>8. Cell(RolesMatrix["roles"][role[u]], u, r) <=>
        role[u] = "super_admin"
  <2>1. RolesMatrix["roles"] = MatrixRow("yes", "no", "no")
    BY DEF RolesMatrix
  <2>2. PICK x : x = RolesMatrix["roles"][role[u]]
    OBVIOUS
  <2>3. x = IF role[u] = "super_admin" THEN "yes" ELSE IF role[u] = "admin" THEN "no" ELSE "no"
    BY <1>0, <1>a, <2>1, <2>2
  <2>4. Cell(x, u, r) <=>
          role[u] = "super_admin"
    BY <1>0, <2>3, CellSays
  <2> QED BY <2>2, <2>4
<1>9. Cell(RolesMatrix["instance"][role[u]], u, r) <=>
        role[u] = "super_admin"
  <2>1. RolesMatrix["instance"] = MatrixRow("yes", "no", "no")
    BY DEF RolesMatrix
  <2>2. PICK x : x = RolesMatrix["instance"][role[u]]
    OBVIOUS
  <2>3. x = IF role[u] = "super_admin" THEN "yes" ELSE IF role[u] = "admin" THEN "no" ELSE "no"
    BY <1>0, <1>a, <2>1, <2>2
  <2>4. Cell(x, u, r) <=>
          role[u] = "super_admin"
    BY <1>0, <2>3, CellSays
  <2> QED BY <2>2, <2>4
<1> QED BY <1>1, <1>2, <1>3, <1>4, <1>5, <1>6, <1>7, <1>8, <1>9

\* What the routes and services let an account do to the project ...
LEMMA ProjectRights ==
  ASSUME NEW u \in Accounts
  PROVE  /\ May(u, Do("create")) <=> CanCreateProjects(u)
         /\ May(u, Do("save_instance")) <=> role[u] = "super_admin"
         /\ project = "live" =>
              /\ May(u, Do("overview")) <=> CanRead(u)
              /\ May(u, Do("delete")) <=> CanDelete(u)
              /\ \A op \in {"save", "reveal", "rotate"} : May(u, Do(op)) <=> CanManage(u)
              /\ \A v \in Accounts \ {u} : May(u, DoTo("remove", v)) <=> CanManage(u)
<1>0. u \in Users /\ Accounts \subseteq Users
  BY DEF Accounts
<1>1. May(u, Do("create")) <=> CanCreateProjects(u)
  <2>1. Do("create").op = "create"
    BY DEF Do
  <2>2. May(u, Do("create")) => CanCreateProjects(u)
    BY <2>1 DEF May, Routed, CreateRoutes
  <2> QED BY <2>1, <2>2, CreatingWorks DEF CreateRoutes
<1>2. May(u, Do("save_instance")) <=> role[u] = "super_admin"
  <2>1. Do("save_instance").op = "save_instance"
    BY DEF Do
  <2>2. May(u, Do("save_instance")) => role[u] = "super_admin"
    BY <2>1 DEF May, Routed, RequireSuperAdmin, InstanceRoutes
  <2> QED BY <2>1, <2>2, RunningWorks DEF InstanceRoutes
<1>3. project = "live" => (May(u, Do("overview")) <=> CanRead(u))
  <2>1. Do("overview").op = "overview"
    BY DEF Do
  <2>2. May(u, Do("overview")) => CanRead(u)
    BY <2>1 DEF May, Routed, RequireProjectAccess, ReadRoutes
  <2> QED BY <2>1, <2>2, ReadingWorks DEF ReadRoutes
<1>4. project = "live" => (May(u, Do("delete")) <=> CanDelete(u))
  <2>1. Do("delete").op = "delete"
    BY DEF Do
  <2>2. May(u, Do("delete")) => CanDelete(u)
    BY <2>1 DEF May, Routed, RequireProjectDelete, DeleteRoutes
  <2> QED BY <1>0, <2>1, <2>2, DeletingWorks
<1>5. ASSUME project = "live", NEW op \in {"save", "reveal", "rotate"}
      PROVE  May(u, Do(op)) <=> CanManage(u)
  <2>1. Do(op).op = op
    BY DEF Do
  <2>2. May(u, Do(op)) => CanManage(u)
    BY <2>1 DEF May, Routed, RequireProjectManage, ManageRoutes
  <2> QED BY <1>5, <2>1, <2>2, ManagingWorks DEF ManageRoutes
<1>6. ASSUME project = "live", NEW v \in Accounts \ {u}
      PROVE  May(u, DoTo("remove", v)) <=> CanManage(u)
  <2>1. DoTo("remove", v).op = "remove" /\ DoTo("remove", v).who = v
    BY DEF DoTo, Do
  <2>2. May(u, DoTo("remove", v)) => CanManage(u)
    BY <2>1 DEF May, Routed, RequireProjectManage, ManageRoutes
  <2> QED BY <1>6, <2>1, <2>2, ManagingWorks DEF ManageRoutes
<1> QED BY <1>1, <1>2, <1>3, <1>4, <1>5, <1>6

\* ... and to another account.
LEMMA AccountRights ==
  ASSUME NEW u \in Accounts
  PROVE  /\ \A r \in Roles \ {"super_admin"} :
              May(u, [Do("add") EXCEPT !.role = r]) <=>
                role[u] = "super_admin" \/ (role[u] = "admin" /\ r = "member")
         /\ \A v \in Accounts \ {u} :
              /\ May(u, DoTo("delete_member", v)) <=>
                   role[u] = "super_admin" \/ (role[u] = "admin" /\ role[v] = "member")
              /\ May(u, DoTo("reset", v)) <=>
                   (role[u] = "super_admin" /\ role[v] \in {"admin", "member"})
                     \/ (role[u] = "admin" /\ role[v] = "member")
              /\ \A r \in Roles :
                   May(u, [DoTo("role", v) EXCEPT !.role = r]) <=> role[u] = "super_admin"
<1>0. /\ role[u] \in {"super_admin", "admin", "member"}
      /\ \A v \in Accounts : role[v] \in {"super_admin", "admin", "member"} /\ v \in Users
  BY DEF Accounts, Roles
<1>1. ASSUME NEW r \in Roles \ {"super_admin"}
      PROVE  May(u, [Do("add") EXCEPT !.role = r]) <=>
                role[u] = "super_admin" \/ (role[u] = "admin" /\ r = "member")
  <2> DEFINE c == [Do("add") EXCEPT !.role = r]
  <2>1. c.op = "add" /\ c.role = r /\ c.level = Nil
    BY DEF Do
  <2> HIDE DEF c
  <2>2. May(u, c) <=> CreateMember(u, c)
    BY <2>1, AccountsWork
  <2>3. CreateMember(u, c) <=> CanCreateProjects(u) /\ Outranks(role[u], r)
    BY <2>1 DEF CreateMember
  <2>4. r \in {"admin", "member"}
    BY DEF Roles
  <2>5. CanCreateProjects(u) /\ Outranks(role[u], r) <=>
          role[u] = "super_admin" \/ (role[u] = "admin" /\ r = "member")
    BY <1>0, <2>4 DEF CanCreateProjects, Outranks, Rank
  <2> QED BY <2>2, <2>3, <2>5 DEF c
<1>2. ASSUME NEW v \in Accounts \ {u}
      PROVE  CanManageAccount(u, v) <=>
               (role[u] = "super_admin" /\ role[v] \in {"admin", "member"})
                 \/ (role[u] = "admin" /\ role[v] = "member")
  BY <1>0 DEF CanManageAccount, Outranks, Rank
<1>3. ASSUME NEW v \in Accounts \ {u}
      PROVE  May(u, DoTo("reset", v)) <=>
                   (role[u] = "super_admin" /\ role[v] \in {"admin", "member"})
                     \/ (role[u] = "admin" /\ role[v] = "member")
  <2> DEFINE c == DoTo("reset", v)
  <2>1. c.op = "reset" /\ c.who = v
    BY DEF DoTo, Do
  <2> HIDE DEF c
  <2>2. May(u, c) <=> CanManageAccount(u, v)
    BY <2>1, AccountsWork DEF ResetMemberPassword
  <2> QED BY <1>2, <2>2 DEF c
<1>4. ASSUME NEW v \in Accounts \ {u}, role[u] = "super_admin", role[v] = "super_admin"
      PROVE  Cardinality(SuperAdmins) > 1
  BY <1>0, <1>4, TwoSuperAdmins DEF SuperAdmins
<1>5. ASSUME NEW v \in Accounts \ {u}
      PROVE  May(u, DoTo("delete_member", v)) <=>
                   role[u] = "super_admin" \/ (role[u] = "admin" /\ role[v] = "member")
  <2> DEFINE c == DoTo("delete_member", v)
  <2>1. c.op = "delete_member" /\ c.who = v
    BY DEF DoTo, Do
  <2> HIDE DEF c
  <2>2. May(u, c) <=> DeleteMember(u, c)
    BY <2>1, AccountsWork
  <2>3. DeleteMember(u, c) <=>
          IF role[v] = "super_admin" THEN role[u] = "super_admin" /\ Cardinality(SuperAdmins) > 1
                                     ELSE CanManageAccount(u, v)
    BY <2>1 DEF DeleteMember
  <2> HIDE DEF SuperAdmins
  <2> QED BY <1>0, <1>2, <1>4, <2>2, <2>3 DEF c
<1>6. ASSUME NEW v \in Accounts \ {u}, NEW r \in Roles
      PROVE  May(u, [DoTo("role", v) EXCEPT !.role = r]) <=> role[u] = "super_admin"
  <2> DEFINE c == [DoTo("role", v) EXCEPT !.role = r]
  <2>1. c.op = "role" /\ c.who = v /\ c.role = r
    BY DEF DoTo, Do
  <2> HIDE DEF c
  <2>2. May(u, c) <=> ChangeRole(u, c)
    BY <2>1, AccountsWork
  <2>3. ChangeRole(u, c) <=>
          /\ role[u] = "super_admin"
          /\ role[v] = "super_admin" /\ r # "super_admin" => Cardinality(SuperAdmins) > 1
    BY <2>1 DEF ChangeRole
  <2> QED BY <1>4, <2>2, <2>3 DEF c
<1> QED BY <1>1, <1>3, <1>5, <1>6

\* The table is true of every account, whatever the roles and levels.
LEMMA TheTableIsTrue ==
  MatrixIsTrue
<1> SUFFICES ASSUME NEW u \in Accounts
    PROVE  /\ project = "live" =>
                (May(u, Do("overview")) <=> Cell(RolesMatrix["visible"][role[u]], u, Nil))
           /\ May(u, Do("create")) <=> Cell(RolesMatrix["create"][role[u]], u, Nil)
           /\ project = "live" =>
                /\ May(u, Do("delete")) <=> Cell(RolesMatrix["delete"][role[u]], u, Nil)
                /\ \A op \in {"save", "reveal", "rotate"} :
                     May(u, Do(op)) <=> Cell(RolesMatrix["settings"][role[u]], u, Nil)
                /\ \A v \in Accounts \ {u} :
                     May(u, DoTo("remove", v)) <=> Cell(RolesMatrix["access"][role[u]], u, Nil)
           /\ \A r \in Roles \ {"super_admin"} :
                May(u, [Do("add") EXCEPT !.role = r])
                  <=> Cell(RolesMatrix["accounts"][role[u]], u, r)
           /\ \A v \in Accounts \ {u} :
                /\ May(u, DoTo("delete_member", v))
                     <=> Cell(RolesMatrix["accounts"][role[u]], u, role[v])
                /\ May(u, DoTo("reset", v))
                     <=> Cell(RolesMatrix["reset"][role[u]], u, role[v])
                /\ \A r \in Roles :
                     May(u, [DoTo("role", v) EXCEPT !.role = r])
                       <=> Cell(RolesMatrix["roles"][role[u]], u, Nil)
           /\ May(u, Do("save_instance")) <=> Cell(RolesMatrix["instance"][role[u]], u, Nil)
  BY Zenon DEF MatrixIsTrue
<1>1. CanRead(u) <=> role[u] = "super_admin" \/ level[u] # Nil
  BY DEF CanRead
<1>2. /\ \A v \in Accounts : role[v] \in {"super_admin", "admin", "member"}
  BY DEF Accounts, Roles
<1> QED BY <1>1, <1>2, MatrixSays, ProjectRights, AccountRights

----------------------------------------------------------------------------
(* What a page is made of.                                                 *)

\* Accounts, project and session, whatever the page.
RowsTyped ==
  /\ role \in [Users -> Roles \cup {"free", "removed"}]
  /\ level \in [Users -> Levels \cup {Nil}]
  /\ project \in {"none", "live", "deleted"} /\ key \in 0..MaxKey
  /\ session \in BOOLEAN /\ must \in BOOLEAN

DataOK ==
  /\ RowsTyped /\ changes \in 0..MaxChanges
  /\ last \in [mine: BOOLEAN, drawn: SUBSET Regions, own: BOOLEAN]

\* Nothing that asks for a removal carries a level, and what sets a role has one.
WellFormed(c) ==
  /\ c \in Control
  /\ c.op = "remove" => c.level = Nil
  /\ c.op \in {"add", "role"} => c.role \in Roles

Works(c) == c.op \in Public \cup {"close"} \/ May(Me, c) \/ DrawnAnyway(c)

\* The controls cs are well formed, work, and ask for nothing but ops.
Sound(cs, ops) == \A c \in cs : WellFormed(c) /\ c.op \in ops /\ Works(c)

LEMMA SoundUnion ==
  ASSUME NEW A, NEW B, NEW ops, NEW more, Sound(A, ops), Sound(B, more)
  PROVE  Sound(A \cup B, ops \cup more)
  BY DEF Sound

LEMMA PlainWellFormed ==
  ASSUME NEW ops \in SUBSET (Ops \ {"add", "role"}), NEW c \in Plain(ops)
  PROVE  WellFormed(c) /\ c.op \in ops /\ c.who = Nil /\ c.role = Nil /\ c.level = Nil
  BY PlainFields DEF WellFormed

\* What every account may ask for may stand anywhere.
LEMMA PlainSound ==
  ASSUME NEW ops \in SUBSET (Ops \ (Guarded \ {"close"})), Me \in Accounts
  PROVE  Sound(Plain(ops), ops)
<1>1. ops \in SUBSET (Ops \ {"add", "role"})
  BY DEF Guarded
<1>2. ASSUME NEW c \in Plain(ops)
      PROVE  WellFormed(c) /\ c.op \in ops /\ Works(c)
  <2>1. WellFormed(c) /\ c.op \in ops
    BY <1>1, PlainWellFormed
  <2>2. CASE c.op = "close"
    BY <2>1, <2>2 DEF Works
  <2>3. CASE c.op # "close"
    BY <2>1, <2>3, UnguardedWorks DEF Works
  <2> QED BY <2>1, <2>2, <2>3
<1> QED BY <1>2 DEF Sound

\* What anybody at all may ask for.
LEMMA PublicSound ==
  ASSUME NEW ops \in SUBSET {"login", "logout", "close"}
  PROVE  Sound(Plain(ops), ops)
<1>1. ops \in SUBSET (Ops \ {"add", "role"})
  BY DEF Ops, Links
<1> QED BY <1>1, PlainWellFormed DEF Sound, Works, Public

\* The names of the requests that need no right.
LEMMA FreeOps ==
  {"home", "account", "instance", "members", "logout", "login", "change_password", "filter",
   "search", "new_project", "wizard_back", "close", "account_tokens", "account_password",
   "create_token", "revoke_token", "instance_general", "instance_members"}
    \subseteq Ops \ (Guarded \ {"close"})
  BY DEF Ops, Guarded, Links, ReadRoutes, ManageRoutes, DeleteRoutes, InstanceRoutes,
     CreateRoutes, TabOps

----------------------------------------------------------------------------
(* Every template draws what works.                                        *)

MenuOps == {"home", "account", "instance", "logout"}
SidebarOps == MenuOps \cup {"overview", "screen", "live", "settings"}

LEMMA TopNavSound ==
  ASSUME Me \in Accounts
  PROVE  Sound(TopNav, MenuOps) /\ Sound(AccountMenuItems, MenuOps)
<1>1. Sound(Plain({"home"}), {"home"})
  BY FreeOps, PlainSound
<1>2. Sound(Plain({"account", "instance", "logout"}), {"account", "instance", "logout"})
  BY FreeOps, PlainSound
<1> QED BY <1>1, <1>2 DEF TopNav, AccountMenu, AccountMenuItems, Sound, MenuOps

\* The sidebar stands on a page of a live project one may read, or on a reading
\* screen that opens without it.
LEMMA SidebarSound ==
  ASSUME Me \in Accounts, CanRead(Me), project = "live" \/ page.url = "screen"
  PROVE  Sound(ProjectSidebar, SidebarOps)
<1>1. Sound(TopNav, MenuOps)
  BY TopNavSound
<1>2. ASSUME NEW op \in {"overview", "screen", "live", "settings"}
      PROVE  WellFormed(Do(op)) /\ Do(op).op = op /\ Works(Do(op))
  <2>1. op \in Ops /\ op \in ReadRoutes
    BY DEF Ops, ReadRoutes
  <2>2. WellFormed(Do(op)) /\ Do(op).op = op
    BY <2>1, DoFields DEF WellFormed
  <2> DEFINE c == Do(op)
  <2> HIDE DEF c
  <2>3. CASE project = "live" \/ op = "screen"
    BY <2>1, <2>2, <2>3, ReadingWorks DEF Works, c
  <2>4. CASE project # "live" /\ op # "screen"
    BY <2>2, <2>4 DEF Works, DrawnAnyway
  <2> QED BY <2>2, <2>3, <2>4
<1>3. ProjectSidebar = TopNav \cup {Do(op) : op \in {"overview", "screen", "live", "settings"}}
  BY DEF ProjectSidebar, TopNav, SidebarAccountMenu, AccountMenu, ProjectNavItem
<1>4. Sound({Do(op) : op \in {"overview", "screen", "live", "settings"}},
            {"overview", "screen", "live", "settings"})
  BY <1>2 DEF Sound
<1> QED BY <1>1, <1>3, <1>4, SoundUnion DEF SidebarOps

\* One plain control whose request works.
LEMMA OneSound ==
  ASSUME NEW op \in Ops \ {"add", "role"}, Works(Do(op))
  PROVE  Sound(Plain({op}), {op})
  BY PlainWellFormed DEF Sound, Plain

LEMMA SoundWeaken ==
  ASSUME NEW A, NEW ops, NEW more, Sound(A, ops), ops \subseteq more
  PROVE  Sound(A, more)
  BY DEF Sound

LEMMA NothingSound ==
  ASSUME NEW ops
  PROVE  Sound({}, ops)
  BY DEF Sound

\* What reading a live project gives.
LEMMA ReadSound ==
  ASSUME Me \in Accounts, CanRead(Me), project = "live",
         NEW ops \in SUBSET ReadRoutes
  PROVE  Sound(Plain(ops), ops)
<1>1. ops \in SUBSET (Ops \ {"add", "role"})
  BY DEF ReadRoutes, TabOps, Ops
<1>2. ASSUME NEW c \in Plain(ops)
      PROVE  WellFormed(c) /\ c.op \in ops /\ Works(c)
  <2>1. WellFormed(c) /\ c.op \in ops
    BY <1>1, PlainWellFormed
  <2> QED BY <2>1, ReadingWorks DEF Works
<1> QED BY <1>2 DEF Sound

\* What managing a live project gives.
LEMMA ManageSound ==
  ASSUME CanManage(Me), Me \in Accounts, project = "live",
         NEW ops \in SUBSET (ManageRoutes \ {"grant", "remove"})
  PROVE  Sound(Plain(ops), ops)
<1>1. ops \in SUBSET (Ops \ {"add", "role"})
  BY DEF ManageRoutes, Ops
<1>2. ASSUME NEW c \in Plain(ops)
      PROVE  WellFormed(c) /\ c.op \in ops /\ Works(c)
  <2>1. WellFormed(c) /\ c.op \in ops
    BY <1>1, PlainWellFormed
  <2> QED BY <2>1, ManagingWorks DEF Works
<1> QED BY <1>2 DEF Sound

DashboardOps == MenuOps \cup {"filter", "search", "new_project"}
GridOps == {"overview", "star", "new_project"}

LEMMA DashboardSound ==
  ASSUME Me \in Accounts
  PROVE  /\ Sound(TopNav \cup (IF Visible THEN ProjectsToolbar ELSE {}), DashboardOps)
         /\ Sound(ProjectGrid, GridOps)
<1>1. Sound(TopNav, MenuOps)
  BY TopNavSound
<1>2. Sound(Plain({"new_project"}), {"new_project"})
  BY FreeOps, PlainSound
<1>3. Sound(ProjectsToolbar, {"filter", "search", "new_project"})
  <2>1. Sound(Plain({"filter"}), {"filter"})
    BY FreeOps, PlainSound
  <2>2. Sound(Plain({"search"}), {"search"})
    BY FreeOps, PlainSound
  <2> QED BY <1>2, <2>1, <2>2 DEF ProjectsToolbar, FilterTab, AddProjectButton, Sound
<1>4. ASSUME Visible
      PROVE  Sound(ProjectCard, {"overview", "star"})
  <2>1. Sound(Plain({"overview"}), {"overview"})
    BY <1>4, ReadSound DEF Visible, ReadRoutes
  <2>2. Sound(Plain({"star"}), {"star"})
    BY <1>4, ReadSound DEF Visible, ReadRoutes
  <2> QED BY <2>1, <2>2 DEF ProjectCard, FavoriteStar, Sound
<1>5. Sound(ProjectGrid, GridOps)
  <2>1. CASE Visible
    BY <1>4, <2>1, SoundWeaken DEF ProjectGrid, GridOps
  <2>2. CASE ~Visible
    BY <1>2, <2>2, SoundWeaken DEF ProjectGrid, EmptyProjects, AddProjectButton, GridOps
  <2> QED BY <2>1, <2>2
<1>6. Sound(IF Visible THEN ProjectsToolbar ELSE {}, {"filter", "search", "new_project"})
  BY <1>3, NothingSound
<1> QED BY <1>1, <1>5, <1>6, SoundUnion DEF DashboardOps

\* The settings of a live project, for who may read it.
LEMMA SettingsBodySound ==
  ASSUME Me \in Accounts, CanRead(Me), project = "live", NEW t \in SettingsTabs
  PROVE  /\ Sound(SettingsBody(t), TabOps \cup {"ask_rotate", "members", "ask_delete"})
         /\ t = "tab_danger" => Sound(SettingsBody(t), TabOps \cup {"ask_delete"}) /\ CanDelete(Me)
         /\ t # "tab_danger" => Sound(SettingsBody(t), TabOps \cup {"ask_rotate", "members"})
<1>1. SettingsTabs \in SUBSET TabOps /\ t \in TabOps
  BY DEF SettingsTabs, TabOps
<1>2. Sound(Plain(SettingsTabs), TabOps)
  <2>1. SettingsTabs \in SUBSET ReadRoutes
    BY <1>1 DEF ReadRoutes
  <2> QED BY <1>1, <2>1, ReadSound, SoundWeaken
<1>3. /\ t = "tab_sdk" => CanManage(Me)
      /\ t = "tab_danger" => CanDelete(Me) /\ CanManage(Me)
  BY RightsAreNested DEF SettingsTabs, Accounts
<1>4. CASE t = "tab_sdk"
  <2>1. Sound(CredentialsSection, {"ask_rotate"})
    BY <1>3, <1>4, ManageSound DEF CredentialsSection, ManageRoutes
  <2>2. SettingsBody(t) = Plain(SettingsTabs) \cup CredentialsSection
    BY <1>4 DEF SettingsBody
  <2> QED BY <1>2, <1>4, <2>1, <2>2 DEF Sound
<1>5. CASE t = "tab_access"
  <2>1. Sound(PaneAccess, {"members"})
    <3>1. Sound(Plain({"members"}), {"members"})
      BY FreeOps, PlainSound
    <3> QED BY <3>1, NothingSound DEF PaneAccess
  <2>2. SettingsBody(t) = Plain(SettingsTabs) \cup PaneAccess
    BY <1>5 DEF SettingsBody
  <2> QED BY <1>2, <1>5, <2>1, <2>2 DEF Sound
<1>6. CASE t = "tab_danger"
  <2>1. Sound(DangerZone, {"ask_delete"})
    BY <1>3, <1>6, ManageSound DEF DangerZone, ManageRoutes
  <2>2. SettingsBody(t) = Plain(SettingsTabs) \cup DangerZone
    BY <1>6 DEF SettingsBody
  <2> QED BY <1>2, <1>3, <1>6, <2>1, <2>2 DEF Sound
<1>7. CASE t \notin {"tab_sdk", "tab_access", "tab_danger"}
  <2>2. SettingsBody(t) = Plain(SettingsTabs)
    BY <1>7 DEF SettingsBody
  <2> QED BY <1>2, <1>7, <2>2 DEF Sound
<1> QED BY <1>4, <1>5, <1>6, <1>7

\* The panel's rows, drawn for who manages or has just changed their own level.
LEMMA AccessPanelSound ==
  ASSUME NEW manage, manage => CanManage(Me) \/ last.own, Me \in Accounts
  PROVE  Sound(AccessPanel(manage), {"grant", "remove"})
<1>1. Accounts \subseteq Users /\ {"grant", "remove"} \subseteq Ops /\ "grant" # "remove"
      /\ {"grant", "remove"} \subseteq ManageRoutes
  BY DEF Accounts, Ops, ManageRoutes
<1>2. ASSUME manage, NEW u \in Accounts, NEW c \in Grants("grant", u)
      PROVE  WellFormed(c) /\ c.op \in {"grant", "remove"} /\ Works(c)
  <2>1. c \in Control /\ c.op = "grant" /\ c.who = u
    BY <1>1, GrantsFields
  <2>2. WellFormed(c)
    BY <2>1 DEF WellFormed
  <2>3. CASE last.own \/ role[u] = "super_admin"
    BY <2>1, <2>2, <2>3 DEF Works, DrawnAnyway
  <2>4. CASE CanManage(Me) /\ role[u] # "super_admin"
    <3>1. May(Me, c)
      BY <1>1, <2>1, <2>4, ManagingWorks
    <3> QED BY <2>1, <2>2, <3>1 DEF Works
  <2> QED BY <1>2, <2>3, <2>4
<1>3. ASSUME manage, NEW u \in Accounts, NEW c \in RemoveForm(u)
      PROVE  WellFormed(c) /\ c.op \in {"grant", "remove"} /\ Works(c)
  <2>1. c = DoTo("remove", u) /\ u # Me
    BY DEF RemoveForm
  <2>2. c \in Control /\ c.op = "remove" /\ c.who = u /\ c.level = Nil
    BY <1>1, <2>1, DoToFields
  <2>3. WellFormed(c)
    BY <2>2 DEF WellFormed
  <2>4. CASE last.own
    BY <2>2, <2>3, <2>4 DEF Works, DrawnAnyway
  <2>5. CASE CanManage(Me)
    <3>1. May(Me, c)
      BY <1>1, <2>1, <2>2, <2>5, ManagingWorks
    <3> QED BY <2>2, <2>3, <3>1 DEF Works
  <2> QED BY <1>3, <2>4, <2>5
<1>4. ASSUME NEW c \in AccessPanel(manage)
      PROVE  manage /\ \E u \in Accounts : c \in Grants("grant", u) \cup RemoveForm(u)
  <2>1. manage /\ (c \in AccessRows \/ c \in AddAccessForm)
    BY DEF AccessPanel
  <2>2. CASE c \in AccessRows
    <3>1. PICK u \in Accounts : c \in AccessRow(u)
      BY <2>2 DEF AccessRows
    <3> QED BY <2>1, <3>1 DEF AccessRow, LevelSelect
  <2>3. CASE c \in AddAccessForm
    <3>1. PICK u \in ListAssignableAccounts : c \in Grants("grant", u)
      BY <2>3 DEF AddAccessForm
    <3> QED BY <2>1, <3>1 DEF ListAssignableAccounts
  <2> QED BY <2>1, <2>2, <2>3
<1> QED BY <1>2, <1>3, <1>4 DEF Sound

\* The field, for who manages the project: even a project that is gone shows none.
LEMMA SecretFieldSound ==
  ASSUME NEW revealed \in BOOLEAN, CanManage(Me), Me \in Accounts
  PROVE  /\ Sound(SecretField(revealed), {"reveal", "hide"})
         /\ revealed => Sound(SecretField(revealed), {"hide"})
<1>1. ASSUME NEW op \in {"reveal", "hide"}
      PROVE  Sound(Plain({op}), {op})
  <2>1. op \in Ops \ {"add", "role"} /\ Do(op).op = op /\ op \in ManageRoutes
    BY DEF Ops, ManageRoutes, Do
  <2>2. Works(Do(op))
    BY <2>1, ManagingWorks DEF Works
  <2> QED BY <2>1, <2>2, OneSound
<1>2. Sound(SecretField(revealed), {"reveal", "hide"})
  BY <1>1, SoundWeaken DEF SecretField
<1>3. revealed => Sound(SecretField(revealed), {"hide"})
  BY <1>1 DEF SecretField
<1> QED BY <1>2, <1>3

LEMMA GeneralFormSound ==
  ASSUME Me \in Accounts, project = "live"
  PROVE  Sound(GeneralForm, {"save"})
<1>1. Do("save").op = "save"
  BY DEF Do
<1>2. CASE CanManage(Me)
  BY <1>2, ManageSound DEF GeneralForm, ManageRoutes
<1>3. CASE ~CanManage(Me)
  <2>1. Works(Do("save"))
    BY <1>1, <1>3 DEF Works, DrawnAnyway
  <2> QED BY <2>1, OneSound DEF GeneralForm, Ops, ManageRoutes
<1> QED BY <1>2, <1>3

\* A tab's body.
LEMMA PaneSound ==
  ASSUME Me \in Accounts, CanRead(Me), project = "live", NEW t \in SettingsTabs
  PROVE  /\ Sound(Pane(t), {"reveal"}) \/ Sound(Pane(t), {"grant", "remove"})
              \/ Sound(Pane(t), {"save"})
         /\ t = "tab_danger" => Pane(t) = {}
<1>1. t \in TabOps /\ (t = "tab_sdk" => CanManage(Me))
  BY DEF SettingsTabs, TabOps
<1>2. CASE t = "tab_sdk"
  <2>1. Sound(Plain({"reveal"}), {"reveal"})
    BY <1>1, <1>2, ManageSound DEF ManageRoutes
  <2>2. Pane(t) = Plain({"reveal"})
    BY <1>2 DEF Pane, SecretField
  <2> QED BY <1>2, <2>1, <2>2
<1>3. CASE t = "tab_access"
  <2>1. Sound(AccessPanel(CanManage(Me)), {"grant", "remove"})
    BY AccessPanelSound
  <2>2. Pane(t) = AccessPanel(CanManage(Me))
    BY <1>3 DEF Pane
  <2> QED BY <1>3, <2>1, <2>2
<1>4. CASE t = "tab_danger"
  BY <1>4, NothingSound DEF Pane
<1>5. CASE t \notin {"tab_sdk", "tab_access", "tab_danger"}
  <2>1. Pane(t) = GeneralForm
    BY <1>5 DEF Pane
  <2> QED BY <1>5, <2>1, GeneralFormSound
<1> QED BY <1>2, <1>3, <1>4, <1>5

\* A dialog asks for what its button may, whatever the page behind it.
LEMMA ConfirmSound ==
  ASSUME Me \in Accounts, NEW op \in {"rotate", "delete"}, project = "live",
         CanManage(Me), op = "delete" => CanDelete(Me) \/ changes > 0
  PROVE  Sound(ConfirmModal(op), {op, "close"})
<1>1. Sound(Plain({"close"}), {"close"})
  BY PublicSound
<1>2. Do(op).op = op
  BY DEF Do
<1>3. Works(Do(op))
  <2>1. CASE op = "rotate"
    BY <1>2, <2>1, ManagingWorks DEF Works, ManageRoutes
  <2>2. CASE op = "delete" /\ CanDelete(Me)
    <3>1. Me \in Users
      BY DEF Accounts
    <3> QED BY <1>2, <2>2, <3>1, DeletingWorks DEF Works
  <2>3. CASE op = "delete" /\ ~CanDelete(Me)
    BY <1>2, <2>3 DEF Works, DrawnAnyway
  <2> QED BY <2>1, <2>2, <2>3
<1>4. Sound(Plain({op}), {op})
  BY <1>3, OneSound DEF Ops, ManageRoutes, DeleteRoutes
<1>5. ConfirmModal(op) = Plain({op}) \cup Plain({"close"})
  BY DEF ConfirmModal, Plain
<1> QED BY <1>1, <1>4, <1>5 DEF Sound

TableOps == {"role", "reset", "delete_member"}

\* A row of the members table; an account that is gone draws none.
LEMMA MembersTableSound == Sound(MembersTable, TableOps)
<1>0. /\ Accounts \subseteq Users /\ SuperAdmins \subseteq Accounts
      /\ TableOps \subseteq Ops
  BY DEF Accounts, SuperAdmins, Roles, Ops, TableOps
<1>a. role[Me] = "super_admin" => Me \in SuperAdmins
  BY ScreensAssumption DEF SuperAdmins
<1>b. ASSUME NEW v \in Users, CanManageAccount(Me, v)
      PROVE  Me \in Accounts
  BY <1>b, ScreensAssumption DEF CanManageAccount, Outranks, Rank, Accounts, Roles
<1>c. ASSUME NEW v \in SuperAdmins, v # Me, Me \in SuperAdmins
      PROVE  Cardinality(SuperAdmins) > 1
  BY <1>c, TwoSuperAdmins
<1>1. ASSUME NEW u \in Accounts, NEW c \in RoleSelect(u)
      PROVE  WellFormed(c) /\ c.op \in TableOps /\ Works(c)
  <2>1. CanChangeRole(u)
    BY DEF RoleSelect
  <2>2. PICK r \in Roles : c = MakeRole(u, r)
    BY <2>1 DEF RoleSelect
  <2>3. c = [op |-> "role", who |-> u, role |-> r, level |-> Nil]
    BY <2>2 DEF MakeRole, DoTo, Do
  <2>4. c \in Control /\ c.op = "role" /\ c.who = u /\ c.role = r
    BY <1>0, <2>3 DEF Control, TableOps
  <2>5. role[Me] = "super_admin" /\ u # Me /\ Me \in Accounts
    BY <1>0, <1>a, <2>1 DEF CanChangeRole
  <2>6. role[u] = "super_admin" => Cardinality(SuperAdmins) > 1
    BY <1>0, <1>a, <1>c, <2>5 DEF SuperAdmins
  <2>7. ChangeRole(Me, c)
    BY <2>4, <2>5, <2>6 DEF ChangeRole
  <2>8. May(Me, c)
    BY <2>4, <2>5, <2>7, AccountsWork
  <2> QED BY <2>4, <2>8 DEF WellFormed, TableOps, Works
<1>2. ASSUME NEW u \in Accounts, CanManageAccount(Me, u)
      PROVE  LET c == DoTo("reset", u) IN WellFormed(c) /\ c.op \in TableOps /\ Works(c)
  <2> DEFINE c == DoTo("reset", u)
  <2>1. c \in Control /\ c.op = "reset" /\ c.who = u
    BY <1>0, DoToFields DEF TableOps
  <2>2. ResetMemberPassword(Me, c)
    BY <1>2, <2>1 DEF ResetMemberPassword
  <2>3. May(Me, c)
    BY <1>0, <1>2, <1>b, <2>1, <2>2, AccountsWork
  <2> QED BY <2>1, <2>3 DEF WellFormed, TableOps, Works
<1>3. ASSUME NEW u \in Accounts, CanRemove(u)
      PROVE  LET c == DoTo("delete_member", u) IN WellFormed(c) /\ c.op \in TableOps /\ Works(c)
  <2> DEFINE c == DoTo("delete_member", u)
  <2>1. c \in Control /\ c.op = "delete_member" /\ c.who = u
    BY <1>0, DoToFields DEF TableOps
  <2> HIDE DEF c
  <2>2. ASSUME role[u] = "super_admin"
        PROVE  May(Me, c)
    <3>1. u \in SuperAdmins
      BY <1>0, <2>2 DEF SuperAdmins
    <3>2. ~CanManageAccount(Me, u)
      BY <2>2 DEF CanManageAccount, Outranks, Rank
    <3>3. Me \in SuperAdmins /\ u # Me
      BY <1>3, <3>2 DEF CanRemove
    <3>4. Cardinality(SuperAdmins) > 1
      BY <1>c, <3>1, <3>3
    <3>5. role[Me] = "super_admin" /\ Me \in Accounts
      BY <1>0, <3>3 DEF SuperAdmins
    <3>6. DeleteMember(Me, c)
      BY <2>1, <2>2, <3>4, <3>5 DEF DeleteMember
    <3> QED BY <2>1, <3>5, <3>6, AccountsWork
  <2>3. ASSUME role[u] # "super_admin"
        PROVE  May(Me, c)
    <3>1. CanManageAccount(Me, u)
      BY <2>3, <1>3 DEF CanRemove, SuperAdmins
    <3>2. DeleteMember(Me, c)
      BY <2>1, <2>3, <3>1 DEF DeleteMember
    <3> QED BY <1>0, <1>b, <2>1, <3>1, <3>2, AccountsWork
  <2>4. May(Me, c)
    BY <2>2, <2>3
  <2> QED BY <2>1, <2>4 DEF WellFormed, TableOps, Works, c
<1>4. ASSUME NEW c \in MembersTable
      PROVE  \E u \in Accounts :
               \/ c \in RoleSelect(u)
               \/ c = DoTo("reset", u) /\ CanManageAccount(Me, u)
               \/ c = DoTo("delete_member", u) /\ CanRemove(u)
  <2>1. PICK u \in Accounts : c \in MemberTableRow(u)
    BY DEF MembersTable
  <2>2. c \in RoleSelect(u) \/ c \in RowButtons(u)
    BY <2>1 DEF MemberTableRow
  <2>3. c \in RowButtons(u) =>
          \/ c = DoTo("reset", u) /\ CanManageAccount(Me, u)
          \/ c = DoTo("delete_member", u) /\ CanRemove(u)
    BY DEF RowButtons
  <2> QED BY <2>2, <2>3
<1> QED BY <1>1, <1>2, <1>3, <1>4 DEF Sound

\* What a sheet asks for.
SheetOps == {"close", "wizard_access", "wizard_back", "create", "add"}

\* The form for a new account asks for nothing else, whoever it is drawn for.
FormAsks == \A c \in AddMemberForm : WellFormed(c) /\ c.op \in SheetOps

LEMMA AddMemberFormAsks == FormAsks
<1>1. Sound(Plain({"close"}), {"close"})
  BY PublicSound
<1>2. ASSUME NEW r \in NewMemberRoles, NEW l \in NewMemberAccess,
             NEW c, c = NewAccount(r, l)
      PROVE  WellFormed(c) /\ c.op = "add"
  <2>1. r \in Roles /\ l \in Levels \cup {Nil}
    BY DEF NewMemberRoles, NewMemberAccess, Roles
  <2>2. c = [op |-> "add", who |-> Nil, role |-> r, level |-> l]
    BY <1>2 DEF NewAccount, Do
  <2>3. c \in Control /\ c.op = "add" /\ c.role = r /\ c.level = l
    BY <2>1, <2>2 DEF Control, Ops
  <2> QED BY <2>1, <2>3 DEF WellFormed
<1>3. ASSUME NEW c \in AddMemberForm
      PROVE  \/ c \in Plain({"close"})
             \/ \E r \in NewMemberRoles, l \in NewMemberAccess :
                  c = NewAccount(r, l)
  BY DEF AddMemberForm
<1> QED BY <1>1, <1>2, <1>3 DEF FormAsks, Sound, SheetOps

\* The form for a new account, for who may make one.
LEMMA AddMemberFormSound ==
  ASSUME Me \in Accounts, CanCreateProjects(Me)
  PROVE  Sound(AddMemberForm, {"close", "add"})
<1>1. Sound(Plain({"close"}), {"close"})
  BY PublicSound
<1>2. ASSUME NEW r \in NewMemberRoles, NEW l \in NewMemberAccess,
             NEW c, c = NewAccount(r, l)
      PROVE  WellFormed(c) /\ c.op \in {"close", "add"} /\ Works(c)
  <2>1. r \in Roles /\ l \in Levels \cup {Nil} /\ Outranks(role[Me], r)
    BY DEF NewMemberRoles, NewMemberAccess, Roles, Outranks, Rank, CanCreateProjects
  <2>2. c = [op |-> "add", who |-> Nil, role |-> r, level |-> l]
    BY <1>2 DEF NewAccount, Do
  <2>3. c \in Control /\ c.op = "add" /\ c.role = r /\ c.level = l
    BY <2>1, <2>2 DEF Control, Ops
  <2>4. WellFormed(c)
    BY <2>1, <2>3 DEF WellFormed
  <2>5. CASE l = Nil \/ CanManage(Me)
    <3>1. CreateMember(Me, c)
      BY <2>1, <2>3, <2>5 DEF CreateMember
    <3>2. May(Me, c)
      BY <2>3, <3>1, AccountsWork
    <3> QED BY <2>3, <2>4, <3>2 DEF Works
  <2>6. CASE l # Nil /\ ~CanManage(Me)
    BY <2>3, <2>4, <2>6 DEF Works, DrawnAnyway
  <2> QED BY <2>5, <2>6
<1>3. ASSUME NEW c \in AddMemberForm
      PROVE  \/ c \in Plain({"close"})
             \/ \E r \in NewMemberRoles, l \in NewMemberAccess :
                  c = NewAccount(r, l)
  BY DEF AddMemberForm
<1> QED BY <1>1, <1>2, <1>3 DEF Sound

\* The wizard, opened by anybody and offered on to those who may create.
LEMMA WizardSound ==
  ASSUME Me \in Accounts
  PROVE  /\ Sound(WizardDetails, {"close", "wizard_access", "create"})
         /\ CanCreateProjects(Me) =>
              Sound(WizardAccess, {"close", "wizard_back", "create"})
<1>1. Sound(Plain({"close"}), {"close"}) /\ Sound(Plain({"wizard_back"}), {"wizard_back"})
  BY PublicSound, FreeOps, PlainSound
<1>2. ASSUME NEW c, c.op \in CreateRoutes, c.op \in {"wizard_access", "create"}
      PROVE  Works(c)
  BY <1>2, CreatingWorks DEF Works, DrawnAnyway
<1>3. ASSUME NEW op \in {"wizard_access", "create"}
      PROVE  Sound(Plain({op}), {op})
  <2>1. op \in Ops \ {"add", "role"} /\ Do(op).op = op /\ op \in CreateRoutes
    BY DEF Ops, CreateRoutes, Do
  <2>2. Works(Do(op))
    BY <1>2, <2>1
  <2> QED BY <2>1, <2>2, OneSound
<1>4. Sound(WizardDetails, {"close", "wizard_access", "create"})
  <2>1. PICK op \in {"wizard_access", "create"} : WizardDetails = Plain({"close", op})
    BY DEF WizardDetails
  <2>2. WizardDetails = Plain({"close"}) \cup Plain({op})
    BY <2>1 DEF Plain
  <2> QED BY <1>1, <1>3, <2>2 DEF Sound
<1>5. ASSUME NEW u \in Users, NEW c \in Grants("create", u)
      PROVE  WellFormed(c) /\ c.op = "create" /\ Works(c)
  <2>1. c \in Control /\ c.op = "create"
    BY GrantsFields DEF Ops, CreateRoutes
  <2> QED BY <1>2, <2>1 DEF WellFormed, CreateRoutes
<1>6. ASSUME NEW c \in WizardAccess
      PROVE  \/ c \in Plain({"close"}) \/ c \in Plain({"wizard_back"}) \/ c \in Plain({"create"})
             \/ \E u \in Users : c \in Grants("create", u)
  BY DEF WizardAccess, CandidateRow, ListCandidatesForNewProject, Accounts, Plain
<1> QED BY <1>1, <1>3, <1>4, <1>5, <1>6 DEF Sound

\* The cards of the instance settings, for a super admin.
LEMMA InstanceSound ==
  ASSUME Me \in Accounts
  PROVE  /\ Sound(Plain(InstanceTabs), {"instance_general", "instance_members"})
         /\ Sound(MembersPane, {"new_member"})
         /\ role[Me] = "super_admin" => Sound(InstanceForms, {"save_instance", "update_check"})
<1>1. Sound(Plain(InstanceTabs), {"instance_general", "instance_members"})
  <2>1. InstanceTabs \in SUBSET (Ops \ (Guarded \ {"close"}))
    BY FreeOps DEF InstanceTabs
  <2>2. InstanceTabs \subseteq {"instance_general", "instance_members"}
    BY DEF InstanceTabs
  <2> QED BY <2>1, <2>2, PlainSound, SoundWeaken
<1>2. Sound(MembersPane, {"new_member"})
  <2>1. CASE CanCreateProjects(Me)
    <3>1. Do("new_member").op = "new_member"
      BY DEF Do
    <3>2. Works(Do("new_member"))
      BY <2>1, <3>1, CreatingWorks DEF Works, CreateRoutes
    <3> QED BY <2>1, <3>2, OneSound DEF MembersPane, Ops, CreateRoutes
  <2>2. CASE ~CanCreateProjects(Me)
    BY <2>2, NothingSound DEF MembersPane
  <2> QED BY <2>1, <2>2
<1>3. ASSUME role[Me] = "super_admin", NEW op \in {"save_instance", "update_check"}
      PROVE  Sound(Plain({op}), {op})
  <2>1. op \in Ops \ {"add", "role"} /\ Do(op).op = op /\ op \in InstanceRoutes
    BY DEF Ops, InstanceRoutes, Do
  <2>2. Works(Do(op))
    BY <1>3, <2>1, RunningWorks DEF Works
  <2> QED BY <2>1, <2>2, OneSound
<1> QED BY <1>1, <1>2, <1>3
     DEF InstanceForms, DisplayForm, RetentionForm, LimitsForm, AboutCard, Sound

AccountOps == {"account_tokens", "account_password"}
AccountPaneOps == {"create_token", "revoke_token", "change_password"}

LEMMA AccountSound ==
  ASSUME Me \in Accounts
  PROVE  /\ Sound(AccountTabs, AccountOps)
         /\ Sound(PasswordPane, AccountPaneOps)
         /\ \A some : Sound(TokensPane(some), AccountPaneOps)
<1>1. Sound(AccountTabs, AccountOps)
  BY FreeOps, PlainSound DEF AccountTabs, AccountOps
<1>2. Sound(PasswordPane, AccountPaneOps)
  <2>1. Sound(PasswordPane, {"change_password"})
    BY FreeOps, PlainSound DEF PasswordPane
  <2> QED BY <2>1, SoundWeaken DEF AccountPaneOps
<1>3. Sound(Plain({"create_token"}), {"create_token"})
      /\ Sound(Plain({"revoke_token"}), {"revoke_token"})
  BY FreeOps, PlainSound
<1>4. ASSUME NEW some
      PROVE  Sound(TokensPane(some), AccountPaneOps)
  <2>1. Sound(TokenRows(some), {"revoke_token"})
    BY <1>3, NothingSound DEF TokenRows
  <2> QED BY <1>3, <2>1 DEF TokensPane, TokenCreateForm, Sound, AccountPaneOps
<1> QED BY <1>1, <1>2, <1>4

----------------------------------------------------------------------------
(* Where the controls of a page stand.                                     *)

FrameOps ==
  Links \cup TabOps
    \cup {"filter", "search", "new_project", "ask_rotate", "ask_delete", "instance_general",
          "instance_members", "new_member", "account_tokens", "account_password", "pair"}
PaneOps ==
  {"overview", "star", "new_project", "save", "reveal", "hide", "grant", "remove", "role",
   "reset", "delete_member", "save_instance", "update_check", "create_token",
   "revoke_token", "change_password"}
DialogOps == {"close", "rotate", "delete"}

\* Each region of a page holds its own kind of control.
ControlsInPlace ==
  /\ \A c \in page.frame : WellFormed(c) /\ c.op \in FrameOps
  /\ \A c \in page.pane : WellFormed(c) /\ c.op \in PaneOps
  /\ \A c \in page.sheet : WellFormed(c) /\ c.op \in SheetOps
  /\ \A c \in page.dialog : WellFormed(c) /\ c.op \in DialogOps

CardOps == {"save_instance", "update_check"}

\* A form that is answered by itself is the whole of its pane; a key is there to
\* be revealed only while none is shown.
FormsAlone ==
  /\ (\E c \in page.pane : c.op = "save") => \A c \in page.pane : c.op = "save"
  /\ (\E c \in page.pane : c.op \in CardOps) => \A c \in page.pane : c.op \in CardOps
  /\ (\E c \in page.pane : c.op = "reveal") => page.rotated \/ page.shown = 0

QuietOps == Links \cup TabOps \cup {"ask_delete"}

\* The danger tab was earned when it was drawn, and nothing its page offers short
\* of the deletion changes what the reader may do.
DangerIsEarned ==
  (\E c \in page.frame : c.op = "ask_delete") =>
    /\ CanDelete(Me) \/ changes > 0
    /\ \A c \in page.frame : c.op \in QuietOps
    /\ \A c \in page.pane : c.op = "save"
    /\ page.sheet = {}
    /\ \A c \in page.dialog : c.op # "rotate"

Placed ==
  /\ page \in PageType
  /\ ControlsInPlace /\ FormsAlone /\ DangerIsEarned /\ SnippetFollowsField

\* Whoever is signed in has an account.
SignedInIsAccount == session => Me \in Accounts

ScreensInv == DataOK /\ Placed /\ DrawnControlsWork /\ SignedInIsAccount

AllDrawn == \A r \in Regions : \A c \in page[r] : Works(c)

\* A whole page is in order when its frame and its pane are.
LEMMA WholePage ==
  ASSUME NEW url \in {"login", "change_password", "error", "home", "settings", "instance",
                      "account", "screen", "live"},
         NEW frame, NEW pane, NEW ops, page = Page(url, frame, pane),
         Sound(frame, FrameOps), Sound(pane, ops), ops \subseteq PaneOps,
         "save" \in ops => ops = {"save"},
         ops \cap CardOps # {} => ops \subseteq CardOps,
         (\E c \in frame : c.op = "ask_delete") =>
           Sound(frame, QuietOps) /\ CanDelete(Me) /\ pane = {}
  PROVE  Placed /\ AllDrawn
<1>1. /\ page.url = url /\ page.frame = frame /\ page.pane = pane /\ page.sheet = {}
      /\ page.dialog = {} /\ page.shown = 0 /\ page.snippet = 0 /\ ~page.rotated
      /\ page = [url |-> url, frame |-> frame, pane |-> pane, sheet |-> {}, dialog |-> {},
                 shown |-> 0, snippet |-> 0, rotated |-> FALSE]
  BY DEF Page
<1>2. /\ \A c \in frame : WellFormed(c) /\ c.op \in FrameOps /\ Works(c)
      /\ \A c \in pane : WellFormed(c) /\ c.op \in ops /\ Works(c)
  BY DEF Sound
<1>3. page \in PageType
  <2>1. frame \in SUBSET Control /\ pane \in SUBSET Control
    BY <1>2 DEF WellFormed
  <2>2. 0 \in 0..MaxKey
    BY ScreensAssumption
  <2> QED BY <1>1, <2>1, <2>2 DEF PageType
<1>4. ControlsInPlace
  BY <1>1, <1>2 DEF ControlsInPlace
<1>5. FormsAlone
  BY <1>1, <1>2 DEF FormsAlone
<1>6. DangerIsEarned
  BY <1>1 DEF DangerIsEarned, Sound
<1>7. SnippetFollowsField
  BY <1>1 DEF SnippetFollowsField
<1>8. AllDrawn
  BY <1>1, <1>2 DEF AllDrawn, Regions
<1> QED BY <1>3, <1>4, <1>5, <1>6, <1>7, <1>8 DEF Placed

LEMMA OpsOfAFrame ==
  /\ MenuOps \cup SidebarOps \cup DashboardOps \subseteq FrameOps
  /\ SidebarOps \cup TabOps \cup {"ask_rotate", "members", "ask_delete"} \subseteq FrameOps
  /\ SidebarOps \cup TabOps \cup {"ask_delete"} \subseteq QuietOps
  /\ SidebarOps \cup {"pair"} \subseteq FrameOps
  /\ MenuOps \cup {"instance_general", "instance_members", "new_member"} \subseteq FrameOps
  /\ MenuOps \cup AccountOps \subseteq FrameOps
  /\ {"login", "logout", "home", "change_password"} \subseteq FrameOps
  BY DEF MenuOps, SidebarOps, DashboardOps, FrameOps, QuietOps, Links, AccountOps

\* The pages a browser is sent to.
LEMMA LoginDrawn == page = Login => Placed /\ AllDrawn
<1> SUFFICES ASSUME page = Login PROVE Placed /\ AllDrawn
  OBVIOUS
<1>1. Sound(Plain({"login"}), {"login"})
  BY PublicSound
<1>2. Sound(Plain({"login"}), FrameOps)
  BY <1>1, OpsOfAFrame, SoundWeaken
<1>3. ~\E c \in Plain({"login"}) : c.op = "ask_delete"
  BY <1>1 DEF Sound
<1> QED BY <1>2, <1>3, NothingSound, WholePage DEF Login

LEMMA ChangePasswordDrawn == Me \in Accounts /\ page = ChangePassword => Placed /\ AllDrawn
<1> SUFFICES ASSUME Me \in Accounts, page = ChangePassword PROVE Placed /\ AllDrawn
  OBVIOUS
<1> DEFINE f == Plain({"change_password", IF must THEN "logout" ELSE "home"})
<1>1. Sound(f, {"change_password", "logout", "home"})
  <2>1. PICK op \in {"logout", "home"} : f = Plain({"change_password", op})
    OBVIOUS
  <2>2. Sound(Plain({"change_password", op}), {"change_password", op})
    BY FreeOps, PlainSound
  <2> QED BY <2>1, <2>2, SoundWeaken
<1>2. Sound(f, FrameOps)
  BY <1>1, OpsOfAFrame, SoundWeaken
<1>3. ~\E c \in f : c.op = "ask_delete"
  BY <1>1 DEF Sound
<1>4. page = Page("change_password", f, {})
  BY DEF ChangePassword
<1> HIDE DEF f
<1> QED BY <1>2, <1>3, <1>4, NothingSound, WholePage

LEMMA ErrorDrawn == page = ErrorPage => Placed /\ AllDrawn
<1> SUFFICES ASSUME page = ErrorPage PROVE Placed /\ AllDrawn
  OBVIOUS
<1> QED BY NothingSound, WholePage DEF ErrorPage

LEMMA DashboardDrawn == Me \in Accounts /\ page = Dashboard => Placed /\ AllDrawn
<1> SUFFICES ASSUME Me \in Accounts, page = Dashboard PROVE Placed /\ AllDrawn
  OBVIOUS
<1> DEFINE f == TopNav \cup (IF Visible THEN ProjectsToolbar ELSE {})
<1>1. Sound(f, DashboardOps) /\ Sound(ProjectGrid, GridOps)
  BY DashboardSound
<1>2. Sound(f, FrameOps)
  BY <1>1, OpsOfAFrame, SoundWeaken
<1>3. ~\E c \in f : c.op = "ask_delete"
  BY <1>1 DEF Sound, DashboardOps, MenuOps
<1>4. page = Page("home", f, ProjectGrid)
  BY DEF Dashboard
<1>5. GridOps \subseteq PaneOps /\ "save" \notin GridOps /\ GridOps \cap CardOps = {}
  BY DEF GridOps, PaneOps, CardOps
<1> HIDE DEF f
<1> QED BY <1>1, <1>2, <1>3, <1>4, <1>5, WholePage

LEMMA SettingsDrawn ==
  Me \in Accounts /\ CanRead(Me) /\ project = "live"
    /\ (\E t \in SettingsTabs : page = SettingsPage(t)) => Placed /\ AllDrawn
<1> SUFFICES ASSUME Me \in Accounts, CanRead(Me), project = "live",
                    NEW t \in SettingsTabs, page = SettingsPage(t)
    PROVE  Placed /\ AllDrawn
  OBVIOUS
<1> DEFINE f == ProjectSidebar \cup SettingsBody(t)
<1>1. Sound(f, SidebarOps \cup TabOps \cup {"ask_rotate", "members", "ask_delete"})
  BY SidebarSound, SettingsBodySound DEF Sound
<1>2. Sound(f, FrameOps)
  BY <1>1, OpsOfAFrame, SoundWeaken
<1>3. (\E c \in f : c.op = "ask_delete") => Sound(f, QuietOps) /\ CanDelete(Me) /\ Pane(t) = {}
  <2>1. CASE t = "tab_danger"
    <3>1. Sound(f, SidebarOps \cup TabOps \cup {"ask_delete"})
      BY <2>1, SidebarSound, SettingsBodySound DEF Sound
    <3> QED BY <2>1, <3>1, OpsOfAFrame, SettingsBodySound, PaneSound, SoundWeaken
  <2>2. CASE t # "tab_danger"
    <3>1. Sound(f, SidebarOps \cup TabOps \cup {"ask_rotate", "members"})
      BY <2>2, SidebarSound, SettingsBodySound DEF Sound
    <3> QED BY <3>1 DEF Sound, SidebarOps, MenuOps, TabOps
  <2> QED BY <2>1, <2>2
<1>4. page = Page("settings", f, Pane(t))
  BY DEF SettingsPage
<1> HIDE DEF f
<1>5. CASE Sound(Pane(t), {"reveal"})
  BY <1>2, <1>3, <1>4, <1>5, WholePage DEF PaneOps, CardOps
<1>6. CASE Sound(Pane(t), {"grant", "remove"})
  BY <1>2, <1>3, <1>4, <1>6, WholePage DEF PaneOps, CardOps
<1>7. CASE Sound(Pane(t), {"save"})
  BY <1>2, <1>3, <1>4, <1>7, WholePage DEF PaneOps, CardOps
<1> QED BY <1>5, <1>6, <1>7, PaneSound

LEMMA InstanceDrawn ==
  Me \in Accounts /\ (\E t : page = InstanceSettingsPage(ActiveInstanceTab(t)))
    => Placed /\ AllDrawn
<1> SUFFICES ASSUME Me \in Accounts, NEW t, page = InstanceSettingsPage(ActiveInstanceTab(t))
    PROVE  Placed /\ AllDrawn
  OBVIOUS
<1>1. PICK a : a = ActiveInstanceTab(t)
  OBVIOUS
<1>2. a = "instance_members" \/ role[Me] = "super_admin"
  BY <1>1 DEF ActiveInstanceTab, InstanceTabs
<1> DEFINE f == TopNav \cup InstanceSettingsBody(a)
           p == IF a = "instance_members" THEN MembersTable ELSE InstanceForms
<1>3. Sound(f, MenuOps \cup {"instance_general", "instance_members", "new_member"})
  <2>1. Sound(IF a = "instance_members" THEN MembersPane ELSE {}, {"new_member"})
    BY InstanceSound, NothingSound
  <2> QED BY <2>1, TopNavSound, InstanceSound DEF InstanceSettingsBody, Sound
<1>4. Sound(f, FrameOps)
  BY <1>3, OpsOfAFrame, SoundWeaken
<1>5. ~\E c \in f : c.op = "ask_delete"
  BY <1>3 DEF Sound, MenuOps
<1>6. page = Page("instance", f, p)
  BY <1>1 DEF InstanceSettingsPage
<1>7. Sound(p, TableOps) \/ Sound(p, CardOps)
  BY <1>2, MembersTableSound, InstanceSound DEF CardOps
<1> HIDE DEF f, p
<1>8. CASE Sound(p, TableOps)
  BY <1>4, <1>5, <1>6, <1>8, WholePage DEF PaneOps, CardOps, TableOps
<1>9. CASE Sound(p, CardOps)
  BY <1>4, <1>5, <1>6, <1>9, WholePage DEF PaneOps, CardOps
<1> QED BY <1>7, <1>8, <1>9

LEMMA AccountDrawn ==
  Me \in Accounts /\ (\E url, some : page = AccountPage(url, some)) => Placed /\ AllDrawn
<1> SUFFICES ASSUME Me \in Accounts, NEW url, NEW some, page = AccountPage(url, some)
    PROVE  Placed /\ AllDrawn
  OBVIOUS
<1> DEFINE f == TopNav \cup AccountTabs
           p == IF url = "account_password" THEN PasswordPane ELSE TokensPane(some)
<1>1. Sound(f, MenuOps \cup AccountOps)
  BY TopNavSound, AccountSound, SoundUnion
<1>2. Sound(f, FrameOps)
  BY <1>1, OpsOfAFrame, SoundWeaken
<1>3. ~\E c \in f : c.op = "ask_delete"
  BY <1>1 DEF Sound, MenuOps, AccountOps
<1>4. Sound(p, AccountPaneOps)
  BY AccountSound
<1>5. page = Page("account", f, p)
  BY DEF AccountPage
<1> HIDE DEF f, p
<1> QED BY <1>2, <1>3, <1>4, <1>5, WholePage DEF AccountPaneOps, PaneOps, CardOps

LEMMA ScreenDrawn ==
  Me \in Accounts /\ CanRead(Me) /\ page = ProjectScreen => Placed /\ AllDrawn
<1> SUFFICES ASSUME Me \in Accounts, CanRead(Me), page = ProjectScreen
    PROVE  Placed /\ AllDrawn
  OBVIOUS
<1>1. page.url = "screen"
  BY DEF ProjectScreen, Page
<1>2. Sound(ProjectSidebar, SidebarOps)
  BY <1>1, SidebarSound
<1>3. Sound(ProjectSidebar, FrameOps)
  BY <1>2, OpsOfAFrame, SoundWeaken
<1>4. ~\E c \in ProjectSidebar : c.op = "ask_delete"
  BY <1>2 DEF Sound, SidebarOps, MenuOps
<1> QED BY <1>3, <1>4, NothingSound, WholePage DEF ProjectScreen

LEMMA LiveDrawn ==
  Me \in Accounts /\ CanRead(Me) /\ project = "live" /\ page = LiveDevicesPage
    => Placed /\ AllDrawn
<1> SUFFICES ASSUME Me \in Accounts, CanRead(Me), project = "live", page = LiveDevicesPage
    PROVE  Placed /\ AllDrawn
  OBVIOUS
<1> DEFINE f == ProjectSidebar \cup Plain({"pair"})
<1>1. Sound(Plain({"pair"}), {"pair"})
  BY ReadSound DEF ReadRoutes
<1>2. Sound(f, SidebarOps \cup {"pair"})
  BY <1>1, SidebarSound, SoundUnion
<1>3. Sound(f, FrameOps)
  BY <1>2, OpsOfAFrame, SoundWeaken
<1>4. ~\E c \in f : c.op = "ask_delete"
  BY <1>2 DEF Sound, SidebarOps, MenuOps
<1>5. page = Page("live", f, {})
  BY DEF LiveDevicesPage
<1> HIDE DEF f
<1> QED BY <1>3, <1>4, <1>5, NothingSound, WholePage

----------------------------------------------------------------------------
(* What a request comes from.                                              *)

\* What the page says of a control it offers: the form it stands in.
FromPage(c) ==
  /\ WellFormed(c)
  /\ c.op = "save" => \A d \in page.pane : d.op = "save"
  /\ c.op \in CardOps => \A d \in page.pane : d.op \in CardOps
  /\ c.op = "reveal" => page.rotated \/ page.shown = 0
  /\ c.op = "ask_delete" => CanDelete(Me) \/ changes > 0
  /\ (\E d \in page.frame : d.op = "ask_delete") =>
       c.op \in QuietOps \cup {"save", "delete", "close"}

LEMMA OfferedIsFromPage ==
  ASSUME Placed, NEW c \in Offered
  PROVE  FromPage(c)
<1>1. c \in page.frame \cup page.pane \cup page.sheet \cup page.dialog
  BY DEF Offered
<1>2. WellFormed(c)
  BY <1>1 DEF Placed, ControlsInPlace
<1>3. c.op \in {"save", "reveal"} \cup CardOps => c \in page.pane
  BY <1>1 DEF Placed, ControlsInPlace, CardOps, FrameOps, SheetOps, DialogOps, Links, TabOps
<1>4. (\E d \in page.frame : d.op = "ask_delete") =>
        c.op \in QuietOps \cup {"save", "delete", "close"}
  BY <1>1 DEF Placed, ControlsInPlace, DangerIsEarned, DialogOps
<1>5. c.op = "ask_delete" => CanDelete(Me) \/ changes > 0
  <2>1. c.op = "ask_delete" => c \in page.frame
    BY <1>1 DEF Placed, ControlsInPlace, PaneOps, SheetOps, DialogOps
  <2> QED BY <2>1 DEF Placed, DangerIsEarned
<1> QED BY <1>2, <1>3, <1>4, <1>5 DEF FromPage, Placed, FormsAlone

LEMMA MeantIsFromPage ==
  ASSUME NEW c, FromPage(c)
  PROVE  FromPage(Meant(c))
<1>1. CASE Meant(c) = c
  BY <1>1
<1>2. CASE c.op = "wizard_access" /\ Meant(c) = Do("create")
  <2>1. Do("create") \in Control /\ Do("create").op = "create"
    BY DoFields DEF Ops, CreateRoutes
  <2>2. "wizard_access" \notin QuietOps
    BY DEF QuietOps, Links, TabOps
  <2> QED BY <1>2, <2>1, <2>2 DEF FromPage, WellFormed, CardOps
<1> QED BY <1>1, <1>2 DEF Meant

LEMMA VisitedIsFromPage ==
  ASSUME NEW c \in Plain({"home", "settings", "instance"} \cup TabOps)
  PROVE  FromPage(c)
<1>1. {"home", "settings", "instance"} \cup TabOps \in SUBSET (Ops \ {"add", "role"})
  BY DEF TabOps, Ops, Links, ReadRoutes
<1>2. WellFormed(c) /\ c.op \in {"home", "settings", "instance"} \cup TabOps
  BY <1>1, PlainWellFormed
<1> QED BY <1>2 DEF FromPage, QuietOps, CardOps, Links, TabOps

----------------------------------------------------------------------------
(* What an accepted request does to the data.                              *)

\* Account u gives account w a level, in a project of its own or in one it manages.
Lets(u, w, l) ==
  \/ /\ project = "none" /\ CanCreateProjects(u)
     /\ (w = u /\ l = "maintainer") \/ w \in ListCandidatesForNewProject(u)
  \/ CanManage(u) /\ role[w] # "super_admin"

\* Account u gives account w a role.
Names(u, w, r) ==
  \/ role[u] = "super_admin" /\ w \in Accounts
  \/ CanCreateProjects(u) /\ role[w] = "free" /\ Outranks(role[u], r)

LEMMA CreateDoes ==
  ASSUME RowsTyped, NEW u \in Accounts, NEW c, WellFormed(c), May(u, c), CreateProject(u, c)
  PROVE  /\ RowsTyped' /\ role' = role /\ session' = session /\ must' = must
         /\ \A w \in Users : level'[w] \in {level[w], Nil} \/ Lets(u, w, level'[w])
<1>1. CASE project = "none"
  <2>1. CanCreateProjects(u)
    BY DEF May, Routed, CreateRoutes, CreateProject
  <2>2. c.level \in Levels \cup {Nil}
    BY DEF WellFormed, Control
  <2>3. level' = [w \in Users |-> IF w = u THEN "maintainer"
                                  ELSE IF w \in ParseMembers(u, c) THEN c.level ELSE Nil]
    BY <1>1 DEF CreateProject
  <2>4. level' \in [Users -> Levels \cup {Nil}]
    BY <2>2, <2>3 DEF Levels
  <2>5. ASSUME NEW w \in Users
        PROVE  level'[w] \in {level[w], Nil} \/ Lets(u, w, level'[w])
    BY <1>1, <2>1, <2>3 DEF ParseMembers, Lets
  <2> QED BY <1>1, <2>4, <2>5, ScreensAssumption DEF CreateProject, RowsTyped
<1>2. CASE project # "none"
  BY <1>2 DEF CreateProject, RowsTyped
<1> QED BY <1>1, <1>2

LEMMA MembershipDoes ==
  ASSUME RowsTyped, NEW u \in Accounts, NEW c, WellFormed(c), May(u, c), SetMembership(u, c)
  PROVE  /\ RowsTyped' /\ role' = role /\ session' = session /\ must' = must
         /\ \A w \in Users : level'[w] \in {level[w], Nil} \/ Lets(u, w, level'[w])
<1>1. c.level \in Levels \cup {Nil} /\ (c.op = "remove" => c.level = Nil)
  BY DEF WellFormed, Control
<1>2. CanManage(u)
  BY DEF May, Routed, RequireProjectManage, ManageRoutes, SetMembership
<1>3. c.op = "grant" => role[c.who] # "super_admin"
  BY DEF May, Serves, SetProjectAccess
<1>4. /\ c.op \in {"grant", "remove"} /\ level' = [level EXCEPT ![c.who] = c.level]
      /\ UNCHANGED <<role, project, key, session, must>>
  BY DEF SetMembership
<1>5. RowsTyped'
  BY <1>1, <1>4 DEF RowsTyped
<1>6. ASSUME NEW w \in Users
      PROVE  level'[w] \in {level[w], Nil} \/ Lets(u, w, level'[w])
  <2>1. CASE w = c.who
    BY <1>1, <1>2, <1>3, <1>4, <2>1 DEF RowsTyped, Lets
  <2>2. CASE w # c.who
    BY <1>4, <2>2 DEF RowsTyped
  <2> QED BY <2>1, <2>2
<1> QED BY <1>4, <1>5, <1>6

LEMMA AddDoes ==
  ASSUME RowsTyped, NEW u \in Accounts, NEW c, WellFormed(c), May(u, c), AddAccount(u, c)
  PROVE  /\ RowsTyped' /\ session' = session /\ must' = must
         /\ \A w \in Users : level'[w] \in {level[w], Nil} \/ Lets(u, w, level'[w])
         /\ \A w \in Users : role'[w] = role[w] \/ Names(u, w, role'[w])
         /\ \A w \in Accounts : role'[w] = role[w]
<1>1. /\ c.level \in Levels \cup {Nil} /\ c.role \in Roles /\ c.op = "add"
  BY DEF WellFormed, Control, AddAccount
<1>2. /\ CanCreateProjects(u) /\ Outranks(role[u], c.role)
      /\ c.level # Nil => CanManage(u)
  BY <1>1 DEF May, Serves, CreateMember
<1>3. PICK new \in Users :
        /\ role[new] = "free"
        /\ role' = [role EXCEPT ![new] = c.role]
        /\ level' = [level EXCEPT ![new] = c.level]
  BY DEF AddAccount
<1>4. UNCHANGED <<project, key, session, must>>
  BY DEF AddAccount
<1>5. RowsTyped'
  BY <1>1, <1>3, <1>4 DEF RowsTyped
<1>6. ASSUME NEW w \in Users
      PROVE  /\ level'[w] \in {level[w], Nil} \/ Lets(u, w, level'[w])
             /\ role'[w] = role[w] \/ Names(u, w, role'[w])
             /\ w \in Accounts => role'[w] = role[w]
  <2>1. CASE w = new
    <3>1. role'[w] = c.role /\ level'[w] = c.level /\ role[w] = "free"
      BY <1>3, <2>1 DEF RowsTyped
    <3>2. w \notin Accounts
      BY <3>1 DEF Accounts, Roles
    <3> QED BY <1>2, <3>1, <3>2 DEF Lets, Names
  <2>2. CASE w # new
    BY <1>3, <2>2 DEF RowsTyped
  <2> QED BY <2>1, <2>2
<1>7. Accounts \subseteq Users
  BY DEF Accounts
<1> QED BY <1>4, <1>5, <1>6, <1>7

LEMMA RoleDoes ==
  ASSUME RowsTyped, NEW u \in Accounts, NEW c, WellFormed(c), May(u, c), UpdateRole(u, c)
  PROVE  /\ RowsTyped' /\ session' = session /\ must' = must /\ level' = level
         /\ \A w \in Users : role'[w] = role[w] \/ Names(u, w, role'[w])
         /\ \A w \in Users : role'[w] = role[w] \/ role'[w] \in Roles
         /\ role'[u] = role[u] \/ role[u] = "super_admin"
<1>1. c.op = "role" /\ c.role \in Roles
  BY DEF WellFormed, UpdateRole
<1>2. role[u] = "super_admin" /\ c.who \in Accounts
  BY <1>1 DEF May, Serves, ChangeRole
<1>3. /\ role' = [role EXCEPT ![c.who] = c.role]
      /\ UNCHANGED <<level, project, key, session, must>>
  BY DEF UpdateRole
<1>4. c.who \in Users
  BY <1>2 DEF Accounts
<1>5. RowsTyped'
  BY <1>1, <1>3, <1>4 DEF RowsTyped
<1>6. ASSUME NEW w \in Users
      PROVE  role'[w] = role[w] \/ (w = c.who /\ role'[w] = c.role)
  BY <1>3, <1>4 DEF RowsTyped
<1> QED BY <1>1, <1>2, <1>3, <1>5, <1>6 DEF Names

LEMMA RemoveDoes ==
  ASSUME RowsTyped, NEW u \in Accounts, NEW c, WellFormed(c), May(u, c), RemoveAccount(u, c)
  PROVE  /\ RowsTyped' /\ must' = must /\ (session' => session)
         /\ \A w \in Users : level'[w] \in {level[w], Nil}
         /\ \A w \in Users : role'[w] \in {role[w], "removed"}
         /\ role'[Me] # role[Me] => ~session'
<1>1. c.op = "delete_member"
  BY DEF RemoveAccount
<1>2. c.who \in Accounts
  BY <1>1 DEF May, Serves, DeleteMember
<1>3. /\ role' = [role EXCEPT ![c.who] = "removed"]
      /\ level' = [level EXCEPT ![c.who] = Nil]
      /\ session' = (session /\ c.who # Me)
      /\ UNCHANGED <<project, key, must>>
  BY DEF RemoveAccount
<1>4. c.who \in Users
  BY <1>2 DEF Accounts
<1>5. role' \in [Users -> Roles \cup {"free", "removed"}] /\ level' \in [Users -> Levels \cup {Nil}]
  BY <1>3, <1>4 DEF RowsTyped
<1>6. session' \in BOOLEAN /\ (session' => session) /\ (c.who = Me => ~session')
  BY <1>3 DEF RowsTyped
<1>7. RowsTyped'
  BY <1>3, <1>5, <1>6 DEF RowsTyped
<1>8. \A w \in Users : level'[w] \in {level[w], Nil} /\ role'[w] \in {role[w], "removed"}
  BY <1>3, <1>4 DEF RowsTyped
<1>9. role'[Me] # role[Me] => c.who = Me
  BY <1>3, ScreensAssumption DEF RowsTyped
<1> QED BY <1>3, <1>6, <1>7, <1>8, <1>9

LEMMA OtherWritesDo ==
  ASSUME RowsTyped, NEW u \in Accounts, NEW c, WellFormed(c), May(u, c),
         RotateSecret(u, c) \/ DeleteProject(u, c) \/ ResetTo(u, c)
  PROVE  /\ RowsTyped' /\ role' = role /\ (session' => session)
         /\ \A w \in Users : level'[w] \in {level[w], Nil}
<1>1. CASE RotateSecret(u, c)
  BY <1>1, ScreensAssumption DEF RotateSecret, RowsTyped
<1>2. CASE DeleteProject(u, c)
  BY <1>2 DEF DeleteProject, RowsTyped
<1>3. CASE ResetTo(u, c)
  BY <1>3 DEF ResetTo, RowsTyped
<1> QED BY <1>1, <1>2, <1>3

\* Whatever is written: who is given a level, who is given a role, who is out.
LEMMA WritesDo ==
  ASSUME RowsTyped, NEW u \in Accounts, NEW c, WellFormed(c), May(u, c), Write(u, c)
  PROVE  /\ RowsTyped' /\ c.op \in Writes /\ (session' => session)
         /\ \A w \in Users : level'[w] \in {level[w], Nil} \/ Lets(u, w, level'[w])
         /\ \A w \in Users :
              role'[w] = role[w] \/ role'[w] \notin Roles \/ Names(u, w, role'[w])
         /\ role'[u] = role[u] \/ role'[u] \notin Roles \/ role[u] = "super_admin"
         /\ Me \in Accounts => Me \in Accounts' \/ ~session'
<1>0. u \in Users /\ role[u] \in Roles /\ "removed" \notin Roles /\ Me \in Users
  BY ScreensAssumption DEF Accounts, Roles
<1>a. Me \in Accounts <=> role[Me] \in Roles
  BY ScreensAssumption DEF Accounts
<1>b. Me \in Accounts' <=> role'[Me] \in Roles
  BY ScreensAssumption DEF Accounts
<1>1. CASE CreateProject(u, c)
  <2>1. c.op \in Writes
    BY <1>1 DEF CreateProject, Writes
  <2> QED BY <1>1, <1>a, <1>b, <2>1, CreateDoes
<1>2. CASE SetMembership(u, c)
  <2>1. c.op \in Writes
    BY <1>2 DEF SetMembership, Writes
  <2> QED BY <1>2, <1>a, <1>b, <2>1, MembershipDoes
<1>3. CASE AddAccount(u, c)
  <2>1. c.op \in Writes
    BY <1>3 DEF AddAccount, Writes
  <2> QED BY <1>3, <1>0, <1>a, <1>b, <2>1, AddDoes
<1>4. CASE UpdateRole(u, c)
  <2>1. c.op \in Writes
    BY <1>4 DEF UpdateRole, Writes
  <2> QED BY <1>4, <1>0, <1>a, <1>b, <2>1, RoleDoes
<1>5. CASE RemoveAccount(u, c)
  <2>1. c.op \in Writes
    BY <1>5 DEF RemoveAccount, Writes
  <2> QED BY <1>5, <1>0, <1>a, <1>b, <2>1, RemoveDoes
<1>6. CASE RotateSecret(u, c) \/ DeleteProject(u, c) \/ ResetTo(u, c)
  <2>1. c.op \in Writes
    BY <1>6 DEF RotateSecret, DeleteProject, ResetTo, Writes
  <2> QED BY <1>6, <1>a, <1>b, <2>1, OtherWritesDo
<1> QED BY <1>1, <1>2, <1>3, <1>4, <1>5, <1>6 DEF Write

----------------------------------------------------------------------------
(* What an answer leaves on the page.                                      *)

\* The same for every value a template is drawn with, so that it can be said of
\* the state after a step.
PanelsHold ==
  \A manage : (manage => CanManage(Me) \/ last.own) /\ Me \in Accounts
    => Sound(AccessPanel(manage), {"grant", "remove"})

LEMMA PanelsSound == PanelsHold
  BY AccessPanelSound DEF PanelsHold

FieldsHold ==
  \A revealed \in BOOLEAN :
    CanManage(Me) /\ Me \in Accounts =>
      /\ Sound(SecretField(revealed), {"reveal", "hide"})
      /\ revealed => Sound(SecretField(revealed), {"hide"})

LEMMA FieldsSound == FieldsHold
  BY SecretFieldSound DEF FieldsHold

ConfirmsHold ==
  \A op \in {"rotate", "delete"} :
    Me \in Accounts /\ project = "live" /\ CanManage(Me)
      /\ (op = "delete" => CanDelete(Me) \/ changes > 0)
      => Sound(ConfirmModal(op), {op, "close"})

LEMMA ConfirmsSound == ConfirmsHold
  BY ConfirmSound DEF ConfirmsHold

SavesWork ==
  CanManage(Me) /\ Me \in Accounts /\ project = "live" => \A d : d.op = "save" => Works(d)

LEMMA SaveWorks == SavesWork
  BY ManagingWorks DEF SavesWork, Works, ManageRoutes

CardsAreTheirs ==
  role[Me] = "super_admin" /\ Me \in Accounts => \A d : d.op \in CardOps => Works(d)

LEMMA CardsWork == CardsAreTheirs
  BY RunningWorks DEF CardsAreTheirs, Works, InstanceRoutes, CardOps

\* A region set aside for fragments: what may be swapped in without knowing what
\* it replaces.
SwapOps == PaneOps \ ({"save", "reveal"} \cup CardOps)

\* Any regions are redrawn on a page whose rest stays, and none of it is the
\* danger tab's.
LEMMA Redraw ==
  ASSUME Placed, NEW F, NEW P, NEW S, NEW D, NEW k \in 0..MaxKey, NEW n \in 0..MaxKey,
         NEW b \in BOOLEAN,
         page' = [url |-> page.url, frame |-> F, pane |-> P, sheet |-> S, dialog |-> D,
                  shown |-> k, snippet |-> n, rotated |-> b],
         \A c \in F : WellFormed(c) /\ c.op \in FrameOps,
         \A c \in P : WellFormed(c) /\ c.op \in PaneOps,
         \A c \in S : WellFormed(c) /\ c.op \in SheetOps,
         \A c \in D : WellFormed(c) /\ c.op \in DialogOps,
         b \/ n = k,
         (\E c \in P : c.op = "save") => \A c \in P : c.op = "save",
         (\E c \in P : c.op \in CardOps) => \A c \in P : c.op \in CardOps,
         (\E c \in P : c.op = "reveal") => b \/ k = 0,
         ~\E c \in F : c.op = "ask_delete"
  PROVE  Placed'
<1>1. /\ page'.frame = F /\ page'.pane = P /\ page'.sheet = S /\ page'.dialog = D
      /\ page'.shown = k /\ page'.snippet = n /\ (page'.rotated <=> b)
  OBVIOUS
<1>2. page' \in PageType
  <2>1. /\ F \in SUBSET Control /\ P \in SUBSET Control /\ S \in SUBSET Control
        /\ D \in SUBSET Control
    BY DEF WellFormed
  <2>2. page \in PageType
    BY DEF Placed
  <2> QED BY <2>1, <2>2 DEF PageType
<1>3. ControlsInPlace'
  BY <1>1 DEF ControlsInPlace
<1>4. FormsAlone'
  BY <1>1 DEF FormsAlone
<1>5. DangerIsEarned'
  BY <1>1 DEF DangerIsEarned
<1>6. SnippetFollowsField'
  BY <1>1 DEF SnippetFollowsField
<1> QED BY <1>2, <1>3, <1>4, <1>5, <1>6 DEF Placed

\* What Placed says of the page before a step, in one place.
LEMMA PlacedSays ==
  ASSUME Placed
  PROVE  /\ page \in PageType
         /\ page = [url |-> page.url, frame |-> page.frame, pane |-> page.pane,
                    sheet |-> page.sheet, dialog |-> page.dialog, shown |-> page.shown,
                    snippet |-> page.snippet, rotated |-> page.rotated]
         /\ page.shown \in 0..MaxKey /\ page.snippet \in 0..MaxKey /\ page.rotated \in BOOLEAN
         /\ \A c \in page.frame : WellFormed(c) /\ c.op \in FrameOps
         /\ \A c \in page.pane : WellFormed(c) /\ c.op \in PaneOps
         /\ \A c \in page.sheet : WellFormed(c) /\ c.op \in SheetOps
         /\ \A c \in page.dialog : WellFormed(c) /\ c.op \in DialogOps
         /\ page.rotated \/ page.snippet = page.shown
         /\ (\E c \in page.pane : c.op = "save") => \A c \in page.pane : c.op = "save"
         /\ (\E c \in page.pane : c.op \in CardOps) => \A c \in page.pane : c.op \in CardOps
         /\ (\E c \in page.pane : c.op = "reveal") => page.rotated \/ page.shown = 0
<1>1. page \in PageType
  BY DEF Placed
<1>2. page = [url |-> page.url, frame |-> page.frame, pane |-> page.pane,
              sheet |-> page.sheet, dialog |-> page.dialog, shown |-> page.shown,
              snippet |-> page.snippet, rotated |-> page.rotated]
  BY <1>1 DEF PageType
<1>3. page.shown \in 0..MaxKey /\ page.snippet \in 0..MaxKey /\ page.rotated \in BOOLEAN
  BY <1>1 DEF PageType
<1>4. ControlsInPlace /\ FormsAlone /\ SnippetFollowsField
  BY DEF Placed
<1> QED BY <1>1, <1>2, <1>3, <1>4 DEF ControlsInPlace, FormsAlone, SnippetFollowsField

\* A new pane.
LEMMA PaneRedrawn ==
  ASSUME Placed, NEW P, page' = [page EXCEPT !.pane = P], Sound(P, SwapOps)',
         last'.drawn = {"pane"} \/ last'.drawn = {}, ~\E c \in page.frame : c.op = "ask_delete"
  PROVE  Placed' /\ DrawnControlsWork'
<1>1. page' = [url |-> page.url, frame |-> page.frame, pane |-> P,
               sheet |-> page.sheet, dialog |-> page.dialog, shown |-> page.shown,
               snippet |-> page.snippet, rotated |-> page.rotated]
  BY PlacedSays DEF PageType
<1>2. \A c \in P : WellFormed(c) /\ c.op \in SwapOps /\ Works(c)'
  BY DEF Sound
<1>3. Placed'
  BY <1>1, <1>2, PlacedSays, Redraw DEF SwapOps
<1>4. page'.pane = P
  BY <1>1
<1> QED BY <1>2, <1>3, <1>4 DEF DrawnControlsWork, Works

\* A new sheet.
LEMMA SheetRedrawn ==
  ASSUME Placed, NEW S, page' = [page EXCEPT !.sheet = S], Sound(S, SheetOps)',
         last'.drawn = {"sheet"} \/ last'.drawn = {}, ~\E c \in page.frame : c.op = "ask_delete"
  PROVE  Placed' /\ DrawnControlsWork'
<1>1. page' = [url |-> page.url, frame |-> page.frame, pane |-> page.pane,
               sheet |-> S, dialog |-> page.dialog, shown |-> page.shown,
               snippet |-> page.snippet, rotated |-> page.rotated]
  BY PlacedSays DEF PageType
<1>2. \A c \in S : WellFormed(c) /\ c.op \in SheetOps /\ Works(c)'
  BY DEF Sound
<1>3. Placed'
  BY <1>1, <1>2, PlacedSays, Redraw
<1>4. page'.sheet = S
  BY <1>1
<1> QED BY <1>2, <1>3, <1>4 DEF DrawnControlsWork, Works

\* Nothing is drawn and the page stays, with the reader's rights or after a change
\* that somebody else made.
LEMMA NothingDrawn ==
  ASSUME Placed, page' = page, last'.drawn = {},
         \/ (CanDelete(Me) => CanDelete(Me)') /\ (changes > 0 => changes' > 0)
         \/ changes' > 0
         \/ ~\E c \in page.frame : c.op = "ask_delete"
  PROVE  Placed' /\ DrawnControlsWork'
<1>1. page' \in PageType /\ ControlsInPlace' /\ FormsAlone' /\ SnippetFollowsField'
  BY DEF Placed, ControlsInPlace, FormsAlone, SnippetFollowsField
<1>2. DangerIsEarned'
  BY DEF Placed, DangerIsEarned
<1>3. DrawnControlsWork'
  BY DEF DrawnControlsWork
<1> QED BY <1>1, <1>2, <1>3 DEF Placed

----------------------------------------------------------------------------
(* Handling a request.                                                     *)

\* The answer to a request that navigates, case by case.
LEMMA PageAnswers ==
  ASSUME NEW c, NEW manage, NEW old, page' \in Answers(c, manage, old)'
  PROVE  /\ c.op \in {"home", "delete"} => page' = Dashboard'
         /\ c.op = "login" => page' = SignedIn'
         /\ c.op = "logout" => page' = Login'
         /\ c.op = "change_password" => page' = ChangedPassword(old)'
         /\ c.op \in {"account", "account_tokens", "account_password", "create_token",
                      "revoke_token"} => (\E url, some : page = AccountPage(url, some))'
         /\ c.op \in {"instance", "instance_general", "instance_members", "members"} =>
              (\E t : page = InstanceSettingsPage(ActiveInstanceTab(t)))'
         /\ c.op \in {"overview", "screen"} => page' = ProjectScreen'
         /\ c.op \in {"live", "pair"} => page' = LiveDevicesPage'
         /\ c.op \in {"settings"} \cup TabOps =>
              (\E t \in SettingsTabs : page = SettingsPage(t))'
<1>1. c.op \in {"home", "delete"} => page' = Dashboard'
  BY DEF Answers, TabOps
<1>2. c.op = "login" => page' = SignedIn'
  BY DEF Answers, TabOps
<1>3. c.op = "logout" => page' = Login'
  BY DEF Answers, TabOps
<1>4. c.op = "change_password" => page' = ChangedPassword(old)'
  BY DEF Answers, TabOps
<1>5. ASSUME c.op \in {"account", "account_tokens", "account_password", "create_token",
                       "revoke_token"}
      PROVE  (\E url, some : page = AccountPage(url, some))'
  BY <1>5 DEF Answers, TabOps
<1>6. ASSUME c.op \in {"instance", "instance_general", "instance_members", "members"}
      PROVE  (\E t : page = InstanceSettingsPage(ActiveInstanceTab(t)))'
  BY <1>6 DEF Answers, TabOps
<1>7. c.op \in {"overview", "screen"} => page' = ProjectScreen'
  BY DEF Answers, TabOps
<1>8. c.op \in {"live", "pair"} => page' = LiveDevicesPage'
  BY DEF Answers, TabOps
<1>9. ASSUME c.op \in {"settings"} \cup TabOps
      PROVE  (\E t \in SettingsTabs : page = SettingsPage(t))'
  <2>1. page' = SettingsPage(ActiveTab(c.op))'
    BY <1>9 DEF Answers, TabOps
  <2>2. (ActiveTab(c.op) \in SettingsTabs)'
    BY DEF ActiveTab, SettingsTabs
  <2> QED BY <2>1, <2>2
<1> QED BY <1>1, <1>2, <1>3, <1>4, <1>5, <1>6, <1>7, <1>8, <1>9

\* The answer that redraws part of the page it came from.
LEMMA PartAnswers ==
  ASSUME NEW c, NEW manage, NEW old, page' \in Answers(c, manage, old)'
  PROVE  /\ c.op \in {"filter", "search"} =>
              \E p : /\ (p = ProjectGrid)' \/ p = {}
                     /\ page' = [old EXCEPT !.pane = p]
         /\ c.op \in {"new_project", "wizard_back"} =>
              page' = [old EXCEPT !.sheet = WizardDetails']
         /\ c.op = "wizard_access" => page' = [old EXCEPT !.sheet = WizardAccess']
         /\ c.op = "create" => page' = Created(old)'
         /\ c.op = "ask_rotate" => page' = [old EXCEPT !.dialog = ConfirmModal("rotate")]
         /\ c.op = "ask_delete" => page' = [old EXCEPT !.dialog = ConfirmModal("delete")]
         /\ c.op \in {"reveal", "hide"} => page' = RevealSecret(old, c.op = "hide")'
         /\ c.op = "rotate" => page' = Rotated(old)'
         /\ c.op \in {"grant", "remove"} =>
              page' = [old EXCEPT !.pane = AccessPanel(manage)']
         /\ c.op = "new_member" => page' = [old EXCEPT !.sheet = AddMemberForm']
         /\ c.op = "add" => page' = MemberMade(old)'
         /\ c.op \in {"role", "delete_member"} =>
              page' = [old EXCEPT !.pane = MembersTable']
         /\ c.op \in {"star", "reset", "save"} \cup CardOps => page' = old
<1>1. ASSUME c.op \in {"filter", "search"}
      PROVE  \E p : /\ (p = ProjectGrid)' \/ p = {}
                    /\ page' = [old EXCEPT !.pane = p]
  BY <1>1 DEF Answers, Fragment, TabOps
<1>2. c.op \in {"new_project", "wizard_back"} =>
              page' = [old EXCEPT !.sheet = WizardDetails']
  BY DEF Answers, NewProjectWizard, Fragment, TabOps
<1>3. c.op = "wizard_access" => page' = [old EXCEPT !.sheet = WizardAccess']
  BY DEF Answers, Fragment, TabOps
<1>4. c.op = "create" => page' = Created(old)'
  BY DEF Answers, TabOps
<1>5. c.op = "ask_rotate" => page' = [old EXCEPT !.dialog = ConfirmModal("rotate")]
  BY DEF Answers, TabOps, ConfirmDialog, Fragment, ConfirmModal, Plain, Do
<1>6. c.op = "ask_delete" => page' = [old EXCEPT !.dialog = ConfirmModal("delete")]
  BY DEF Answers, TabOps, ConfirmDialog, Fragment, ConfirmModal, Plain, Do
<1>7. c.op \in {"reveal", "hide"} => page' = RevealSecret(old, c.op = "hide")'
  BY DEF Answers, TabOps
<1>8. c.op = "rotate" => page' = Rotated(old)'
  BY DEF Answers, TabOps
<1>9. c.op \in {"grant", "remove"} => page' = [old EXCEPT !.pane = AccessPanel(manage)']
  BY DEF Answers, TabOps, RenderAccess, Fragment
<1>10. c.op = "new_member" => page' = [old EXCEPT !.sheet = AddMemberForm']
  BY DEF Answers, TabOps, NewMember, Fragment
<1>11. c.op = "add" => page' = MemberMade(old)'
  BY DEF Answers, TabOps
<1>12. c.op \in {"role", "delete_member"} => page' = [old EXCEPT !.pane = MembersTable']
  BY DEF Answers, TabOps, RenderMembers, Fragment
<1>13. c.op \in {"star", "reset", "save"} \cup CardOps => page' = old
  BY DEF Answers, TabOps, CardOps
<1> QED BY <1>1, <1>2, <1>3, <1>4, <1>5, <1>6, <1>7, <1>8, <1>9, <1>10, <1>11, <1>12, <1>13

\* The handler runs for an account that may, and leaves the data in order.
LEMMA HandleDoes ==
  ASSUME ScreensInv, NEW c, FromPage(c), Handle(c), c.op \notin Public, UNCHANGED changes
  PROVE  /\ session /\ Me \in Accounts /\ May(Me, c) /\ DataOK'
         /\ SignedInIsAccount'
         /\ c.op \notin Writes => /\ UNCHANGED <<role, level, project, key, session>>
                                  /\ Me \in Accounts'
         /\ c.op \in Writes => Write(Me, c)
         /\ last'.drawn = DrawnBy(c) /\ (last'.own <=> level'[Me] # level[Me])
         /\ \E manage, old : /\ manage => CanManage(Me)
                             /\ old = page /\ page' \in Answers(c, manage, old)'
<1>1. session /\ Me \in Accounts
  BY DEF Handle, Admitted, ScreensInv, SignedInIsAccount
<1>2. May(Me, c)
  BY <1>1 DEF Handle, May
<1>3. DrawnBy(c) \in SUBSET Regions
  BY DEF DrawnBy, Regions
<1>4. last' = [mine |-> c.op \in Writes, drawn |-> DrawnBy(c), own |-> level'[Me] # level[Me]]
  BY DEF Handle
<1>5. /\ last' \in [mine: BOOLEAN, drawn: SUBSET Regions, own: BOOLEAN]
      /\ last'.drawn = DrawnBy(c) /\ (last'.own <=> level'[Me] # level[Me])
  <2>0. /\ (c.op \in Writes) \in BOOLEAN /\ (level'[Me] # level[Me]) \in BOOLEAN
        /\ (level'[Me] # level[Me]) <=> level'[Me] # level[Me]
    OBVIOUS
  <2>1. PICK m \in BOOLEAN, o \in BOOLEAN :
          /\ last' = [mine |-> m, drawn |-> DrawnBy(c), own |-> o]
          /\ o <=> level'[Me] # level[Me]
    BY <1>4, <2>0, Zenon
  <2> QED BY <1>3, <2>1
<1>6. \E manage, old : /\ manage => CanManage(Me)
                       /\ old = page /\ page' \in Answers(c, manage, old)'
  <2>1. PICK old \in {page}, manage \in {CanManage(Me)} : page' \in Answers(c, manage, old)'
    BY DEF Handle
  <2> QED BY <2>1
<1>7. RowsTyped /\ changes \in 0..MaxChanges
  BY DEF ScreensInv, DataOK
<1>8. CASE c.op \in Writes
  <2>1. Write(Me, c)
    BY <1>8 DEF Handle
  <2>2. RowsTyped' /\ (session' => Me \in Accounts')
    BY <1>1, <1>2, <1>7, <2>1, WritesDo DEF FromPage
  <2> QED BY <1>1, <1>2, <1>5, <1>6, <1>7, <1>8, <2>1, <2>2 DEF DataOK, SignedInIsAccount
<1>9. CASE c.op \notin Writes
  <2>1. Credentials(c)
    BY <1>9 DEF Handle
  <2>2. /\ UNCHANGED <<role, level, project, key>> /\ session' = session
        /\ must' \in BOOLEAN
    BY <1>7, <2>1 DEF Credentials, Public, RowsTyped
  <2>3. RowsTyped' /\ Accounts' = Accounts
    BY <1>7, <2>2 DEF RowsTyped, Accounts
  <2> QED BY <1>1, <1>2, <1>5, <1>6, <1>7, <1>9, <2>2, <2>3 DEF DataOK, SignedInIsAccount
<1> QED BY <1>8, <1>9

\* What the gates of a route say of who came through.
LEMMA MayMeans ==
  ASSUME NEW c, May(Me, c)
  PROVE  /\ c.op \in ReadRoutes => CanRead(Me)
         /\ c.op \in ManageRoutes => CanManage(Me)
         /\ c.op \in LoadsProject \cup {"save", "rotate", "delete"} => project = "live"
         /\ c.op \in InstanceRoutes => role[Me] = "super_admin"
         /\ c.op \in CreateRoutes => CanCreateProjects(Me)
<1>1. /\ RequireProjectAccess(Me, c) /\ RequireProjectManage(Me, c) /\ RequireSuperAdmin(Me, c)
      /\ c.op \in LoadsProject => project = "live"
      /\ c.op \in CreateRoutes => CanCreateProjects(Me)
      /\ LocksProject(c)
  BY DEF May, Routed, Serves
<1> QED BY <1>1 DEF RequireProjectAccess, RequireProjectManage, RequireSuperAdmin, LocksProject

\* Rights stay what they were as long as nobody writes.
LEMMA RightsStay ==
  ASSUME UNCHANGED <<role, level, project>>
  PROVE  /\ Accounts' = Accounts /\ CanRead(Me)' = CanRead(Me)
         /\ CanManage(Me)' = CanManage(Me) /\ CanDelete(Me)' = CanDelete(Me)
         /\ CanCreateProjects(Me)' = CanCreateProjects(Me)
<1>1. Accounts' = Accounts
  BY DEF Accounts
<1> QED BY <1>1 DEF CanRead, CanManage, CanDelete, CanCreateProjects

PageOps ==
  {"home", "delete", "change_password", "account", "account_tokens", "account_password",
   "create_token", "revoke_token", "instance", "instance_general", "instance_members",
   "members", "overview", "screen", "live", "pair", "settings"} \cup TabOps

\* A request that navigates leaves a page in order.
LEMMA PagesInOrder ==
  ASSUME ScreensInv, NEW c, FromPage(c), Handle(c), c.op \in PageOps, UNCHANGED changes
  PROVE  Placed' /\ DrawnControlsWork'
<1>0. c.op \notin Public
  BY DEF PageOps, TabOps, Public
<1>1. May(Me, c) /\ Me \in Accounts
  BY <1>0, HandleDoes
<1>2. PICK manage, old : /\ old = page /\ page' \in Answers(c, manage, old)'
  BY <1>0, HandleDoes
<1>3. c.op # "delete" =>
        /\ UNCHANGED <<role, level, project>>
        /\ Me \in Accounts'
  BY <1>0, HandleDoes DEF PageOps, TabOps, Writes
<1>4. (Me \in Accounts)'
  <2>1. CASE c.op = "delete"
    <3>1. Write(Me, c)
      BY <1>0, <2>1, HandleDoes DEF Writes
    <3>2. role' = role
      BY <2>1, <3>1 DEF Write, CreateProject, RotateSecret, DeleteProject, SetMembership,
         AddAccount, ResetTo, UpdateRole, RemoveAccount
    <3> QED BY <1>1, <3>2 DEF Accounts
  <2> QED BY <1>3, <2>1
<1>5. c.op \in ReadRoutes => CanRead(Me)'
  <2>1. c.op \in ReadRoutes => c.op # "delete"
    BY DEF ReadRoutes, TabOps
  <2> QED BY <1>1, <1>3, <2>1, MayMeans, RightsStay
<1>6. c.op \in LoadsProject => project' = "live"
  <2>1. c.op \in LoadsProject => c.op # "delete"
    BY DEF LoadsProject, TabOps
  <2> QED BY <1>1, <1>3, <2>1, MayMeans
<1>7. last'.drawn \in SUBSET Regions
  BY <1>0, HandleDoes DEF DataOK
<1>8. (Placed /\ AllDrawn)'
  <2>1. CASE c.op \in {"home", "delete"}
    <3>1. (page = Dashboard)'
      BY <1>2, <2>1, PageAnswers
    <3> QED BY <1>4, <3>1, DashboardDrawn, PTL
  <2>2. CASE c.op = "change_password"
    <3>1. page' = ChangedPassword(old)'
      BY <1>2, <2>2, PageAnswers
    <3>2. (\E url, some : page = AccountPage(url, some))' \/ (page = Dashboard)'
      BY <3>1 DEF ChangedPassword
    <3> QED BY <1>4, <3>2, DashboardDrawn, AccountDrawn, PTL
  <2>3. CASE c.op \in {"account", "account_tokens", "account_password", "create_token",
                       "revoke_token"}
    <3>1. (\E url, some : page = AccountPage(url, some))'
      BY <1>2, <2>3, PageAnswers
    <3> QED BY <1>4, <3>1, AccountDrawn, PTL
  <2>4. CASE c.op \in {"instance", "instance_general", "instance_members", "members"}
    <3>1. (\E t : page = InstanceSettingsPage(ActiveInstanceTab(t)))'
      BY <1>2, <2>4, PageAnswers
    <3> QED BY <1>4, <3>1, InstanceDrawn, PTL
  <2>5. CASE c.op \in {"overview", "screen"}
    <3>1. (page = ProjectScreen)'
      BY <1>2, <2>5, PageAnswers
    <3>2. CanRead(Me)'
      BY <1>5, <2>5 DEF ReadRoutes
    <3> QED BY <1>4, <3>1, <3>2, ScreenDrawn, PTL
  <2>6. CASE c.op \in {"live", "pair"}
    <3>1. (page = LiveDevicesPage)'
      BY <1>2, <2>6, PageAnswers
    <3>2. CanRead(Me)' /\ (project = "live")'
      BY <1>5, <1>6, <2>6 DEF ReadRoutes, LoadsProject
    <3> QED BY <1>4, <3>1, <3>2, LiveDrawn, PTL
  <2>7. CASE c.op \in {"settings"} \cup TabOps
    <3>1. (\E t \in SettingsTabs : page = SettingsPage(t))'
      BY <1>2, <2>7, PageAnswers
    <3>2. CanRead(Me)' /\ (project = "live")'
      BY <1>5, <1>6, <2>7 DEF ReadRoutes, LoadsProject
    <3> QED BY <1>4, <3>1, <3>2, SettingsDrawn, PTL
  <2> QED BY <2>1, <2>2, <2>3, <2>4, <2>5, <2>6, <2>7 DEF PageOps
<1>9. DrawnControlsWork'
  BY <1>7, <1>8 DEF AllDrawn, DrawnControlsWork, Works
<1> QED BY <1>8, <1>9

\* Who handles a request still has an account when it is answered, unless it was
\* about accounts; and rights only change with a write.
LEMMA AfterHandling ==
  ASSUME ScreensInv, NEW c, FromPage(c), Handle(c), c.op \notin Public, UNCHANGED changes
  PROVE  /\ Placed /\ last'.drawn = DrawnBy(c) /\ RowsTyped'
         /\ c.op \notin {"role", "delete_member"} => Me \in Accounts' /\ role'[Me] = role[Me]
         /\ c.op \notin Writes =>
              /\ CanManage(Me)' = CanManage(Me) /\ CanDelete(Me)' = CanDelete(Me)
              /\ CanCreateProjects(Me)' = CanCreateProjects(Me)
              /\ CanRead(Me)' = CanRead(Me) /\ role' = role /\ project' = project
         /\ c.op \notin QuietOps \cup {"save", "delete", "close"} =>
              ~\E d \in page.frame : d.op = "ask_delete"
<1>1. Placed
  BY DEF ScreensInv
<1>2. last'.drawn = DrawnBy(c) /\ Me \in Accounts /\ RowsTyped' /\ May(Me, c)
  BY HandleDoes DEF DataOK
<1>3. c.op \notin Writes => UNCHANGED <<role, level, project, key, session>> /\ Me \in Accounts'
  BY HandleDoes
<1>4. ASSUME c.op \in Writes \ {"role", "delete_member"}
      PROVE  role'[Me] = role[Me]
  <2>1. Write(Me, c) /\ RowsTyped /\ WellFormed(c)
    BY <1>4, HandleDoes DEF FromPage, ScreensInv, DataOK
  <2>2. Me \in Users
    BY ScreensAssumption
  <2>3. CASE AddAccount(Me, c)
    BY <1>2, <2>1, <2>2, <2>3, AddDoes
  <2>4. CASE ~AddAccount(Me, c)
    BY <1>4, <2>1, <2>4 DEF Write, CreateProject, RotateSecret, DeleteProject, SetMembership,
       ResetTo, UpdateRole, RemoveAccount
  <2> QED BY <2>3, <2>4
<1>5. role'[Me] = role[Me] => Me \in Accounts'
  BY <1>2, ScreensAssumption DEF Accounts
<1>6. c.op \notin Writes =>
        /\ CanManage(Me)' = CanManage(Me) /\ CanDelete(Me)' = CanDelete(Me)
        /\ CanCreateProjects(Me)' = CanCreateProjects(Me) /\ CanRead(Me)' = CanRead(Me)
  BY <1>3, RightsStay
<1> QED BY <1>1, <1>2, <1>3, <1>4, <1>5, <1>6 DEF FromPage, Writes

\* Filtering and searching redraw the grid; the settings' and members' lists the
\* table or the panel they came with.
LEMMA PanesInOrder ==
  ASSUME ScreensInv, NEW c, FromPage(c), Handle(c), UNCHANGED changes,
         c.op \in {"filter", "search", "grant", "remove", "role", "delete_member"}
  PROVE  Placed' /\ DrawnControlsWork'
<1>0. c.op \notin Public /\ c.op \notin QuietOps \cup {"save", "delete", "close"}
  BY DEF Public, QuietOps, Links, TabOps
<1>1. Placed /\ last'.drawn = {"pane"} /\ ~\E d \in page.frame : d.op = "ask_delete"
  BY <1>0, AfterHandling DEF DrawnBy
<1>2. PICK manage, old : /\ manage => CanManage(Me)
                         /\ old = page /\ page' \in Answers(c, manage, old)'
  BY <1>0, HandleDoes
<1>3. GridOps \cup TableOps \cup {"grant", "remove"} \subseteq SwapOps
  BY DEF GridOps, TableOps, SwapOps, PaneOps, CardOps
<1>4. CASE c.op \in {"filter", "search"}
  <2>1. (Me \in Accounts)'
    BY <1>0, <1>4, AfterHandling
  <2>2. Sound(ProjectGrid, GridOps)'
    BY <2>1, DashboardSound, PTL
  <2>3. Sound({}, SwapOps)'
    BY DEF Sound
  <2>4. \E p : /\ (p = ProjectGrid)' \/ p = {}
               /\ page' = [old EXCEPT !.pane = p]
    BY <1>2, <1>4, PartAnswers
  <2>5. PICK p : /\ (p = ProjectGrid)' \/ p = {}
                 /\ page' = [old EXCEPT !.pane = p]
    BY <2>4
  <2>6. Sound(p, SwapOps)'
    BY <1>3, <2>2, <2>3, <2>5 DEF Sound
  <2> QED BY <1>1, <1>2, <2>5, <2>6, PaneRedrawn
<1>5. CASE c.op \in {"role", "delete_member"}
  <2>1. Sound(MembersTable, TableOps)'
    BY MembersTableSound, PTL
  <2>2. page' = [old EXCEPT !.pane = MembersTable']
    BY <1>2, <1>5, PartAnswers
  <2>3. Sound(MembersTable, SwapOps)'
    BY <1>3, <2>1 DEF Sound
  <2> QED BY <1>1, <1>2, <2>2, <2>3, PaneRedrawn
<1>6. CASE c.op \in {"grant", "remove"}
  <2>1. (Me \in Accounts)' /\ role'[Me] = role[Me]
    BY <1>0, <1>6, AfterHandling
  <2>2. last'.own <=> level'[Me] # level[Me]
    BY <1>0, HandleDoes
  <2>3. (manage => CanManage(Me) \/ last.own)'
    BY <1>2, <2>1, <2>2 DEF CanManage
  <2>4. PanelsHold'
    BY PanelsSound, PTL
  <2>5. Sound(AccessPanel(manage), {"grant", "remove"})'
    BY <2>1, <2>3, <2>4 DEF PanelsHold
  <2>6. page' = [old EXCEPT !.pane = AccessPanel(manage)']
    BY <1>2, <1>6, PartAnswers
  <2>7. Sound(AccessPanel(manage), SwapOps)'
    BY <1>3, <2>5 DEF Sound
  <2> QED BY <1>1, <1>2, <2>6, <2>7, PaneRedrawn
<1> QED BY <1>4, <1>5, <1>6

\* The sheets: the wizard's steps and the form for a new account.
LEMMA SheetsInOrder ==
  ASSUME ScreensInv, NEW c, FromPage(c), Handle(c), UNCHANGED changes,
         c.op \in {"new_project", "wizard_back", "wizard_access", "new_member"}
  PROVE  Placed' /\ DrawnControlsWork'
<1>0. c.op \notin Public /\ c.op \notin QuietOps \cup {"save", "delete", "close"}
      /\ c.op \notin Writes
  BY DEF Public, QuietOps, Links, TabOps, Writes
<1>1. /\ Placed /\ last'.drawn = {"sheet"} /\ ~\E d \in page.frame : d.op = "ask_delete"
      /\ (Me \in Accounts)'
  BY <1>0, AfterHandling DEF DrawnBy
<1>2. PICK manage, old : old = page /\ page' \in Answers(c, manage, old)'
  BY <1>0, HandleDoes
<1>3. c.op \in CreateRoutes => CanCreateProjects(Me)'
  BY <1>0, AfterHandling, HandleDoes, MayMeans
<1>4. CASE c.op \in {"new_project", "wizard_back"}
  <2>1. Sound(WizardDetails, {"close", "wizard_access", "create"})'
    BY <1>1, WizardSound, PTL
  <2>2. Sound(WizardDetails, SheetOps)'
    BY <2>1 DEF Sound, SheetOps
  <2>3. page' = [old EXCEPT !.sheet = WizardDetails']
    BY <1>2, <1>4, PartAnswers
  <2> QED BY <1>1, <1>2, <2>2, <2>3, SheetRedrawn
<1>5. CASE c.op = "wizard_access"
  <2>0. CanCreateProjects(Me)'
    BY <1>3, <1>5 DEF CreateRoutes
  <2>1. Sound(WizardAccess, {"close", "wizard_back", "create"})'
    BY <1>1, <2>0, WizardSound, PTL
  <2>2. Sound(WizardAccess, SheetOps)'
    BY <2>1 DEF Sound, SheetOps
  <2>3. page' = [old EXCEPT !.sheet = WizardAccess']
    BY <1>2, <1>5, PartAnswers
  <2> QED BY <1>1, <1>2, <2>2, <2>3, SheetRedrawn
<1>6. CASE c.op = "new_member"
  <2>0. CanCreateProjects(Me)'
    BY <1>3, <1>6 DEF CreateRoutes
  <2>1. Sound(AddMemberForm, {"close", "add"})'
    BY <1>1, <2>0, AddMemberFormSound, PTL
  <2>2. Sound(AddMemberForm, SheetOps)'
    BY <2>1 DEF Sound, SheetOps
  <2>3. page' = [old EXCEPT !.sheet = AddMemberForm']
    BY <1>2, <1>6, PartAnswers
  <2> QED BY <1>1, <1>2, <2>2, <2>3, SheetRedrawn
<1> QED BY <1>4, <1>5, <1>6

\* Pages that stay as they are: a star, a reset elsewhere, and the forms that come
\* back as they were sent.
LEMMA FormsInOrder ==
  ASSUME ScreensInv, NEW c, FromPage(c), Handle(c), UNCHANGED changes,
         c.op \in {"star", "reset", "save"} \cup CardOps
  PROVE  Placed' /\ DrawnControlsWork'
<1>0. c.op \notin Public /\ c.op \notin QuietOps \cup {"delete", "close"}
      /\ (c.op # "reset" => c.op \notin Writes)
      /\ c.op \notin {"role", "delete_member"}
  BY DEF Public, QuietOps, Links, TabOps, CardOps, Writes
<1>1. /\ Placed /\ last'.drawn = DrawnBy(c) /\ (Me \in Accounts)' /\ role'[Me] = role[Me]
      /\ c.op # "save" => ~\E d \in page.frame : d.op = "ask_delete"
  BY <1>0, AfterHandling
<1>2. page' = page
  <2>1. PICK manage, old : old = page /\ page' \in Answers(c, manage, old)'
    BY <1>0, HandleDoes
  <2> QED BY <2>1, PartAnswers
<1>3. May(Me, c)
  BY <1>0, HandleDoes
<1>4. CASE c.op \in {"star", "reset"}
  <2>1. last'.drawn = {}
    BY <1>1, <1>4 DEF DrawnBy
  <2> QED BY <1>1, <1>2, <1>4, <2>1, NothingDrawn
<1>5. CASE c.op \in {"save"} \cup CardOps
  <2>1. last'.drawn = {"pane"}
    BY <1>1, <1>5 DEF DrawnBy, CardOps
  <2>2. /\ CanDelete(Me)' = CanDelete(Me) /\ CanManage(Me)' = CanManage(Me)
        /\ role' = role /\ project' = project
    BY <1>0, <1>5, AfterHandling DEF CardOps
  <2>3. Placed'
    <3>1. page' \in PageType /\ ControlsInPlace' /\ FormsAlone' /\ SnippetFollowsField'
      BY <1>1, <1>2 DEF Placed, ControlsInPlace, FormsAlone, SnippetFollowsField
    <3>2. DangerIsEarned'
      BY <1>1, <1>2, <2>2 DEF Placed, DangerIsEarned
    <3> QED BY <3>1, <3>2 DEF Placed
  <2>4. \A d \in page.pane : Works(d)'
    <3>1. CASE c.op = "save"
      <4>1. project = "live"
        BY <1>3, <3>1, MayMeans
      <4>2. CanManage(Me)
        BY <1>3, <3>1, MayMeans DEF ManageRoutes
      <4>3. (CanManage(Me) /\ Me \in Accounts /\ project = "live")'
        BY <1>1, <2>2, <4>1, <4>2
      <4>4. SavesWork'
        BY SaveWorks, PTL
      <4> QED BY <3>1, <4>3, <4>4 DEF FromPage, SavesWork
    <3>2. CASE c.op \in CardOps
      <4>1. role[Me] = "super_admin"
        BY <1>3, <3>2, MayMeans DEF InstanceRoutes, CardOps
      <4>2. (role[Me] = "super_admin" /\ Me \in Accounts)'
        BY <1>1, <2>2, <4>1
      <4>3. CardsAreTheirs'
        BY CardsWork, PTL
      <4> QED BY <3>2, <4>2, <4>3 DEF FromPage, CardsAreTheirs
    <3> QED BY <1>5, <3>1, <3>2
  <2> QED BY <1>2, <2>1, <2>3, <2>4 DEF DrawnControlsWork, Works
<1> QED BY <1>4, <1>5

\* What is redrawn of a page works when each region that is has been drawn with
\* what works.
LEMMA RegionsRedrawn ==
  ASSUME Placed, NEW F, NEW P, NEW S, NEW D, NEW k \in 0..MaxKey, NEW n \in 0..MaxKey,
         NEW b \in BOOLEAN,
         page' = [url |-> page.url, frame |-> F, pane |-> P, sheet |-> S, dialog |-> D,
                  shown |-> k, snippet |-> n, rotated |-> b],
         last'.drawn \in SUBSET Regions,
         "frame" \in last'.drawn => Sound(F, FrameOps)',
         "pane" \in last'.drawn => Sound(P, PaneOps)',
         "sheet" \in last'.drawn => Sound(S, SheetOps)',
         "dialog" \in last'.drawn => Sound(D, DialogOps)'
  PROVE  DrawnControlsWork'
<1>1. /\ page'["frame"] = F /\ page'["pane"] = P /\ page'["sheet"] = S /\ page'["dialog"] = D
  OBVIOUS
<1>2. ASSUME NEW r \in last'.drawn
      PROVE  \A c \in page'[r] : Works(c)'
  <2>1. r \in {"frame", "pane", "sheet", "dialog"}
    BY DEF Regions
  <2> QED BY <1>1, <2>1 DEF Sound
<1> QED BY <1>2 DEF DrawnControlsWork, Works

\* A dialog.
LEMMA DialogsInOrder ==
  ASSUME ScreensInv, NEW c, FromPage(c), Handle(c), UNCHANGED changes,
         c.op \in {"ask_rotate", "ask_delete"}
  PROVE  Placed' /\ DrawnControlsWork'
<1>0. c.op \notin Public /\ c.op \notin Writes
      /\ (c.op = "ask_rotate" => c.op \notin QuietOps \cup {"save", "delete", "close"})
      /\ c.op \notin {"role", "delete_member"} /\ c.op \in ManageRoutes \cap LoadsProject
  BY DEF Public, QuietOps, Links, TabOps, Writes, ManageRoutes, LoadsProject
<1>1. /\ Placed /\ last'.drawn = {"dialog"} /\ (Me \in Accounts)'
      /\ CanDelete(Me)' = CanDelete(Me) /\ CanManage(Me)' = CanManage(Me)
      /\ project' = project
      /\ c.op = "ask_rotate" => ~\E d \in page.frame : d.op = "ask_delete"
  BY <1>0, AfterHandling DEF DrawnBy
<1>2. May(Me, c)
  BY <1>0, HandleDoes
<1> DEFINE op == IF c.op = "ask_rotate" THEN "rotate" ELSE "delete"
<1>3. op \in {"rotate", "delete"} /\ (op = "rotate" <=> c.op = "ask_rotate")
  OBVIOUS
<1>4. page' = [page EXCEPT !.dialog = ConfirmModal(op)]
  <2>1. PICK manage, old : old = page /\ page' \in Answers(c, manage, old)'
    BY <1>0, HandleDoes
  <2> QED BY <2>1, PartAnswers
<1> HIDE DEF op
<1>5. op = "delete" => CanDelete(Me) \/ changes > 0
  BY <1>3 DEF FromPage
<1>6. (Me \in Accounts /\ project = "live" /\ CanManage(Me)
        /\ (op = "delete" => CanDelete(Me) \/ changes > 0))'
  BY <1>0, <1>1, <1>2, <1>5, MayMeans
<1>7. ConfirmsHold'
  BY ConfirmsSound, PTL
<1>8. Sound(ConfirmModal(op), {op, "close"})'
  BY <1>3, <1>6, <1>7 DEF ConfirmsHold
<1> DEFINE D == ConfirmModal(op)
<1>9. \A d \in D : WellFormed(d) /\ d.op \in {op, "close"} /\ Works(d)'
  BY <1>8 DEF Sound, ConfirmModal, Plain, Do
<1>10. page' = [url |-> page.url, frame |-> page.frame, pane |-> page.pane,
                sheet |-> page.sheet, dialog |-> D, shown |-> page.shown,
                snippet |-> page.snippet, rotated |-> page.rotated]
  BY <1>1, <1>4, PlacedSays DEF PageType
<1> HIDE DEF D
<1>11. \A d \in D : WellFormed(d) /\ d.op \in DialogOps
  BY <1>3, <1>9 DEF DialogOps
<1>12. DrawnControlsWork'
  <2>1. page'["dialog"] = D
    BY <1>10
  <2> QED BY <1>1, <1>9, <2>1 DEF DrawnControlsWork, Works
<1>13. Placed'
  <2>1. CASE op = "rotate"
    BY <1>1, <1>3, <1>10, <1>11, <2>1, PlacedSays, Redraw
  <2>2. CASE op = "delete"
    <3>1. /\ page'.frame = page.frame /\ page'.pane = page.pane /\ page'.sheet = page.sheet
          /\ page'.dialog = D /\ page'.shown = page.shown /\ page'.snippet = page.snippet
          /\ (page'.rotated <=> page.rotated)
      BY <1>10
    <3>2. page' \in PageType
      BY <1>1, <1>10, <1>11, PlacedSays DEF PageType, WellFormed
    <3>3. ControlsInPlace'
      BY <1>1, <1>11, <3>1, PlacedSays DEF ControlsInPlace
    <3>4. FormsAlone' /\ SnippetFollowsField'
      BY <1>1, <3>1 DEF Placed, FormsAlone, SnippetFollowsField
    <3>5. \A d \in D : d.op # "rotate"
      BY <1>9, <2>2
    <3>6. DangerIsEarned'
      BY <1>1, <3>1, <3>5 DEF Placed, DangerIsEarned
    <3> QED BY <3>2, <3>3, <3>4, <3>6 DEF Placed
  <2> QED BY <1>3, <2>1, <2>2
<1> QED BY <1>12, <1>13

\* The secret field and the snippet below it.
LEMMA FieldsInOrder ==
  ASSUME ScreensInv, NEW c, FromPage(c), Handle(c), UNCHANGED changes,
         c.op \in {"reveal", "hide", "rotate"}
  PROVE  Placed' /\ DrawnControlsWork'
<1>0. c.op \notin Public /\ c.op \notin QuietOps \cup {"save", "delete", "close"}
      /\ c.op \notin {"role", "delete_member"} /\ c.op \in ManageRoutes
      /\ (c.op # "rotate" => c.op \notin Writes)
  BY DEF Public, QuietOps, Links, TabOps, Writes, ManageRoutes
<1>1. /\ Placed /\ last'.drawn = DrawnBy(c) /\ (Me \in Accounts)' /\ RowsTyped'
      /\ ~\E d \in page.frame : d.op = "ask_delete"
  BY <1>0, AfterHandling
<1>2. May(Me, c)
  BY <1>0, HandleDoes
<1>3. PICK manage, old : old = page /\ page' \in Answers(c, manage, old)'
  BY <1>0, HandleDoes
<1>4. CanManage(Me)'
  <2>1. CanManage(Me)
    BY <1>0, <1>2, MayMeans
  <2>2. CASE c.op = "rotate"
    <3>1. Write(Me, c)
      BY <1>0, <2>2, HandleDoes DEF Writes
    <3>2. UNCHANGED <<role, level, project>>
      BY <2>2, <3>1 DEF Write, CreateProject, RotateSecret, DeleteProject, SetMembership,
         AddAccount, ResetTo, UpdateRole, RemoveAccount
    <3> QED BY <2>1, <3>2, RightsStay
  <2>3. CASE c.op # "rotate"
    BY <1>0, <2>1, <2>3, AfterHandling
  <2> QED BY <2>2, <2>3
<1>5. FieldsHold'
  BY FieldsSound, PTL
<1>6. ASSUME NEW revealed \in BOOLEAN
      PROVE  /\ \A d \in SecretField(revealed) : WellFormed(d) /\ d.op \in PaneOps
             /\ \A d \in SecretField(revealed) : d.op \notin {"save"} \cup CardOps
             /\ revealed => \A d \in SecretField(revealed) : d.op # "reveal"
             /\ Sound(SecretField(revealed), PaneOps)'
  <2>1. /\ Sound(SecretField(revealed), {"reveal", "hide"})'
        /\ revealed => Sound(SecretField(revealed), {"hide"})'
    BY <1>1, <1>4, <1>5 DEF FieldsHold
  <2>2. SecretField(revealed)' = SecretField(revealed)
    BY DEF SecretField
  <2> QED BY <2>1, <2>2 DEF Sound, PaneOps, CardOps
<1>7. CASE c.op \in {"reveal", "hide"}
  <2>1. page' = RevealSecret(old, c.op = "hide")'
    BY <1>3, <1>7, PartAnswers
  <2> DEFINE k == IF c.op = "hide" \/ project' # "live" THEN 0 ELSE key'
             n == IF k # 0 \/ c.op = "hide" THEN k ELSE page.snippet
  <2>2. page' = [page EXCEPT !.pane = SecretField(k # 0), !.shown = k, !.snippet = n]
    BY <1>3, <2>1 DEF RevealSecret, SecretField
  <2>3. k \in 0..MaxKey /\ n \in 0..MaxKey
    <3>1. key' \in 0..MaxKey /\ 0 \in 0..MaxKey
      BY <1>1, ScreensAssumption DEF RowsTyped
    <3> QED BY <1>1, <3>1, PlacedSays
  <2>4. page.rotated \/ n = k
    BY <1>1, <1>7, PlacedSays DEF FromPage
  <2> HIDE DEF k, n
  <2>5. PICK revealed \in BOOLEAN : revealed <=> k # 0
    OBVIOUS
  <2>6. SecretField(k # 0) = SecretField(revealed)
    BY <2>5 DEF SecretField
  <2> DEFINE P == SecretField(revealed)
  <2>7. page' = [url |-> page.url, frame |-> page.frame, pane |-> P, sheet |-> page.sheet,
                 dialog |-> page.dialog, shown |-> k, snippet |-> n,
                 rotated |-> page.rotated]
    BY <1>1, <2>2, <2>6, PlacedSays DEF PageType
  <2>8. /\ \A d \in P : WellFormed(d) /\ d.op \in PaneOps
        /\ \A d \in P : d.op \notin {"save"} \cup CardOps
        /\ revealed => \A d \in P : d.op # "reveal"
        /\ Sound(P, PaneOps)'
    BY <1>6
  <2> HIDE DEF P
  <2>9. Placed'
    BY <1>1, <2>3, <2>4, <2>5, <2>7, <2>8, PlacedSays, Redraw
  <2>10. last'.drawn = {"pane"}
    BY <1>1, <1>7 DEF DrawnBy
  <2>11. DrawnControlsWork'
    <3>1. page'["pane"] = P
      BY <2>7
    <3> QED BY <2>8, <2>10, <3>1 DEF DrawnControlsWork, Works, Sound
  <2> QED BY <2>9, <2>11
<1>8. CASE c.op = "rotate"
  <2>1. page' = Rotated(old)'
    BY <1>3, <1>8, PartAnswers
  <2> DEFINE P == SecretField(TRUE)
             k == key'
  <2>2. page' = [page EXCEPT !.pane = P, !.shown = k, !.dialog = {}, !.rotated = TRUE]
    BY <1>3, <2>1 DEF Rotated, SecretField
  <2>3. k \in 0..MaxKey
    BY <1>1 DEF RowsTyped
  <2>4. /\ \A d \in P : WellFormed(d) /\ d.op \in PaneOps
        /\ \A d \in P : d.op \notin {"save"} \cup CardOps
        /\ \A d \in P : d.op # "reveal"
        /\ Sound(P, PaneOps)'
    BY <1>6
  <2> HIDE DEF P, k
  <2>5. page' = [url |-> page.url, frame |-> page.frame, pane |-> P, sheet |-> page.sheet,
                 dialog |-> {}, shown |-> k, snippet |-> page.snippet, rotated |-> TRUE]
    BY <1>1, <2>2, PlacedSays DEF PageType
  <2>6. Placed'
    <3>1. /\ page'.frame = page.frame /\ page'.pane = P /\ page'.sheet = page.sheet
          /\ page'.dialog = {} /\ page'.rotated
      BY <2>5
    <3>2. P \in SUBSET Control
      BY <2>4 DEF WellFormed
    <3>3. page' \in PageType
      BY <1>1, <2>3, <2>5, <3>2, PlacedSays DEF PageType
    <3>4. ControlsInPlace'
      BY <1>1, <2>4, <3>1, PlacedSays DEF ControlsInPlace
    <3>5. FormsAlone' /\ SnippetFollowsField'
      BY <2>4, <3>1 DEF FormsAlone, SnippetFollowsField
    <3>6. DangerIsEarned'
      BY <1>1, <3>1 DEF DangerIsEarned
    <3> QED BY <3>3, <3>4, <3>5, <3>6 DEF Placed
  <2>7. last'.drawn = {"pane", "dialog"}
    BY <1>1, <1>8 DEF DrawnBy
  <2>8. DrawnControlsWork'
    <3>1. page'["pane"] = P /\ page'["dialog"] = {}
      BY <2>5
    <3> QED BY <2>4, <2>7, <3>1 DEF DrawnControlsWork, Works, Sound
  <2> QED BY <2>6, <2>8
<1> QED BY <1>7, <1>8

\* A project or an account is made: what was in the sheet gives way to what there
\* is to say about it, and the list behind it is drawn again.
LEMMA MadeInOrder ==
  ASSUME ScreensInv, NEW c, FromPage(c), Handle(c), UNCHANGED changes,
         c.op \in {"create", "add"}
  PROVE  Placed' /\ DrawnControlsWork'
<1>0. c.op \notin Public /\ c.op \notin QuietOps \cup {"save", "delete", "close"}
      /\ c.op \notin {"role", "delete_member"}
  BY DEF Public, QuietOps, Links, TabOps
<1>1. /\ Placed /\ last'.drawn = DrawnBy(c) /\ (Me \in Accounts)'
      /\ ~\E d \in page.frame : d.op = "ask_delete"
  BY <1>0, AfterHandling
<1>2. PICK manage, old : old = page /\ page' \in Answers(c, manage, old)'
  BY <1>0, HandleDoes
<1>3. \A d \in Plain({"close"}) : WellFormed(d) /\ d.op \in SheetOps /\ Works(d)'
  <2>1. Sound(Plain({"close"}), {"close"})
    BY PublicSound
  <2> QED BY <2>1 DEF Sound, SheetOps, Works
<1>4. CASE c.op = "create"
  <2>1. page' = Created(old)'
    BY <1>2, <1>4, PartAnswers
  <2> DEFINE F == (TopNav \cup (IF Visible THEN ProjectsToolbar ELSE {}))'
             P == ProjectGrid'
             S == Plain({"close"})
  <2>2. page' = [page EXCEPT !.sheet = S, !.frame = F, !.pane = P]
    BY <1>2, <2>1 DEF Created, WizardConnect, Dashboard, Page, Plain, Do
  <2>3. (/\ Sound(TopNav \cup (IF Visible THEN ProjectsToolbar ELSE {}), DashboardOps)
         /\ Sound(ProjectGrid, GridOps))'
    BY <1>1, DashboardSound, PTL
  <2>4. \A d \in F : WellFormed(d) /\ d.op \in DashboardOps /\ Works(d)'
    BY <2>3 DEF Sound
  <2>5. \A d \in P : WellFormed(d) /\ d.op \in GridOps /\ Works(d)'
    BY <2>3 DEF Sound
  <2> HIDE DEF F, P, S
  <2>6. page' = [url |-> page.url, frame |-> F, pane |-> P, sheet |-> S,
                 dialog |-> page.dialog, shown |-> page.shown, snippet |-> page.snippet,
                 rotated |-> page.rotated]
    BY <1>1, <2>2, PlacedSays DEF PageType
  <2>7. DashboardOps \subseteq FrameOps /\ "ask_delete" \notin DashboardOps
    BY OpsOfAFrame DEF DashboardOps, MenuOps
  <2>8. GridOps \subseteq PaneOps /\ "save" \notin GridOps /\ GridOps \cap CardOps = {}
        /\ "reveal" \notin GridOps
    BY DEF GridOps, PaneOps, CardOps
  <2>9. \A d \in S : WellFormed(d) /\ d.op \in SheetOps /\ Works(d)'
    BY <1>3 DEF S
  <2>10. Placed'
    BY <1>1, <2>4, <2>5, <2>6, <2>7, <2>8, <2>9, PlacedSays, Redraw
  <2>11. last'.drawn = {"frame", "pane", "sheet"}
    BY <1>1, <1>4 DEF DrawnBy
  <2>12. DrawnControlsWork'
    <3>1. page'["frame"] = F /\ page'["pane"] = P /\ page'["sheet"] = S
      BY <2>6
    <3> QED BY <2>4, <2>5, <2>9, <2>11, <3>1 DEF DrawnControlsWork, Works
  <2> QED BY <2>10, <2>12
<1>5. CASE c.op = "add"
  <2>1. page' = MemberMade(old)'
    BY <1>2, <1>5, PartAnswers
  <2> DEFINE P == MembersTable'
             S == Plain({"close"})
  <2>2. page' = [page EXCEPT !.sheet = S, !.pane = P]
    BY <1>2, <2>1 DEF MemberMade, MemberCreated, Plain, Do
  <2>3. Sound(MembersTable, TableOps)'
    BY MembersTableSound, PTL
  <2>4. \A d \in P : WellFormed(d) /\ d.op \in TableOps /\ Works(d)'
    BY <2>3 DEF Sound
  <2> HIDE DEF P, S
  <2>5. page' = [url |-> page.url, frame |-> page.frame, pane |-> P, sheet |-> S,
                 dialog |-> page.dialog, shown |-> page.shown, snippet |-> page.snippet,
                 rotated |-> page.rotated]
    BY <1>1, <2>2, PlacedSays DEF PageType
  <2>6. TableOps \subseteq PaneOps /\ "save" \notin TableOps /\ TableOps \cap CardOps = {}
        /\ "reveal" \notin TableOps
    BY DEF TableOps, PaneOps, CardOps
  <2>7. \A d \in S : WellFormed(d) /\ d.op \in SheetOps /\ Works(d)'
    BY <1>3 DEF S
  <2>8. Placed'
    BY <1>1, <2>4, <2>5, <2>6, <2>7, PlacedSays, Redraw
  <2>9. last'.drawn = {"pane", "sheet"}
    BY <1>1, <1>5 DEF DrawnBy
  <2>10. DrawnControlsWork'
    <3>1. page'["pane"] = P /\ page'["sheet"] = S
      BY <2>5
    <3> QED BY <2>4, <2>7, <2>9, <3>1 DEF DrawnControlsWork, Works
  <2> QED BY <2>8, <2>10
<1> QED BY <1>4, <1>5

\* Signing in and out, which takes no account.
LEMMA SignsInOrOut ==
  ASSUME ScreensInv, NEW c, FromPage(c), Handle(c), c.op \in Public, UNCHANGED changes
  PROVE  ScreensInv'
<1>1. RowsTyped /\ changes \in 0..MaxChanges
  BY DEF ScreensInv, DataOK
<1>2. c.op \notin Writes /\ DrawnBy(c) = Regions /\ c.op \in {"login", "logout"}
  BY DEF Public, Writes, DrawnBy
<1>3. Credentials(c)
  BY <1>2 DEF Handle
<1>4. /\ UNCHANGED <<role, level, project, key>> /\ must' = must
      /\ c.op = "logout" => ~session'
      /\ c.op = "login" => (session' <=> Me \in Accounts)
      /\ session' \in BOOLEAN
  <2>1. must' = must
    BY <1>1, <1>2, <1>3 DEF Credentials, RowsTyped
  <2>2. CASE c.op = "logout"
    <3>1. session' = FALSE
      BY <1>3, <2>2 DEF Credentials
    <3> QED BY <1>3, <2>1, <2>2, <3>1 DEF Credentials
  <2>3. CASE c.op = "login"
    <3>1. session' = (Me \in Accounts)
      BY <1>3, <2>3 DEF Credentials
    <3>0. (Me \in Accounts) \in BOOLEAN
      OBVIOUS
    <3>2. session' \in BOOLEAN
      BY <3>0, <3>1, Zenon
    <3>3. session' <=> Me \in Accounts
      BY <3>1
    <3> QED BY <1>3, <2>1, <2>3, <3>2, <3>3 DEF Credentials
  <2> QED BY <1>2, <2>2, <2>3
<1>5. RowsTyped' /\ Accounts' = Accounts
  BY <1>1, <1>4 DEF RowsTyped, Accounts
<1>6. SignedInIsAccount'
  BY <1>2, <1>4, <1>5 DEF SignedInIsAccount
<1>7. /\ last' \in [mine: BOOLEAN, drawn: SUBSET Regions, own: BOOLEAN]
      /\ last'.drawn = Regions
  <2>0. /\ (c.op \in Writes) \in BOOLEAN /\ (level'[Me] # level[Me]) \in BOOLEAN
        /\ last' = [mine |-> c.op \in Writes, drawn |-> Regions, own |-> level'[Me] # level[Me]]
    BY <1>2 DEF Handle
  <2>1. PICK m \in BOOLEAN, o \in BOOLEAN : last' = [mine |-> m, drawn |-> Regions, own |-> o]
    BY <2>0, Zenon
  <2> QED BY <2>1
<1>8. DataOK'
  BY <1>1, <1>5, <1>7 DEF DataOK
<1>9. PICK old, manage : page' \in Answers(c, manage, old)'
  BY DEF Handle
<1>10. (Placed /\ AllDrawn)'
  <2>1. CASE c.op = "logout"
    <3>1. (page = Login)'
      BY <1>9, <2>1, PageAnswers
    <3> QED BY <3>1, LoginDrawn, PTL
  <2>2. CASE c.op = "login"
    <3>1. page' = SignedIn'
      BY <1>9, <2>2, PageAnswers
    <3>2. \/ (page = Login)'
          \/ (Me \in Accounts /\ page = ChangePassword)'
          \/ (Me \in Accounts /\ page = Dashboard)'
      BY <1>6, <3>1 DEF SignedIn, SignedInIsAccount
    <3> QED BY <3>2, LoginDrawn, ChangePasswordDrawn, DashboardDrawn, PTL
  <2> QED BY <1>2, <2>1, <2>2
<1>11. DrawnControlsWork'
  BY <1>7, <1>10 DEF AllDrawn, DrawnControlsWork, Works
<1> QED BY <1>6, <1>8, <1>10, <1>11 DEF ScreensInv

\* Whatever is handled leaves a page in order.
LEMMA HandleKeeps ==
  ASSUME ScreensInv, NEW c, FromPage(c), Handle(c), c.op # "close", UNCHANGED changes
  PROVE  ScreensInv'
<1>1. CASE c.op \in Public
  BY <1>1, SignsInOrOut
<1>2. CASE c.op \notin Public
  <2>1. DataOK' /\ SignedInIsAccount'
    BY <1>2, HandleDoes
  <2>2. c.op \in Ops
    BY DEF FromPage, WellFormed, Control
  <2>3. \/ c.op \in PageOps
        \/ c.op \in {"filter", "search", "grant", "remove", "role", "delete_member"}
        \/ c.op \in {"new_project", "wizard_back", "wizard_access", "new_member"}
        \/ c.op \in {"star", "reset", "save"} \cup CardOps
        \/ c.op \in {"ask_rotate", "ask_delete"}
        \/ c.op \in {"reveal", "hide", "rotate"}
        \/ c.op \in {"create", "add"}
    BY <1>2, <2>2 DEF Ops, PageOps, Links, TabOps, ReadRoutes, ManageRoutes, DeleteRoutes,
       InstanceRoutes, CreateRoutes, CardOps, Public
  <2>4. Placed' /\ DrawnControlsWork'
    BY <2>3, PagesInOrder, PanesInOrder, SheetsInOrder, FormsInOrder, DialogsInOrder,
       FieldsInOrder, MadeInOrder
  <2> QED BY <2>1, <2>4 DEF ScreensInv
<1> QED BY <1>1, <1>2

\* A new sheet that nothing is promised of.
LEMMA SheetPlaced ==
  ASSUME Placed, NEW S, page' = [page EXCEPT !.sheet = S],
         \A c \in S : WellFormed(c) /\ c.op \in SheetOps,
         ~\E c \in page.frame : c.op = "ask_delete"
  PROVE  Placed'
<1>1. page' = [url |-> page.url, frame |-> page.frame, pane |-> page.pane,
               sheet |-> S, dialog |-> page.dialog, shown |-> page.shown,
               snippet |-> page.snippet, rotated |-> page.rotated]
  BY PlacedSays DEF PageType
<1> QED BY <1>1, PlacedSays, Redraw

\* What keeps the invariant when nothing is written and nothing is promised.
LEMMA NothingWritten ==
  ASSUME ScreensInv, UNCHANGED <<data, changes>>, Placed', last'.drawn = {},
         last' \in [mine: BOOLEAN, drawn: SUBSET Regions, own: BOOLEAN]
  PROVE  ScreensInv'
<1>1. RowsTyped' /\ Accounts' = Accounts
  BY DEF data, ScreensInv, DataOK, RowsTyped, Accounts
<1>2. DataOK' /\ SignedInIsAccount'
  BY <1>1 DEF data, ScreensInv, DataOK, SignedInIsAccount
<1>3. DrawnControlsWork'
  BY DEF DrawnControlsWork
<1> QED BY <1>2, <1>3 DEF ScreensInv

\* The request of somebody who is signed out, or on a temporary password.
LEMMA TurnAwayKeeps ==
  ASSUME ScreensInv, NEW c, TurnAway(c), UNCHANGED changes
  PROVE  ScreensInv'
<1>1. RowsTyped' /\ Accounts' = Accounts /\ must' = must /\ session' = session
  BY DEF TurnAway, data, ScreensInv, DataOK, RowsTyped, Accounts
<1>2. last' \in [mine: BOOLEAN, drawn: SUBSET Regions, own: BOOLEAN] /\ last'.drawn = Regions
  BY DEF TurnAway
<1>3. DataOK' /\ SignedInIsAccount'
  BY <1>1, <1>2 DEF ScreensInv, DataOK, SignedInIsAccount
<1>4. (Placed /\ AllDrawn)'
  <2>1. CASE session
    <3>1. (page = ChangePassword)'
      BY <1>1, <2>1 DEF TurnAway, ChangePassword
    <3>2. (Me \in Accounts)'
      BY <1>1, <1>3, <2>1 DEF SignedInIsAccount
    <3> QED BY <3>1, <3>2, ChangePasswordDrawn, PTL
  <2>2. CASE ~session
    <3>1. (page = Login)'
      BY <2>2 DEF TurnAway, Login, Page, Plain, Do
    <3> QED BY <3>1, LoginDrawn, PTL
  <2> QED BY <2>1, <2>2
<1>5. DrawnControlsWork'
  BY <1>2, <1>4 DEF AllDrawn, DrawnControlsWork, Works
<1> QED BY <1>3, <1>4, <1>5 DEF ScreensInv

\* A page that stays under the same rights.
LEMMA StaysPlaced ==
  ASSUME Placed, page' = page, UNCHANGED <<data, changes>>
  PROVE  Placed'
<1>1. CanDelete(Me)' = CanDelete(Me)
  BY RightsStay DEF data
<1> QED BY <1>1 DEF Placed, ControlsInPlace, FormsAlone, SnippetFollowsField, DangerIsEarned

\* An error text in place of a page, or a page that stays.
LEMMA RefuseKeeps ==
  ASSUME ScreensInv, UNCHANGED <<data, changes>>, page' = ErrorPage \/ page' = page,
         last' = [mine |-> FALSE, drawn |-> {}, own |-> FALSE]
  PROVE  ScreensInv'
<1>1. last'.drawn = {} /\ last' \in [mine: BOOLEAN, drawn: SUBSET Regions, own: BOOLEAN]
  OBVIOUS
<1>2. CASE page' = ErrorPage
  <2>1. (page = ErrorPage)'
    BY <1>2 DEF ErrorPage, Page
  <2>2. Placed'
    BY <2>1, ErrorDrawn, PTL
  <2> QED BY <1>1, <2>2, NothingWritten
<1>3. CASE page' = page
  BY <1>1, <1>3, StaysPlaced, NothingWritten DEF ScreensInv
<1> QED BY <1>2, <1>3

\* A refused form comes back, and nothing was written.
LEMMA FailKeeps ==
  ASSUME ScreensInv, NEW c, FromPage(c), Fail(c), UNCHANGED changes
  PROVE  ScreensInv'
<1>1. Placed
  BY DEF ScreensInv
<1>2. /\ UNCHANGED <<data, changes>> /\ UNCHANGED <<role, level, project>>
      /\ last' = [mine |-> FALSE, drawn |-> {}, own |-> FALSE]
  BY DEF Fail, data
<1>3. last'.drawn = {} /\ last' \in [mine: BOOLEAN, drawn: SUBSET Regions, own: BOOLEAN]
  BY <1>2
<1>4. Me \in Accounts /\ Accounts' = Accounts /\ CanManage(Me)' = CanManage(Me)
  BY <1>2, RightsStay DEF Fail, Admitted, ScreensInv, SignedInIsAccount, Writes, Public
<1>5. PICK old, manage : /\ old = page /\ (manage => CanManage(Me))
                         /\ page' \in ErrorAnswers(c, manage, old)'
  <2>1. PICK old \in {page}, manage \in {CanManage(Me)} : page' \in ErrorAnswers(c, manage, old)'
    BY DEF Fail
  <2> QED BY <2>1
<1>6. c.op \in Writes \cup {"save"}
  BY DEF Fail
<1>7. c.op \notin {"save", "delete"} => ~\E d \in page.frame : d.op = "ask_delete"
  BY <1>6 DEF FromPage, QuietOps, Writes, Links, TabOps
<1>8. Placed'
  <2>1. CASE c.op = "add"
    <3>1. page' = [old EXCEPT !.sheet = AddMemberForm']
      BY <1>5, <2>1 DEF ErrorAnswers, NewMember, Fragment
    <3>2. FormAsks'
      BY AddMemberFormAsks, PTL
    <3>3. \A d \in AddMemberForm' : WellFormed(d) /\ d.op \in SheetOps
      BY <3>2 DEF FormAsks
    <3> QED BY <1>1, <1>5, <1>7, <2>1, <3>1, <3>3, SheetPlaced
  <2>2. CASE c.op = "create"
    <3>1. page' = [old EXCEPT !.sheet = WizardDetails']
      BY <1>5, <2>2 DEF ErrorAnswers, NewProjectWizard, Fragment
    <3>2. (Me \in Accounts)'
      BY <1>4
    <3>3. Sound(WizardDetails, {"close", "wizard_access", "create"})'
      BY <3>2, WizardSound, PTL
    <3>4. \A d \in WizardDetails' : WellFormed(d) /\ d.op \in SheetOps
      BY <3>3 DEF Sound, SheetOps
    <3> QED BY <1>1, <1>5, <1>7, <2>2, <3>1, <3>4, SheetPlaced
  <2>3. CASE c.op = "rotate"
    <3>1. page' = [old EXCEPT !.pane = {}, !.shown = 0, !.rotated = TRUE]
      BY <1>5, <2>3 DEF ErrorAnswers
    <3>2. page' = [url |-> page.url, frame |-> page.frame, pane |-> {}, sheet |-> page.sheet,
                   dialog |-> page.dialog, shown |-> 0, snippet |-> page.snippet,
                   rotated |-> TRUE]
      BY <1>1, <1>5, <3>1, PlacedSays DEF PageType
    <3>3. /\ page'.frame = page.frame /\ page'.pane = {} /\ page'.sheet = page.sheet
          /\ page'.dialog = page.dialog /\ page'.rotated
      BY <3>2
    <3>4. 0 \in 0..MaxKey
      BY ScreensAssumption
    <3>5. page' \in PageType
      BY <1>1, <3>2, <3>4, PlacedSays DEF PageType
    <3>6. ControlsInPlace'
      BY <1>1, <3>3, PlacedSays DEF ControlsInPlace
    <3>7. FormsAlone' /\ SnippetFollowsField'
      BY <3>3 DEF FormsAlone, SnippetFollowsField
    <3>8. DangerIsEarned'
      BY <1>7, <2>3, <3>3 DEF DangerIsEarned
    <3> QED BY <3>5, <3>6, <3>7, <3>8 DEF Placed
  <2>4. CASE c.op \in {"grant", "remove"}
    <3>0. page' \in Answers(c, manage, old)'
      BY <1>5, <2>4 DEF ErrorAnswers
    <3>1. page' = [old EXCEPT !.pane = AccessPanel(manage)']
      BY <2>4, <3>0, PartAnswers
    <3>2. PanelsHold'
      BY PanelsSound, PTL
    <3>3. (manage => CanManage(Me) \/ last.own)' /\ (Me \in Accounts)'
      BY <1>4, <1>5
    <3>4. Sound(AccessPanel(manage), {"grant", "remove"})'
      BY <3>2, <3>3 DEF PanelsHold
    <3>5. Sound(AccessPanel(manage), SwapOps)'
      BY <3>4 DEF Sound, SwapOps, PaneOps, CardOps
    <3> QED BY <1>1, <1>3, <1>5, <1>7, <2>4, <3>1, <3>5, PaneRedrawn
  <2>5. CASE c.op \in {"role", "delete_member"}
    <3>0. page' \in Answers(c, manage, old)'
      BY <1>5, <2>5 DEF ErrorAnswers
    <3>1. page' = [old EXCEPT !.pane = MembersTable']
      BY <2>5, <3>0, PartAnswers
    <3>2. Sound(MembersTable, TableOps)'
      BY MembersTableSound, PTL
    <3>3. Sound(MembersTable, SwapOps)'
      BY <3>2 DEF Sound, TableOps, SwapOps, PaneOps, CardOps
    <3> QED BY <1>1, <1>3, <1>5, <1>7, <2>5, <3>1, <3>3, PaneRedrawn
  <2>6. CASE c.op \in {"delete", "reset", "save"}
    <3>1. page' = page
      BY <1>5, <2>6 DEF ErrorAnswers
    <3> QED BY <1>1, <1>2, <3>1, StaysPlaced
  <2> QED BY <1>6, <2>1, <2>2, <2>3, <2>4, <2>5, <2>6 DEF Writes
<1> QED BY <1>2, <1>3, <1>8, NothingWritten

\* Closing takes a sheet or a dialog away.
LEMMA CloseKeeps ==
  ASSUME ScreensInv, Close
  PROVE  ScreensInv'
<1>1. Placed /\ UNCHANGED <<data, changes>> /\ UNCHANGED <<role, level, project>>
  BY DEF ScreensInv, Close, data
<1>2. last'.drawn = {} /\ last' \in [mine: BOOLEAN, drawn: SUBSET Regions, own: BOOLEAN]
  BY DEF Close
<1> DEFINE S == IF page.dialog = {} THEN {} ELSE page.sheet
<1>3. page' = [url |-> page.url, frame |-> page.frame, pane |-> page.pane, sheet |-> S,
               dialog |-> {}, shown |-> page.shown, snippet |-> page.snippet,
               rotated |-> page.rotated]
  BY <1>1, PlacedSays DEF Close, PageType
<1>4. S \subseteq page.sheet
  OBVIOUS
<1> HIDE DEF S
<1>5. /\ page'.frame = page.frame /\ page'.pane = page.pane /\ page'.sheet = S
      /\ page'.dialog = {} /\ page'.shown = page.shown /\ page'.snippet = page.snippet
      /\ (page'.rotated <=> page.rotated)
  BY <1>3
<1>6. page' \in PageType
  BY <1>1, <1>3, <1>4, PlacedSays DEF PageType
<1>7. ControlsInPlace'
  BY <1>1, <1>4, <1>5, PlacedSays DEF ControlsInPlace
<1>8. FormsAlone' /\ SnippetFollowsField'
  BY <1>1, <1>5 DEF Placed, FormsAlone, SnippetFollowsField
<1>9. DangerIsEarned'
  <2>1. CanDelete(Me)' = CanDelete(Me)
    BY <1>1, RightsStay
  <2> QED BY <1>1, <1>4, <1>5, <2>1 DEF Placed, DangerIsEarned
<1> QED BY <1>1, <1>2, <1>6, <1>7, <1>8, <1>9, NothingWritten DEF Placed

\* Somebody else writes behind the page.
LEMMA ElsewhereKeeps ==
  ASSUME ScreensInv, NEW u \in Accounts, NEW c \in SentElsewhere, Elsewhere(u, c)
  PROVE  ScreensInv' /\ WellFormed(c)
<1>1. /\ RowsTyped /\ changes \in 0..MaxChanges /\ May(u, c) /\ Write(u, c)
      /\ changes < MaxChanges /\ changes' = changes + 1 /\ page' = page
      /\ last' = [mine |-> FALSE, drawn |-> {}, own |-> FALSE]
  BY DEF ScreensInv, DataOK, Elsewhere
<1>2. WellFormed(c)
  <2>1. CASE c \in Plain({"create", "rotate", "delete"})
    <3>1. {"create", "rotate", "delete"} \in SUBSET (Ops \ {"add", "role"})
      BY DEF Ops, CreateRoutes, ManageRoutes, DeleteRoutes
    <3> QED BY <2>1, <3>1, PlainWellFormed
  <2>2. ASSUME NEW op \in {"create", "grant"}, NEW v \in Users, c \in Grants(op, v)
        PROVE  WellFormed(c)
    <3>1. op \in Ops
      BY DEF Ops, CreateRoutes, ManageRoutes
    <3> QED BY <2>2, <3>1, GrantsFields DEF WellFormed
  <2>3. ASSUME NEW op \in {"remove", "reset", "delete_member"}, NEW v \in Users,
               c = DoTo(op, v)
        PROVE  WellFormed(c)
    <3>1. op \in Ops
      BY DEF Ops, ManageRoutes
    <3> QED BY <2>3, <3>1, DoToFields DEF WellFormed
  <2>4. ASSUME NEW v \in Users, NEW r \in Roles, c = MakeRole(v, r)
        PROVE  WellFormed(c)
    <3>1. c = [op |-> "role", who |-> v, role |-> r, level |-> Nil]
      BY <2>4 DEF MakeRole, DoTo, Do
    <3> QED BY <3>1 DEF WellFormed, Control, Ops
  <2>5. ASSUME NEW r \in {"admin", "member"}, NEW l \in Levels \cup {Nil}, c = NewAccount(r, l)
        PROVE  WellFormed(c)
    <3>1. c = [op |-> "add", who |-> Nil, role |-> r, level |-> l]
      BY <2>5 DEF NewAccount, Do
    <3> QED BY <3>1 DEF WellFormed, Control, Ops, Roles
  <2>6. \/ c \in Plain({"create", "rotate", "delete"})
        \/ \E op \in {"create", "grant"}, v \in Users : c \in Grants(op, v)
        \/ \E op \in {"remove", "reset", "delete_member"}, v \in Users : c = DoTo(op, v)
        \/ \E v \in Users, r \in Roles : c = MakeRole(v, r)
        \/ \E r \in {"admin", "member"}, l \in Levels \cup {Nil} : c = NewAccount(r, l)
    <3> DEFINE plain == Plain({"create", "rotate", "delete"})
               grants == UNION {Grants(op, v) : op \in {"create", "grant"}, v \in Users}
               named == {DoTo(op, v) : op \in {"remove", "reset", "delete_member"}, v \in Users}
               roles == {MakeRole(v, r) : v \in Users, r \in Roles}
               accounts == {NewAccount(r, l) : r \in {"admin", "member"},
                                               l \in Levels \cup {Nil}}
    <3>1. c \in plain \cup grants \cup named \cup roles \cup accounts
      BY DEF SentElsewhere
    <3>2. c \in grants => \E op \in {"create", "grant"}, v \in Users : c \in Grants(op, v)
      OBVIOUS
    <3>3. c \in named =>
            \E op \in {"remove", "reset", "delete_member"}, v \in Users : c = DoTo(op, v)
      OBVIOUS
    <3>4. c \in roles => \E v \in Users, r \in Roles : c = MakeRole(v, r)
      OBVIOUS
    <3>5. c \in accounts =>
            \E r \in {"admin", "member"}, l \in Levels \cup {Nil} : c = NewAccount(r, l)
      OBVIOUS
    <3> HIDE DEF plain, grants, named, roles, accounts
    <3> QED BY <3>1, <3>2, <3>3, <3>4, <3>5 DEF plain
  <2> QED BY <2>1, <2>2, <2>3, <2>4, <2>5, <2>6
<1>3. RowsTyped' /\ (session' => session) /\ (Me \in Accounts => Me \in Accounts' \/ ~session')
  BY <1>1, <1>2, WritesDo
<1>4. DataOK'
  BY <1>1, <1>3, ScreensAssumption DEF DataOK
<1>5. SignedInIsAccount'
  BY <1>3 DEF ScreensInv, SignedInIsAccount
<1>6. Placed' /\ DrawnControlsWork'
  <2>1. changes' > 0 /\ last'.drawn = {}
    BY <1>1
  <2> QED BY <1>1, <2>1, NothingDrawn DEF ScreensInv
<1> QED BY <1>2, <1>4, <1>5, <1>6 DEF ScreensInv

\* A session that ends leaves the page where it is.
LEMMA ExpireKeeps ==
  ASSUME ScreensInv, Expire
  PROVE  ScreensInv'
<1>1. /\ UNCHANGED <<role, level, project, key, must, page, changes>> /\ session' = FALSE
      /\ last' = [mine |-> FALSE, drawn |-> {}, own |-> FALSE]
  BY DEF Expire
<1>2. DataOK' /\ SignedInIsAccount'
  BY <1>1 DEF ScreensInv, DataOK, RowsTyped, SignedInIsAccount
<1>3. CanDelete(Me)' = CanDelete(Me)
  BY <1>1, RightsStay
<1>4. Placed'
  BY <1>1, <1>3 DEF ScreensInv, Placed, ControlsInPlace, FormsAlone, SnippetFollowsField,
     DangerIsEarned
<1>5. DrawnControlsWork'
  BY <1>1 DEF DrawnControlsWork
<1> QED BY <1>2, <1>4, <1>5 DEF ScreensInv

----------------------------------------------------------------------------
(* Every step.                                                             *)

LEMMA ScreensStart ==
  ASSUME ScreensInit
  PROVE  ScreensInv
<1>1. /\ role \in [Users -> Roles \cup {"free"}] /\ level \in [Users -> Levels \cup {Nil}]
      /\ project \in {"none", "live"} /\ key \in {0, 1} /\ session = FALSE /\ must \in BOOLEAN
      /\ page = Login /\ changes = 0
      /\ last = [mine |-> FALSE, drawn |-> {}, own |-> FALSE]
  BY DEF ScreensInit
<1>2. 0 \in 0..MaxKey /\ 1 \in 0..MaxKey /\ 0 \in 0..MaxChanges
  BY ScreensAssumption
<1>3. RowsTyped
  BY <1>1, <1>2 DEF RowsTyped
<1>4. DataOK
  BY <1>1, <1>2, <1>3 DEF DataOK
<1>5. Placed
  BY <1>1, LoginDrawn
<1>6. DrawnControlsWork /\ SignedInIsAccount
  BY <1>1 DEF DrawnControlsWork, SignedInIsAccount
<1> QED BY <1>4, <1>5, <1>6 DEF ScreensInv

\* A step that shows an error or leaves the page, and touches no account.
Harmless ==
  /\ UNCHANGED <<role, level, project, key, must, changes>>
  /\ session' \in {session, FALSE}
  /\ last' = [mine |-> FALSE, drawn |-> {}, own |-> FALSE]

\* What a step is: a request handled, one turned away, a quiet one, or somebody
\* else's.
LEMMA StepKinds ==
  ASSUME ScreensInv, ScreensNext
  PROVE  \/ \E c : FromPage(c) /\ c.op # "close" /\ Handle(c) /\ UNCHANGED changes
         \/ \E c : TurnAway(c) /\ UNCHANGED changes
         \/ Harmless /\ ScreensInv'
         \/ \E u \in Accounts, c \in SentElsewhere : Elsewhere(u, c)
<1>1. ASSUME NEW c \in Offered, Click(c)
      PROVE  \/ \E d : FromPage(d) /\ d.op # "close" /\ Handle(d) /\ UNCHANGED changes
             \/ \E d : TurnAway(d) /\ UNCHANGED changes
             \/ Harmless /\ ScreensInv'
  <2>1. FromPage(c) /\ FromPage(Meant(c))
    BY OfferedIsFromPage, MeantIsFromPage DEF ScreensInv
  <2>2. Meant(c).op # "close" /\ UNCHANGED changes
    BY <1>1 DEF Click, Meant, Do
  <2>3. CASE TurnAway(c)
    BY <2>2, <2>3
  <2>4. CASE Refuse(c)
    <3>1. /\ UNCHANGED <<data, changes>> /\ (page' = ErrorPage \/ page' = page)
          /\ last' = [mine |-> FALSE, drawn |-> {}, own |-> FALSE]
      BY <2>2, <2>4 DEF Refuse
    <3>2. ScreensInv'
      BY <3>1, RefuseKeeps
    <3> QED BY <3>1, <3>2 DEF Harmless, data
  <2>5. CASE Handle(Meant(c))
    BY <2>1, <2>2, <2>5
  <2>6. CASE Fail(Meant(c))
    <3>1. ScreensInv'
      BY <2>1, <2>2, <2>6, FailKeeps
    <3> QED BY <2>2, <2>6, <3>1 DEF Fail, Harmless, data
  <2> QED BY <1>1, <2>3, <2>4, <2>5, <2>6 DEF Click
<1>2. CASE Close
  BY <1>2, CloseKeeps DEF Close, Harmless, data
<1>3. ASSUME NEW c \in Plain({"home", "settings", "instance"} \cup TabOps), Visit(c)
      PROVE  \/ \E d : FromPage(d) /\ d.op # "close" /\ Handle(d) /\ UNCHANGED changes
             \/ \E d : TurnAway(d) /\ UNCHANGED changes
             \/ Harmless /\ ScreensInv'
  <2>1. FromPage(c) /\ UNCHANGED changes
    BY <1>3, VisitedIsFromPage DEF Visit
  <2>2. c.op # "close"
    <3>1. {"home", "settings", "instance"} \cup TabOps \in SUBSET (Ops \ {"add", "role"})
      BY DEF TabOps, Ops, Links, ReadRoutes
    <3>2. c.op \in {"home", "settings", "instance"} \cup TabOps
      BY <3>1, PlainWellFormed
    <3> QED BY <3>2 DEF TabOps
  <2>3. CASE TurnAway(c)
    BY <2>1, <2>3
  <2>4. CASE Handle(c)
    BY <2>1, <2>2, <2>4
  <2>5. CASE page' = ErrorPage /\ UNCHANGED data
             /\ last' = [mine |-> FALSE, drawn |-> {}, own |-> FALSE]
    BY <2>1, <2>5, RefuseKeeps DEF Harmless, data
  <2> QED BY <1>3, <2>3, <2>4, <2>5 DEF Visit
<1>4. CASE Expire
  BY <1>4, ExpireKeeps DEF Expire, Harmless
<1> QED BY <1>1, <1>2, <1>3, <1>4 DEF ScreensNext

LEMMA ScreensKept ==
  ASSUME ScreensInv, [ScreensNext]_screensVars
  PROVE  ScreensInv'
<1>1. CASE ScreensNext
  <2>1. ASSUME NEW c, FromPage(c), c.op # "close", Handle(c), UNCHANGED changes
        PROVE  ScreensInv'
    BY <2>1, HandleKeeps
  <2>2. ASSUME NEW c, TurnAway(c), UNCHANGED changes
        PROVE  ScreensInv'
    BY <2>2, TurnAwayKeeps
  <2>3. ASSUME NEW u \in Accounts, NEW c \in SentElsewhere, Elsewhere(u, c)
        PROVE  ScreensInv'
    BY <2>3, ElsewhereKeeps
  <2> QED BY <1>1, <2>1, <2>2, <2>3, StepKinds
<1>2. CASE UNCHANGED screensVars
  <2>1. UNCHANGED <<role, level, project, key, session, must, page, last, changes>>
    BY <1>2 DEF screensVars
  <2>2. ASSUME NEW c
        PROVE  Works(c)' <=> Works(c)
    <3>1. Accounts' = Accounts /\ SuperAdmins' = SuperAdmins /\ CanRead(Me)' = CanRead(Me)
          /\ CanManage(Me)' = CanManage(Me) /\ CanDelete(Me)' = CanDelete(Me)
          /\ CanCreateProjects(Me)' = CanCreateProjects(Me)
          /\ CanManageAccount(Me, c.who)' = CanManageAccount(Me, c.who)
      BY <2>1 DEF Accounts, SuperAdmins, CanRead, CanManage, CanDelete, CanCreateProjects,
         CanManageAccount
    <3>2. Routed(Me, c)' <=> Routed(Me, c)
      BY <2>1, <3>1 DEF Routed, RequireProjectAccess, RequireProjectManage,
         RequireProjectDelete, RequireSuperAdmin
    <3>3. Serves(Me, c)' <=> Serves(Me, c)
      BY <2>1, <3>1 DEF Serves, SetProjectAccess, RemoveProjectAccess, CreateMember,
         ResetMemberPassword, ChangeRole, DeleteMember, LocksProject
    <3>4. DrawnAnyway(c)' <=> DrawnAnyway(c)
      BY <2>1, <3>1 DEF DrawnAnyway
    <3> QED BY <3>1, <3>2, <3>3, <3>4 DEF Works, May
  <2>3. DrawnControlsWork'
    BY <2>1, <2>2 DEF ScreensInv, DrawnControlsWork, Works
  <2>4. DataOK' /\ SignedInIsAccount'
    BY <2>1 DEF ScreensInv, DataOK, RowsTyped, SignedInIsAccount, Accounts
  <2>5. Placed'
    BY <2>1, StaysPlaced DEF ScreensInv, data
  <2> QED BY <2>3, <2>4, <2>5 DEF ScreensInv
<1> QED BY <1>1, <1>2

LEMMA ScreensInvariant == ScreensSpec => []ScreensInv
<1>1. ScreensInit => ScreensInv
  BY ScreensStart
<1>2. ScreensInv /\ [ScreensNext]_screensVars => ScreensInv'
  BY ScreensKept
<1> QED BY <1>1, <1>2, PTL DEF ScreensSpec

\* Every variable keeps its type, whatever is clicked, by the reader or by others.
THEOREM ScreensTypes == ScreensSpec => []ScreensTypeOK
<1>1. ScreensInv => ScreensTypeOK
  BY DEF ScreensInv, DataOK, RowsTyped, Placed, ScreensTypeOK
<1> QED BY <1>1, ScreensInvariant, PTL

\* What a page offers works when it is drawn, the table of roles is true of every
\* account, and the snippet follows the field, for any accounts and any number of
\* changes behind the reader's back.
THEOREM ScreensSafe == ScreensSpec => []ScreensKeepTheirWord
<1>1. ScreensInv => ScreensKeepTheirWord
  BY TheTableIsTrue
     DEF ScreensInv, DataOK, RowsTyped, Placed, ScreensTypeOK, ScreensKeepTheirWord
<1> QED BY <1>1, ScreensInvariant, PTL

----------------------------------------------------------------------------
(* What stale pages give away: nothing.                                    *)

\* Ranks as numbers.
LEMMA Ranks ==
  /\ Rank("super_admin") = 3 /\ Rank("admin") = 2 /\ Rank("member") = 1
  /\ \A r : r \notin Roles => Rank(r) = 0
  BY DEF Rank, Roles

\* The reader's own write.
MineGives ==
  /\ \A w \in Users : level'[w] \notin {level[w], Nil} =>
       CanManage(Me) \/ (project = "none" /\ CanCreateProjects(Me))
  /\ \A w \in Users : role'[w] \in Roles /\ role'[w] # role[w] =>
       role[Me] = "super_admin" \/ (CanCreateProjects(Me) /\ Outranks(role[Me], role'[w]))
  /\ Rank(role'[Me]) <= Rank(role[Me])

\* Anybody's.
RowsGiven ==
  \A w \in SuperAdmins : level'[w] \notin {level[w], Nil} =>
    project = "none" /\ level'[w] = "maintainer"

LEMMA WritesGive ==
  ASSUME RowsTyped, NEW u \in Accounts, NEW c, WellFormed(c), May(u, c), Write(u, c)
  PROVE  RowsGiven /\ (u = Me => MineGives)
<1>1. /\ \A w \in Users : level'[w] \in {level[w], Nil} \/ Lets(u, w, level'[w])
      /\ \A w \in Users : role'[w] = role[w] \/ role'[w] \notin Roles \/ Names(u, w, role'[w])
      /\ role'[u] = role[u] \/ role'[u] \notin Roles \/ role[u] = "super_admin"
      /\ role[u] \in Roles /\ u \in Users
  BY WritesDo DEF Accounts
<1>2. RowsGiven
  <2>1. ASSUME NEW w \in SuperAdmins, level'[w] \notin {level[w], Nil}
        PROVE  project = "none" /\ level'[w] = "maintainer"
    <3>1. w \in Users /\ role[w] = "super_admin"
      BY DEF SuperAdmins
    <3>2. Lets(u, w, level'[w])
      BY <1>1, <2>1, <3>1
    <3>3. w \notin ListCandidatesForNewProject(u)
      BY <3>1 DEF ListCandidatesForNewProject
    <3> QED BY <3>1, <3>2, <3>3 DEF Lets
  <2> QED BY <2>1 DEF RowsGiven
<1>3. ASSUME u = Me
      PROVE  MineGives
  <2>1. \A w \in Users : level'[w] \notin {level[w], Nil} =>
          CanManage(Me) \/ (project = "none" /\ CanCreateProjects(Me))
    BY <1>1, <1>3 DEF Lets
  <2>2. \A w \in Users : role'[w] \in Roles /\ role'[w] # role[w] =>
          role[Me] = "super_admin" \/ (CanCreateProjects(Me) /\ Outranks(role[Me], role'[w]))
    BY <1>1, <1>3 DEF Names
  <2>3. Rank(role'[Me]) <= Rank(role[Me])
    <3>1. CASE role'[Me] = role[Me]
      BY <1>1, <1>3, <3>1, Ranks DEF Roles
    <3>2. CASE role'[Me] \notin Roles
      BY <1>1, <1>3, <3>2, Ranks DEF Roles
    <3>3. CASE role'[Me] \in Roles /\ role[Me] = "super_admin"
      BY <3>3, Ranks DEF Roles
    <3> QED BY <1>1, <1>3, <3>1, <3>2, <3>3
  <2> QED BY <2>1, <2>2, <2>3 DEF MineGives
<1> QED BY <1>2, <1>3

\* A step by somebody on a temporary password.
Held ==
  must =>
    /\ ~last'.mine
    /\ last'.drawn # {} => page'.url \in {"login", "change_password"} \/ ~must'

LEMMA HandlingHolds ==
  ASSUME ScreensInv, NEW c, FromPage(c), c.op # "close", Handle(c), UNCHANGED changes
  PROVE  Held /\ (last'.mine <=> c.op \in Writes)
<1>1. last'.mine <=> c.op \in Writes
  BY DEF Handle
<1>2. ASSUME must
      PROVE  /\ c.op \notin Writes
             /\ page'.url \in {"login", "change_password"} \/ ~must'
  <2>1. c.op \in {"login", "logout", "change_password"}
    BY <1>2 DEF Handle, Admitted, Public
  <2>2. c.op \notin Writes
    BY <2>1 DEF Writes
  <2>3. Credentials(c)
    BY <2>2 DEF Handle
  <2>4. CASE c.op = "change_password"
    <3>1. ~must'
      BY <2>3, <2>4 DEF Credentials
    <3> QED BY <2>2, <3>1
  <2>5. CASE c.op \in {"login", "logout"}
    <3>1. must'
      BY <1>2, <2>3, <2>5 DEF Credentials
    <3>2. PICK old, manage : page' \in Answers(c, manage, old)'
      BY DEF Handle
    <3>3. page' = SignedIn' \/ page' = Login'
      BY <2>5, <3>2, PageAnswers
    <3>4. page' = Login' \/ page' = ChangePassword'
      BY <3>1, <3>3 DEF SignedIn
    <3> QED BY <2>2, <3>4 DEF Login, ChangePassword, Page
  <2> QED BY <2>1, <2>2, <2>4, <2>5
<1> QED BY <1>1, <1>2 DEF Held

LEMMA TurningHolds ==
  ASSUME NEW c, TurnAway(c)
  PROVE  Held /\ ~last'.mine
<1>1. ~last'.mine
  BY DEF TurnAway
<1>2. page' = ChangePassword \/ page' = Login
  BY DEF TurnAway
<1>3. page'.url \in {"login", "change_password"}
  BY <1>2 DEF Login, ChangePassword, Page
<1> QED BY <1>1, <1>3 DEF Held

\* A step gives away no more than whoever takes it may give.
LEMMA StepsGive ==
  ASSUME ScreensInv, [ScreensNext]_screensVars
  PROVE  /\ ScreensNext => (last'.mine => MineGives) /\ Held
         /\ RowsGiven
<1>1. RowsTyped
  BY DEF ScreensInv, DataOK
<1>2. UNCHANGED level => RowsGiven
  BY DEF RowsGiven
<1>3. ASSUME NEW c, FromPage(c), c.op # "close", Handle(c), UNCHANGED changes
      PROVE  (last'.mine => MineGives) /\ Held /\ RowsGiven
  <2>1. Held /\ (last'.mine <=> c.op \in Writes)
    BY <1>3, HandlingHolds
  <2>2. CASE c.op \in Writes
    <3>1. c.op \notin Public
      BY <2>2 DEF Writes, Public
    <3>2. Me \in Accounts /\ May(Me, c) /\ Write(Me, c)
      BY <1>3, <2>2, <3>1, HandleDoes
    <3> QED BY <1>1, <1>3, <2>1, <3>2, WritesGive DEF FromPage
  <2>3. CASE c.op \notin Writes
    <3>1. UNCHANGED level
      BY <1>3, <2>3 DEF Handle, Credentials
    <3> QED BY <1>2, <2>1, <2>3, <3>1
  <2> QED BY <2>2, <2>3
<1>4. ASSUME NEW c, TurnAway(c)
      PROVE  (last'.mine => MineGives) /\ Held /\ RowsGiven
  <2>1. UNCHANGED level
    BY <1>4 DEF TurnAway, data
  <2> QED BY <1>2, <1>4, <2>1, TurningHolds
<1>5. CASE Harmless
  BY <1>2, <1>5 DEF Harmless, Held
<1>6. ASSUME NEW u \in Accounts, NEW c \in SentElsewhere, Elsewhere(u, c)
      PROVE  (last'.mine => MineGives) /\ Held /\ RowsGiven
  <2>1. ~last'.mine /\ last'.drawn = {} /\ May(u, c) /\ Write(u, c)
    BY <1>6 DEF Elsewhere
  <2>2. WellFormed(c)
    BY <1>6, ElsewhereKeeps
  <2>3. RowsGiven
    BY <1>1, <2>1, <2>2, WritesGive
  <2> QED BY <2>1, <2>3 DEF Held
<1>7. CASE UNCHANGED screensVars /\ ~ScreensNext
  BY <1>2, <1>7 DEF screensVars
<1>8. CASE ScreensNext
  BY <1>3, <1>4, <1>5, <1>6, <1>8, StepKinds
<1> QED BY <1>7, <1>8

\* However stale the page: a click on it hands out no level, role or row that its
\* reader could not give at that moment, and an account on a temporary password
\* changes nothing and gets nowhere, for any accounts and any changes behind it.
THEOREM StaleSafe == ScreensSpec => StalePagesGiveNothingAway
<1>1. ScreensInv /\ [ScreensNext]_screensVars =>
        [last'.mine =>
           /\ \A w \in Users : level'[w] \notin {level[w], Nil} =>
                CanManage(Me) \/ (project = "none" /\ CanCreateProjects(Me))
           /\ \A w \in Users : role'[w] \in Roles /\ role'[w] # role[w] =>
                role[Me] = "super_admin"
                  \/ (CanCreateProjects(Me) /\ Outranks(role[Me], role'[w]))
           /\ Rank(role'[Me]) <= Rank(role[Me])]_screensVars
  BY StepsGive DEF MineGives
<1>2. ScreensInv /\ [ScreensNext]_screensVars =>
        [\A w \in SuperAdmins : level'[w] \notin {level[w], Nil} =>
           project = "none" /\ level'[w] = "maintainer"]_screensVars
  BY StepsGive DEF RowsGiven
<1>3. ScreensInv /\ [ScreensNext]_screensVars =>
        [must =>
           /\ ~last'.mine
           /\ last'.drawn # {} =>
                page'.url \in {"login", "change_password"} \/ ~must']_screensVars
  BY StepsGive DEF Held
<1>4. ScreensSpec => GrantsComeFromAbove
  BY <1>1, ScreensInvariant, PTL DEF ScreensSpec, GrantsComeFromAbove
<1>5. ScreensSpec => NoRowForSuperAdmins
  BY <1>2, ScreensInvariant, PTL DEF ScreensSpec, NoRowForSuperAdmins
<1>6. ScreensSpec => TemporaryGoesNowhere
  BY <1>3, ScreensInvariant, PTL DEF ScreensSpec, TemporaryGoesNowhere
<1> QED BY <1>4, <1>5, <1>6 DEF StalePagesGiveNothingAway

============================================================================
