----------------------------- MODULE LogScreens -----------------------------
(***************************************************************************)
(* What a project's logs look like from the dashboard: the log viewer with *)
(* its search language, filter bar and infinite scroll, the export, the    *)
(* network list with its inspector, the counts of the overview and the     *)
(* groups of the errors screen.                                            *)
(*                                                                         *)
(* One browser and one download read the table while uploads add to it,    *)
(* setUser() re-attributes a launch and retention takes old rows away.     *)
(* A query is a string in the address; here it is the sequence of its      *)
(* tokens, and a value in it the sequence of its words.  Rows the live     *)
(* tail puts on top of the list are LogBroker's and not in this list.      *)
(***************************************************************************)
EXTENDS Integers, Sequences, FiniteSets, SequencesExt, Functions

CONSTANTS
  Logs, Fact,    \* logs the app may upload, and what each one says
  Uploaded,      \* those in the table at first, in the order they came
  StartedAt,     \* the launches, and the start their session row gives, or Nil
  People,        \* user ids setUser() may be called with
  Words, Levels, \* words of queries and of logs; LogLevels
  Odd, Dashed,   \* words with a colon, a quote, a backslash or a tab; with a dash in front
  Torn,          \* the odd words a field loses part of unless quoted: with a quote or a tab
  Garbled(_),    \* what a query reads as that has odd words loose in it: a filter, or
                 \* anything else for an error.  Which one is up to their characters
  Typed,         \* queries a person may type, paste or follow
  Addresses,     \* network addresses a person may open: the screens' links, bookmarks
  Span,          \* the labels of last:, and how far back each one reaches
  PageLimit, ExportLimit, NetworkLimit, \* rows of a page; of a page of an export; calls listed
  Ranges,        \* the overview's windows: [span, bucket], shortest first
  Keep,          \* RetentionDays
  FirstTime, LastTime, \* bounds of the model: the clock
  MaxClicks,     \* bound of the model: what the person does on the screens
  MaxOpen,       \* bound of the model: calls being opened at once
  Nil

Launches == DOMAIN StartedAt
Labels == DOMAIN Span
Fields == {"levels", "tags", "hidden", "network", "last", "print", "user", "text"}

\* A value of the search language, and what a query is made of.
Values == Seq(Words) \ {<<>>}
Names == {"level", "tag", "is", "last", "fingerprint", "user", "unknown", "stray", "stray tag"}
Tokens == [lead : BOOLEAN, neg : BOOLEAN, field : Names \cup {Nil}, words : Values]

ASSUME LogScreensAssumption ==
  /\ IsFiniteSet(Logs) /\ DOMAIN Fact = Logs
  /\ Uploaded \in Seq(Logs) /\ IsInjective(Uploaded)
  /\ \A l \in Logs : Fact[l].launch \in Launches /\ Fact[l].at \in 0..LastTime
  /\ \A l \in Logs : Fact[l].tags \subseteq Values /\ Fact[l].print \in Values \cup {<<>>}
  /\ {"network"} \cup Levels \cup Labels \subseteq Words /\ IsFiniteSet(Levels)
  /\ Torn \subseteq Odd /\ Torn \cap ({"network"} \cup Levels \cup Labels) = {}
  /\ People \subseteq Values /\ Typed \subseteq Seq(Tokens)
  /\ \A a \in Addresses : a.scope # Nil => a.show = ""
  /\ \A s \in Labels : Span[s] \in Nat
  /\ {PageLimit, ExportLimit, NetworkLimit, Keep} \subseteq Nat \ {0}
  /\ Ranges \in Seq([span : Nat \ {0}, bucket : Nat \ {0}])
  /\ \A i \in DOMAIN Ranges : Ranges[i].span % Ranges[i].bucket = 0
  /\ Ranges[1].span <= Keep
  /\ LastTime \in Nat /\ FirstTime \in 0..LastTime /\ MaxClicks \in Nat /\ MaxOpen \in Nat
  /\ Nil \notin Labels \cup Launches \cup Names \cup [at : Nat, id : Nat]

VARIABLES
  stored,   \* logs.id, in the order of insertion; 0: not uploaded
  expired,  \* logs whose deleted_at is set
  user,     \* sessions.user_id of each launch; <<>>: NULL
  now,
  page,     \* the screen and the toolbar the last page load drew
  rows,     \* #log-rows
  box,      \* #log-search and the answer under way to it, if there is one
  scroll,   \* the "Loading more..." request, or Nil
  net,      \* the address, #network-rows and #network-detail
  opening,  \* fragments of the inspector under way
  download, \* the export
  clicks,   \* what the person has done so far
  past      \* what the properties remember: the logs that matched all along, of the
            \* list, the box's answer and the export; has the table changed since net

table == <<stored, expired, user, now>>
listing == <<page, rows, box, scroll>>
logScreensVars ==
  <<stored, expired, user, now, page, rows, box, scroll, net, opening, download, clicks, past>>

-----------------------------------------------------------------------------
(* The search language (pkg/search) and its inverse.                       *)

NoFilter ==
  [levels |-> {}, tags |-> {}, hidden |-> {}, network |-> FALSE, last |-> Nil,
   print |-> <<>>, user |-> <<>>, text |-> <<>>]

\* lead: opened with a quote.  neg: opened with a dash.
Token(lead, neg, field, words) == [lead |-> lead, neg |-> neg, field |-> field, words |-> words]

\* One word on its own.  An odd one may be taken for a field, or open a quote.
Word(w) == Token(FALSE, w \in Dashed, IF w \in Odd THEN "stray" ELSE Nil, <<w>>)

\* name:value as it reads back when nothing is quoted: it ends at the first space, and a
\* quote or a tab in it is not part of the value.
Unquoted(neg, name, value) ==
  <<Token(FALSE, neg, IF Head(value) \in Torn THEN "stray tag" ELSE name, <<Head(value)>>)>> \o [i \in 1..(Len(value) - 1) |-> Word(value[i + 1])]

\* Slip: only a value with a quote or a colon in it is quoted.
QuotedIfOdd(name, value) ==
  IF \E i \in DOMAIN value : value[i] \in Odd THEN <<Token(name = Nil, FALSE, name, value)>>
  ELSE IF name = Nil THEN [i \in DOMAIN value |-> Word(value[i])]
  ELSE Unquoted(FALSE, name, value)

\* name:value, or text when name is Nil, with the value quoted where it has to be.
QuoteValue(name, value) ==
  IF Len(value) > 1 \/ value[1] \in Odd THEN <<Token(name = Nil, FALSE, name, value)>>
  ELSE IF name = Nil THEN <<Word(value[1])>>
  ELSE <<Token(FALSE, FALSE, name, value)>>

Refused == [ok |-> FALSE, filter |-> NoFilter]

\* One more token read into what came before it.
ReadToken(read, t) ==
  LET f == read.filter
      with(field, value) == [read EXCEPT !.filter[field] = value]
  IN  IF ~read.ok THEN read
      ELSE IF t.lead \/ (t.field = Nil /\ ~t.neg) THEN with("text", f.text \o t.words)
      ELSE IF t.neg /\ t.field # "tag" THEN Refused
      ELSE CASE t.field = "level" ->
                  IF t.words[1] \in Levels THEN with("levels", f.levels \cup {t.words[1]}) ELSE Refused
             [] t.field = "tag" ->
                  IF t.neg THEN with("hidden", f.hidden \cup {t.words}) ELSE with("tags", f.tags \cup {t.words})
             [] t.field = "last" ->
                  IF t.words[1] \in Labels THEN with("last", t.words[1]) ELSE Refused
             [] t.field = "is" ->
                  IF t.words = <<"network">> THEN with("network", TRUE) ELSE Refused
             [] t.field = "fingerprint" -> with("print", t.words)
             [] t.field = "user" -> with("user", t.words)
             [] OTHER -> Refused

ReadTokens(query) == FoldLeft(ReadToken, [ok |-> TRUE, filter |-> NoFilter], query)

Filters ==
  [levels : SUBSET Levels, tags : SUBSET Values, hidden : SUBSET Values, network : BOOLEAN,
   last : Labels \cup {Nil}, print : Seq(Words), user : Seq(Words), text : Seq(Words)]
IsFilter(f) == f \in Filters /\ IsFiniteSet(f.tags) /\ IsFiniteSet(f.hidden)

Strays(query) == \E i \in DOMAIN query : query[i].field \in {"stray", "stray tag"}

\* From a loose quote on, the words of a query are no longer its tokens.
ParseStray(query) ==
  IF IsFilter(Garbled(query)) THEN [ok |-> TRUE, filter |-> Garbled(query)] ELSE Refused

Parse(query) == IF Strays(query) THEN ParseStray(query) ELSE ReadTokens(query)

\* The terms of one set-valued field, in a fixed order.
Terms(neg, name, values) ==
  FlattenSeq([i \in 1..Cardinality(values) |-> Unquoted(neg, name, SetToSeq(values)[i])])

Query(f) ==
  Terms(FALSE, "level", {<<v>> : v \in f.levels})
    \o Terms(FALSE, "tag", f.tags) \o Terms(TRUE, "tag", f.hidden)
    \o (IF f.network THEN Unquoted(FALSE, "is", <<"network">>) ELSE <<>>)
    \o (IF f.last # Nil THEN Unquoted(FALSE, "last", <<f.last>>) ELSE <<>>)
    \o (IF f.print # <<>> THEN QuoteValue("fingerprint", f.print) ELSE <<>>)
    \o (IF f.user # <<>> THEN QuoteValue("user", f.user) ELSE <<>>)
    \o (IF f.text # <<>> THEN QuoteValue(Nil, f.text) ELSE <<>>)

\* Slip: the fields added later are forgotten.
IsBare(f) == f.levels = {} /\ f.tags = {} /\ f.hidden = {} /\ f.text = <<>>

IsEmpty(f) == Query(f) = <<>>

-----------------------------------------------------------------------------
(* The filter bar: every control is a link to the query it would make.     *)

WithLevelToggled(f, level) ==
  [f EXCEPT !.levels = IF level \in f.levels THEN f.levels \ {level} ELSE f.levels \cup {level}]

WithTagCycled(f, tag) ==
  CASE tag \in f.tags -> [f EXCEPT !.tags = @ \ {tag}, !.hidden = @ \cup {tag}]
    [] tag \in f.hidden /\ tag \notin f.tags -> [f EXCEPT !.hidden = @ \ {tag}]
    [] OTHER -> [f EXCEPT !.tags = @ \cup {tag}]

WithWindow(f, label) == [f EXCEPT !.last = IF f.last = label THEN Nil ELSE label]
WithNetworkOnly(f) == [f EXCEPT !.network = ~f.network]
WithoutSessionField(f) == [f EXCEPT !.user = <<>>]

Control(what, value, to) == [what |-> what, value |-> value, to |-> to]

LevelToggle(f, level) == Control("levels", <<level>>, WithLevelToggled(f, level))
TagChip(f, tag) == Control("tags", tag, WithTagCycled(f, tag))
WindowChip(f, label) == Control("last", <<label>>, WithWindow(f, label))
NetworkChip(f) == Control("network", <<"network">>, WithNetworkOnly(f))
SessionChip(f, value) == Control("user", value, WithoutSessionField(f))

\* The controls drawn for a page: what each one is, and the filter it leads to.
LogFilters(f, tags) ==
  {LevelToggle(f, v) : v \in Levels} \cup {TagChip(f, v) : v \in tags}
    \cup {WindowChip(f, s) : s \in Labels} \cup {NetworkChip(f)}
    \cup {SessionChip(f, u) : u \in {f.user} \ {<<>>}}

-----------------------------------------------------------------------------
(* Reading the table.                                                      *)

Visible == {l \in Logs : stored[l] > 0 /\ l \notin expired}

\* Where a log stands in (time_stamp, id).
Place(l) == [at |-> Fact[l].at, id |-> stored[l]]

\* Slip: the timestamp alone.
BeforeInTime(p, q) == p.at < q.at

Before(p, q) == p.at < q.at \/ (p.at = q.at /\ p.id < q.id)

Says(l, words) ==
  \E i \in 0..(Len(Fact[l].message) - Len(words)) :
    SubSeq(Fact[l].message, i + 1, i + Len(words)) = words

Since(f) == IF f.last = Nil THEN Nil ELSE now - Span[f.last]

\* The rows a filter lets through; since: its window, as a time.
Matching(f, since) ==
  {l \in Visible :
    /\ f.levels = {} \/ Fact[l].level \in f.levels
    /\ since = Nil \/ Fact[l].at >= since
    /\ f.network => Fact[l].call # Nil
    /\ f.print # <<>> => Fact[l].print = f.print
    /\ f.text # <<>> => Says(l, f.text)
    /\ f.user # <<>> => user[Fact[l].launch] = f.user
    /\ f.tags \subseteq Fact[l].tags /\ f.hidden \cap Fact[l].tags = {}}

\* ORDER BY time_stamp DESC, id DESC.
NewestFirst(logs) ==
  CHOOSE s \in SetToSeqs(logs) : \A i, j \in DOMAIN s : i < j =>
    Fact[s[i]].at > Fact[s[j]].at \/ (Fact[s[i]].at = Fact[s[j]].at /\ stored[s[i]] > stored[s[j]])

\* LogRepo.List: one row more than the page says whether there is another.
List(f, since, cursor, limit) ==
  LET found == {l \in Matching(f, since) : cursor = Nil \/ Before(Place(l), cursor)}
      all == NewestFirst(found)
      more == Len(all) > limit
      items == IF more THEN SubSeq(all, 1, limit) ELSE all
  IN  [items |-> items, more |-> IF more THEN Place(items[limit]) ELSE Nil]

\* LogQueryService.ListLogs: every page parses the query again.
ListLogs(query, cursor) ==
  LET read == Parse(query)
  IN  [ok |-> read.ok, filter |-> read.filter, page |-> List(read.filter, Since(read.filter), cursor, PageLimit)]

TagCounts(since) ==
  UNION {Fact[l].tags : l \in {m \in Visible : since = Nil \/ Fact[m].at >= since}}

\* Slip: a raw query counts the rows retention has marked as well.
GroupsOfAllRows ==
  {[print |-> p, count |-> Cardinality({l \in Logs : stored[l] > 0 /\ Fact[l].print = p})] :
     p \in {Fact[l].print : l \in Visible} \ {<<>>}}

\* GetErrorGroups: the fingerprints in use and how many logs carry each.
ErrorGroups ==
  {[print |-> p, count |-> Cardinality({l \in Visible : Fact[l].print = p})] :
     p \in {Fact[l].print : l \in Visible} \ {<<>>}}

-----------------------------------------------------------------------------
(* The overview.                                                           *)

Truncated(t, bucket) == t - (t % bucket)

\* GetOverview over one window: when it starts, its columns, and the period before it.
GetOverview(w) ==
  LET columns == w.span \div w.bucket
      start == Truncated(now, w.bucket) - (columns - 1) * w.bucket
      column(l) == (Fact[l].at - start) \div w.bucket
  IN  [start |-> start,
       buckets |-> [i \in 1..columns |->
                     Cardinality({l \in Visible : Fact[l].at >= start /\ column(l) = i - 1})],
       prev |-> Cardinality({l \in Visible : Fact[l].at >= start - w.span /\ Fact[l].at < start})]

OverviewWindowsFor(keep) == {Ranges[i] : i \in {j \in DOMAIN Ranges : Ranges[j].span <= keep}}

\* The window a range= in the address gets.
OverviewWindowFor(range, keep) ==
  IF Ranges[range] \in OverviewWindowsFor(keep) THEN Ranges[range] ELSE Ranges[1]

\* Slip: the window itself fits.
FitsRetention(w, keep) == w.span <= keep

ComparableAgainstPrevious(w, keep) == 2 * w.span <= keep

\* The column each bucket is drawn as: when it begins, and what it holds.
ActivityChart(w) ==
  LET o == GetOverview(w)
  IN  [i \in DOMAIN o.buckets |-> [from |-> o.start + (i - 1) * w.bucket, logs |-> o.buckets[i]]]

\* "Total logs", with the change since the period before or none.
StatTile(w) ==
  LET o == GetOverview(w)
      logs == SumFunction(o.buckets)
  IN  [value |-> logs, delta |-> IF ComparableAgainstPrevious(w, Keep) THEN logs - o.prev ELSE Nil]

-----------------------------------------------------------------------------
(* Network calls and the inspector.                                        *)

PhaseLogs(call) == {l \in Visible : Fact[l].call = call}
PhasesOf(call) == {Fact[l].phase : l \in PhaseLogs(call)}

Earliest(times) == CHOOSE t \in times : \A s \in times : t <= s

NetworkCall(call) ==
  [id |-> call, phases |-> PhasesOf(call),
   started |-> Earliest({Fact[l].at : l \in PhaseLogs(call)}),
   failed |-> \E l \in PhaseLogs(call) : Fact[l].phase = "error" \/ Fact[l].failed]

\* ListNetworkCalls.  scope: one launch, or Nil.  show: the toolbar.
ListNetworkCalls(scope, show) ==
  LET calls == {Fact[l].call : l \in {m \in Visible : scope \in {Nil, Fact[m].launch}}} \ {Nil}
      kept == {c \in {NetworkCall(id) : id \in calls} : show = "failed" => c.failed}
      sorted == CHOOSE s \in SetToSeqs(kept) :
                  \A i, j \in DOMAIN s : i < j => s[i].started >= s[j].started
  IN  IF Len(sorted) > NetworkLimit THEN SubSeq(sorted, 1, NetworkLimit) ELSE sorted

AvailableTabs(phases) ==
  IF phases = {} THEN {}
  ELSE {"headers"} \cup (IF "request" \in phases THEN {"payload"} ELSE {})
         \cup ({"response", "error"} \cap phases)

DefaultTab(phases) ==
  IF phases = {} THEN "" ELSE
  LET order == <<"error", "response", "payload", "headers">>
  IN  order[Min({i \in 1..4 : order[i] \in AvailableTabs(phases)})]

\* An address of the inspector.  rid: absent (Nil), closed on purpose (""), a call.
Address(scope, show, rid, tab) == [scope |-> scope, show |-> show, rid |-> rid, tab |-> tab]

\* Slip: the links forget what the list is filtered to.
PageHrefUnfiltered(address) == [address EXCEPT !.show = ""]

\* What a selection puts in the address bar.  A launch's list has no toolbar.
PageHref(address) == IF address.scope = Nil THEN address ELSE [address EXCEPT !.show = ""]

\* The call rid names, the newest without an opinion, or none.
SelectedCall(calls, rid) ==
  LET named == {i \in DOMAIN calls : rid = Nil \/ calls[i].id = rid}
  IN  IF named = {} THEN Nil ELSE calls[Min(named)].id

\* Slip: whatever the address says.
PaneAsAsked(call, phases, tab) ==
  [call |-> call, phases |-> phases, tab |-> IF tab = "" THEN DefaultTab(phases) ELSE tab]

\* A pane on these phases with the tab asked for, if it is there.
Pane(call, phases, tab) ==
  [call |-> call, phases |-> phases,
   tab |-> IF tab \in AvailableTabs(phases) THEN tab ELSE DefaultTab(phases)]

\* What the tab's body says of the phases.
HeadersTab(phases) ==
  IF "response" \in phases THEN "both" ELSE IF "error" \in phases THEN "failed" ELSE "waiting"

BodyTab(phases, phase) == IF phase \in phases THEN "body" ELSE "never recorded"
ErrorTab(phases) == IF "error" \in phases THEN "exception" ELSE "did not fail"

PhaseBody(pane) ==
  CASE pane.tab = "headers" -> HeadersTab(pane.phases)
    [] pane.tab = "payload" -> BodyTab(pane.phases, "request")
    [] pane.tab = "response" -> BodyTab(pane.phases, "response")
    [] pane.tab = "error" -> ErrorTab(pane.phases)
    [] OTHER -> "nothing"

NoPane == [call |-> Nil, phases |-> {}, tab |-> ""]

\* What "since launch" counts from: the session row, else the earliest call.
SessionStart(scope, calls) ==
  CASE scope = Nil \/ (StartedAt[scope] = Nil /\ calls = <<>>) -> Nil
    [] scope # Nil /\ StartedAt[scope] # Nil -> StartedAt[scope]
    [] OTHER -> calls[Len(calls)].started

-----------------------------------------------------------------------------
(* Page loads.                                                             *)

NoList == [query |-> <<>>, filter |-> NoFilter, of |-> {}, items |-> <<>>, more |-> Nil, fired |-> FALSE]
NoBox == [typed |-> <<>>, last |-> <<>>, answer |-> {}]
NoNet == [scope |-> Nil, show |-> "", address |-> Address(Nil, "", Nil, ""), calls |-> <<>>,
          lit |-> Nil, pane |-> NoPane, start |-> Nil, fresh |-> FALSE]

Screen(name) ==
  [screen |-> name, query |-> <<>>, bad |-> FALSE, filter |-> NoFilter, tags |-> {}, empty |-> "",
   by |-> [what |-> "", value |-> <<>>], had |-> FALSE]

NotStarted == [state |-> "none", filter |-> NoFilter, since |-> Nil, items |-> <<>>, more |-> Nil]

\* Which of the two empties an empty list shows.
LogViewerEmpty(f) == IF IsEmpty(f) THEN "none" ELSE "filtered"

\* What was asked, a list of what came back first.
FirstPage(query, filter, found) ==
  [query |-> query, filter |-> filter, of |-> {filter}, items |-> found.items, more |-> found.more,
   fired |-> FALSE]

Click == clicks < MaxClicks /\ clicks' = clicks + 1

\* A query the parser refuses is shown as it is over the unfiltered list.
\* by: the control that led here.
LogViewer(query, by) ==
  LET read == Parse(query)
      found == List(read.filter, Since(read.filter), Nil, PageLimit)
  IN  /\ Click
      /\ page' = [Screen("logs") EXCEPT
           !.query = query, !.bad = ~read.ok, !.filter = read.filter,
           !.tags = TagCounts(Since(read.filter)), !.by = by, !.had = Visible # {},
           !.empty = IF found.items = <<>> THEN LogViewerEmpty(read.filter) ELSE ""]
      /\ rows' = FirstPage(query, read.filter, found)
      /\ box' = [NoBox EXCEPT !.typed = query, !.last = query]
      /\ scroll' = Nil
      /\ past' = [past EXCEPT !.list = Matching(read.filter, Since(read.filter)), !.box = {}]
      /\ net' = NoNet /\ opening' = {}
      /\ UNCHANGED <<table, download>>

Opened == [what |-> "opened", value |-> <<>>]
OpenLogs(query) == LogViewer(query, Opened)

\* A click on the filter bar.
Follow(c) == page.screen = "logs" /\ LogViewer(Query(c.to), [what |-> c.what, value |-> c.value])

\* "View in logs" on the errors screen.
ViewInLogs(g) == LogViewer(Query([NoFilter EXCEPT !.print = g.print]), Opened)

\* The network screen, or a launch's Network tab: the same view on an address.
NetworkView(address) ==
  LET calls == ListNetworkCalls(address.scope, address.show)
      selected == SelectedCall(calls, address.rid)
  IN  [scope |-> address.scope, show |-> address.show, address |-> address, calls |-> calls,
       lit |-> selected,
       pane |-> IF selected = Nil THEN NoPane ELSE Pane(selected, PhasesOf(selected), address.tab),
       start |-> SessionStart(address.scope, calls), fresh |-> TRUE]

\* Which of the two empties an empty list shows.  A launch's tab says its own.
NetworkEmpty(scope, show) == IF scope = Nil /\ show = "" THEN "none" ELSE "filtered"

OpenNetwork(address) ==
  /\ Click
  /\ net' = NetworkView(address)
  /\ page' = [Screen("network") EXCEPT
       !.empty = IF net'.calls = <<>> THEN NetworkEmpty(address.scope, address.show) ELSE "",
       !.had = \E l \in Visible : Fact[l].call # Nil]
  /\ rows' = NoList /\ box' = NoBox /\ scroll' = Nil /\ opening' = {}
  /\ past' = [past EXCEPT !.list = {}, !.box = {}]
  /\ UNCHANGED <<table, download>>

\* The filter above a project's calls.
NetworkToolbar(show) ==
  /\ page.screen = "network" /\ net.scope = Nil
  /\ OpenNetwork(Address(Nil, show, Nil, ""))

-----------------------------------------------------------------------------
(* The search box and the scroll.                                          *)

Type(query) ==
  /\ page.screen = "logs" /\ query # box.typed
  /\ Click
  /\ box' = [box EXCEPT !.typed = query]
  /\ UNCHANGED <<table, page, rows, scroll, net, opening, download, past>>

\* keyup changed: one request of the box at a time, the latest text after it.
LogsPartial ==
  LET got == ListLogs(box.typed, Nil)
  IN  /\ box.answer = {} /\ box.typed # box.last
      /\ box' = [box EXCEPT !.last = box.typed, !.answer = {got}]
      /\ past' = [past EXCEPT !.box = IF got.ok THEN Matching(got.filter, Since(got.filter)) ELSE {}]
      /\ UNCHANGED <<table, page, rows, scroll, net, opening, download, clicks>>

\* Slip: an answer is drawn wherever the list now is.
KeptAnswer(request) == request

\* What becomes of the scroll's request when the element that sent it is replaced.
Detached(request) == Nil

\* The answer replaces what is inside #log-rows; an error draws nothing.
DrawSearch(answer) ==
  /\ box' = [box EXCEPT !.answer = {}]
  /\ IF answer.ok
     THEN /\ rows' = FirstPage(box.last, answer.filter, answer.page)
          /\ scroll' = Detached(scroll)
          /\ past' = [past EXCEPT !.list = past.box, !.box = {}]
     ELSE UNCHANGED <<rows, scroll, past>>
  /\ UNCHANGED <<table, page, net, opening, download, clicks>>

\* "Loading more..." comes into view, once.
ScrollDown ==
  /\ rows.more # Nil /\ ~rows.fired /\ scroll = Nil
  /\ scroll' = ListLogs(rows.query, rows.more)
  /\ rows' = [rows EXCEPT !.fired = TRUE]
  /\ UNCHANGED <<table, page, box, net, opening, download, clicks, past>>

\* The answer takes the place of the element that asked for it.
LogRows ==
  /\ scroll # Nil
  /\ scroll' = Nil
  /\ rows' = IF ~scroll.ok THEN rows
             ELSE [rows EXCEPT !.items = @ \o scroll.page.items, !.more = scroll.page.more,
                               !.of = @ \cup {scroll.filter}, !.fired = FALSE]
  /\ UNCHANGED <<table, page, box, net, opening, download, clicks, past>>

-----------------------------------------------------------------------------
(* The export: one query, parsed once, a page at a time.                   *)

ExportLogs ==
  LET read == Parse(page.query)
  IN  /\ page.screen = "logs" /\ read.ok /\ download.state = "none"
      /\ Click
      /\ download' = [NotStarted EXCEPT !.state = "running", !.filter = read.filter, !.since = Since(read.filter)]
      /\ past' = [past EXCEPT !.export = Matching(read.filter, Since(read.filter))]
      /\ UNCHANGED <<table, listing, net, opening>>

ExportPage ==
  LET got == List(download.filter, download.since, download.more, ExportLimit)
  IN  /\ download.state = "running"
      /\ download' = [download EXCEPT
           !.items = @ \o got.items, !.more = got.more,
           !.state = IF got.more = Nil THEN "complete" ELSE "running"]
      /\ UNCHANGED <<table, listing, net, opening, clicks, past>>

-----------------------------------------------------------------------------
(* The inspector.                                                          *)

\* A row, a tab or the close button: the list is read again...
NetworkInspector(rid, tab) ==
  LET calls == ListNetworkCalls(net.scope, net.show)
  IN  /\ Cardinality(opening) < MaxOpen
      /\ Click
      /\ opening' = opening \cup
           {[scope |-> net.scope, show |-> net.show, tab |-> tab, calls |-> calls,
             address |-> PageHref(Address(net.scope, net.show, rid, tab)),
             lit |-> SelectedCall(calls, rid), pane |-> Nil, fresh |-> TRUE]}
      /\ UNCHANGED <<table, listing, net, download, past>>

OpenCall(c) == NetworkInspector(c.id, "")
OpenTab(tab) == NetworkInspector(net.pane.call, tab)
CloseInspector == net.pane.call # Nil /\ NetworkInspector("", "")

\* ... then the phases of the call it selects ...
GetNetworkRequest(o) ==
  /\ o.pane = Nil
  /\ opening' = (opening \ {o}) \cup
       {[o EXCEPT !.pane = IF o.lit = Nil THEN NoPane ELSE Pane(o.lit, PhasesOf(o.lit), o.tab)]}
  /\ UNCHANGED <<table, listing, net, download, clicks, past>>

\* Slip: the rows stay as they were.
NetworkRowsStay(o) == [calls |-> net.calls, lit |-> net.lit]

\* The rows that ride along out of band.
NetworkRowsOOB(o) == [calls |-> o.calls, lit |-> o.lit]

\* ... and the pane, the rows and the address change together.
DrawInspector(o) ==
  LET oob == NetworkRowsOOB(o)
  IN  /\ o.pane # Nil
      /\ opening' = opening \ {o}
      /\ net' = [net EXCEPT !.calls = oob.calls, !.lit = oob.lit, !.pane = o.pane,
                            !.address = o.address, !.start = SessionStart(o.scope, o.calls),
                            !.fresh = o.fresh]
      /\ UNCHANGED <<table, listing, download, clicks, past>>

-----------------------------------------------------------------------------
(* What changes the table.                                                 *)

\* The logs each reader's filter lets through now.
Wanted ==
  [list |-> Matching(rows.filter, Since(rows.filter)),
   box |-> UNION {Matching(a.filter, Since(a.filter)) : a \in box.answer},
   export |-> Matching(download.filter, download.since)]

Still(wanted) ==
  [list |-> past.list \cap wanted.list, box |-> past.box \cap wanted.box,
   export |-> past.export \cap wanted.export]

Remember ==
  /\ UNCHANGED <<listing, download, clicks>>
  /\ past' = Still(Wanted')
  /\ net' = [net EXCEPT !.fresh = FALSE]
  /\ opening' = {[o EXCEPT !.fresh = FALSE] : o \in opening}

Upload(l) ==
  /\ stored[l] = 0 /\ Fact[l].at <= now
  /\ stored' = [stored EXCEPT ![l] = Cardinality({m \in Logs : stored[m] > 0}) + 1]
  /\ UNCHANGED <<expired, user, now>>
  /\ Remember

SetUser(s, u) ==
  /\ user[s] # u
  /\ user' = [user EXCEPT ![s] = u]
  /\ UNCHANGED <<stored, expired, now>>
  /\ Remember

\* The nightly clean-up (Retention).
Cleanup ==
  LET old == {l \in Visible : Fact[l].at < now - Keep}
  IN  /\ old # {}
      /\ expired' = expired \cup old
      /\ UNCHANGED <<stored, user, now>>
      /\ Remember

Tick ==
  /\ now < LastTime
  /\ now' = now + 1
  /\ UNCHANGED <<stored, expired, user, listing, net, opening, download, clicks>>
  /\ past' = Still(Wanted')

-----------------------------------------------------------------------------

LogScreensInit ==
  /\ stored = [l \in Logs |-> SelectInSeq(Uploaded, LAMBDA m : m = l)]
  /\ expired = {} /\ user = [s \in Launches |-> <<>>] /\ now = FirstTime
  /\ page = Screen("none") /\ rows = NoList /\ box = NoBox /\ scroll = Nil
  /\ net = NoNet /\ opening = {} /\ download = NotStarted /\ clicks = 0
  /\ past = [list |-> {}, box |-> {}, export |-> {}]

LogScreensNext ==
  \/ \E q \in Typed : OpenLogs(q) \/ Type(q)
  \/ \E c \in LogFilters(page.filter, page.tags) : Follow(c)
  \/ \E g \in ErrorGroups : ViewInLogs(g)
  \/ LogsPartial \/ (\E a \in box.answer : DrawSearch(a)) \/ ScrollDown \/ LogRows
  \/ ExportLogs \/ ExportPage
  \/ \E a \in Addresses : OpenNetwork(a)
  \/ \E show \in {"", "failed"} : NetworkToolbar(show)
  \/ \E i \in DOMAIN net.calls : OpenCall(net.calls[i])
  \/ \E tab \in AvailableTabs(net.pane.phases) : OpenTab(tab)
  \/ CloseInspector
  \/ \E o \in opening : GetNetworkRequest(o) \/ DrawInspector(o)
  \/ \E l \in Logs : Upload(l)
  \/ \E s \in Launches, u \in People : SetUser(s, u)
  \/ Cleanup \/ Tick

LogScreensSpec == LogScreensInit /\ [][LogScreensNext]_logScreensVars

-----------------------------------------------------------------------------
(* Properties.                                                             *)

\* Every variable keeps its shape; an open inspector is on one of its four tabs.
LogScreensTypeOK ==
  /\ stored \in [Logs -> 0..Cardinality(Logs)] /\ expired \subseteq Logs
  /\ user \in [Launches -> People \cup {<<>>}] /\ now \in FirstTime..LastTime
  /\ page.screen \in {"none", "logs", "network"} /\ \A f \in {page.filter, rows.filter, download.filter} : DOMAIN f = Fields
  /\ net.pane.tab \in {"", "error", "response", "payload", "headers"}
  /\ Cardinality(opening) <= MaxOpen /\ clicks \in 0..MaxClicks
  /\ download.state \in {"none", "running", "complete"}

\* Rows of two queries are never in one list, and with no answer on its way the list is
\* what the search box last asked for, unless that was no query at all: the rows are
\* swapped by the search (log_viewer.templ, #log-rows) while "Loading more..." is still
\* waiting for a page of the query before.
RowsAreOfOneQuery ==
  LET asked == Parse(box.last)
  IN  /\ rows.of \subseteq {rows.filter}
      /\ page.screen = "logs" /\ asked.ok /\ box.answer = {} => rows.filter = asked.filter

\* items runs newest first, has no log twice, and every log of wanted is in it or comes
\* after it.
NoneLeftOut(items, more, wanted) ==
  /\ \A i, j \in DOMAIN items : i < j => Before(Place(items[j]), Place(items[i]))
  /\ \A l \in wanted :
       \/ \E i \in DOMAIN items : items[i] = l
       \/ more # Nil /\ Before(Place(l), more)

\* A list read a page at a time while the table changes under it leaves out no log that
\* matched from its first page to now, and repeats none: on the screen as in a file the
\* export wrote.  The cursor is (time_stamp, id), for logs of one batch share a timestamp.
ListingsLeaveNothingOut ==
  /\ NoneLeftOut(rows.items, rows.more, past.list)
  /\ download.items # <<>> \/ download.state = "complete" =>
       NoneLeftOut(download.items, download.more, past.export)

\* A list is the whole answer to one query, however it was put together.
ListingsAreWhole == LogScreensTypeOK /\ RowsAreOfOneQuery /\ ListingsLeaveNothingOut

\* "No logs yet" is said of a project with no logs, never of a search with no match, and
\* "No network calls yet" of one with no calls: IsEmpty is asked of the query the filter
\* would make, whichever field is set.
EmptyIsHonest == page.empty = "none" => ~page.had

\* A value that is not lost when it is written as it is: one word, no quote, no tab.
NeedsNoQuotes(value) == Len(value) = 1 /\ value[1] \notin Torn

\* What Query writes the way Parse reads it: Terms quotes no tag, whether it has a space,
\* a quote or a tab in it, and QuoteValue no text with a dash in front, though
\* "Parse(f.Query()) must equal f" (search_query.go:15).
Linkable(f) ==
  /\ \A t \in f.tags \cup f.hidden : NeedsNoQuotes(t)
  /\ Len(f.text) = 1 => f.text[1] \notin Dashed

\* A control of the filter bar changes its own part of the filter and nothing else: the
\* link is a query written by Query() and read back by Parse on the next page.
LinksChangeOneThing ==
  [][LET what == page'.by.what
         own == IF what = "tags" THEN {"tags", "hidden"} ELSE {what}
     IN  /\ what \in Fields /\ Linkable(page.filter)
         /\ what = "tags" => NeedsNoQuotes(page'.by.value)
         => /\ ~page'.bad
            /\ \E field \in own : page'.filter[field] # page.filter[field]
            /\ \A field \in Fields \ own : page'.filter[field] = page.filter[field]]_page

\* "View in logs" of an error group lists as many logs as the group counts, whatever the
\* app put in the fingerprint: two queries of their own, one through the search language.
GroupsOpenTheirLogs ==
  \A g \in ErrorGroups :
    LET read == Parse(Query([NoFilter EXCEPT !.print = g.print]))
    IN  read.ok /\ Cardinality(Matching(read.filter, Nil)) = g.count

\* The overview never counts over a period retention has taken logs from: whatever range
\* an address asks for, each column and the tile count every log ever uploaded to theirs,
\* and a change is against a period of which that is true too (ComparableAgainstPrevious).
OverviewIsHonest ==
  LET ever(from, to) == Cardinality({l \in Logs : stored[l] > 0 /\ Fact[l].at >= from /\ Fact[l].at < to})
  IN  \A range \in DOMAIN Ranges :
        LET w == OverviewWindowFor(range, Keep)
            bars == ActivityChart(w)
            tile == StatTile(w)
            start == bars[1].from
            shown == ever(start, start + w.span)
        IN  /\ \A i \in DOMAIN bars : bars[i].logs = ever(bars[i].from, bars[i].from + w.bucket)
            /\ tile.value = shown
            /\ tile.delta \in {Nil, shown - ever(start - w.span, start)}

\* What the screens say about the table is so: that it is empty, how many logs a
\* group has, how many a period had and the period before.
CountsAreHonest == EmptyIsHonest /\ GroupsOpenTheirLogs /\ OverviewIsHonest

\* The row that is lit is the call the pane shows, and is in the list beside it: both
\* come from one answer, though answers to two clicks may arrive in either order.
OneCallLit ==
  /\ net.lit = net.pane.call
  /\ net.lit # Nil => \E i \in DOMAIN net.calls : net.calls[i].id = net.lit

\* The address bar rebuilds the screen: while the table is as the answer found it, a
\* reload draws the list, the lit row, the pane and its tab again.
AddressRebuilds ==
  net.fresh =>
    LET again == NetworkView(net.address)
    IN  /\ again.calls = net.calls /\ again.lit = net.lit
        /\ again.pane = net.pane /\ again.start = net.start

\* The pane never says a phase is missing that a tab promised, also after a link to a tab
\* whose phase was never captured or is gone: no tab at all means nothing was found.
TabHasSomething ==
  /\ PhaseBody(net.pane) \notin {"never recorded", "did not fail"}
  /\ PhaseBody(net.pane) = "nothing" <=> net.pane.phases = {}

\* List, pane, tab and address say the same, whichever answer came last.
InspectorAgrees == OneCallLit /\ AddressRebuilds /\ TabHasSomething
=============================================================================
