# CodeScout in TLA+

TLA+ specifications of the CodeScout server (the Go program under `src/`), the
TLC configurations that check them on small instances, and TLAPS proofs of the
results that hold for every instance. `PROJECT.json` lists the runs, the lines
of source each definition models, the hazards the properties are aimed at and
the theorems.

## The system

CodeScout collects logs from mobile apps. Phones upload batches of logs, which
the server stores in Postgres and shows on a dashboard. A *live tail* shows
uploads as they arrive. A *live session* pairs one phone with the dashboard
over a WebSocket, streams its logs without storing them, and lets the dashboard
put questions to the phone (the database browser).

| Component | State | Operations | Interacts with |
|---|---|---|---|
| Live hub `internal/live/hub.go` | sessions, pairing codes, replay rings, watcher channels, pending questions, all behind one mutex | Mint, Claim, AttachDevice, Publish, Touch, Deliver, Watch and Cancel, Ask, End, Sweep, Close | one DeviceSocket goroutine per phone, one WatchStream per dashboard, one Ask per question, the shutdown |
| Ingestion `log_handler.go`, `log_service.go`, `log_repo.go`, `usage_repo.go` | rows, launches, a counter per project and day | DumpLogs: read, check the cap, record launches, store and charge in one transaction, publish, answer | phones that retry; the broker; the settings; the retention job |
| Live tail `pkg/sse/broker.go`, `StreamLogs` | subscribers per project, a buffered channel each | Subscribe, Unsubscribe, Publish, Close | uploads publish; browsers come and go; the shutdown |
| Process `server/server.go`, `main.go` | running, draining, gone | signal, Shutdown with a deadline, Close of broker and hub | every handler that is running |
| Retention `retention_service.go`, `jobs/scheduler.go` | `deleted_at` of rows, launches, counters | nightly Cleanup, a sequence of statements | uploads, project deletion and settings changing while it runs |
| Members `member_service.go`, `access.go` | accounts, roles, memberships | create, change role, delete, grant and remove access | concurrent administrators |
| Credentials `auth_service.go`, `token_service.go`, `reset_password.go` | password hashes, sessions, tokens | register, login, logout, reset, change password, create and revoke tokens | concurrent requests, the command line |
| Projects `project_service.go` | projects, secrets, memberships, favourites | create, rename, rotate, star, delete with cascades, check a device's credentials | devices that authenticate, the access panel |
| Settings `instance_settings_service.go`, `version_service.go` | one row and its cache, the latest release | load, update one card, ask GitHub | everything that reads `Current()`; the views' clock |
| Database browser `live_db_handler.go`, `view/live_db.templ` | what the browser shows; the tables are on the phone | list, page, sort, edit a cell | `Hub.Ask`, the device, the app that writes the same tables, the MCP tools |
| Log screens `log_viewer_handler.go`, `log_query_service.go`, `log_repo.go`, `pkg/search` | what the browser shows, an export under way | search, filter, scroll, export, inspect a call, overview, error groups | uploads and retention changing the table between two pages |
| Dashboard `routes.go`, `dashboard_handler.go`, `members.templ`, ... | what the browser shows | every page, tab, sheet and dialog, and the gates behind them | other people changing rights behind an open page |

What is hard in it: the hub and the broker hand work from one critical section
to the next, close channels others send on, and drop what does not fit;
ingestion is a sequence of steps with different failure behaviour under a client
that retries; the account services check in one transaction and act in another;
the shutdown has two parties that wait for each other. The clean-up is a
sequence of statements beside everything else, any of which may be the last of
the night. And every screen is a picture of an earlier state: fragments are
asked for, answered late or never, and swapped into a page that has moved on.

What makes each part correct:

- hub: a code pairs one device, once; a channel is never used after it is
  closed; what a watcher sees has neither hole nor duplicate unless its buffer
  overflowed; an ended session stays ended and lets go of everyone;
- ingestion: no log is lost or stored twice; a project is charged for the rows
  it has; the cap is passed by a known amount at most; everything arrives;
- broker: no send on a closed channel, order, nothing lost silently but by a
  full buffer, places given back (the limit itself is Subscribe's guard);
- process: a signal ends it, and those who watch are told;
- retention: what is kept stays attributable and counted, nothing goes before
  its grace period, everything goes in the end;
- members: there is always a super admin; credentials: a reset signs everyone
  out; projects: one key in force, a deleted project grants nothing;
- settings: cards keep apart, the cache is the row, off means off;
- database browser: no edit overwrites what its author has not seen, none is
  refused for a row nobody touched, paging leaves no row out;
- log screens: a list read page by page is complete; a link changes one thing;
  pane, list and address agree; the overview does not count over deleted logs;
- dashboard: what is offered works, what is allowed is offered, a stale page
  gives nothing away.

## Modules

| Module | Models | Proofs |
|---|---|---|
| `LiveHub` | the hub and the goroutines that call it | `LiveHubProofs` |
| `Delivery` | what ingestion promises: logs are written, stored, shown | |
| `Ingest` | DumpLogs for one project, the phones as environment; implements `Delivery` | `IngestProofs` |
| `LogBroker` | the broker, StreamLogs, publishers, shutdown | `LogReadingProofs` |
| `Accounts` | members, roles, project access, passwords, sessions, tokens | `AccountsProofs` |
| `Retention` | Cleanup beside uploads, deletions and changes of the windows | `RetentionProofs` |
| `Projects` | projects, keys, stars, memberships, a device's credentials | `ProjectsProofs` |
| `Settings` | the settings row, its cache, the clock of the views, the version check | `DashboardProofs` |
| `Screens` | every control of the dashboard against every gate | `DashboardProofs` |
| `LiveDb` | the database browser over questions to the device | `LiveDbProofs` |
| `LogScreens` | log viewer, search language, export, network inspector, overview, error groups | `LogReadingProofs` |
| `MC...` | the instances the runs use | |

A definition whose comment begins with *Slip* is a plausible mistake in the
definition that follows it. No specification uses one; `PROJECT.json` pairs each
with the property that must fail when it takes the real definition's place.

### LiveHub

An action is a critical section of `Hub.mu`, or a step of a handler between two
of them. `sess[s]` is the hub's `session` with its `LiveSession`; `byCode` the
map of codes; `chan[w]` a watcher's channel together with the WatchStream
goroutine that owns it; `ask[r]` a call of `Ask` and its reply channel;
`conn[s]` and `handler[s]` the device's socket and its DeviceSocket goroutine.
`heard[w]` records what a dashboard was sent and is read by properties only.

- Mint and Claim sweep in the same critical section, as the code does.
  `Get` in a handler, ahead of Watch, End or Ask, is the action `Sweep`: time
  passes between the two calls, so any number of steps may fall between them.
- Watch and Cancel compute the watcher count under the lock and announce it
  after releasing it: `Announce` is an action of its own.
- Ask is four steps: register, write to the device, wait, clean up.
- `AttachDevice` arms a session whatever its state; that is the code.
- The clock is a counter of abstract ticks; `PairingCodeTTL`, `IdleTimeout` and
  `EndedTTL` are numbers of them.
- A frame of logs is fanned out in one action; a receive between two sends of
  the same frame gives the queues that two smaller frames give, and frames of
  every length are inputs.

### Ingest

One project. `upload[u]` is a request goroutine and `pc` the last step of
DumpLogs it has done; `phone[d]` is the device's SQLite and sync worker, which
are outside the repository: the server's comments say that a phone deletes a
batch on any 200 and keeps it otherwise. `rows` counts the rows of a client id,
`today` is the counter of the current day, `past` the sum of the earlier days',
`launched` the sessions table. `Store` is one transaction: rows and counter
commit together or not at all. Every failure is an action of its own that takes
one of `MaxFaults`: a hang-up, an archive that cannot be read, a counter that
cannot be read (the upload is let through), a launch that cannot be recorded (it
is swallowed), a failed transaction, a crash. Batches are not empty; contents,
fingerprints and network metadata of logs are left out. The cap is a constant;
changing it during the day belongs to the settings.

### Delivery

Three growing sets: written, stored, shown. A batch of any size moves from
written to stored and from stored to shown; nothing else ever happens. `Ingest`
implements it with `written` what phones have captured and `stored` the client
ids with a row: a replay, a failed transaction, a refusal and a crash are all
stutters. `Arrival` is the liveness half: written leads to stored.

### LogBroker

`subscribers` is the broker's map with a channel named after the request that
made it, `chan[v]` the channel, `viewer[v]` the StreamLogs goroutine,
`publisher[u]` a call of Publish in progress. Publish holds the lock for reading
only: `Publish` takes it, one `Deliver` per channel follows in any order, and
the write lock (`Unlocked`) is free when no publication is under way. `server`
is the process: after the signal no request is accepted, Shutdown returns when
every handler has returned or at its deadline, main exits at once on the
deadline's error and calls the two Close methods otherwise. `joined`, `sent`,
`lossy` and `overlapped` are read by properties only.

### Accounts

`account`, `sessions`, `tokens` and `members` are the four tables; `req[r]` is a
request with the rows it has read, and `pc` names the database statement it comes
to next. Requests interleave between statements, so what a request read may be
stale when it writes.

- Every request of a signed-in person begins with the middleware: `Begin` reads
  the session, `LoadActor` the account, and the rest of the handler works with
  that copy. An account on a temporary password gets to ChangePassword only.
- A transaction is one step, at its commit. The one of `guardLastSuperAdmin` is
  two: `Guard` counts and locks the rows of all super admins, the write follows,
  and `Unlocked` keeps every other writer of those rows out in between.
- ChangePassword and the reset-password command are not transactions: each of
  their statements is a step, and `Fail` may end the request before any of them,
  as it may end every request (a refusal, an error, a client that went away).
- Passwords are numbered: `pw` is the number of the account's current one.
  Sessions and tokens carry the number their account had when their row was
  written (`since`). That the right password was given is assumed wherever the
  code compares one; the refusal is `Fail`.
- Sessions and tokens have a foreign key to the account, memberships have none;
  that is the schema. A removed account's id is not used again: a person who is
  re-added is another element of `Users`.
- `from` says who chose the present password: its owner, the dashboard for them, or
  the reset-password command. The last two are temporary; the command stores its
  hash without setting `must`, as the code does.
- `past`, `from` and `calm` are read by properties only. `Operations` selects
  what clients ask for in a run.

### Retention

Each SQL statement of `RetentionService.Cleanup` is a step, with the branch the
code takes when it fails (`AfterFailure`): the soft delete and the purge of logs
end the run, the others do not. Times are ages in days, counted up by `Day`.
Uploads appear as far as the clean-up sees them: authenticate, upsert the
launch, insert. An upload carries the `last_seen_at` it was built with and may
arrive days later and in any order. The orphan purges go in batches of
`BatchSize`, at most `MaxBatches` a night. A crash may fall anywhere; the next
boot may or may not read the settings row. `past` marks the launches and logs
the exceptions of `Attributable` are about.

### Projects

A request is a goroutine and a statement of it a step; a transaction's writes
appear at its commit, and `lock` is the row lock of `LockProject`. `secret` is a
set of rows with their primary keys, so that two rows for one project could
exist; the first of them is the one a device is compared with. The cascade of
DeleteProject reads, then deletes what it read (`doomed`). Gates are those of
the middleware in front of each handler, with the rights read when the request
came in; a super admin's needs no row and does not look at the project. A
device's credentials are two statements, the project and its key.
`past.across` says that a star or a membership was written across a deletion, or
by a super admin after it. Keys are drawn at random in the code: here a key is
used once, and there are enough of them.

### Settings

One row of five cards, each a value that is 0 at its default. A setter is four
steps: copy the cache, look for the row, write the whole row, replace the cache.
The display card is two setters and two assignments the views render by. `Boot`
reads the row or fails open. `past.crossed` and `past.blind` mark the two
exceptions of `CardsKeepApart`: saves that overlap, and a process that never
read its row. The version check asks GitHub (external), records, publishes.

### Screens

One reader has a browser open: `page` has a frame, a pane, a sheet and a dialog,
each the set of controls its template draws. A control is an operation with the
account, role or level it would send. `Routed` is routes.go with its middleware,
`Serves` the services behind it; both are asked with the rights of the moment.
An accepted request writes and answers with the regions its handler renders, a
refused fragment leaves the page as it was (htmx drops it), a refused page
replaces it. Other people do what they may behind the page. `last` says what
the last step drew. Text, layout and the content of lists are left out.

### LiveDb

A fragment is a question put through the hub: asked by a page with what its
links say, answered by the device on what it holds by then, drawn when the
answer comes back to a page that may have moved on (`target`, `form`), or timed
out while the device may still run it (`late`). The device is external: it
updates a row only if the row still holds `was`. What converts is modelled by
what it does: values as JSON text in a form field and back (`ScalarJSON`,
`JsonScalar`), row handles through float64 (`Float`). `held` and `at` in an
editor are what the page was really shown; they are not sent and only the
properties read them. Columns are one, and a page ends where the device says.
The device may hold anything a column can hold at first, and rows are in the order
of their handles (`Nth`), upwards or downwards.

### LogScreens

A query is a sequence of tokens and a value a sequence of words, so that quoting
and its absence can be told apart: `Parse` and `Query` are the two directions of
the search language, with the quoting rules they have; `Words` is what queries
and logs are written in, `Nil` stands for what is absent. Odd words have a character in
them that a value has to be quoted for; loose in a query they may be taken for a
field or open a quotation (`Strays`), and then the text is no longer read word by
word: what comes of it depends on characters the model does not have, and is any
filter or an error (`Garbled`, a constant; the instance's is what its one such tag
gives). Words are not empty and have no white space at their ends, so a tag that is
the empty string, which Query writes as `tag:`, is not modelled. `List` is the query of
log_repo.go with its keyset cursor; rows are in the order of (time, id). The
search box keeps one request on its way (`box.answer`, empty or of one element)
and the latest text after it; the scroll
fires once per page and its answer is dropped when the element that asked is
gone. The inspector reads the calls, then the phases of the one selected, then
swaps pane, rows and address in one answer; several may be under way. An export
parses its query once and reads a page at a time. Uploads, setUser() and the
nightly clean-up change the table meanwhile. Field filters about a session are
one (`user:`); the live tail's rows on top of the list are `LogBroker`'s.

## Runs

| Run | Instance | Shows |
|---|---|---|
| `hub_sessions` | 2 sessions, 2 projects of 1 place, 2 codes, 2 questions | codes name waiting sessions; the pending map is the open questions |
| `hub_stream` | 1 device, 2 watchers for 1 place, 3 events in frames of up to 2, ring of 2, channel of 1 | types; neither hole nor duplicate; watchers in step (the sets are the open channels and the count is right); an ended session stays ended |
| `hub_liveness` | 1 of each, fairness | ending lets go: questions return, streams finish, handlers exit |
| `ingest` | 2 phones, 2 uploads, 3 logs with and 1 without an id, cap 2, batches of up to 2, 1 fault, fairness | nothing lost or stored twice; charges are right (one per row, and past the cap by one batch for each other upload at most); no launch from a refused upload; `Delivery` is implemented, so nothing is shown before it is stored; everything arrives |
| `tail` | 2 viewers for 1 place, 2 publishers, 3 batches, buffer 2, fairness | registered channels are the open ones; what a tail shows; tails let go (places are given back, a signal ends the process) |
| `accounts` | 2 accounts, 1 project, 3 requests of any kind | the guard's count holds until its write; a super admin remains until somebody is promoted; memberships are one per project and end with the account; no session or token row from before an eviction; a temporary password from the dashboard must be changed, unless a change of the owner crossed the reset |
| `retention` | 2 logs of 1 launch, 2 uploads, windows of 1 and of the refused 0 days, batches of 1, 1 fault, fairness | what is kept is whole (attributable, and counted while visible); what goes, goes in its time (nothing young, nothing without its grace period); everything expires |
| `projects` | a super admin and an admin, 2 projects, 2 names, 2 requests, fairness | one key opens: the one in force, and no dead one; a deleted project grants nothing; every request is answered |
| `settings` | 2 requests, 2 releases, 1 failure or restart | settings agree: cards keep apart, the cache is the row, the views follow; off means off |
| `screens` | the reader and 2 others, 1 project, 2 keys, 1 change from elsewhere | screens keep their word (what is drawn works, the table of roles is true, the snippet follows the key); what is allowed is offered; stale pages give nothing away (grants come from above, no row for super admins, a temporary password goes nowhere) |
| `livedb` | 2 databases of up to 3 rows, pages of 2, handles on both sides of 2^53 (scaled), 4 questions, 2 at once, 1 change behind the page | the page belongs together (banners are true, the grid is of the pane, Esc keeps the place); pages leave nothing out; no lost update; refusals are honest |
| `logs` | 4 logs of 2 launches, pages and exports of 2, 3 clicks | listings are whole (rows of one query, none left out); counts are honest (empty pages, error groups, the overview); the inspector agrees (one call lit, the address rebuilds, a tab has something); links change one thing |

Where a run's property is a conjunction (`WatchersInStep`, `SettingsAgree`,
`PageBelongsTogether`, ...), its conjuncts are named definitions above it, each
with its own comment and a mutant of the code that breaks it; the theorems and
the text below speak of the conjuncts. Every specification but `Delivery` has its
`TypeOK`. Where TLAPS proves it, no run checks it again, but for the hub's, where a
sequence number below zero is a hazard; elsewhere it is a conjunct of the first
invariant of the module's run.

Deadlock is checked in `screens`. In the other runs it is not: their models stop
when counters reach their bounds, when every request was made, or when a process
that was told to stop has stopped.

### Bounds

Two of everything is enough for each race the properties are about, and where
there are two of a kind the limit is one.

- Hub: rings hold two and channels one, so that they fill, overflow and wrap
  within three events. `MaxClock` lets codes expire, sessions idle out and ended
  sessions lapse.
- Ingestion: the bound of `OvershootBounded` is cap plus one batch, four rows;
  four logs, one of which a retry inserts again, can exceed it.
- Accounts: three requests are needed for the way around the guard (a stale one,
  a promotion, a demotion) and for a login and a reset on either side of a
  password change.
- Retention: ages run to three days, one past the longest window with its
  grace; one batch of one row leaves work for the next night as soon as there
  are two rows.
- Settings, projects: two requests overlap; each is made once, and a third adds
  an order of two overlaps that do not meet.
- Screens: a page goes stale by a single change from elsewhere, so `MaxChanges`
  is 1; every combination of roles, levels and project state is an initial state.
- Database browser: pages of two over three rows have a next page, a previous
  one and one that stops early for size; `Exact` stands for 2^53 with one handle
  below, one at and one above it that rounding moves.
- Log screens: one log's tag has a quote in it, another's is of two words, a third's is
  plain; two of the four logs carry the same time and stand at the
  cut of pages of two; the clock makes one step, which takes a log out of a window
  of an hour; three clicks are a page load, a question and another one before the
  answer.

### Where the code and its comments disagree

Found while reading and modelling. The models do what the code does in these
places. Where a property has to make an exception of one of them, its comment says
so; the property without its exception is the quickest way to see it as a trace.

Hub and process

- `hub.go:615` hangs up on ending a session, "or the device never finds out".
  Ended between Claim and AttachDevice, a session keeps its socket and handler.
- `main.go:195` "tell every live watcher the server is going": Shutdown waits for
  the streams, its deadline passes, and the process exits before the Close calls.
- `live_handler.go:324` relies on the ended event, which `endLocked` drops for a
  watcher whose buffer is full (`hub.go:594`); two crossing announcements leave a
  stale count (`hub.go:512`, `hub.go:544`); a code that Claim freed and Mint drew
  again is deleted when the first session ends (`hub.go:589`).

Accounts

- `domain/user.go:17` "the last one cannot be removed or demoted": a role change
  or removal that read its target before the target was promoted writes without
  the guard (`member_service.go:221`), after the other super admin was demoted.
  `SuperAdminRemains` marks off the part that holds: the race of two admins the
  guard was written for cannot happen, and the way around needs a promotion.
- `CHANGELOG.md:81` "A temporary password forces a change on first use": the
  reset-password command hands one out (`auth_service.go:186`,
  `reset_password.go:19`) and stores its hash without the flag, so it may be kept.
  As an invariant, `account[u].from = "command" => account[u].must` fails as
  soon as the command has stored its hash.
- `domain/user.go:83` "is set when an account is created with a generated temporary
  password, or after someone resets it": ChangePassword stores its hash and clears
  the flag in two statements, and clears the flag of a reset that came between
  them. The account keeps the temporary password.
  `TemporaryIsFlagged` says what is left: without such a change (`calm`) the
  dashboard's password has to be changed.
- A login that compared the old password may write its session after a change or
  a reset has dropped the others (`auth_service.go:162` against `:228`).
- The services let a super admin demote or remove themselves; no page offers it.

Projects, settings, retention

- Two creations or renames that checked their names at the same moment share
  one: there is no unique index, and no property says otherwise.
- A grant or a star that crosses a deletion leaves a row behind the project. So
  does a grant that a super admin makes after it: `ResolveProjectAccess` asks for
  no row of theirs and nothing behind it asks whether the project is still there.
  Whoever has the row can read the deleted project's logs.
- The screens of logs, errors, network, sessions and devices, the export and the
  streams do not ask whether the project still exists; the overview, the live
  page and the settings answer 404.
- Two maintainers may take each other off a project.
- UpdateDisplay may save the clock and then fail on the zone: the card says it
  failed, and the pages move only at the next save.
- Two first saves of an instance without a settings row may create two.
- A boot that could not read the settings keeps the process on defaults; a card
  saved by it writes them all over the row.
- A launch whose `last_seen_at` a delayed upload moved back is purged while its
  logs are still shown. The same happens to an upload between its launch and its
  logs when the launch is purged there and an older upload writes it again.

Dashboard: what is drawn and then refused (`DrawnAnyway`)

- "Add project" and its wizard are shown to members, and the 403 shows nothing;
- the general form has its Save for viewers, though `settings.templ:18` says
  otherwise;
- the level of a super admin who has a row can be chosen, though
  `member_repo.go:68` says super admins are not listed;
- the form for a new account lists projects its author only views;
- the panel on which a reader lowers their own level is redrawn with the rights
  they came with;
- the sidebar of a deleted project's logs leads to pages that answer 404;
- a stale danger tab opens its dialog for somebody who may manage and no longer
  delete.

Also, RotateSecret answers without the setup snippet, and when it fails its
error takes the place of `#secret-field` (`settings.templ:413`).

Database browser

- The cell editor is drawn for viewers, whose save the route refuses.
- Row handles above 2^53 are rounded by decoding into float64; the properties
  except them by `Exact`.
- Saving an untouched NULL writes the empty string.
- After a save that timed out and was applied, the retry is refused and its
  banner says that the app changed the row; a save whose form was swapped away
  does not reload the grid; a slow older Refresh can be drawn over the reload.
- The MCP tool's schema says to pass offsets 100, 200, ... (`tools_livedb.go:85`),
  which skips the rows of pages that stopped early (`live_db.templ:272`).

Log screens

- `search_query.go:15` "Parse(f.Query()) must equal f": Query
  quotes neither tags, whether there is a space, a quote or a tab in them, nor a text
  of one word that begins with a dash. Of a tag of two words the second reads back as
  text; a quote in a tag opens a quotation that ends in "unclosed quote", or is
  dropped. `Linkable` excepts these.
- The search box swaps the rows and leaves chips, Export link and address as they
  were, though `log_filters.templ` says they can never disagree.
- The page of a query that does not parse offers "Loading more...", which
  answers 500, as the search box does; a typed query without a match leaves a
  blank area. The Export link carries the query unescaped.
- `log_viewer_handler.go:195` "a chip never offers a tag that the current view
  has none of": tags are counted by the window only. A tag that is filtered for
  and not counted has no chip.
- Rows of the live tail ignore the filter, and around the page load they may be
  missing or double.
- The overview's Errors tile counts errors and fatals of its window and links to
  `level:error` without one; raising RetentionDays lets its change compare with
  days already deleted.
- A Headers tab is offered when nothing but an error was captured; the inspector
  reads the list and then the phases, so its header may say pending beside a
  response; a launch's timeline shows its first 500 logs.

### Fairness

Weak fairness is given to what the server's own goroutines do without anybody's
help: announcing, receiving, leaving a loop, answering, the steps of DumpLogs,
the sends of a publication, Shutdown (its deadline) and Close, the wait of an
Ask (its timeout). Leaving the tail's loop on `ctx.Done` needs strong fairness
because `select` picks at random while the channel has something too. In
`Ingest` the phone's worker keeps trying and days go by. In `Retention` days go
by, the scheduler starts a run that is due, a run goes on to its next statement
and an upload that was admitted finishes; that a phone uploads is not assumed.
In `Projects` a request goes on to its next statement, and the database gives a
row lock that is free to one of those that wait. Nothing is assumed of devices,
browsers, people or the clock of the hub, and failures are finitely many.

## Proofs

Checked by TLAPS for every value of the constants that the named assumptions
admit; the bounds of the model (clocks, counters of faults and changes) may be
any number. The assumptions say that what is counted is finite, that limits are
numbers (buffers, rings, batches and pages hold at least one), that `None` and
`Nil` are no id, name, label or place in a list, that a log belongs to one
launch and one launch to one project, and that ages go far enough for the
windows. `LogScreensAssumption` adds what the dashboard's own tables are like:
levels, window labels and "network" are words without a quote or a tab, a range of the overview is a
multiple of its columns and the shortest fits into retention (`OverviewWindows`,
with `MinRetentionDays` of one day). `ProjectsAssumption` also says that there
are as many names as projects and a key for every creation and every rotation,
so that the choice of a new one finds one; names and random keys do not run out.

Every property of a passing run is stated by a theorem except those at the end of this
chapter. A theorem of the form `Spec => []P` rests on types and a strengthening of
`P` that every action keeps; what each has to add says why the code is right.

### Live hub

- `TypeCorrect`: types, with `Wiring`, which ties a handler, a watcher and a
  question to a session that exists: the actions index `sess` by what those
  records hold.
- `CodesSafe`: Mint draws a code nobody waits under, Claim removes the code in the
  step that takes the session out of waiting, and endLocked removes it in the
  step that ends the session, for one session or for all that a sweep ends.
- `EndSafe`: what could revive a session asks whether it is live in the critical
  section that writes; what does not ask (attach, touch, leaving a question) writes
  other fields.
- `QuestionsSafe`: adds that the reply channel of an Ask that has not begun is
  empty (`Asking`). An answer, the end and the asker's own leaving take the
  question off in the step that fills or closes its channel.
- `WatchersSafe`: inductive given the types; the list, the channel and the count
  are written in one critical section each time.
- `StreamsSafe`: the longest argument about the hub. `RingIsRight`: the ring holds
  the latest numbers up to `seq`, one after the other. `StreamIsRight`, for what a
  dashboard was sent followed by what waits in its channel: ascending, within
  `seq`, and, unless its buffer overflowed, all the numbers from its promise up to
  `seq`. The backlog that Watch copies from the ring begins where the promise ends,
  a frame continues at `seq + 1`, and a receive moves an event without changing
  the whole.

### Ingestion

- `IngestTypes`, `OneRowPerLog`: types; one row per client id, because the insert
  and its conflict check are one step.
- `NoLogIsLost`: the strengthening is `TakenIsStored`, that a request past its
  transaction has its whole batch in the table; a phone deletes only what such a
  request answers for, and rows are only added.
- `IngestImplements`: `Spec => ImplementsDelivery`. It needs `TakenIsStored` again,
  for what is published, and `Genuine`: a batch consists of logs its phone has
  captured. Capture, Store and Publish are Delivery's three steps; every other
  action changes none of the three sets.
- `LaunchesSafe`: with `Genuine` and `Batched` (no batch is empty), a launch is
  recorded by an upload that passed the check, and only a failure keeps that one
  from storing.
- `OvershootSafe`, `ChargesSafe`: `Capped` says more than the bound: the counter,
  with everything on its way to it, stays below it, the batch of one open upload
  counted as it is and those of the others at their largest. The check admits an
  upload only while the counter is below the cap, and what it overlooks is at most
  one batch for each other upload. The table is a set of pairs so that rows can be
  counted as its cardinality.

### Live tail

- `NoSendOnClosed`: the strengthening is `Quiet`, that nobody is publishing once
  Shutdown has returned, so that Close cannot take a channel from a publication;
  Subscribe and Unsubscribe wait for the write lock.
- `TailSafe`: `Faithful` speaks of what a tail was sent together with what is
  queued and what is coming to it (`Got`, `Coming`). A batch on its way has a number
  of its own, is not queued yet for those still to get it, and overlaps everything
  published since; so order can be lost between overlapping publications only, and
  unless the buffer overflowed nothing is missing since the subscription.

### Accounts

- `AccountTypes`: types, with `Wiring`: a request that has come to a statement
  carries what the statement uses.
- `GuardSafe`: `Locking`: whoever is about to write under the guard holds the lock,
  and the rows it locked, two at least, are super admins still. A second guard
  cannot lock while the first holds rows it needs, and no other write reaches a
  locked row.
- `SuperAdminSafe`: adds `Rooted`: before the set-up there is nothing but visits to
  the register screen, and until somebody is promoted an unguarded write is about an
  account that is no super admin. Guarded writes leave another by `Locking`.
- `EvictionSafe`: `Evicting`: no eviction is remembered from beyond the account's
  present password, and a request on its way to drop sessions wrote no later one.
  Passwords are numbered upwards, so a session written later is not older.
- `TemporarySafe`: `Flagging`: somebody who is about to clear the flag has stored a
  password of their own, and one the dashboard gave out since then was given out
  under way. The command's password is not in it, for the code sets no flag.
- `AccessSafe`: `Granting`: a membership, or a grant about to be written, is about an
  id that was handed out once, so that a new account finds none of its own.

### Settings, projects, retention

- `SettingsSafe`: `Agreed`: while no save has crossed another there is one at a
  time and it works on the cache as it is; if none was blind either, what it found
  out about the row still holds when it uses it, and the cache is the row but
  between the write and the refresh; a display card that has not moved the pages
  yet is the only reason for them to lag (`Owes`).
- `AsksSafe`: an action property; the steps that ask GitHub read the cache, which
  `Agreed` ties to the operator's last word.
- `KeySafe`: `OneRow` says which row a living project has; `SawAll`, that what a
  transaction deleted is still all there is of the keys, since the row lock keeps
  rotations and deletions apart (`Holds`); `NewKeys`, that a drawn key is nobody
  else's; `StaysDead`, that a key dead when the device came with it stays dead.
- `DeletedSafe`: `Clean`, with `SawAll` for stars and members while nothing was
  written across, and `Latecomer`: who can still write a row of a deleted project.
- `KeptSafe`: `Whole` (a launch is as young as its logs) needs `Dated` (a payload is
  built after its logs) and `Recorded` (between the two statements of an upload
  nobody writes an older launch unnoticed); `Spared` carries the result of the soft
  delete to the purge of the sessions three statements later, and `Counted` says
  that the day's counter is there and outside the purge that is coming.
- `GoneSafe`: an action property over the same invariant; `InRun`: a run has read
  the settings, and they allowed its window.

### Screens

Any accounts, any projects among the names, any number of changes behind the page;
`Users` is finite, as a list of accounts is. The invariant is `ScreensInv`:

- `DataOK` types the rows. `SignedInIsAccount`: a session is of an account that
  exists, because a removal drops the sessions with the row.
- `ControlsInPlace`: which operations a region can hold. Without it a step that
  redraws one region could be about any control in another.
- `FormsAlone`: a form answered by itself is the whole of its pane, so that an answer
  which redraws the pane leaves no control of an older one beside it.
- `DangerIsEarned`: the danger tab on the screen was drawn for somebody who might
  delete, or something has changed elsewhere since; and nothing that page offers short
  of the deletion takes that right away.

- `ScreensSafe`: each template is sound (`Sound`: what it draws for a reader works for
  that reader), each answer draws templates at the rights of the moment, and a write
  by the reader leaves what stays on the page working (`Lets`, `Names`). That the
  table of roles tells what the gates do is a lemma about every role and level
  (`TheTableIsTrue`).
- `StaleSafe`: an action property: what a click may write is bounded by what
  `Routed` and `Serves` ask at that moment, never by what the page shows; hence it
  needs nothing of the page but its types.
- `ScreensTypes` is the type invariant.

### Database browser

The types of rows, questions and answers are spelt out (`Typed`), since questions
travel with what the page showed.

- `PageSafe`: `Means` ties an answer to what was run: a question is among those run
  exactly if it is an answered update that went well. `Refused` keeps a refused save
  refused: its question is over and no second one has its number (`OneEach`).
  `InPlace`: rows asked for by the page are of the database on the rail as long as
  their place in the page is there, because redrawing the rail detaches them.
- `WritesSafe`: `Says`: a question that writes carries the value its author was
  shown, in the form the device compares. That needs `ComesBack`, that a value which
  is not cut short comes back through JSON and a form field with its type, and
  `Rounded`, that a handle up to `Exact` is itself after float64. A late update is a
  question like any other.
- `RefusalsSafe`: the same facts the other way round: if the row still holds what was
  shown, the device's comparison holds.
- `PagesSafe`: `Cut` says which rows of the order a page holds and when it is the
  last; `Covered`, that the first n rows have been on the screen. A link asks for an
  offset up to which everything is covered, and a page that arrives extends it. Both
  are said of the row set as it is; a row that goes starts a new one.

### Log screens

Any finite set of logs, in any order and with any times, any queries, page sizes,
ranges and retention, any number of clicks and of requests under way. The invariant
is `LogScreensIInv`, checked on small instances before it was proved:

- `TableOK` types the table; ids are those of different rows (`HasIds`).
- `ListingOK` is of the page, the list, the scroll and the box. What makes paging
  right is `Continues`: a page holds what comes after its cursor, in order, and every
  wanted log is in it or after its last row. An answer waiting in the browser keeps
  that while rows come and go (`ContinuesStays`), because a place is (time, id) and a
  row never moves; and a page that continues at the cursor of a list extends it
  (`Extended`). `ScrollOK` says a page under way is of the query of the rows on the
  screen, which holds only because the request is dropped with the element that sent
  it. `DownloadOK` is the same of an export.
- `InspectorOK`: what one answer carries is consistent in itself (`OpeningOK`), so
  drawing several in any order leaves it so (`ShownOK`); as long as nothing has
  changed behind it the address gives the same screen again (`ShownIsCurrent`).

- `ListingsWhole` and `InspectorSafe` follow from it, `LogScreensTypes` is its types.
- `CountsSafe` adds `ExpiredIsOld`, that the clean-up has hidden only what is past
  every range, and sums: the columns of a range share out what its tile counts
  (`Column`, `SumOfCounts`). That a group opens its logs needs the search language:
  a fingerprint of any words, however many, comes back from the link as it was.
- `LinksSafe` is an action property. `QueryReadsBack` is the heart of it: `Parse`
  reads what `Query` wrote, for every filter but the three kinds `Linkable` names
  (a tag of several words, a tag with a quote or a tab in it, a text that is one word
  with a dash in front), by following the
  tokens through the parser one by one (`Reads`).

Sequences are read, flattened, sorted and summed without the library's induction
theorems, which the provers cannot instantiate: the least member of a set of
counterexamples takes their place (`SmallestNumber`, `SmallestSubset`).

### What the proofs changed

Two invariants that the first instances had passed were not inductive, for a
reason in the code; both are in the list above, and the properties name them.
`DeletedGrantsNothing` failed for a super admin's grant after the deletion (the
instance has a super admin since then), and `KeptIsWhole` for a launch that is
purged between an upload's two statements and written again by an older upload.
The proofs of the search language made the alternatives of `ReadToken` exclude each
other, as those of the parser's `switch` do.

### What is only model-checked

The liveness properties (`EndingLetsGo`, `TailsLetGo`, `EverythingArrives`,
`EverythingExpires`, `RequestsAreAnswered`): fairness is outside the prover's reach.
`AllowedIsOffered` of `Screens` says that something can be reached by a few clicks
from the home page; it quantifies over small sets that are the program's own
(controls, tabs, roles), which the run enumerates completely but for the number of
people and projects.

## Plan

Modelled first was what loses data or rights silently: the hub, ingestion, the
broker, the accounts. Then what acts by itself on stored data (retention,
settings, projects), then what people see of it (screens, database browser, log
screens). What is left:

1. The live stream's page: the browser's Last-Event-ID over reconnections,
   composed with the hub's backlog; pings, pongs and idleness.
2. Accounts: logins that compared an old password as a property, the overshoot
   of the token limit, an abstract specification with one step per request.
3. The lists of sessions and devices and a launch's timeline.

## Not modelled

HTTP headers, recovery, logging and configuration are I/O without state. Of the
templates, layout, wording and scripts are left out: what remains is what they
offer and what they say that can be wrong. Fingerprints and URL metadata are text
normalisation by regular expression; a fingerprint is a value a log carries. The
MCP tools other than the database's are a second front of services modelled
elsewhere. Payloads of logs, questions and answers are left out wherever no
property tells them apart. Postgres is taken to do what it documents: a
transaction commits whole or not at all and a unique index admits one row.
