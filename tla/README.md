# TLA+ for TealTeam

TealTeam is a scouting system for robotics competitions. A Raspberry Pi in the
pit serves a team's tablets over a local network that comes and goes; tablets
keep a copy of the Pi's SQLite database, work on it with no signal, and trade
what they have for what they lack when the Pi answers. This directory holds
TLA+ models of the parts where that goes wrong in ways tests hardly reach, the
configurations that model-check them with TLC, and proofs checked by TLAPS.
Paths below are relative to the repository; `tt-web/src/push.rs` stands for
`src/crates/tt-web/src/push.rs`.

## The system

| Part | State | Operations | Speaks to | Module |
|---|---|---|---|---|
| Outbox (C7), `tt-client/src/{outbox,sync,observations}.rs` | `observations`, `outbox`, `sync_state` of the device's file | queue, discard, push, take receipts, pull, apply | push and pull of the Pi, over HTTP | `OutboxSync` |
| Push and pull, `tt-web/src/{push,sync}.rs`, `tt-repo-sqlite/src/{observations,replication}.rs` | `observations`, the `changes` log written by triggers | record an entry, serve a page of changes in a scope | devices | `OutboxSync` |
| Refusals (C10), `tt-web/src/refused.rs`, `tt-repo-sqlite/src/refused.rs` | `refused_entries` | keep, record, dismiss | push, lead scouts | `OutboxSync`, `SeasonForm` |
| Review (L8-L10), `tt-web/src/review.rs` | `observations.review_state` | approve, decline | lead scouts; the change log | `OutboxSync` |
| Scouting form, `tt-web/src/scouting.rs` | `observations` | submit | scouts on the Pi itself | `OutboxSync`, `Handoff` |
| Device file, `tt-client/src/{lib,opfs,worker}.rs`, `tt-web/src/sw.js`, `static/js/{sync,snapshot,courier}.js` | the database in memory, `saved`, `saving`, the file in OPFS | open, flush, replace by a snapshot | jobs the pages ask the service worker for | `OutboxSync`, `Courier`, `Replica` |
| Snapshots (S10), `tt-repo-sqlite/src/snapshot.rs`, `tt-web/src/snapshot.rs` | a copy of the database kept a minute for its viewers | cut, serve, replace after an upgrade | devices | `Replica` |
| Courier (S7), `tt-client/src/{courier,upstream}.rs`, `tt-web/src/bundle.rs`, `tt-repo-sqlite/src/{bundle,upstream}.rs` | the `upstream` log on both sides, the device's `courier` table, a cursor per device log | fetch from TBA, append, bundle, import, prune | TBA, the Pi | `Courier`, `UpstreamLog` |
| Sessions and tokens (C9), `tt-web/src/{auth,token,handlers}.rs`, `tt-core/src/token.rs`, `static/js/token.js` | `sessions`, the signing key, a cookie and a token on each device | sign in and out, ask for a token, keep it, sync by it | every request | `Tokens` |
| Handoff by QR (S13), `tt-core/src/qr.rs`, `tt-web/src/handoff.rs`, `static/js/{draft,handoff,receive}.js` | drafts in localStorage, the codes read so far, `observations` | keep a draft, show codes, collect, record, scan the receipt | push's `record` | `Handoff` |
| Season form and answers (U4), `tt-core/src/{season,form}.rs` | none of its own | read a post, validate, show again, compare | the form, handoff, refusals | `SeasonForm` |
| Pick list (L14), `tt-core/src/picklist.rs`, `tt-web/src/picklist.rs`, `tt-repo-sqlite/src/picklist.rs` | `pick_list_docs`, `pick_list_entries` | add, move, cross, tag, remove, exchange | leads on several devices; the change log | `PickDoc`, `PickList` |
| Assignments (L1-L6, L13), `tt-core/src/assignments.rs`, `tt-web/src/assignments.rs` | `scout_assignments` | save a match, hand out, clear; suggest, tally | lead scouts; the change log | `Rota`, `Assignments` |
| Change stream (S8), `tt-web/src/sync.rs`, `static/js/{pick-live,grid-live,live}.js` | two cursors per stream, a count of open streams, what a page shows | open, poll, resume, redraw | browser pages | `ChangeFeed` |
| Upstream sync, `tt-upstream/src/*`, `tt-web/src/{upstream,tether}.rs` | ETags, the journal, projected tables | fetch conditionally, store, project a bundle | FIRST, TBA, bundles | `UpstreamSync` |
| Backups (Q4), `tt-repo-sqlite/src/backup.rs`, `tt-web/src/backups.rs` | a folder on the SSD | snapshot, rename, sync, prune | the clock, power cuts | `Backups` |
| Pages, templates, statistics, load test, deployment | none of their own | | | |

What is hard: the same request carried out once, twice or late while the device
that sent it has forgotten it; two leads, or a lead and a schedule edit, between
two transactions; a page of the log that ends exactly at its limit; a tablet
that restarts from a file older than what it has already told the Pi; rows of
two tablets that cannot both be kept; clocks that are set anywhere on each boot;
one tablet used by several people in turn. PROJECT.json lists each of these
hazards at its line, with the properties that would catch it.

`Absent` has the one value that stands for nothing, for all the modules.

## How the modules are composed

| Module | Composes | How |
|---|---|---|
| `MCOutboxSync` | `OutboxSync` (device, push, pull, refusals, review, schedule), which refines `Custody` | one state machine |
| `MCCourier` | `Courier` over `UpstreamLog` | one state machine |
| `MCDevice` | `Courier`, `Replica`, `Tokens` | side by side: what a device keeps. `part` picks one; the others stay as they start |
| `MCBoard` | `PickList` over `PickDoc`, `Assignments` over `Rota`, `Handoff`, `SeasonForm` | side by side: the pages of leads and scouts |
| `MCServices` | `ChangeFeed`, `UpstreamSync`, `Backups` | side by side: the Pi's tasks |

Modules put side by side share no state that one reads of another; a product of
their states would only multiply. Where parts do interact (device and Pi, the
two jobs on one file, bundles and the Pi's own sync, the streams and the pages)
they are in one module.

## `OutboxSync`: from a scout's form to the Pi and back

| Module | Code |
|---|---|
| `observations`, `outbox`, `cursor` | the device's tables in memory, `sync_state` for `server:changes` |
| `disk` | the file as `flush` last wrote it |
| `sync` | where `SyncClient::sync` is: between `push`'s `await`s, between its turns, between `pull`'s request and `apply` |
| `pushed` | entries of push requests on the wire or inside `push::push`, each with the stage `record` has reached |
| `pi`, `changes`, `refused`, `schedule` | the Pi's tables; `changes` is what the triggers of `0004_changes.sql` write |
| `lead` | `refused::record` between its `load`, its `record_as` and its `resolve_refusal` |

Every `await` at which others may act is a step boundary: each entry of a push is
handled by `PiRecords` (record_as, one transaction) and, when that says no,
`PiKeepsRefusal` (keep_refusal, the next); a lead's `record` is three steps; a
pull is a request, a page read by the Pi (`PiServesPull`), and `apply`
(`ApplyPull`, one transaction). `Abandon` is what an unanswered request leaves
behind: any part of it may still reach the Pi later, and the rest never does.
`Crash` returns the device to its file; `Flush` may come at any time and late,
since `ClientRepo::flush` returns at once when another save is under way.

Data is reduced to what the properties tell apart: a slot is one robot in one
match, an observation is its slot, scout and review state, the answers are only
whether they fit the form, and record ids are unordered, so the order in which
`waiting` yields them is left open.

### `Custody`: what the outbox promises

An abstract specification of one variable: who answers for a form, *nobody*,
the *device* or the *pi*. It only ever moves forward. `OutboxSync` implements
it with `Custodian` as the refinement mapping (`NothingLost`). That a form gets
there in the end is no part of it: see Fairness.

### Properties

* `OneLivePerScout`: one live observation per scout and robot on the Pi and in
  every device's memory and file, also while they disagree. On a device this
  keeps the unique index from failing `apply` for good.
* `DevicesMirrorPi`: a device's table is what the log says up to its cursor,
  plus only rows that still wait in its outbox, and nothing the log brought
  back still waits. For memory and for the file, so a crash keeps it.
* `RefusedReachesLead`, `RecordedIsStored`: a refusal a device knows of is on
  the Pi; a refusal marked recorded has its observation.
* `NothingLost`: `OutboxSync` implements `Custody`.
* `EverySyncEnds`, `RecordedFormsLeaveTheQueue`, `RecordedRefusalClears` (liveness):
  a sync that has begun ends, though what it pushed still waits; a form the Pi has
  recorded, and a refusal a lead has recorded, leave the queue by pulls alone.

`claim_rows_sent` is expected to fail. It checks "the file never holds an
observation that will not be sent" (`tt-client/src/outbox.rs:117`): a form saved
again under an id the Pi refused makes the row, and leaves the entry refused.

Modelling showed four more places where the code does less than a sentence
about it says; they have no run of their own:

* "its client_record_id makes the second copy a no-op" (`tt-core/src/outbox.rs:11`):
  `record_as` looks at the schedule before the record id, so a copy sent after a
  schedule edit is refused and kept for a lead, though the Pi holds the observation.
* "A lead either records it ... or dismisses it; the row stays either way, saying
  which" (`0009_refused.sql:8`): `record` ignores what `resolve_refusal` answers, so
  a refusal recorded by one lead while another dismisses it says dismissed.
* "whatever owns the database (C5's service worker) calls `sync`"
  (`tt-client/src/sync.rs:22`): the service worker only ever calls `pull_only`, and
  outside tests nothing calls `sync`.
* "The change log will bring it back" (`tt-core/src/outbox.rs:61`): not when the
  entry's event is outside the device's scope (`Scope`).

## `Courier`: a tablet carries TBA's responses

| Module | Code |
|---|---|
| `UpstreamLog` | the log both sides keep: `append_in` on the Pi with and without its check for stale rows, `append_upstream_impl` on the device, pruning to `UPSTREAM_KEEP_PER_PATH` |
| `file` | the tablet's file in OPFS: its log, `sync_state`'s `server:upstream` cursor, and the `courier` table (`pushed`, `log`, `tba_key`) |
| `tick`, `pull` | the two jobs of `worker.rs`, each with the copy of the file it opened, between their `await`s |
| `bundles` | bundles on the wire, or posted by a tick that has given up |
| `piLog`, `piRead` | the Pi's log, and what it has read of each tablet's; the `bundle:<log>` cursor is the newest of that |
| `cache`, `journal` | `TbaClient`'s tagged bodies, and what the recorder has sent to the journal's task |
| `tba`, `clock` | what TBA answers, and the Pi's clock |

A tick is `StartTick`, `AskForKey`, a `Fetch` for each request TBA answers,
`FetchEnds`, then `Push` (or `NothingToPush`), `Import` on the Pi, and
`Answered` or `NotAnswered`. A job saves the whole of its copy, and only if it
changed it, as `flush` does. A pull is `StartPull` and one `PullPage` for each
page, applied and saved. `Crash` is the browser stopping the service worker;
`Replace` is `snapshot.js` swapping in a new file under whatever is running;
`PiRestarts` loses the cache and the journal. Whether two minutes have passed
since the last fetch, whether an event is on, and the order of the requests are
left open; every response is taken to carry an ETag, and every path to be in
the tablet's scope.

`MayOverlap` says whether a tick and a pull of one tablet may run at once. They
may: `sw.js` guards each against itself only. With it the log breaks
(`claim_one_owner`); the passing runs set it FALSE and show that everything
else holds of the executions in which the two happen not to overlap.

* `FetchedIsRead`: whatever a tablet fetched and the Pi's cursor has passed, the
  Pi has read; no number is ever used for two responses of one log.
* `PushedIsRead`: a tablet's own cursor never passes the Pi's.
* `NewestWins`: with no uplink on the Pi, its log moves strictly forward in time
  for each path, and never past now, whatever the tablets' clocks say.
* `FollowsPi`: as far as a tablet has read the Pi's log, its newest response is
  the Pi's or its own.
* `PiCatchesUp`: once TBA is quiet, the Pi comes to hold its last word.

One path and two bodies are enough: rows of different paths do not meet except
in the order of their numbers, and a body that comes back (the case that defeats
comparing bodies) needs only two. `Keep` is 2, where the code has 5: small
enough for pruning to happen. Two tablets meet in the *tablets* part of
`courier_files`, with nothing else going wrong: only there do rows of two logs
come to the Pi out of order. Time stands still but when TBA publishes, so equal
times, the edge of the stale check, are common.

`claim_one_owner` is expected to fail. It checks `FetchedIsRead` against "the
worker runs one at a time: one context must own the file"
(`tt-client/src/worker.rs:15`) with `MayOverlap` TRUE: a pull during a tick
writes the file back as it was; the next response reuses a number the Pi has
passed, and is never imported.

Three sentences about the log need a reading the code gives them only in part:

* a tablet "keeps them, and hands them to the Pi as a bundle"
  (`tt-client/src/courier.rs:3`): the rows of a pull, older ones too, count
  towards the rows kept per path, and may prune a response not yet sent;
* "an old phone's bundle can never roll a ranking back"
  (`tt-repo-sqlite/src/bundle.rs:33`): an unchanged fetch leaves no trace in the
  log, so a response from before it still counts as newer than the row it confirmed;
* "the Pi's own fetches are the newest by definition"
  (`tt-repo-sqlite/src/upstream.rs:24`): a bundle may be imported between a fetch
  and the journal's append. `NewestWins` is therefore checked with no uplink.

## `Replica`: a device's copy of the tables

| Variables | Code |
|---|---|
| `stored`, `logged`, `build` | the Pi's tables, its change log, the schema of the build it runs |
| `handouts` | `tt-web/src/snapshot.rs`'s cache: a cut per team, for a minute |
| `copy`, `meta` | the device's copy and its meta in OPFS |
| `downloads`, `pulling` | each page's download (`sync.js`, `snapshot.js`), the service worker's pull |
| `holder`, `loaded` | who is signed in, the schema on the pages' stamp |

A download is two writes (the file, then its meta); a pull is answered for
whoever is signed in by then; an upgrade changes what the rows look like and
makes the Pi refuse older copies until they are replaced. `CopyIsTheCut`: the
copy is, row by row, a cut of one moment or of the log applied to it, with the
schema it says it has, and holds notes only as its team may read them.

Found while modelling, and left as they are: a pull by a viewer of another team
(or of none) moves the cursor past pick-list changes the copy's own team will
not get again; users' names are only those of the cut ("Scout 7"); after an
upgrade an open page's own replacing download is refused until it is reloaded.

## `Tokens`: who a device syncs as

Sign-in, the page drawn for a scout, `token.js` asking for a token and keeping
it, sign-out with its request lost or late, the signing key made once and read
at each start, sessions that run out. Time is in half days: a session lasts two,
a token six, and a page asks anew at three.

* `PromisedSyncs`: what a scout's device holds is worth what it says, until then,
  through nights, lost answers and starts of the Pi.
* `SyncsAsThePage`: a device never syncs as the scout who had it before while
  another's page is open.

An answer that comes after the sign-out form was submitted is kept
(`token.js:91`): the device then goes on as the one who signed out until the
next page; `PromisedSyncs` counts nothing promised by it. Clocks are right and
there is one tab; signing up, passwords, roles and the heartbeat are left out.
Two first sign-ups at once would both become admins, and a first account is not
one when `has_any_user` fails (`tt-web/src/handlers.rs:218`).

## `PickDoc` and `PickList`: a list merged from many copies

`PickDoc` has the document as yrs keeps it: registers of items that name what
they replace (`Item`), whose last one is their value (`LastWrite`), marks of what
is gone, merge. The library itself is external and modelled from how
`tt-core/src/picklist.rs` uses it. Where the code goes digit by digit, or yrs item
by item, the operator says what comes out: `Midpoint` the digits halfway between
two keys, `LastWrite` the end of the path that takes the greatest client each time.
`PickList` adds the rows the Pi derives from the document, the page's two
transactions (`Begin`, then `Save` or `NotSaved`), copies that are away (`Fetch`,
`Amend`, `Post`), and a device that pulls the rows. `made` and `landed` remember
every change and which of them a merge on the Pi took.

It assumes that there are finitely many teams, that no two rows from before the
document are of one team (`UNIQUE` in `0001_initial.sql:317`), and that None is no
value of the others.

* `ListReadsAlike`: rows on the Pi, rows on devices and the document are the
  same list.
* `ChangesLand`: of two changes made at once both land.
* `RetiredStayOff`: a row once deleted never comes back under its id.
* `MovesLand`: a move puts one team in one place and no other anywhere else.

## `Rota` and `Assignments`: who watches which robot

`Rota` has `distribute`, `rotation`, `agenda`, `coverage` and `tallies` of
`tt-core/src/assignments.rs` as operators; `Assignments` the handlers that write
the grid, call by call, with other requests and schedule revisions between.
`trouble` remembers what makes doubles legitimate (a save beside another, a
save cut short, a robot that came back).

* `NobodyDoubled`: nobody has two robots of a match unless requests overlapped.
* `DealtFairly`, `SuggestionsHold`, `HolesAreSomebodys`: of *every* grid of the
  schedule, played up to any match: distributing takes from nobody, doubles
  nobody, leaves nothing open while somebody is free and tires nobody who could be
  rested; taking all suggestions makes nothing worse; every hole shown is on
  somebody's agenda and in a tally.
* `EveryFreshRotaIsFair`: a fresh event is dealt evenly and leaves `rotation`
  nothing to say.

`claim_open_robots` is expected to fail: `distribute` "hand[s] every open robot"
(`tt-web/src/assignments.rs:697`), but writes what it worked out from the grid
as it was, over a robot assigned by hand in between. A schedule that takes a
robot out and puts it back makes its old assignment count again
(`tt-core/src/assignments.rs:433`). The scouting page reads its assignments before
the heads of the logs it then listens from (`tt-web/src/scouting.rs:426`).

## `Handoff`: forms by QR code

Drafts and the token on the tablet, the panel and the codes it shows, the
lead's scanner, the Pi's recording form by form, the receipt.

* `FinishedFormsKept`: a form Save was pressed on waits on the tablet or is with
  the Pi as finished.
* `RecordedAsTheirScout`: what the Pi holds is under the scout who filled it in.

A form changed after its code was read is removed by the receipt with its
changes, which match record ids and not versions (`handoff.js:209`);
`FinishedFormsKept` excepts it, and no property calls it right or wrong. Handed
over again, an edited form is a duplicate and the first version stays. A draft
equal to the rendered form gets a new record id on reload; one is written again
when the page goes after its receipt. Two tabs of one tablet, the three days
after which drafts go, and reading pixels are left out.

## `SeasonForm`: answers on four roads

No steps: the variables are any form of up to two questions, of every kind, and
anything typed in it (words, spaces, line breaks, numbers at and beyond the
range); the operators are the reading, the checks, the guess of a handed-over
form, the payload, the form shown again, `same_as`, and the notes put back.
`EveryFormReadsBack` says all roads carry the same answers.

`claim_untouched` is expected to fail: "Untouched, the answers stay exactly as
sent, on whatever version of the form they were saved on"
(`tt-web/src/refused.rs:430`). An answer this version cannot show is missing from
the post of a lead who touched nothing, so the entry counts as changed.

## `ChangeFeed`: pages that follow the logs

Streams that poll two logs, events whose ids name both cursors, connections that
break and resume, the cap on streams, `LAG` and a clock set back, pick pages
that redraw on a change and grids that also poll.

* `StreamsSkipNothing`: between where a page started and where it is, every row
  once, except one that a set-back clock hid.
* `PickListsMissNothing`: what a pick list does not show is still to come.
* `PagesCatchUp` (liveness): once nobody writes, grids come to show all, and so
  do pick lists whose last redraw neither failed nor crossed another.

What the exceptions mean in the code: a pick page has no polling fallback, and
its `EventSource` stops for good on a 503 (all slots taken) or 409; two redraw
responses can cross, leaving the older one shown; a set-back clock can hide a
change from a stream for good. A grid's fetch for one cell may put an older one over
a newer; its polling mends that.

## `UpstreamSync`: FIRST, TBA and bundles

The boot sync, the loop with its passes, pauses and nudges, the lock, conditional
requests and their cache, the journal, bundles imported and projected beside a
pass, restarts. What TBA answers is its version; a table's row is the versions
it was made from.

* `SyncedMeansAll`: while the server believes the event list landed, it has.
* `SyncNowBringsAll` (liveness): a sync asked for after the last mishap brings in
  all TBA has, though asked for in the middle of a pass.

Between passes the rows of a pass and of a bundle may be of different ages, and
without an uplink they stay so. A phone plugged in during a boot sync that then
fails is not retried until the next nudge, though `tether.rs` says it is. Key
names, `pass_targets`' dates, component OPRs, pacing and bodies that flip back
are left out.

## `Backups`: snapshots through power cuts

A turn takes a snapshot under a partial name, renames it, syncs the folder, and
removes those older than `KEEP` but for the newest `KEEP_AT_LEAST`, by the stamps in
their names. The power may go at any step, the clock may be anything after a
boot, and a rename that was not yet synced may be undone. `LastCopiesStay`: the
last snapshot done, or a later one, is there, and at least `KEEP_AT_LEAST` of
them once so many had been.

What the property does not promise, since the code does not: snapshots stamped
in the future hold the slots of the newest, so all of the real recent history
but the last may go after a day off; partial files are never removed; errors of
the folder's sync are ignored; a Pi that reboots more often than every ten
minutes never takes one.

## Runs

| Run | Instance | Question |
|---|---|---|
| `sync_tablets` | two tablets, a form each, one scout, symmetric | displacement of a local row; a decline makes room |
| `sync_forms` | one tablet, two forms of one scout on one robot, batches of one, one late request, a match that may leave the schedule | crash, retry, duplicates and late copies, refusal of the second form; refinement of `Custody` |
| `sync_shared` | one tablet, two scouts who sign in by turns, the page on the Pi, a match that may leave the schedule, one lead at a time | a form saved as one scout and recorded as the other; the same scout in two places; a lead between two transactions; refinement of `Custody` |
| `sync_live` | one tablet's form and one of the page on the Pi, pages and batches of one, one lead, fairness | the end of a sync, clearing of a recorded form and of a recorded refusal; both kinds of page and batch end |
| `courier_files` | in parts, bodies symmetric. *files*: one tablet, its clock ahead, that ticks and pulls, three units of time, one mishap, one late bundle. *tablets*: two tablets, two units of time, no mishap. *copy*: two keys, two changes, pages of one, two teams, one page, one upgrade. *tokens*: one device, two scouts, two sign-ins, one start, eight half days | the log of a tablet through crashes and replaced files; rows out of order and stamped from the future; the copy; the token |
| `courier_live` | one tablet that ticks and pulls, the Pi's uplink on, pages of one, two units of time, at most one mishap and only before TBA has anything new (`LiveSpec`), fairness | pages between fetches of the tablet's own; a conditional request against an older row the Pi sent |
| `board` | in parts. *picks*: three teams, two leads, one copy away, order keys of base 4. *rota*: four matches of three robots, two scouts and a tablet, two requests at once, one revision. *grid*: every grid of that schedule, any prefix played. *form*: every form of two questions. *handoff*: two scouts, two codes to a transfer, two loads, two faults | the pages of leads and scouts |
| `services` | in parts, fairness. *feed*: a pick page and a grid, one stream slot, two changes, one row of the other log, one break, one set-back; *late in the day*: a grid with both changes to come, or both pages with one, and no break or set-back. *upstream*: one event, two feeds, two versions, one bundle, one mishap, one nudge. *backups*: `KeepFor` 1, `KeepAtLeast` 2, stamps to 4, four snapshots, two boots | the Pi's tasks |
| `claim_rows_sent`, `claim_one_owner`, `claim_open_robots`, `claim_untouched` | as above | expected to fail: see the sections above |

What each checks:

| Run | Checks |
|---|---|
| `sync_tablets` | `OneLivePerScout` |
| `sync_forms` | `TypeOK`, `DevicesMirrorPi`, `NothingLost` |
| `sync_shared` | `OneLivePerScout`, `RefusedReachesLead`, `RecordedIsStored`, `NothingLost` |
| `sync_live` | `EverySyncEnds`, `RecordedFormsLeaveTheQueue`, `RecordedRefusalClears` |
| `claim_rows_sent` | `RowsWillBeSent` |
| `courier_files` | `DeviceTypesOK`, `FetchedIsRead`, `PushedIsRead`, `NewestWins`, `CopyIsTheCut`, `PromisedSyncs`, `SyncsAsThePage` |
| `courier_live` | `FollowsPi`, `PiCatchesUp` |
| `claim_one_owner` | `FetchedIsRead` |
| `services` | `ServicesTypesOK`, `StreamsSkipNothing`, `PickListsMissNothing`, `SyncedMeansAll`, `LastCopiesStay`, `PagesCatchUp`, `SyncNowBringsAll` |
| `board` | `BoardTypesOK`, `ListReadsAlike`, `ChangesLand`, `RetiredStayOff`, `MovesLand`, `NobodyDoubled`, `DealtFairly`, `EveryFreshRotaIsFair`, `SuggestionsHold`, `HolesAreSomebodys`, `EveryFormReadsBack`, `FinishedFormsKept`, `RecordedAsTheirScout` |
| `claim_open_robots` | `HandsOutOpenRobots` |
| `claim_untouched` | `UntouchedStays` |

Two forms are enough for one to stand in the other's way (coverage is between
two rows); pages and batches of one make both "exactly full" and "empty last"
pages occur with two changes; one late request gives the duplicate, and a late
request arriving after its entry was refused or echoed. Nothing bounds the log
but the records themselves: each has at most two versions (pending, then a
verdict).

`Backups` keeps a snapshot for one turn and at least two of them, where the code
has a day of ten-minute turns and six: four snapshots reach both sides of each. In `rota` a distribution and a save,
or two saves, already overlap in every order. Four matches let runs join across the
one being filled with `LONGEST_RUN` 2, where the code has 6. In `feed`
two changes are enough for one to be overtaken and for a fill of two to end
exactly at its limit; one slot makes the second page be turned away.

CHECK_DEADLOCK is off in `board` and `services`: bounded edits end, and forms do
not move at all.

## Fairness

`OutboxSync`'s `FairSpec` assumes what the code's scheduling gives while the Pi
is in reach: pages ask for pulls again and again (`sync.js`, on opening, back
online, and at each row of the live stream; strong fairness, since a sync under
way makes the step impossible for a while), the Pi handles each entry of a
request that is still waited for, the device takes the replies, a push that has
begun goes on to its next turn, and a row does not stay younger than `LAG`.
`Calm` is the other half: from some point on no sync is stopped and no page
closed. Nothing is assumed of requests given up, of flushes, of leads, of scouts
or of the schedule.

Nothing is assumed of pushes beginning, either, for nothing in this build begins
one: browser pages are read-only, `sw.js` and `worker.rs` call `pull_only`, and
`SyncClient::sync` waits for a client to come. So that every saved form reaches
the Pi in the end is not claimed; what is, is that pulls alone finish whatever a
push has brought about, and that a push comes to its end.

`Courier`'s `Fairness`: a tablet's jobs start again and again while a page is
open (`courier.js` and `sync.js` run on timers), and of the asks, requests,
bundles, answers and pages tried again and again some succeed. Strong fairness
is meant: each may fail any number of times. Nothing is assumed of the Pi's own
uplink. A tick that finds two minutes have not passed is one that fetches
nothing; later ones do. `MCCourier.LiveSpec` lets a mishap (the browser stopping
the worker, a replaced file, a restart of the Pi) come only before TBA has
anything new; it starts with one of the two bodies, which are alike.

`ChangeFeed`'s `FeedFairness`: changes grow older than `LAG`, an open stream
polls and delivers (`sync.rs`'s interval), pages take the heads, connect
(`EventSource` retries by itself), poll on their timers and redraw, and every
request ends, one way or the other: all weakly fair. Of the full requests a grid
makes again and again some are answered: strongly fair, as each may fail. A pick
page makes no request but on an event, so nothing makes one of its redraws
succeed.

`UpstreamSync`'s `UpstreamFairness`: the event sync, the loop and the journal's
task go on, weakly fair, as tokio runs them. How long the loop pauses is left
open. A request that fails is one of the mishaps, of which there are boundedly
many; `SyncNowBringsAll` speaks of the syncs asked for after the last.

## Proofs

Each theorem holds for every value of the constants its module's assumption
allows, and rests on that assumption alone. Where it needs more, the theorem
says so in its statement. Each proof has one lemma for a step, or for steps
alike, and under it one step for each part of the invariant the step can disturb.

### `OutboxSync_proofs`: any devices, records, scouts, slots, pages, batches

* `TypeCorrect`: `Spec => []TypeOK`
* `RefusalsReachLead`: `Spec => []RefusedReachesLead`
* `RecordedHaveObservations`: `Spec => []RecordedIsStored`
* `Implements`: `Spec => NothingLost`, the refinement of `Custody`

`RefusedReachesLead` is not inductive: a receipt on its way is a promise too
(`ReceiptsKept`: a refusal a sync has gathered is kept on the Pi). `NothingLost`
needs more: an entry that waits in a file must not vanish except by being on the
Pi, so a device's memory must know of every entry its file knows of
(`SavedWaits`), and what the log returns must be in the Pi's table
(`LoggedIsStored`), since the echo clears entries. With `RecordedIsStored` and
`LeadsHaveRefusals` (a lead's job has its refusal, and its observation once past
the first transaction) these form `IInv`. For the refinement there is one lemma
per device action and one per Pi action.

Then what a device's tables are to the Pi's:

* `OneLiveEverywhere`: `Spec => []OneLivePerScout`
* `DevicesMirror`: `ASSUME ~ReuseIds PROVE Spec => []DevicesMirrorPi`

That one scout has one live observation of a robot on the Pi says nothing of a
device half way through the log: the log must be so at *every* point (`LogOnce`),
or applying a prefix of it would bring two rows into one place. That needs a
record's changes to be about one form for good (`SameForm`), and the log's last
word on a record to be the Pi's row (`LogIsPi`). With `PagesAhead` (a page in
hand is not behind the cursor it was asked from) and `TablesOnce`, for memory and
file, this is `OnceInv`. `DevicesMirror` adds `Mirrored`: a table is what the log
tells up to its cursor, with waiting rows of its own on top; that replaying the
log from nothing displaces nothing, so that this is `DevicesMirrorPi`, is a
lemma over prefixes of the log.

`~ReuseIds` (a form is not saved again under an id the Pi refused) cannot be
dropped: `claim_rows_sent` shows a row that neither waits nor is in the log.

### `Courier_proofs`: any tablets, clocks, paths, bodies, pages, rows kept

* `CourierTypes`: `Spec => []TypeOK`
* `TabletsFollowPi`: `Spec => []FollowsPi`
* `PushedIsReadAlways`: `Spec => []PushedIsRead`
* `NewestWinsAlways`: `ASSUME ~PiUplink PROVE Spec => []NewestWins`
* `FetchedIsReadAlone`: `ASSUME ~MayOverlap PROVE Spec => []FetchedIsRead`

A job writes back the copy it read, so nothing holds of files that does not hold
of the copies in hand: `TypeInv` says of each (`CopyOK`) what `FollowsPi` says
of a file, whatever jobs overlap. The lemmas about the log carry it: appending
keeps other paths' newest and makes the new row its own path's (`AddsOthers`,
`AddsNewest`), rows appended in order leave as newest the last of each path
(`InOrderEnds`), and a page has all rows up to its last (`PageIs`), so a path of
which the page brings nothing has nothing new up to the cursor. What
`AppendedInOrder` computes is shown number by number, as a set of numbers that
has 0 and with each its next (`CountUp`), which needs no induction theorem.

`PushInv` says of file, copies and the answer on its way that the Pi's cursor
for their log id is no less. `NewestWins` follows from `journal` being empty
and each append's own check (`InOrderMoves`): with an uplink of its own the Pi
appends what it fetched earlier after a bundle fetched later, and it is false.

`FetchedIsRead` needs `ReadInv`. Under a log id (`Known`), the Pi and the
bundles on the wire, late ones too, have no row the copy's log does not number
yet, or a new response would get a number already passed; and a bundle brings
all rows it will make the cursor pass, or one would be skipped. No two tablets
share a log id (`Apart`). And a tick's copy is the file (`Tied`) but while it
fetches, or the file could get a bundle's number without its row: this is what
a pull beside the tick breaks, as `claim_one_owner` shows, so `~MayOverlap`
cannot be dropped.

### `Handoff_proofs`: any scouts, robots, edits, pages, parts of a code, faults

* `FinishedFormsAreKept`: `HandoffSpec => []FinishedFormsKept`
* `FormsAreTheirScouts`: `HandoffSpec => []RecordedAsTheirScout`
* `HandoffInvariant`: `HandoffSpec => []HInv`; `HandoffTypes`: `HandoffSpec => []HandoffTypeOK`

Whose a form is on the Pi was decided when the code was drawn: page, token and
panel are one scout's (`PageIsOnes`), a code's forms are those of the scout
whose token it holds (`CodesAreOnes`), and a scanner holds parts of one transfer
(`OneTransfer`). That a finished form is not lost needs an order of versions:
each record id is of one form (`OneForm`), nothing about is older than what left
first (`FirstLeft`), the page is no older than its draft (`PageIsNewest`), a
receipt names only what the Pi has (`ReceiptsHold`), and until the Pi has it a
finished form is a draft, which the page over it carries (`FinishedHeld`).

### `ChangeFeed_proofs`: any pages, streams, rows, rows to a request

* `StreamsSkipNoRow`: `FeedSpec => []StreamsSkipNothing`
* `PickListsMissNoChange`: `FeedSpec => []PickListsMissNothing`
* `FeedInvariant`: `FeedSpec => []FeedInv`; `FeedTypes`: `FeedSpec => []FeedTypeOK`

The events of a request are defined by merging two sets of rows in the order of
their numbers; lemmas say where each event leaves both cursors. The invariant:
changes settle in turn but for those a set-back clock hides (`InTurn`), the
events queued on a stream lead, one from the other, from where its page is to
where the server has read (`Lead`), and of each page, what it has got and what
its redraws will show (`PageHolds`).

### `Services_proofs`: upstream syncs, backups, tokens

The proofs of three modules that share no state and, in `Services_proofs`, no
lemma.

* `SyncedIsAll`: `UpstreamSpec => []SyncedMeansAll`. With it: a roster is stored
  after its event, and a sync in which nothing went wrong has stored all it does
  not still have to (`SyncStores`).
* `UpstreamTypes`: `UpstreamSpec => []UpstreamTypeOK`, inductive as it stands. It
  says of every job under way how far it is, so that a row stored is whole and of
  what TBA has answered (`StoredRow`), whether a pass or a bundle stores it, and
  that a pass is laid out of the events stored as it begins (`PassIs`). The events
  FIRST lists are finite (`UpstreamSyncAssumption`).
* `LastCopiesAreKept`: `BackupSpec => []LastCopiesStay`, `BackupTypes`:
  `BackupSpec => []BackupTypeOK`, and `BackupsInvariant`.
  The folder must have the copies, and so must the folder a power cut would
  leave (`Undone`); a turn's own snapshot is under its name (`NamedIsThere`); and
  what is yet to be removed has enough later ones, also when half of it is gone
  (`OldHaveLater`).
* `TokensSyncAsThePage`: `TokenSpec => []SyncsAsThePage`; `TokensPromisedSyncs`:
  `TokenSpec => []PromisedSyncs`; `TokenTypes`: `TokenSpec => []TokenTypeOK`;
  `TokensInv`. Neither of the first two is inductive. Who
  a device syncs as depends on the row its cookie finds, so ids must be given once
  (`IdsAreNew`), or a later sign-in could put another scout's row under a cookie
  still kept; all a device with a page holds, and the answer on its way, must be
  that page's scout's (`PagesHold`); tokens must be signed with the key that is
  stored, as the Pi may read it at any start (`TokensAreSigned`); and a promise
  must stand on a token that lasts as long while no sign-out is on its way
  (`PromisesStand`). The steps that only take something away share one lemma,
  `LosesInv`; the others have one each.

### `Replica_proofs`: any viewers, rows, builds, pages, log

* `CopiesAreCuts`: `ReplicaSpec => []CopyIsTheCut`
* `ReplicaInvariant`: `ReplicaSpec => []RInv`; `ReplicaTypes`: `ReplicaSpec => []ReplicaTypeOK`

The Pi's tables are the log's last word on each row, in today's schema
(`LogIsStored`). Wherever a device's copy is on its way, handed out, downloaded
or in the hands of a pull, it is of a moment of the log (`Held`), and rows logged
after that moment are of its schema or a newer one (`NoOlder`). So a page that
passed the schema check has only rows of the copy's schema, whatever upgrade
comes between the answer and the file (`PullHolds`). That replaying a page gives
the tables as they were at its end is shown number by number, as for the log of
`Courier`; the recursion is a function of the positions, since the prover can do
nothing with a fold.

### `Assignments_proofs`: any people, pools, schedules, revisions, requests

* `NobodyIsDoubled`: `RotaAlone => []NobodyDoubled`
* `AssignmentsInvariant`: `RotaAlone => []AInv`; `RotaTypes`: `RotaAlone => []RotaTypeOK`
* `EveryGridIsDealtFairly`: `DealtFairly` of every grid and schedule whose matches
  have each robot once; `RotaDealtFairly`: `RotaAlone => []DealtFairly` for such
  schedules.
* `EveryGridsSuggestions`: what `SuggestionsHold` says, of every grid, schedule and
  relief; `RotaSuggestions`: `RotaAlone => []SuggestionsHold`.
* `EveryHoleIsSomebodys`: `HolesAreSomebodys` of every finite grid, whatever is
  observed; `RotaHoles`: `RotaAlone => []HolesAreSomebodys`.

What `distribute` computes is shown match by match, each dealt once: a place
somebody has stays theirs, and open ones go to people with none, one each
(`DealIs`, `DealtIs`). In a finite order each place from the first to the last is
somebody's, and only theirs (`Ranks`, by counting: `Places` for the open robots,
`Turns` for the free), so the open robots and the free pair up until one side is
spent, and whoever is rested comes before whoever is tired (`DealServes`). One
match more to fill is one `Deal` more, of the duties the others leave
(`ToFillIs`, `NextDealt`). That a match has each robot once is needed: a robot
listed twice would take two turns.

What `rotation` computes is shown scout by scout (`RotationGoes`, `GoesOn`). Whoever
is suggested has no robot of the match and would run through it for `LONGEST_RUN`
matches at most (`RelieverIs`), and what they take over is a robot its scout has
(`SuggestionIs`), so nobody gets a second one of a match (`TakenOver`). That match
joins what they had on both sides of it: around another of their matches the run
is then the one around this match or no longer than it was (`TheirOtherRun`), and
everybody else's runs only shrink, so those settled before stay so (`StaySettled`).

`AInv` says what a request that nobody has written beside
still knows (`Knows`): the robots of its match and who else is on one, or that
what it is about to hand out is for people with none (`HandsOut`). A match may
have somebody on two robots only while a save still takes robots off
(`ClearingBy`), and that save knows that nobody is on two of the others. A write
makes every other request stale (`OutdatedIs`), so each step has only its own
request and match to answer for (`WroteHolds`).

### `PickList_proofs`: any teams, rows, leads, copies, changes, base

* `RowsReadAlike`: `PickAlone => []ListReadsAlike`
* `EveryChangeLands`: `PickAlone => []ChangesLand`
* `RetiredIdsStayOff`: `PickAlone => []RetiredStayOff`
* `EveryMoveLands`: `PickAlone => []MovesLand`
* `PickInvariant`: `PickAlone => []PickInv`; `PickTypes`: `PickAlone => []PickTypeOK`

`PickAlone` is the list by itself, as it is in `MCBoard`. Four layers:

*Keys.* `MidpointBetween`: between two keys of any length there is one more, and it
ends in no lowest digit, so there is room beside it again; `BetweenIs` adds the
jitter and the keys past the end. The keys of the first rows are in their order
(`SeedKeysInOrder`, by least counterexample).

*Registers.* A set of items is `Orderly` when each has a name of its own and every
part of it has an item that saw none of the others, one that none of them saw, and
one of the greatest client: what a finite set without cycles has, stated so that
no induction is needed. Then a register that has all its items went on from
(`Whole`) has exactly one end (`PathEnds`, `OneEnd`). What is the end among more
items was the end among fewer (`EndedBefore`): the fact `RetiredStayOff` needs.
What one new client writes keeps the order (`OrderlyGrows`).

*Lists.* A good document reads as a list whose places are 1 to its size
(`PlacesAre`, by counting), and the document of the first rows reads as those rows
(`SeedRows`). Each edit that `Apply` takes makes a change of its kind (`ApplyIs`).

*Steps.* `PickInv`: all items there ever were are `Orderly`; every copy, kept or on
the Pi, has of a change all or nothing and what it went on from (`CopyOK`); a
change not yet saved goes on from what the Pi has (`LeadsOK`); the Pi's document is
the rows' and what landed (`LandedOK`); the rows are what it reads as and the
device's are the same (`Reads`, `Mirrors`); and the pick of a retired id is gone or
written over (`RetiredOK`). Both merges on the Pi share one lemma, `MergeHolds`.
`ChangesLand` and `MovesLand` follow from the state alone: who else wrote to a
register must have landed (`MarkedBy`), a cross written with its pick is last only
when it is alone (`FirstIsSeen`), and a key strictly between those of its
neighbours is at the place between them (`PlaceBetween`).

### What stays with TLC

* Liveness (`EverySyncEnds`, `RecordedFormsLeaveTheQueue`, `RecordedRefusalClears`,
  `PiCatchesUp`, `PagesCatchUp`, `SyncNowBringsAll`): the prover has no fairness
  and no `ENABLED`.
* The type invariants of the composed runs (`DeviceTypesOK`, `ServicesTypesOK`,
  `BoardTypesOK`): each is the conjunction of its components', and every one of
  those is a theorem of its component (`CourierTypes`, `ReplicaTypes`,
  `TokenTypes`; `FeedTypes`, `UpstreamTypes`, `BackupTypes`; `PickTypes`,
  `RotaTypes`, `HandoffTypes`), whose variables no other part changes.
* A fresh rota being even (`EveryFreshRotaIsFair`) and `EveryFormReadsBack`: what
  `distribute` comes to over a whole event, and `SeasonForm` over a form's nested
  questions. What a recursive definition yields for every input is an induction over
  data the installed provers cannot do; where it goes number by number, as
  `distribute` does match by match and `rotation` scout by scout, the least number
  where it fails does instead (`CountUp`).
* That the closed forms of `Midpoint`, `LastWrite` and `Scouts` are what `midpoint`,
  yrs and `rotation` compute step by step: read off the code, not proved.

## Plan

What is left, most worth doing first.

1. `DeviceFile`: `flush` with its `saving` and `saved` (`tt-client/src/lib.rs:164`
   returns at once when another flush is under way and leaves the writing to its
   loop), several callers, failed writes, two contexts; composed with
   `OutboxSync`'s `disk`.
2. `OutboxSync`'s pull with assignments, pick lists and upstream rows in one page,
   which `Replica` has for one kind of row without pushes.

## Not modelled, and why

* Rendering (`tt-pages`, `tt-templates`, the page handlers): reads state and
  changes none. What the two pages that follow the logs show is in `ChangeFeed`.
* Statistics (`ranking`, `standings`, `graph`, `profile`, component OPRs):
  floating point.
* Points and weights of the season, reading the season's file.
* Signing up, passwords, roles, the device heartbeat: single rows, written and
  read in one request. Signatures and hashes are libraries; a token is modelled by
  who it names and the key it was signed with.
* The choice of a network interface and the connection chips: pure functions of
  what is measured. That the uplink comes and goes, and the sync this asks for,
  are in `UpstreamSync`.
* The check of a restored database, a copy to a stick: they read a snapshot.
* Copying of QR codes by cameras: a code is read or it is not.
* Parsing of FIRST's and TBA's JSON, dates of events, pacing of requests.
* Load test, deployment, units of systemd: tools around the program.
