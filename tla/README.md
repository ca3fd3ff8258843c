# CalBridge Sync in TLA+

CalBridge Sync copies calendars from one CalDAV account to another. A user
configures *sources* (a source account, a destination account, an interval, a
direction, a conflict strategy); a scheduler runs a sync of every enabled source
again and again; each sync compares both sides event by event and writes what
differs. This directory holds TLA+ models of the parts in which something can go
wrong that a test would hardly reach, the TLC runs that check them, and proofs.

Paths below are relative to the repository's `internal/` unless they start with
`cmd/` or `web/`.

## 1. Inventory

| Part | State | Operations | Concurrency and failure | Correct when |
|---|---|---|---|---|
| `cmd/calbridgesync/main.go` | the process | start scheduler, serve HTTP, on a signal `Stop`, then `Shutdown` | requests are served during `Stop` | it exits; nothing runs behind `Stop` |
| `scheduler` | `jobs`, `syncLocks`, `wg`, context | `AddJob`, `AddJobWithDelay`, `RemoveJob`, `UpdateJobInterval`, `TriggerSync`, `Start`, `Stop`, the job loops, `executeSync`, the staleness check | one goroutine per job and per trigger; critical sections under one mutex, `TryLock` on per-source locks outside it | no double close, no lost loop, one sync per source, locks released, `Stop` returns |
| handlers of the API (`web/api_handlers.go`) | none of their own | sources: create, update, delete, toggle, trigger (read row, write row, call scheduler); malformed events: delete one, delete all; alert preferences: save | one goroutine per request; no transaction spans the steps; writes fail (SQLITE_BUSY) | exactly the enabled rows have a job; an acknowledged save is stored |
| sync engine (`caldav/sync.go`) | `synced_events`, `sync_states`; locals of a pass | `SyncSource`, `syncCalendar`, `fullSync`, `cleanupDuplicates`, `finishSync` | every request may fail; people edit both sides meanwhile; crash at any point | nothing is lost that nobody deleted; the sides converge |
| CalDAV client (`caldav/client.go`) | the collector of malformed events | listings by query, then PROPFIND and MULTIGET, then one by one; PUT, DELETE, discovery | one event fails a whole request; listings may be incomplete without an error | a listing has each readable event once; what is broken is on the malformed-event list, and nothing else for long |
| WebDAV-Sync (`caldav/webdavsync.go`, `syncCalendar`) | sync token per calendar | report of changes since the token | changes are applied, failures logged, token advanced; the server may refuse a token | what the token covers has arrived; nothing goes back; the fallback works |
| notifier (`notify`) | `staleState`, `lastAlertTimes` | stale and recovery alerts with a cooldown, by the user's preferences or the configuration; `ClearStaleState` | called by check, syncs and handlers; sends in goroutines | a marked source is a stale one; recoveries follow stale alerts; opt-outs and cooldowns hold; every channel is tried |
| activity tracker (`activity`) | active syncs, the last 20 finished ones | `StartSync`, updates, `FinishSync`, queries | called by overlapping syncs | entries match running syncs |
| database (`db`) | SQLite tables | single statements | busy timeouts, crash between statements | - |
| web (handlers, middleware, routes, templates), `auth`, `crypto`, `config`, `validator`, `health` | cookies, limiter buckets, a cached report | request plumbing, login, pure functions, probes | - | - |
| `web/` | React state | views of the API | polling | - |

How they interact: handlers call the scheduler's methods in their request's
goroutine; the scheduler's goroutines read rows by id, call `SyncSource` and the
notifier; the engine calls the client, writes `synced_events`, `sync_states`,
status and log rows, and reports to the tracker, which the API reads. The job
table, the lock table, the notifier's map and the tracker's map are shared
memory under one mutex each; *nothing* holds a row and the scheduler's view of it
together, and nothing holds the two calendars together. That is where the hazards
listed in `PROJECT.json` come from.

## 2. Modules

| Module | What it is |
|---|---|
| `Scheduler` | scheduler.go with the start and stop sequence of main.go and, as its most general client, all the calls handlers could make in any order |
| `SyncExclusion` | abstract: a source is synced by one goroutine at a time, until its lock is thrown away |
| `SourceHandlers` | extends `Scheduler`; the general client is replaced by the handlers, step by step, with the rows they copy |
| `FullSync` | `SyncSource` over the selected calendars, `fullSync`, `cleanupDuplicates`, the servers, faults, crashes, and people |
| `CalendarMirror` | abstract: what a sync may write, given one view of each side |
| `DeltaSync` | `syncCalendar`: the WebDAV-Sync path with its token, and the fallback, seen from single events |
| `CalendarListing` | `GetEvents` with its fallbacks, and the malformed-event list through passes and people |
| `AlertDelivery` | alert preferences as they are saved and read, cooldown, choice of channels, the goroutines that send |
| `SyncStatus` | what the rest of the program believes about a sync: status row, tracker entry, stale mark; overlaps, failures, crash and restart |
| `SchedulerProofs`, `SourceHandlersProofs`, `FullSyncProofs`, `FullSyncSafetyProofs`, `CalendarListingProofs`, `SyncStatusProofs`, `DeltaSyncProofs`, `AlertDeliveryProofs` | theorems and proofs |
| `MC...` | instances for TLC: symmetry sets, homes of events, directions, preferences |

Definitions named `...Over`, `...Leak`, `...Blind`, `...Old` and the like, marked
"Mutant", are wrong variants of the definition they precede. No specification
uses them; substituting one for its original must make a property fail, and
shows that the property can fail.

### Scheduler

State: `jobs` and `syncLocks` are the maps; `stopped` are the jobs whose `stopCh`
is closed; `locked` the mutexes that are locked; `pc`, `src`, `lock` the program
counter, source and mutex pointer of every goroutine. A `Job` and its goroutine
are one identity, since `AddJob` makes both; triggers are further goroutines.
Jobs and mutexes are *objects*: replacing a map entry leaves the old object in the
hands of the goroutines that point to it, and this is what makes the hazards.

Every critical section under `s.mu` is one action (`AddJob`, `RemoveJob`,
`GetSyncLock`, `StopJobs`, ...). `executeSync` is a chain of actions, because
anything may happen between `getSyncLock`, `TryLock`, reading the row, the sync
and its return. `UpdateJobInterval` is two (`Launch` is what follows its unlock).
`Start` adds one job per action; the handlers run only when it is done, the job
loops at once. The staleness check takes its snapshot (`CheckBegin`), judges one
source after another (`CheckSource`) and marks it (`SendStale`) in separate steps.

Abstractions: time is left out, so a tick and a stale verdict may come at any
moment; `SyncSource` is one step that succeeds or fails; the notifier is assumed
configured. `nextSyncAt` is shown in the API and read by no decision; the cleanup
and health-log routines keep no state. `removed` is a history variable.
`Exit` ends every goroutine: no action is enabled afterwards, hence
`CHECK_DEADLOCK FALSE` in these runs.

### SourceHandlers

A handler is `idle` or waits to take its next step with the row it has read
(`hrow`). A row is `none`, `enabled`, `disabled` or `deleted` (ids are UUIDs and
never come back). `DbMayFail` lets writes fail. `stranded` is a history variable: the
sources whose job `APIDeleteSource` removed and whose row it then could not
delete, until a later request or a restart puts that right. Requests rejected by
validation change nothing and are left out.

### FullSync

State: `cal`, `dest` and `recs` are the source calendars, the destination
calendar and the `synced_events` rows; the rest are the locals of a pass under
their names in the code (`smap` is `sourceEventMap`, `dmap` `destEventMap`, `keys`
`destDedupeMap`, `current` `currentUIDs`; `slist` and `dlist` are the listings).
One phase per loop of `fullSync`, one action per round of a loop, so that edits,
faults and crashes fall between any two rounds.

An event is a UID with a content, which stands for the data, the summary and start
time: `Keys` says which events have the same dedupe key. ETags are made by the two
servers, each in its own way, and the code compares one server's with the other's
(sync.go:637). So when both listings are there `EqualTags` chooses the set `same` of
events listed with equal ones, any set that `Matching` (pairs of contents whose ETags may
be equal) and `Differing` (pairs whose ETags may differ) allow: hashes of the content,
numbers that never agree, and counters that agree by chance for different contents are
all instances. `Past` contents start before the `sync_days_past` cutoff. `recs`
keeps of `updated_at` only what the code asks: within the safety threshold
(`fresh`) or before it (`old`); `IntervalPasses` ages all rows at once between
passes. All selected calendars write to the *first* calendar of the destination
(sync.go:457-460), hence a single `dest`.

The deletion loop asks the server to delete an event and then drops its record:
`DeleteFromDest` and `DeleteFromSource` are the first, `ForgetStep` the second, and
`forgetting` holds the UID in between, where the process may die.

Faults: a listing fails or is incomplete (`getEventsIndividually` skips what it
cannot fetch), a PUT or DELETE fails, a database access fails, the process dies.
An incomplete listing that is empty is a `fetch` fault: the code cannot tell the
two apart. `Blank` contents are events the encoder refuses, such as one without
DTSTAMP: the query lists them with empty data, and `PutEvent` skips them and reports
success (client.go:573-578). `wiped`, `lapsed`, `owed` and `clean` are history for the
properties: what people have deleted on the destination, what a sync has deleted there
without the record going too, the deletion that a next pass is to repeat on the other side,
and whether a pass had neither faults nor edits. `edits` and `faults` count against their
bounds.

`CalendarMirror` knows which steps are edits by people (it counts them, as the
detailed module does), so no write of the sync passes for an edit: each must be a
`CopyOut` or a `CopyBack` of what the two listings said.

Left out: the PUT that succeeds on the server but is reported failed (the model's
failed PUT has no effect), events without UID (skipped by every loop), counters,
status and progress, and the choice of the destination calendar: the code takes the
first one it discovers, and when discovery fails the path of the configured URL
(sync.go:443-450), which may be another collection; `DeltaSync` has that.

### DeltaSync

The source server numbers its changes; the version of an event is the number of the change
that made it (`ver`), a token is the number of the last change a report covers. `dest[u]`
is the version on the destination, 0 if none; `token` is the `sync_states` row. A pass
reads the token (`Begin`), probes (`Probe`), asks for a report (`Report`), puts and
deletes event by event (`Put`, `Delete`) and stores the token (`Finish`). A probe or a
report that fails, and a token older than `oldest`, lead to `List`, which is `fullSync`
reduced to its effect on single events of a one-way source: `FullSync` has its loops, and
the composition of both would repeat them. The reduction keeps how that can go wrong.
`ListHere` compares the two listings: one of the source may be incomplete or empty (failed
single fetches, a garbled PROPFIND, client.go:382 and 447) and the code goes on with it;
one of the destination may be incomplete or have failed, which counts as empty
(sync.go:470). `PassedOver` are events that `fullSync` may leave as they are: before the
cutoff, a look-alike's, or with an ETag that matches by chance. `ListElsewhere`: the
WebDAV-Sync path writes to the collection of the URL (sync.go:291), `fullSync` to the
first calendar it discovers (sync.go:460); where they differ, `fullSync` leaves the former
as it is. `Begin` asks that no other pass is under way, which is what the scheduler's lock
gives as long as the source is not removed.

Faults: failing reads, requests and writes, listings as above, events without data in a
report, an answer without a token (an empty one is stored, and the next report lists
everything), a cancelled context (after which every request of the pass fails, while
`UpsertSyncState`, which takes no context, still works), a crash, expired tokens, and
a change of the destination by `APIUpdateSource`, which keeps the token and lets a
sync under way go on for the old one (`stray`). `SameHref` are the events whose
path is the same on both servers: only those can a report delete. `dropped` is
history: the events whose last change the code has given up, knowingly (it logs a
warning) or because no report has it; those that the fallback left as they were although
they are not what the source has; and those it deleted although the source has them.

### CalendarListing

An event counts only by its kind: good, *blank* (decodes, cannot be encoded again),
*broken* (does not decode, with an error that `IsMalformedError` knows), *odd* (does not
decode, with another error) or gone. The pass goes from calendar to calendar: `Clear`,
`Query`, `Propfind`, `FetchBatch` per batch, `FetchSingle` per path after a failed
MULTIGET, `Save` per malformed event. People change events between any two requests, and
delete from the list: `DeleteRead` reads the row, `DeleteApply` deletes the event at its
path and the row under its id, which a sync may have replaced in between (`valid`). A
calendar whose WebDAV-Sync report succeeds, or whose token cannot be read, is through
without `fullSync` (`SyncByReport`, sync.go:278-333): nothing of it is listed, cleared or
stored. Which it is may differ from pass to pass. `steady` and `missed` are history: what
has not changed since the listing began, and what a failed request kept from it.

Left out: two passes of one source at once, and the rest of `fullSync`.

### AlertDelivery

One user, since users share nothing but the configuration. A save is an UPDATE, an INSERT
if that has met no row, and then the answer (`SaveUpdate`, `SaveInsert`, `Confirm`);
between any two another save may come, or the process end, and `user_id` is UNIQUE. So
saves may be answered in another order than they were stored, and one stored may never be
answered. `may` is history and says what somebody must reckon with who sees only requests
and answers: a request adds what it saves, and a 200 leaves only that and what the saves
that overlapped it (`over`) save. A check or a sync reads the preferences (`Read`, which
falls back to the global switches when it fails), then decides (`SendStale`,
`SendRecovery`) and starts a goroutine, an element of `alerts`, which tries one channel
after the other (`Send`). That a source is stale or recovered may be found at any time:
`SyncStatus` models when. `ClearStaleState` is `RemoveJob`'s call, `Restart` keeps the row
only. The cooldown is a duration: minutes times `Minute`, which wraps at `Half` (2^63 in
the code) as the product in `getCooldownPeriod` does. `may`, `over`, `era` and the fields
`off` (what nothing in `may` has on) and `lost` of an alert are history.

Left out: texts and addresses, and the outcome of a request, which is logged and decides
nothing. An email alert without any recipient is not sent, and counts as tried. The
configuration's own cooldown is one that `ValidateConfig` accepts and the product in
main.go did not overflow.

### SyncStatus

A sync is cut into the points at which something outside it can be seen: the lock
(`Begin`), the status "running" (`WriteRunning`), `StartSync` of the tracker
(`Connect`), the final status (`Finish`), `FinishSync` of the tracker (`Untrack`)
and the recovery alert (`Recover`). The scheduler is reduced to its lock, which
`RemoveJob` (`Unschedule`) throws away, so that syncs of one source may overlap.
The staleness check is `CheckBegin`, `CheckSource`, `SendStale`. The age of a row is
one bit (`aged`): it is set at any moment, and cleared by *every* write of a status,
as `UpdateSourceSyncStatus` does. The cooldown is one bit as well. `told` is the last
alert about a source that was decided on; it survives a crash, since mails do.
`spoiled` and `dropped` are history: sources whose last status write failed, and
sources that lost their lock entry.

Left out: messages, progress, log rows and the list of recent syncs. "partial" and
"success" are one value, since nothing decides on the difference.

## 3. Runs

Passing runs:

| Run | Checks | Bounds |
|---|---|---|
| `Scheduler_safety` | `NoDoubleClose`, `NoOrphanLoop`, `LockDiscipline`, `ExclusiveUnlessRemoved`, `LocksPrivate`, the inductive invariant, refinement of `SyncExclusion` | 2 sources, 2 jobs, 3 locks |
| `Scheduler_live` | `StoppedLoopsEnd`, `LocksReleased`, `StopTerminates` | 1 source, 2 jobs (one and its replacement), 1 trigger, 1 lock; fairness |
| `Handlers_serial` | the inductive invariant `HInv`, `JobIffEnabled` | 1 source, 1 request at a time, failing writes |
| `FullSync_oneway` | `ExactMirror`, `PastKept` | 1 calendar, 2 events, one content before the cutoff and one blank; ETags that match, if at all, by chance for one pair of different contents; 2 edits, 2 faults of any kind |
| `FullSync_calendars` | `NothingMissing`, `OthersKept` | 2 calendars, two-way; ETags are hashes, except for one pair of contents where they may coincide; 1 edit, 1 fault |
| `FullSync_destwins` | the inductive invariant, `SourceLossJustified`, `ForeignUntouched`, refinement of `CalendarMirror` | 2 events; 2 edits, 2 faults (failed requests and database accesses, crash); ETags never equal |
| `FullSync_live` | `Converges`, `DeletionsSettle` | 2 look-alike events; ETags as for `FullSync_calendars`; 1 edit and 1 fault or crash at any time; fairness |
| `Status_all` | `RunningIsTrue`, `TrackerIsTrue`, the inductive invariant, `NoUnheraldedRecovery`, `RunningEnds`, `MarkIsCleared` | 1 source, 2 syncs, 1 fault beside what an earlier run left behind; fairness |
| `Delta_all` | the inductive invariant, `TokenHonest`, `NoRegress`, `Settles` | 2 events (one whose path differs), 2 passes, 4 changes, 2 faults of 15 kinds, one event the fallback may pass over, one more calendar on the destination; fairness |
| `Listing_all` | `ListingHonest`, `BrokenShown`, `RepairedCleared` | 2 calendars of 2 and 1 events of any kind, batches of 1, with or without WebDAV-Sync; 1 edit, 1 fault; fairness |
| `Alerts_all` | the inductive invariant, `AckedStored`, `OptOutHonoured`, `CooldownKept`, `EveryChannelTried` | 1 source, 2 requests, 2 sets of preferences, one with a cooldown that overflows, 2 alerts, 3 instants, 1 fault, removal or restart; fairness |

Why these bounds. Two jobs are a job and its replacement, which all the hazards of the job
table need, and two jobs of two sources are what a mix-up of locks needs; locks are
re-used once nobody points to them, so three are never short. `Scheduler_live` has one
source, where a job is started, replaced, removed and triggered; the delayed start, which
only a second source at `Start` has, is in `Scheduler_safety` alone. Its one mutex makes a
sync that starts after a removal wait until the one before it is done. For a sync, two
events are what a duplicate, or a bystander, needs; two calendars what a conflict between
calendars needs; one edit before and one during a pass; and one or two faults, because
every fault is a step that did not happen and the next pass starts from nothing but `cal`,
`dest` and `recs`. The initial states are *all* pairs of calendars without records. In
`SyncStatus` two goroutines are what an overlap needs, and the initial rows are all that
an earlier run, cut off anywhere, can have left. In `DeltaSync` an event that is created,
changed and deleted beside another that changes needs four changes; two passes are what an
overlap needs (the mutant of `NoRegress` shows it). In `CalendarListing` batches of one
path make two events take two batches, one of which fails, and a second calendar is what
wipes the rows of the first; all combinations of kinds are initial. In `AlertDelivery` the
two sets of preferences are all off and as chatty as the configuration allows, the first
with a cooldown whose product is negative; two alerts are what a cooldown relates, and two
requests what a race of saves needs. Time stands still after the last alert, which tells
nothing new.

One run ends in a violation: `FullSync_undated` shows `SourceLossJustified` fail for
events the encoder refuses. The query lists such an event with empty data; `PutEvent`
skips it and reports success; the pass records it as synced; and a later two-way pass,
which does not find it on the destination, deletes it from the source. The comment at
sync.go:535-537 promises the opposite.

### What the passing runs exclude

Some assumptions of the passing runs are there because the property fails without
them. The behaviour follows from the code and is described here:

- *Records that stay.* When a sync has deleted an event from the destination, because it
  had gone from the source, and then dies or fails in `DeleteSyncedEvent` (sync.go:563), a
  row outlives the event. If the event is restored on the source after the threshold, it
  is deleted there, although nobody deleted it on the destination. `SourceLossJustified`
  has this case in its formula (`lapsed`), and all those faults and crashes are in its
  run.
- *ETags that coincide.* The push loop compares the ETag of one server with that of
  another (sync.go:637). Where they are equal for different contents, two counters say,
  the event is never updated, on either side, and counts as recorded. `ExactMirror`,
  `NothingMissing` and `Converges` hold up to such pairs (`PassesFor`), which are in their
  runs.
- *Incomplete listings* (`"partial"`). `getEventsIndividually` (client.go:382) skips
  what it cannot fetch; an incomplete, non-empty destination listing looks like
  deletions by a person, and two-way syncs carry them to the source.
- *Look-alike events* (`Shared = {}` there). What `cleanupDuplicates` removes from
  the destination counts as deleted by a person one pass later; and of two
  look-alike events of two calendars it removes the other calendar's.
- *Blank events* are in `FullSync_oneway` only; see `FullSync_undated` for two-way.
- *What the push loop overwrites.* It writes the source's version to the destination
  whenever the ETags differ, with `latest_wins` too, where the form of the frontend says
  "Most recent change is kept" (SourceAdd.tsx:491): no code compares times. With
  `dest_wins` and edits on both sides the two versions swap sides, since the pull loop
  works from the listing.
- *Deletions that bounce.* The deletion loop deletes an event from the source, but the
  push loop ranges over the listing, finds the event missing on the destination and
  creates it there again in the same pass (sync.go:605, against the comment at 579).
- *One-way with several calendars.* Each calendar deletes the others' events as orphans
  (sync.go:720), which the comment at sync.go:665 says cannot happen; `OthersKept` is
  checked for two-way calendars and proved unless a one-way calendar meets `source_wins`.
- *Overlapping syncs.* Disabling and enabling a source during its sync replaces its lock
  (scheduler.go:203), and a second sync of it runs beside the first, which the comment
  at scheduler.go:40 says cannot happen. `ExclusiveUnlessRemoved` has this exception in
  its name. On the WebDAV-Sync path such an overlap lets an old report overwrite a newer
  event and a newer token (the mutant `BeginOverlapping` of `DeltaSync`).
- *Late goroutines.* `executeSync` of a loop or trigger that starts after `RemoveJob`
  makes a new lock entry for the deleted source (scheduler.go:356), which stays.
  `UpdateJobInterval` counts its goroutine after its unlock (scheduler.go:242), so a
  `Stop` in between returns before that goroutine has started and ended.
- *Overlapping requests.* A handler reads a row, writes all of it back and then applies its
  own copy to the scheduler. Of two requests for one source the later write may undo the
  earlier (a PUT a toggle), and the scheduler may end with what the earlier said:
  `JobIffEnabled` fails. The run allows one request at a time; the proof allows requests
  for different sources to overlap.
- *Failing sources.* Every status write refreshes `last_sync_at`, the failure's too
  (queries.go:251), so a source that fails at every tick is never judged stale.
- *The interval.* Records are refreshed at the end of a pass and judged old one
  interval later (sync.go:538). When ticks come on time they are still fresh at
  the next pass, and a deletion on the destination is undone instead of carried
  to the source. `IntervalPasses` lets more time go by whenever nothing runs, so
  `DeletionsSettle` speaks of deletions made on the destination when that has happened; nor
  of those that leave the destination looking empty, nor of those after which a fault or
  another edit comes (a lost record, say, or an event restored meanwhile).
- *Changes the WebDAV-Sync path gives up.* A put or delete that fails is a warning and the
  token advances all the same (sync.go:305-330), also when the context was cancelled
  in the middle of the batch. Items of a report without data are skipped. Deletions
  made before the first report, which has no token, are in no report. A deletion names
  the source's path and is sent to the destination, where it may not exist. A token
  outlives a change of the destination, so the new one gets only what changes from then
  on. All these are in `dropped`, and the properties exempt it. An answer without a token is
  stored as an empty one (sync.go:323): the token goes back to nothing, and the deletions
  up to the next report are lost with it. Further, a token that
  the server refuses is never cleared, so every pass ends in a full sync; and direction,
  conflict strategy, date filter and `synced_events` play no part on this path.
- *What the fallback undoes.* A full sync takes an incomplete or garbled listing of the
  source for the whole and, with source_wins, deletes the rest from the destination. The
  token is left as it is, so once reports succeed again nothing brings those events back:
  where the full sync itself would repair it in its next pass, WebDAV-Sync does not. Nor
  does a report bring what the fallback passed over. And what the fallback does, it does
  in the first calendar it discovers (sync.go:460), which need not be the one of the URL
  that reports write to (sync.go:291). `dropped` has all this, and `TokenHonest` and
  `Settles` exempt it.
- *Listings.* A PROPFIND body that does not parse is an empty calendar without an error
  (`parseEventPaths`), which a one-way source_wins sync turns into the deletion of
  everything it finds on the destination. `ListingHonest` exempts that listing. Blank
  events are listed by the query and dropped by MULTIGET. An event that does not
  decode in a way `IsMalformedError` does not know is skipped and recorded nowhere. When
  `GetEvents` fails, what the collector holds is dropped.
- *The malformed-event list with WebDAV-Sync.* As long as a token works `fullSync` never
  runs: an event that breaks is not put on the list, one that is repaired stays on it, and
  one that a person has removed from the list does not come back. `BrokenShown` and
  `RepairedCleared` speak of calendars that come to a full sync again and again.
- *The malformed-event list.* It is cleared for the whole source before every calendar, so
  it is incomplete during a pass, and a person's request may find its row replaced
  (answered 500 although the event was deleted). The request deletes whatever is at the
  path by then, a repaired event too.
- *Alerts.* Preferences that cannot be read are replaced by the global switches, so a user
  who opted out may be alerted. "Webhook on" of a user posts to the configuration's
  webhook even if its own switch is off. With both global switches off `IsEnabled` is
  false and personal webhooks are never used. Of two first saves one is answered 500. A
  save answered 200 may be overwritten by one that was sent before it and is answered
  after it. A source that flaps is alerted each time, since a recovery takes the mark and
  its time away. `Stop` waits for no sender and cancels the context of its webhook
  requests; mails have no timeout.
- *Huge cooldowns.* The API accepts any non-negative number of minutes
  (api_handlers.go:1105), and from about 154 million on the product with `time.Minute`
  overflows (notify.go:547): the cooldown is negative or short, and a stale source is
  alerted at every check. `CooldownKept` holds for cooldowns that fit into a duration; the
  others are in the run. (The configuration's own product, main.go:101, is only checked to
  be at least a minute.)
- *Huge intervals.* `APIUpdateSource` accepts any positive interval (api_handlers.go:700).
  If its product overflows, `time.NewTicker` panics in `UpdateJobInterval`, whose unlock
  is not deferred: gin recovers the request, and the scheduler's mutex stays locked for
  good. Intervals are not modelled.

### Fairness

`Scheduler!Fairness`: a goroutine that can run does (weak), and a sync ends, by its
context of 120 minutes (`syncTimeout`, scheduler.go:17) if nothing else. No fairness for
requests, ticks, triggers or the signal: they may never come. A `select` with several
ready cases picks one at random, so a loop whose ticker and stop channel are both ready
may take the tick many times but not for ever: strong fairness for `LoopExit` and
`CheckExit`. `FullSync!FairSpec`: the ticker starts pass after pass and every request is
answered or times out, so the sync as a whole goes on (weak). Crashes, edits and
`IntervalPasses` are never required; faults and edits are bounded, which is the usual
"eventually the network works and people stop editing". `SyncStatus!Fairness`: the process
is started again (`restart: unless-stopped` in docker-compose.yml), goroutines run, syncs
end, the tickers of the jobs and of the staleness check fire, and a handler that has
written the row goes on to the scheduler. Toggling, ageing, cooldowns and crashes are
never required. `DeltaSync!FairSpec` and `CalendarListing!FairSpec`: as for `FullSync`,
the sync as a whole goes on (weak), since the ticker starts passes and requests end.
`AlertDelivery!FairSpec`: while there is something to send some sender goes on (weak),
which is enough for all, since they are finitely many; webhook requests have a timeout,
and a mail server that accepts a connection and never answers is assumed away. Nothing
that people do, no decision, no tick and no restart is required.

## 4. Proofs

Checked by TLAPS for all values of the constants that satisfy the modules' named
assumptions (`SchedulerAssumption`, `FullSyncAssumption`, `SyncStatusAssumption`,
`DeltaSyncAssumption`, `ListingAssumption`, `AlertAssumption`), which say that sentinels
are no members of the sets they stand beside and that parameters have their types;
`ListingAssumption` also that there are finitely many events, since a listing is finite,
and `AlertAssumption` that the configuration is one `ValidateConfig` accepts.
`FullSyncAssumption` says that any two ETags may be equal or may differ (or both).

`SchedulerProofs`. The inductive invariant `IInv` is `TypeOK`, `JobInv` and
`LockInv`. `JobInv` adds to the two safety properties that a job in the map is
filed under the source its goroutine works for: without it one could not tell that
replacing an entry stops the right loop. `LockInv` adds that a goroutine has a
mutex pointer exactly between `getSyncLock` and its return, owns the mutex
inside the sync, and that its pointer is the map's until the entry is removed:
without the last part two goroutines of one source could have passed `TryLock` on
different objects. Theorems: `Invariance`, `TypeCorrect`, `ClosesOnce`,
`LoopsControlled`, `LocksDisciplined`, `SyncsExclusive`, `ExclusionRefined`
(every step is a step or a stutter of `SyncExclusion`) and `LocksApart` (`LocksPrivate` is
inductive beside `IInv`: a mutex is only ever made for, stored under and fetched by one
source).

`FullSyncProofs`. `IInv` is `TypeOK` and `PassInv`, which says for every phase what its
loop may rely on: the maps never hold what the listings lack, a round of the deletion loop
sees every listed event that it has not handled, the pull loop visits only events of both
sides, orphans are events the source listing lacks. This is just what is needed to see
each write as a `CopyOut` or `CopyBack` of the abstract mirror, which cannot hide a write
of the sync among the edits of people. Theorems: `Invariance`, `TypeCorrect`,
`MirrorRefined`. The last assumes `Shared = {}`: `cleanupDuplicates` deletes events that
both listings hold, which the mirror does not allow.

`FullSyncSafetyProofs`, first part: what a sync never takes away. `Sparing` is: no
calendar's sync looks for orphans (with `source_wins` all calendars are two-way), and no
two events look alike. `OthersSafe` and `ForeignSafe` rest on `OriginInv`, which needs
neither: whatever a calendar holds, lists or has recorded is its own, so no loop that
deletes or records ever visits another's event; orphans and duplicates are what remains,
and `Sparing` excludes. `SourceSafe` also assumes `Frank`: no content hides an event
(`Past`, `Blank`) and no incomplete listings. Each of these is needed: the section above
describes the run that fails without it. Its argument is `WitnessInv`: a record, an entry
of the destination map and an event still to be recorded each stand for an event that is
on the destination, or that somebody has deleted there, or that is in `lapsed`; and what
the deletion loop misses there is in `wiped` or `lapsed`. That an event leaves `lapsed`
with its record, in `ForgetStep`, keeps the exception as small as it is. `PastSafe` is
read off the refinement: no `CopyOut` of the mirror takes away what the listing did not
show. `OneWayReadOnly` needs no hypothesis: whatever else is selected, a sync writes
nothing to a one-way calendar, since the two loops that write to a source have nothing to
visit there (`PassInv`).

Second part: what a pass without faults and edits delivers. `NothingLost` assumes
`Delivering`: no look-alike events, no `dest_wins` in a two-way sync, and no orphans
unless there is but one calendar; and that every event can be written. Each is needed: a
look-alike is skipped as a duplicate, `dest_wins` swaps the versions of the two sides, and
of two one-way calendars each drops the other's events. `DeliveryInv` follows the pass:
the source listing shows what the calendar holds (`Seen`); before the push loop comes to
an event the destination is as it was listed and no dedupe key stands in its way,
afterwards it holds what was listed, or what the ETags took for it (`Pushed`, up to
`PassesFor`); and every calendar the pass is through with is delivered. That the last part
is kept while *other* calendars are synced is where `OriginInv` is needed again.
`MirrorExact` assumes `Solo`, a single one-way `source_wins` calendar, and adds
`ClearInv`: what the destination shows and the source does not is in the destination map
until the push loop is over, and then among the orphans still to be dropped. Neither asks
anything of earlier passes: the destination, the records and the calendars may be whatever
faults, crashes and people have left.

`SourceHandlersProofs`. `SchedulerRefined`: however requests overlap and fail, every step
of a handler is a step the general client of `Scheduler` may take (or none), so the
theorems of `SchedulerProofs` hold of handlers and scheduler together
(`HandlersKeepScheduler`); the one fact it takes is that a handler at work has found a row
(`RequestInv`). `MirrorKept` and `JobsFollowRows` have a premise about the behaviour,
`[]OneRequestPerSource`: requests for one source do not overlap, those for different ones
may, with each other, with `Start` and with all the goroutines. `MirrorInv` says that row
and job agree except for the source of a request that is between its two halves, and how
far they may disagree there (`Midway`), and for sources that `Start` has still to come to.
`SerialRequests` discharges the premise for the case the run checks. Also
`HandlersTypeCorrect`.

`CalendarListingProofs`. `IInv` is `TypeOK`, `FetchInv` and `ListingHonest`. The loops
over the paths are described by positions: `Reached` is the number of paths asked for,
`Positioned` says that the paths still to be fetched one by one are the rest of the batch,
and `Placed` that every event behind that position which has not changed is listed or
collected where it belongs, once. An event that changes leaves `steady` in the same step,
so people and `DeleteApply` disturb nothing. The rest is arithmetic of sequences
(`ConcatListed`, `BatchFacts`, `SingleFacts`); `SetListed` shows with the library's facts
on bijections that a set listed as a sequence has each element once. The run has batches
of one path; the theorems, `ListingIsHonest` and `ListingTypeCorrect`, hold for every
batch size.

`SyncStatusProofs`. `IInv` is `TypeOK`, `SyncInv`, `RunningIsTrue` and `TrackerIsTrue`.
The two properties are inductive once it is known whose row and entry a goroutine
touches: `SyncInv` says that a goroutine has a source exactly while it is in a sync,
that it has a result when it writes one, and that it holds the source's lock until
`RemoveJob` drops it; without the last part `FinishSync` could take the entry of
another sync. A mark stands for an alert that was sent, from which
`RecoveryHeralded` follows. Theorems: `Invariance`, `RunningTrue`, `TrackerTrue`,
`RecoveryHeralded`.

`DeltaSyncProofs`. `IInv` is `TypeOK`, `ClockInv`, `PassInv` and `TokenHonest`. That the
stored token is honest is inductive only together with what a pass carries: `PassInv` says
that one pass is under way, that it asked with the stored token, and that what its next
token covers is in its batch, among its deletions, or settled; a batch never holds a
version newer than the source's nor older than the destination's; and what it is to delete
is not on the source, if it is final, in a report, while the fallback may delete what is
(then it is `dropped`). `ClockInv` bounds versions and tokens by the last change.
Theorems: `Invariance`, `TypeCorrect`, `TokenHonoured`, `NeverBack`.

`AlertDeliveryProofs`. `IInv` is `TypeOK`, `SaveInv`, `DecisionInv`, `MarkInv`,
`AckedStored` and `CooldownKept`. `SaveInv` says what makes `AckedStored` inductive: what
a save has stored is still one of its own or an overlapping save's, so that its answer
cannot exclude the row, and the values of saves under way survive each other's answers.
`DecisionInv` ties an alert's channels to the preferences it was decided with, and those
to what was surely off when they were read; `MarkInv` says that the mark of a source
carries the time of its latest alert of this era, without which the next one could come
early. Theorems: `Invariance`, `SavesAcknowledged`, `OptOutsHonoured`, `CooldownHolds`.

Only model-checked: all liveness (`StoppedLoopsEnd`, `LocksReleased`, `StopTerminates`,
`Converges`, `DeletionsSettle`, `RunningEnds`, `MarkIsCleared`, `Settles`, `BrokenShown`,
`RepairedCleared`, `EveryChannelTried`), since fairness and ENABLED are out of the
prover's reach. Every safety property of the passing runs is proved, under the hypotheses
named above.

## 5. Not modelled

- Intervals and times in the scheduler, and with them the overflow of huge intervals in
  `APIUpdateSource` (that of cooldowns is modelled) and the race of ticks against the safety
  threshold; the models let any time go by between two passes instead.
- The list of recent syncs, progress counters, log rows and their cleanup, test alerts
  and the alert functions without preferences: nothing decides on them.
- Which destination calendar is taken (beyond `ListElsewhere` of `DeltaSync`), path
  construction, iCalendar and XML text: conversions, of which the models keep only how
  they can fail.
- Read-only handlers, HTTP plumbing, templates, sessions, OIDC, encryption,
  configuration and the frontend: no protocol state. The URL validator and the health
  report probe other systems, and nothing acts on what they find later.

## 6. Possible extensions

The composition of `DeltaSync` with the loops of `FullSync` for two-way sources, where the
records of a full sync and the deletions of a report meet; a clock for `synced_events`
rows; and refinements: `CalendarListing` of the `Listing` of
`FullSync`, and `AlertDelivery` of the alerts of `SyncStatus`.
