# Verification of stash-scanner

stash-scanner is a service beside a Stash media server. It walks the media
directories, asks Stash to scan the directories with changed files, waits for
the job, and records in a state file what it has seen and what it still owes.
This directory holds TLA+ specifications of it, their TLC configurations, and
proofs for TLAPS. Paths below are relative to `src/`; `runner.go` and its
neighbours are in `internal/app`.

## The system

| Component | State it keeps | Operations | Talks to |
|---|---|---|---|
| scan cycle (`runner.go`, `status.go`, `post_scan.go`, `job_wait.go`) | `running`, `cancelRun`, `currentRun`, `flushDebounce` under a mutex; the run's copy of the snapshot | begin, load, resolve roots, walk, resolve targets, request scan, wait, post-scan tasks, save, finish | store, detector, Stash client |
| control requests (`control.go`) | none of its own | run now, stop, flush | runner's fields, store, Stash client; run in HTTP handlers beside the cycle |
| policy (`debounce.go`, `retry.go`) | none: functions on the two queues of the snapshot | extend, resolve and clear the debounce queue; resolve and extend the retry queue; backoff | called by the cycle |
| detector (`internal/detect`) | none | walk, compare with recorded stamps, coalesce directories | file system |
| state store (`internal/state`) | the state file, and a metadata file for the status page | load, save (two files, each emptied and then written), requeue paths, load metadata | called by cycle, flush, `-requeue-paths`, the status request |
| scheduler (`internal/scheduler`) | none | wait, run; ends at the first error | cycle |
| process (`cmd/scanner/main.go`) | signal context | start, terminate, exit when scheduler or control server ends | all |
| Stash client (`internal/stash`) | none | request a scan or task, find a job, stop a job, library roots | the Stash server |
| identify sources (`internal/stash/identify_sources.go`) | none | find the sources of an identify task in Stash's settings | called by the client before a post-scan task |
| control server (`internal/control`) | listener | bind an address or the fallback address, HTTP routes | runner, the reviewer of the same process |
| review service (`internal/review`, `cmd/reviewer`) | queue snapshot, `running`, a queue file | refresh (every interval, or by request), status | Stash client, read page by page |
| scoring (`internal/review/score.go`) | none | score performers against an item's text, rank, cut | called by a refresh |
| configuration (`internal/config`) | none after start | layer defaults, file, `.env` and environment; validate | `main` |
| logging, version, pages | none that matters here | | |

What is hard about it, and what must hold:

* **The cycle records stamps before it knows that Stash has them.** Every exit
  of a run, failed or not, saves the walked stamps. A change survives a failed
  scan only because the same save puts its directory in the retry or the
  debounce queue. The main property: *the state file never records a change as
  seen that Stash has not scanned and that nothing queues* (`NoLostChange`).
* **Files change while the cycle runs**, before and after the walk has passed
  them and while Stash scans.
* **Calls fail, answers get lost, the process dies** between any two steps; a
  Stash job then runs on without a waiter (`OrphansAccounted`), and a restart
  must neither forget a retry nor count it wrong (`AttemptsCountFailures`).
* **Two queues with two clocks.** A debounced directory may be ready while a
  retry is not due (`BackoffRespected`), and later changes move the window of
  earlier ones (`WindowRespected`).
* **Four writers of one state file without a lock**: a run, a flush request,
  `-requeue-paths`, and (one after the other) successive processes.
* **Stop and flush read shared fields under the mutex and act on them after it.**
* **A save is four system calls on two files.** A reader, a second writer or the
  end of the process comes in between them (`DamageExplained`,
  `MetadataAgrees`, `StatusNeverAhead`).
* **A library moves while it is read page by page** (`NothingOverlooked`,
  `ListedRight`).
* **Wall clocks change and durations overflow** (`DailyRunLands`,
  `BackoffDoubles`).

`PROJECT.json` lists these as hazards, each with its line.

## The modules

| Module | What it is |
|---|---|
| `ScanPolicy` | The decisions, as operators without state: snapshot, change detection, both queues, requeueing, ageing of instants. Its constants describe the tree of directories and the configuration, with assumptions. |
| `Runner` | The state machine: scan cycle, control requests, scheduler, process, state file, `-requeue-paths`, Stash's jobs, the files. |
| `RunnerHistory` | `Runner` with history variables (failed requests, detections, flush and stop requests answered), and the properties that need them. |
| `RunnerLiveness` | `Runner` with fairness, and what it promises in the long run. |
| `ChangeDelivery` | The abstract specification: the content of a file is seen, unrecorded, queued or dropped. |
| `RunnerDelivery` | The refinement mapping from `Runner` to `ChangeDelivery`. |
| `StateStore` | The state and the metadata file below `Runner`'s load and save: single system calls, several writers, the status page, the process and its control server. |
| `Review` | The review service and the paged lists of Stash. |
| `Lists` | Sorting by place and filtering, for `Detect`, `Settings`, `Sources` and `Score`: `SortSeq` and `SelectSeq` are opaque to the prover. |
| `Detect` | The real `coalesceTargets` and `isChildPath` on spelled paths, with the walk that feeds them. |
| `Backoff` | The real `backoffForAttempt` with the wrap-around of a `time.Duration`. |
| `Schedule` | `nextWait`, on wall clocks that go forward or back. |
| `Settings` | The layers a setting comes from, the post-scan tasks, `Validate`. |
| `Sources` | `resolveIdentifyConfig`: settings, Stash's defaults, discovery. |
| `Score` | `scoreItem` and what it calls. |
| `MCRunner`, `MCRunnerHistory`, `MCRunnerLiveness`, `MCReview` | Values of the constants for TLC. `MCRunner` computes `Reduce` with `Detect` and `Delay` with `Backoff`, so the runs use the real algorithms. |
| `MCDecisions` | Draws an input of one of the pure decisions of `Detect`, `Backoff`, `Schedule`, `Settings`, `Sources` and `Score`, and states what its answer is for. |
| `RunnerProofs`, `ChangeProofs` | Lemmas about the operators of `ScanPolicy`, and `Runner`'s types; no change is lost. |
| `DisturbanceProofs` | What failures, stops, kills and requests can do to `Runner`: backoffs are waited for, orphans are accounted for. |
| `DeliveryProofs` | `Runner` implements `ChangeDelivery`. |
| `HistoryProofs` | What `RunnerHistory` says of attempts, debounce windows and requeued files. |
| `StateStoreProofs`, `ReviewProofs` | The invariants and action properties of `StateStore` and `Review`. |
| `DecisionProofs` | The decisions are right for every input, and hence the invariants of `MCDecisions`. |

`Runner` extends `ScanPolicy`; `RunnerHistory`, `RunnerLiveness` and
`RunnerDelivery` extend `Runner` and feed nothing back to it. `StateStore` and
`Review` stand alone: they share no state with the cycle but the state file,
which `StateStore` shows below the step `Runner` makes of it.

A definition whose comment calls it a faulty variant is a plausible mistake (a
swapped comparison, a lost queue, an overlooked job status). Nothing uses it;
putting it in the place of the definition it varies must break the property
that `PROJECT.json` pairs it with, which shows that the property depends on the
code it is about.

### Runner's state and steps

`pc` is where the run is; it is `"idle"` exactly when `Runner.running` is false.
One action is what another goroutine or process cannot come in between of: a
file system access, a call to Stash, a critical section of `Runner.mu`.

| Action | Code |
|---|---|
| `BeginScheduled`, `StartManualRun`, `FlushStart` → `beginRun`; `setRunCancel` | `beginRun` and the later, separate `setRunCancel` (runner.go:89-117) |
| `Load`, `LoadFails`, `watchRoots`, `Visit`, `ScanFails` | load, roots, and the walk one file at a time |
| `Resolve` | runner.go:175-222 and, without targets, 306-317: detection joins the debounce queue, a flush flag makes the queue ready, targets are resolved |
| `TriggerAccepted`, `TriggerUnnamed`, `TriggerFails` | the metadata scan (`stage` 0) or post-scan task number `stage` |
| `RegisterTask`, `PollFinished`, `PollFails`, `PollCancelled` | `updateRunTask` and `waitForJob` |
| `Save`, `SaveFails`, `finishRun` | the state file, the end of the run and of the scheduler after an error |
| `StopRead`, `StopCancel`, `StopJob` | `StopActiveRun`: read under the lock, cancel, ask Stash |
| `FlushRequest`, `FlushLoad`, `FlushAnswer`, `FlushSave`, `FlushFails` | `FlushPendingDebounce` |
| `RequeueLoad`, `RequeueSave`, `RequeueFails` | `Store.RequeuePaths` in a process of its own |
| `Sigterm`, `Crash`, `Exit`, `Restart` | the process |
| `JobVisits`, `JobFinishes`, `JobBreaks`, `JobForgotten`, `Change`, `Tick` | the environment |

Abstractions. A file's size and modification time are one *stamp*, new with
each change (so a change that keeps both is not seen, as in the code). A
directory is an opaque value with the set it covers. A sorted list without
duplicates is a set. Instants are relative to the present: `Tick` ages them all
by one, and those older than `Horizon` are one value; Go's zero time, which is
after nothing, is that value. A stop context is a boolean `cancelled`.
`SaveFails` and `FlushFails` may or may not have written the state file, since
`Save` also fails when only the metadata file cannot be written.

`waived` is a history of the versions of files a step drops on purpose, without
a scan. There are exactly three: a metadata scan cancelled by a stop or from
Stash's page (`PollCancelled`: the debounced targets are cleared, the stamps
saved), an accepted request without a job identifier or a dry run
(`TriggerUnnamed`), and a `-requeue-paths` that drops a queued directory above
a requested one. `NoLostChange` excepts precisely these.

### What the cycle promises, in the abstract

`ChangeDelivery` knows nothing of runs, queues or jobs. The present content of
each file has a status; `Arrive` makes a file new, `Deliver` lets Stash see it,
and `Record` moves it between *unrecorded* (the next walk will find it), *queued*
and *dropped*, the last only when something has disturbed a run. There is no
status "lost" and no step from *seen* back. `RunnerDelivery` computes the status
from the state file, the files and what Stash has seen, with a fifth value for
a change that nothing holds, which the abstract type excludes; every step of
`Runner` must then be one of these steps or none.

### StateStore's state and steps

The actors are a run, the handlers of flush requests and `-requeue-paths`; the
first two live in the service process and end with it. A file is a sequence of
pieces, each of which tells the save it comes from, so that a shorter text
written over a longer one, half a text and an emptied file all decode as
nothing.

| Action | Code |
|---|---|
| `BeginScheduled`, `StartManualRun`, `FlushRequest`, `RequeueCommand` | who comes to load and save |
| `Load`, `GiveUp` | `Store.Load` (store.go:57-76) and the returns between load and save |
| `OpenState`, `WriteState`, `OpenMeta`, `WriteMeta`, `SaveFails` | `Store.Save`: each `os.WriteFile` truncates, then writes (store.go:78-102) |
| `RunEnds`, `FlushStarts`, `RequeueEnds` | what follows a save |
| `LoadMetadata`, `LoadForStatus`, `StatusSent` | `Runner.Status` (status.go:56-79, metadata.go:9-27) |
| `ServerListens`, `ServerFails` | `Server.Run` with the fallback address (server.go:78-134) |
| `Sigterm`, `Crash`, `RequeueKilled`, `Exit`, `Restart` | the processes |

`Runner` takes a load and a save for a step each. `DamageExplained` says when
that is right: with no save cut short, failed or overlapped by another, the
state file outside a save holds the snapshot of the save that began last. What `Runner` therefore
does not show is a service that finds its state file unreadable; `StateStore`
shows it (`UnreadableIsKept`: such a file is never overwritten, and such a
service never works again by itself).

### Review's state and steps

The lists of Stash are sequences that `Edit` changes at any moment. `Begin` is
`beginRefresh`, `ReadPage` one query of `findScenes`, `findGalleries` or
`findPerformers`, `AskWithoutAliases` the second attempt when the schema has no
aliases, `CallFails` and `SaveFails` the error returns, `OpenFile` and
`WriteFile` the queue file, `Publish` the assignment of the snapshot, and
`Start` and `GoDown` the process, with `NewService`'s load. An entry is
collected as often as a page shows it, as in the code.

## What TLC checks

| Run | Instance | Shows |
|---|---|---|
| `runner_faults` | a parent and a child directory, a file in each, 2 changes, 2 failing calls, 1 kill; 870,000 states | `TypeOK`, `ChangesTracked`, `NoLostChange`, `AttemptsCountFailures`, `BackoffRespected`, `WindowRespected` |
| `runner_control` | run now, 1 stop, 1 flush, 1 kill, one post-scan task, 3 job identifiers; 880,000 states | `NoLostChange`, `OrphansAccounted`, `DeliversChanges` |
| `runner_requeue` | a parent and a child directory, a file in each, 2 changes, 1 requeue, 1 failing call; 670,000 states | `NoLostChange`, `WindowRespected`, `RequeuedIsRediscovered`, `DeliversChanges` |
| `runner_liveness` | 1 file, run now, one post-scan task, named and unnamed replies, 1 failing call, 1 stop, 1 requeue, with fairness; 300,000 states | `EveryChangeDelivered`, `EveryRunEnds` |
| `state_store` | a run, a flush handler and `-requeue-paths`, snapshots of two lengths, 2 saves, 2 failures or kills; 1,200,000 states | `TypeOK`, `DamageExplained`, `MetadataAgrees`, `StatusNeverAhead`, `StatusFollows`, `UnreadableIsKept`, `ServedOrGone` |
| `review` | 4 scenes, a gallery, 2 performers, 2 to a page, the loop and a request, 2 edits, 2 failures; 380,000 states | `TypeOK`, `NothingOverlooked`, `ListedRight`, `ShownIsSaved`, `EveryRefreshEnds` |
| `decisions` | every input of the sets in `MCDecisions`; 350,000 states | `EveryChangeIsTargeted`, `RedundantOnlyPastASibling`, `BackoffDoubles`, `DailyRunLands`, `PrecedenceHolds`, `TasksInOrder`, `AcceptedIsRunnable`, `SourcesDiscovered`, `CandidatesRanked` |

`decisions` and `review` turn the deadlock check off: a behaviour of the first
is one decision, and in the second a reviewer that finds a torn queue file stays
disabled for good.

What some of these say is weaker than one would wish, because the code is:

* `WindowRespected` excepts a flush that was merely asked for, and a request for
  due retries alone, which takes no notice of the window: a directory that waits
  for its retry and has changed again is scanned when the retry is due
  (retry.go:24). With ready targets of the debounce queue in a request, none of
  its directories may be inside its window, the due retries included.
* `RequeuedIsRediscovered` excepts what somebody writes who had loaded the state
  file before the request saved it.
* `DeliversChanges` lets a version be dropped once a call has failed or a stop, a
  kill or a `-requeue-paths` has come, and always where replies may lack a job
  identifier. So the runs that check it have named replies only.
* `AcceptedIsRunnable` does not say that an accepted configuration can reach
  Stash: `Validate` checks neither that the URL is an address nor that there is a
  key for the scan of configured roots. It says that nothing else is missing.
* `StatusNeverAhead` excepts saves that overlap, and `MetadataAgrees` and
  `StatusFollows` those that fail as well: after a failing metadata write the
  status page shows older queues until the next save.
* `NothingOverlooked` and `ListedRight` except lists that lost or got an entry in
  the part already read: pages are asked for by number, so a removal moves one
  entry past the reader and an insertion shows one twice. The refresh cannot
  know.
* `ShownIsSaved` and `DamageExplained` except a file torn by the end of the
  process or a failing write.

Five runs show a disagreement between the code and what the repository says:

* `retry_outlives`: README.md:130 speaks of a wait before the first retry. When
  a scheduled request fails, its error ends the scheduler and the process
  (scheduler.go:34-36, main.go:119-122): the retry it queued waits for somebody
  to start the service again.
* `stop_holds`: between `beginRun` and `setRunCancel` a stop reads a nil cancel
  function, is answered "stopping", and the run goes on to request its scan.
  (A request that was on its way when the context was done does not count.)
* `flush_promotes`: a flush answered "idle" leaves `flushDebounce` raised; the
  next run scans the changes it detects inside their window.
* `store_undisturbed`: README.md:117 calls the state file where state and retries
  are stored. A run and a flush that save at the same time, without any failure,
  can leave one that decodes as neither (store.go:88), and every later run ends
  with an error.
* `daily_waits`: README.md:177 says that the scheduler first waits. In the last
  hour of the day on which the clock goes back, a daily time in the first hour
  gives a wait of zero or less (scheduler.go:66): the scheduler runs at once, and again
  after each run until midnight.

Observed while modelling, and built into the models as the code has it:

* A stop of a scheduled run returns `context.Canceled` to the scheduler, which
  ends, and with it the process (scheduler.go:34-36, main.go:119-122), together
  with a manual run that may have begun meanwhile; this is the factor 2 of
  `OrphansAccounted`.
* A flush may write back a snapshot older than a run's save, which repeats work
  but loses nothing. A run may write back the entries a `-requeue-paths` removed
  while it was under way.
* README.md:129 calls `max_attempts` the maximum retry count; it only clamps the
  attempt number that selects the backoff, and a failing request is retried for
  ever (`AttemptsCountFailures` has the clamp).
* README.md:153 speaks of removing entries beneath the requested paths; a queued
  directory above one is dropped as well (the third case of `waived`).
* A daily run is skipped on a day that lacks its time, or comes an hour off after
  a change of the clock; `DailyRunLands` bounds it by the size of that change.
* The backoff keeps doubling only while there is room for a doubling in a
  `time.Duration`: with `max_backoff` above half of it, the product wraps around
  and the backoff is negative (`BackoffDoubles` says exactly when).
* `daily_time` alone is rejected, because the default interval of 15 minutes is
  still there (config.go:98-100, 150-154), unless the interval is set to zero.
* `Validate` accepts `dry_run: false` without a URL and an API key; every request
  of a run then fails (client.go:83-84), and with the first one the service ends.
* A variable that is set but not usable (only spaces, or not a number) hides its
  entry in `.env`, and the file or the default decides (config.go:274).

### Bounds

In `Runner`, `MaxStamp` bounds file changes, and `Budget` each kind of
disturbance: failing calls, stops, flushes, kills and requeues. Every other step
is unlimited: any number of runs, ticks, jobs and restarts between the
disturbances. The budgets are small because the hazards are local: one
disturbance between any two steps of a run, followed by any number of
undisturbed runs, and two changes, one before and one after the walk passes a
file. Three failures in a row, two failing calls and a request that a signal cut
short, reach the clamp of the attempt number (`MaxAttempts` = 2).
`JobId`s are reused when nobody remembers them. `runner_control` has three, so that
a run finds an identifier free beside the two orphans one disturbance may leave,
and a third would be one too many; a stop or a signal that ends the context of a
request on its way loses its answer, as a failing call would. The other runs have
one `JobId`.
`Horizon` = 1: a run lasts at most one tick, `Window` is one tick and the
backoffs one and two, so both sides of each comparison occur. Job identifiers
are symmetric; files and directories are not. The proofs below need none of
these bounds.

`StateStore`: two saves (`MaxSaves`; three in `store_undisturbed`) are enough for
one to overlap another or to follow a damaged one, two lengths for a shorter text
over a longer one, two disturbances (`MaxFaults`) for a failure while another is
not yet repaired. Loads, status requests and restarts are not bounded.

`Review`: three pages of scenes at most, so that entries move within, out of and
into what has been read; two edits for a removal and an insertion in one refresh.
Refreshes are not bounded.

`MCDecisions`: paths of up to 4 characters over `-`, `/` and `a`, one of which
sorts before the separator and one after, which is all the string order can do
to the tree; a `time.Duration` of 6 bits and attempts up to 7, past which the
product has wrapped or stopped; days of 48 half hours with a clock that goes
forward, back or not at all, at midnight, half past or three in the morning of
the second day; URLs that are missing, relative or absolute, with and without a
key; largest backoffs on a doubling of the initial one and beside it;
lists of up to two defaults, boxes and scrapers, three performers of which one
may be listed again, two words of text, and candidates cut to 2 instead of 5.

### Fairness

Only `RunnerLiveness` assumes fairness, all of it weak: of the run, of the
handlers of a stop and a flush once they have begun (a goroutine that can go on
is scheduled), of `BeginScheduled` (the scheduler's timer), of `Exit` (`main`
waits for the scheduler's end), of `Tick`, and of each Stash job that visits,
finishes or is forgotten. No request, change, failure or kill is fair, and
neither is `Restart`: nothing in the repository restarts the service. So
`EveryChangeDelivered` says: *if the service is up again and again*, every file
is again and again in a state where Stash has seen its present content or the
version was dropped on purpose. Since the disturbances are finite in number,
that amounts to its being delivered in the end. The polling of a job that is
still running leaves the model's state as it is, so a run that waits depends on
Stash's fairness, as in the code: it has no timeout of its own.
The run has no symmetry, which TLC's liveness check does not allow.

`StateStore` assumes weak fairness of `Exit` (`main` waits for its components)
and of the control server's goroutine as long as it binds (`Binds`: it comes to
listen or to fail; a server that listens need not fail), which `ServedOrGone`
needs, and of nothing else. `Review` assumes it of the steps of a refresh that has begun: every call to
Stash returns or times out after 30 seconds (the HTTP client's limit), so a
failing call is always an alternative to an answer. Neither beginning a refresh
nor starting the process is fair.

## What is proved

| Theorem | States | In |
|---|---|---|
| `TypeCorrect` | `Spec => []TypeOK` | `RunnerProofs` |
| `NoChangeIsLost` | `Spec => []NoLostChange` | `ChangeProofs` |
| `ChangesAreTracked` | `Spec => []ChangesTracked` | `DisturbanceProofs` |
| `BackoffIsRespected` | `Spec => BackoffRespected` | `DisturbanceProofs` |
| `OrphansAreAccounted` | `Spec => []OrphansAccounted` | `DisturbanceProofs` |
| `DeliveryHolds` | `Spec => DeliversChanges`, the refinement of `ChangeDelivery` | `DeliveryProofs` |
| `AttemptsAreCounted` | `HistorySpec => []AttemptsCountFailures` | `HistoryProofs` |
| `WindowIsRespected` | `HistorySpec => WindowRespected` | `HistoryProofs` |
| `RequeuedIsFound` | `HistorySpec => RequeuedIsRediscovered` | `HistoryProofs` |
| `StoreTypes`, `DamageIsExplained` | `[]TypeOK`, `[]DamageExplained` | `StateStoreProofs` |
| `MetadataAgreement`, `StatusIsNeverAhead` | `[]MetadataAgrees`, `[]StatusNeverAhead` | `StateStoreProofs` |
| `StatusFollowsSaves`, `UnreadableStays` | `StatusFollows`, `UnreadableIsKept` | `StateStoreProofs` |
| `ReviewTypes`, `ShowsWhatIsSaved`, `OverlooksNothing`, `ListsRight` | `[]TypeOK`, `[]ShownIsSaved`, `[]NothingOverlooked`, `[]ListedRight` | `ReviewProofs` |
| `CoalescingRight`, `CoalescingAssured` | coalescing misses no change, for every finite set of paths; `ReduceAssumption` and `DirAssumption` for it | `DecisionProofs` |
| `BackoffRight`, `WaitRight` | backoff and wait, for every duration, zone and instant | `DecisionProofs` |
| `LayersRight`, `TasksRight`, `ValidatedRuns` | layers, post-scan tasks and `Validate`, for every configuration | `DecisionProofs` |
| `SourcesRight`, `RankingRight` | identify sources and candidates, for lists of every length | `DecisionProofs` |
| `EveryChangeTargeted`, `RedundantPastSiblings` | `[]EveryChangeIsTargeted`, `[]RedundantOnlyPastASibling` | `DecisionProofs` |
| `BackoffsDouble`, `DailyRunsLand` | `[]BackoffDoubles`, `[]DailyRunLands` | `DecisionProofs` |
| `PrecedenceAlwaysHolds`, `TasksAlwaysInOrder`, `AcceptedCanRun` | `[]PrecedenceHolds`, `[]TasksInOrder`, `[]AcceptedIsRunnable` | `DecisionProofs` |
| `SourcesAlwaysDiscovered`, `CandidatesAlwaysRanked` | `[]SourcesDiscovered`, `[]CandidatesRanked` | `DecisionProofs` |

### Assumptions

The theorems hold for every value of the constants that satisfies these, and
need none of the bounds of the runs: any number of files, changes, failures,
stops, flushes, kills, requeues and post-scan tasks; of actors, saves and
lengths of snapshots; of entries, edits and entries to a page.

* `DirAssumption`: directories form a hierarchy; covering is reflexive and
  transitive.
* `ReduceAssumption`: coalescing returns some of the directories, and every
  dropped one lies in a kept one. `CoalescingAssured` proves both this and what
  `DirAssumption` says of covering, for cleaned absolute paths and the code's own
  algorithm, so they ask nothing more of the code.
* `RetryAssumption`: at least one attempt, positive backoffs (`config.Validate`).
* `RunnerAssumption`: types.
* `StoreAssumption`: a snapshot has some length, and none has length 0: an
  encoded snapshot is at least a pair of braces.
* `ReviewAssumption`: the three lists hold entries of their own kind, each at
  most once, and a page has room for at least one.
* `DurationAssumption`, `DayAssumption`, `CandidatesAssumption`: a `time.Duration`,
  a day and the list of candidates have room for something.
* `TextAssumption`: a text that cannot be parsed is neither unset nor blank.
* `InputAssumption`: types.

### No change is lost

`NoLostChange` is not inductive: it speaks of the state file only, and a run
works for a long time on its own copy. `ChangesTracked` is its strengthening,
checked by `runner_faults` first. A version of a file is *settled* when it is
gone, scanned or waived. The invariant says that every snapshot anybody may
still write (state file, the run's, the flush's, the requeue's) *tracks* the
files: each recorded version is settled or its directory is queued
(`SnapshotsTrack`); that while the run works on its targets the walked stamps
with the present queues would track the files too (`TargetsTrack`); and that
what the metadata scan has passed is settled (`ScanVisits`, `LaterStage`), so
that emptying the retry queue after success is sound. The helper parts say that
stamps are given before they are seen, that ended jobs have no work left, and
which job the run waits for. The proof has a lemma per group of actions, on
lemmas about the operators (in `RunnerProofs`): clearing the debounce queue
loses only what was ready, the next retry queue holds the targets, and so on.

### The refinement

The initial state maps to one of `ChangeDelivery`. A step that changes a file is
`Arrive` or `Deliver`, the visit of a job is `Deliver`, and every other step is
`Record` or changes no status. `ChangesTracked` excludes the status "lost",
before and after the step. What remains is that nothing is dropped without a
disturbance: `WaivedDisturbed` says so of `waived`, and rests on
`DisturbancesSpent`, the account of who raises which flag: a terminating
process has cost a kill, a stop request under way or a cancelled run a stop or
a kill, a cancelled job a failure or a stop, and so on.

### Disturbances

* `BackoffRespected`. A request looks at the run's copy of the retry queue, the
  property at the state file, and a run or a flush may come to write in between.
  `BackoffKept` relates the copies: while the state file makes a retry wait,
  every copy somebody may still write has the same retry queue, since nobody can
  have begun to replace it; and no run starts in the future, so what was not due
  at its start is compared with the right instant. It fails once a
  `-requeue-paths` may remove a retry, which the property excepts.
* `OrphansAccounted` counts what has already happened. `OrphansPaid` adds what
  is still to come: a cancelled run that has yet to leave its job
  (`Stopped`), a signal that has yet to reach the scheduler (`Signalled`), an
  error that will end the process with a manual run in it (`Doomed`). Jobs alone
  plus these never exceed two for each disturbance. A step that leaves a job
  alone either pays for it or takes it from what was pending, and the proof
  sorts the actions by that. `RunControl` says how run, stop request and
  scheduler stand to each other.

### Histories

`RunnerHistory` only adds variables, so the theorems about `Runner` hold of
`HistorySpec` (`HistoryStep`).

* `AttemptsCountFailures`. `FileCounts` counts the failures for the state file,
  also when its retry queue is empty. `RunCounts` says what a run may be about
  to save: the retry queue it loaded, none, or one attempt more (`OneMore`). The
  history counts a failure when its retry queue is saved, which the last is told
  by: its retry lies after the start of the run, and the loaded one did not.
* `WindowRespected`. The queue has one time for all its directories, so it is
  ready only when no detection it holds is inside its window, and then no other
  directory is either. Until somebody asks for a flush, each copy of the debounce
  queue opens a window after every detection it holds (`Held`). That survives a
  step of the clock because both age alike, and the next run because it starts
  after all that has been detected (`DetectedBefore`).
* `RequeuedIsRediscovered`. A snapshot *follows* a request when, of each
  requested file that no scan has visited since, it records nothing or a waived
  version, or else its directory is queued (`Rediscovers`). The state file
  follows, and so does every snapshot somebody may still write who loaded it
  after the request's save; `behind` names the others. A run that drops a
  directory from its queue has passed its files with a scan (`Scanned`), has
  cancelled it, which waives them, or has found them afresh. What the request
  itself holds needs nothing: its save erases the entries.

### The state store

`FilesHold` follows one save that no other overlaps through its four system
calls (`Alone`): it was the last to open the state file, which is empty and
then holds its snapshot; the metadata is that of the save before, then empty.
Outside saves, and if nothing has been hurt, both files tell of the last save
(`Quiet`). The cases the properties except are those in which no such save
exists. `StatusNeverAhead` has to hold through failures as well, so it rests on
another invariant, `InTurn`: as long as no save has begun beside another, the one
under way is the last, the state file has pieces of that save only from its
first write on, and the metadata file none that are newer. `UnreadableIsKept`
needs no more than types: to write, an actor must have loaded.

### The review service

Three invariants. `OneAtATime`: whoever starts it, one refresh runs, and only
while the service does. `FileHolds` follows a queue from the refresh to the
file and from there to the page. `PagesHold` says of each entry that was wanted
all the time that it has been collected, or is *ahead* (in a list still to be
read, or beyond the last page read of the present one), or its list has been
cut; and not both of the first two, unless its list has been pushed. An edit
moves the places of a list by one; reading a page turns what was ahead on it into what is
collected. The proof is about that arithmetic, on lemmas about insertion and
removal in a sequence (`Distinct`: an entry has one place).

### The decisions

The invariants of `MCDecisions` speak of the inputs it draws. Each follows from a
theorem about the decision itself, for inputs of every size (`CoalescingRight`
and the others that end in `Right`, and `ValidatedRuns`), and from `InputDrawn`,
the invariant that an input is one that some draw allows: of the drawn sets of
directories it says that they are finite.

The decisions are loops over data. The library's induction theorems take an
operator as a parameter, which the provers cannot instantiate, so the induction
is on *sets*: the numbers for which the statement holds contain 0 and with each
number the next, hence all numbers (`NatSet`). On it rest four families of
lemmas.

* Folds. A fold over a list is a value after each element; `Gathers` says what a
  loop that appends to a result has gathered after `k` elements (in order,
  nothing that is to be dropped, all else, each once if asked), which serves
  filters and loops without duplicates alike.
* Sorting. An element's place is the number of smaller ones. For a strict total
  order the places are exactly the numbers below the size of the set, so sorting
  loses and doubles nothing (`RankSorts`).
* Strings and the tree. The string order is shown to be a strict total order.
  What lies below a path is what continues it at a separator, and the names
  between separators tell the same. The loop's invariant is that every path
  passed lies below a kept one; that a redundant target has an outsider before it
  follows from the last one kept, which is not its ancestor.
* Arithmetic. Until it returns, the backoff is the initial one times a power of
  two, with nothing wrapped; once it has returned it stays. A wait is at most a
  day from the midnight of the local clock, and the two offsets of a zone are all
  that can come in between.

Two of them hold less widely than one would expect. The daily time is met
exactly only when the clock does not change within a day and the size of the
change from now and from the wait (`Steady`). A day alone is not enough: a clock
that goes back across a midnight has that midnight twice, and a wait counted from
the first of them is negative a day later. The proof asked for the difference,
TLC shows it with a transition half an hour after midnight, and the zones of the
run include that one. And whoever is named in full is offered before someone of
whom only words are mentioned only as long as nobody has ten words in names and
aliases, which can outweigh a name (`RankingRight` has that as its hypothesis).
Everything else it says holds of any list of performers: the candidates are
places in that list, so a performer a page shift lists twice takes two of them,
as in the code.

### Only model-checked

Liveness under fairness, out of the prover's reach: `EveryChangeDelivered`,
`EveryRunEnds`, `ServedOrGone`, `EveryRefreshEnds`. Every other property of a
passing run is stated by a theorem.

Watch roots that come and go between runs (`RootSets`) are covered by the
theorems only: the runs keep one set of roots.

## Not modelled

* Scan cycle: the `-once` mode, the reported phase and summary.
* `-requeue-paths` with a path that names a single file.
* The include and exclude patterns: they decide which files exist for the model.
* The scheduler's wait and the cycle are not composed: in `Runner` a scheduled
  run may begin at any moment.
* The five seconds that the control server gives its connections when it ends,
  and the texts of its answers.
* GraphQL text and the decoding of replies; the syntax of the JSON file, of
  `.env` and of the types of settings; the order in which `main` builds its parts.
* Two processes with a reviewer each on one queue file: `Review` has one.
* Entries of Stash that trade places: for `Review` a moved entry is one removed
  and one inserted.
* The reviewer's own HTTP server and configuration, the sorting of the whole
  queue, the reasons shown beside a score, and matches inside a word.
* Logging, version and the web pages, which keep no state the service uses.

`PROJECT.json` says for each component how much of it is modelled.

## Plan

The modules above and their runs are complete as far as this code goes, and no
safety property of a passing run is left unproved. What remains is what the last
section names, and liveness, for which the prover has no rules.
