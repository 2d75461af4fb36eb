# Verification of Ultimate Vocal Remover GTK

TLA+ models of the concurrent and stateful core of this repository, the TLC runs that check them on
small instances, and the TLAPS proofs that hold for every instance. Source paths are relative to the
repository's `src/`. `PROJECT.json` lists the components, runs, mutants, hazards, theorems and, for every
definition, the lines it models.

1. [Inventory](#1-inventory) · 2. [Modules](#2-modules) · 3. [Runs](#3-runs) · 4. [Fairness](#4-fairness)
· 5. [Proofs](#5-proofs) · 6. [Findings](#6-findings) · 7. [Not modelled](#7-not-modelled) · 8. [Plan](#8-plan)

## 1. Inventory

The program separates audio into stems. `ui` (GTK) and `cli` are two front ends over `core`, which
plans and runs jobs through `engines` and the networks in `ml`; `bundled` is static data, `vendor`
third-party code, `scripts` offline catalogue tooling.

| Part | State it keeps | Operations | What makes it hard | What makes it correct |
|---|---|---|---|---|
| Download queue (`core/download_queue.py`) | rows with a status and a stop event, the worker flag | enqueue, retry, cancel, cancel_all, clear_finished, the worker's loop | lost wake-up at the worker's exit, statuses written outside the lock, callbacks of a window that goes away | one transfer at a time, no row forgotten, ended rows stay ended |
| File transfer (`core/download_transfer.py`) | files and `.part` files | skip what exists, stream, fall back to a mirror, rename, clean up | a stop at every point, truncated streams, a crash between two steps | whole or absent, success means all files, a stop leaves nothing |
| Run lifecycle (`ui/run_control.py`, `ui/run_lifecycle.py`, `core/run_control.py`) | operation, running target, dialogs, polls and timers | start, preflight, plan review, recheck, stop, forced release, timeout, close, quit | results of a superseded operation, a worker that outlives its verdict, dialogs that pause a worker | no orphan worker, pauses are lifted, a stop ends its own run, closing ends |
| Worker job loop (`core/job_runner.py`, `core/run_loop.py`, `core/run_hooks.py`) | input, model and window at hand, parts of the stems, members for a salvage, source mappers | one pass per input, model and window; join, combine, go on or give up | sources shared between engines, retries in the middle, inputs that fail or are gone | each stem is of its whole input and of nothing else |
| Audio chunking (`core/audio_chunking.py`) | none | cut into windows, join the parts | the last window is pulled back, an overlap as long as the window | parts land where they were cut |
| Out-of-memory recovery (`core/separator_run.py`, `core/oom_segment.py`, `ui/oom_dialog.py`) | segment override, candidates, the pending choice | retry with smaller segments, ask, export, stop | a worker that polls for a dialog's answer while the run may end | each retry is smaller, an answer stands, a waiter can be answered |
| Promotion of outputs (`cli/promotion.py`) | staged files, backups, targets | publish a unit under fail, skip, rename or overwrite | other writers take names, failing moves, kills | all or nothing, nobody's file is lost |
| JSON transaction (`core/downloads.py`, `core/json_store.py`, `core/name_mapper.py`) | model data, local overlays, staged files, backups, path locks | stage, commit, roll back, migrate local names, archive | failure or a kill between two renames, the order of the locks | every file or none, local names moved once and kept |
| Catalogue coordinator (`core/catalogue_coordinator.py`, `core/remote_catalog_cache.py`) | contents, flights, snapshots, the last report | background and forced refresh, join, publish, close | joining a request of another kind, publications that overtake each other, waits that run out | "succeeded" means fresh, the latest snapshot catches up |
| Weight cache (`engines/model_weight_cache.py`) | LRU of loaded modules and sessions, the resident key | get, put, stash, park, clear, evict | passes within passes, parks by other threads, failures half-way | one module on the device, a hit survives its pass |
| Main-loop dispatch (`ui/dispatch.py`) | pending progress call, console batch | schedule, coalesce, flush | calls from the worker while the loop serves one | the newest progress arrives, text keeps its order |
| Models and jobs (`core/model_repository.py`, `core/job_plan.py`, ...) | caches with generations, resolved plans | scan, invalidate, resolve, compare | stale caches | see section 7 |

How they interact. The window's main loop runs every handler to its end. Threads reach it only
through `idle_on_main`, whose calls are served in order. A start resolves a plan on a preflight thread,
then runs a worker on the runner of the page; the verdict comes back as an idle call guarded by the
operation it belongs to. The worker goes through inputs, models and windows; each pass takes its model
from the weight cache, and one that runs out of memory asks the main loop for a choice and polls for the
answer. A stop polls the worker, releases its memory on a thread of its own, and has a timeout. Closing
asks the same coordinator to wait for the worker and for the downloads. The command line runs the same
worker without a window and promotes what it wrote. The download queue runs one worker thread; each row
is one call of the file transfer, and its model is published when all files are there. The catalogue and
the model data are refreshed by threads of their own.

## 2. Modules

| Module | Models | Kind |
|---|---|---|
| `DownloadQueue` | `core/download_queue.py`, `core/download_status.py`, the binding in `ui/download.py` | state machine |
| `SequentialDownloads` | what the rows of the window are promised | abstract specification |
| `DownloadTransfer` | `core/download_transfer.py` | state machine |
| `RunLifecycle` | `ui/run_control.py`, `ui/run_lifecycle.py`, `core/run_control.py`, the threads of `core/job_runner.py` and `core/audio_tools.py` | state machine |
| `OomSegment` | `core/oom_segment.py`, `apply_segment_override` | operators |
| `AudioChunking` | `core/audio_chunking.py` | operators |
| `OomRecovery` | `core/separator_run.py`, `core/run_loop.py`, `core/run_hooks.py`, the loop of `core/job_runner.py`, `core/job_callbacks.py`, `ui/oom_dialog.py` and its handlers in `ui/run_control.py` | state machine over the two above |
| `Promotion` | `cli/promotion.py`, `cli/promotion_plan.py` | state machine |
| `WeightCache` | `engines/model_weight_cache.py`, the passes of `core/separator_run.py` and the engines, the parks of `core/inference_cleanup.py` | state machine |
| `ModelData` | `core/downloads.py`, `core/json_store.py`, `core/name_mapper.py`, the archival in `core/model_registry.py` | state machine |
| `CatalogueRefresh` | `core/catalogue_coordinator.py`, `core/remote_catalog_cache.py` | state machine |
| `DownloadQueueProofs`, `DownloadTransferProofs`, `RunLifecycleProofs`, `OomRecoveryProofs`, `PromotionProofs`, `WeightCacheProofs`, `ModelDataProofs`, `CatalogueProofs` | | theorems |
| `MCDownloadQueue`, `MCDownloadTransfer`, `MCOomRecovery`, `MCPromotion`, `MCWeightCache`, `MCModelData`, `MCCatalogueRefresh` | | instances for TLC (`RunLifecycle` needs none) |

An operator marked as a mutant, beside the definition it stands in for, is what a plausible bug would make
of that definition; the specifications never use it. Each property has one that breaks it (`PROJECT.json`,
"mutants").

### DownloadQueue

Each row is an item number, given out in the order of `_items`; `status`, `stop` and `model` are the
item's fields, `installed` the models `finalize_downloaded_model` published. `workerActive` is
`_worker_active`. A worker thread is a frame `wpc`, `witem`, `result`, `processed` of `_worker_main`;
two identities are reused, because a new thread starts only after `workerActive` is false. A client is a
thread inside one of the public methods. An action is one critical section of `_lock`, or the code
between two of them that another thread can observe: `EnqueueCheck` and `EnqueueAppend` are the two
sections of `enqueue` with `manager.resolve` in between; `Leave`, `Batch`, `Recheck` and `Restart` are the
finally block of the worker. A callback is tested in one step and called in the next, so that a window that
detaches it in between makes the call raise. The transfer itself is `BeginTransfer`, `Progress` and
`TransferEnds`; what it does to files is the next module's subject.

`SequentialDownloads` has rows and published models only: rows are added at the end, the first that
waits is started when no other is under way, it is published at most once and only on its way to success.
The mapping is `Rows <- Ids, row <- status, usable <- installed`.

### DownloadTransfer

A file is the number of its units on disk, at its path (`saved`) and at its `.part` path (`part`), or
`Absent`. `pc` names the points of `download` and `_download_file_url` between which the stop event may be
set. `Open`, `Chunk`, `EndOfStream`, `ReadFails` and `Truncated` are the stream; `Fallback` and `NoFallback`
the mirror; `Replace` is `os.replace` and `AfterStop` the removal of a file a stop overtook. The
environment sets the stop (`SetStop`), calls again after a failure (`Retry`) or ends the process
(`Crash`), after which only the files are left. Removals and renames may fail; the ghost `stuck` has the
files the disk would not let go of. A response without a length cannot be told from a truncated one;
which files have a length is a constant.

### RunLifecycle

`op` is `_operation_id` as a number, 0 for `None`; `running` is `_running_target`. The window's flags and
dialogs are one variable each. `cleanup`, `shutdown` and `exit` are the three jobs of
`RunShutdownCoordinator`; `w` has the thread and the flags of each runner; `pf` is the preflight
thread, `rels` the threads of `_schedule_release_inference_memory` that can kill, and `idle` the calls
waiting for the main loop, in order. The target "separation" stands for the separation and ensemble
pages, which share the context's runner; "tools" has its own.

Handlers are single actions, as the main loop runs them: `HandleStart`, `ClosePlan`, `OpenStop`,
`AnswerStop`, `CloseRequest`, `AnswerQuit`, `WaitLonger`, `QuitAnyway` are the user's; `DeliverX` serves the idle
call `X`; `Poll`, `Expire`, `PollShutdown`, `ExitTimeout` are the timers, which may fire at any
time relative to everything else. A worker waits in a pause, resumes, gives its verdict and then still
releases its resources before the thread ends (`Verdict`, `ThreadEnds`); `ReleaseStep` takes the two
runners one after the other, as `GtkRunHost.release_inference_memory` does.

Abstractions: a dialog on screen is modal, so that Start and Stop cannot be pressed under it, while the
close gesture can; the outcome of a plan (error, rejected, shown, accepted, changed) and of a start
(started, raised, not launched) is a choice; complete, stopped and error differ only in what the
window shows, so that they are one verdict. `Cancelled` forgets the counts of a coordinator that has no
target: the next schedule resets them before they are read.

### OomRecovery, with OomSegment and AudioChunking

`OomSegment` is the arithmetic of the segment sizes (snapping to the slider's stops, the effective size
of a model, the candidates below a size). `AudioChunking` has the windows of a mix as intervals of samples,
`Windows(total, chunk, overlap)` in closed form; `Joined` is where `concat_stems` puts the parts. The
instance compares `Windows` with the loop of `chunk_bounds_for_samples`.

`OomRecovery` is one job loop. `file`, `pos` and `chunk` are the places of the three nested loops;
`OpenFile`, `NextModel`, `NextChunk`, `ChunkOk`, `ModelOk`, `FileOk` are their turns. `model` and `override` are
the segment settings as `run_separator` changes them; `FirstOom`, `RetryOom`, `Exhausted`, `Ask`, `TakeStop`,
`TakeRetry`, `Retry` are the attempts of `run_separator`. A pass is abstracted to the set of sources its
engines blend, each a pair of the input and window it was made of; `cache` has the sources that
`cache_source` keeps for engines the run has twice, and `listed` whether `all_models` still names the
models, which a release after running out of memory empties. `bound` is a run with a window: errors end it,
and the main loop (`ShowDialog`, `ServeEnded`) and the user (`Choose`, `Closed`) answer. Without a window
(`JobRunner.start_resolved`) the choice is "auto", each input is a run of its own, and one that fails is
left behind unless `failFast`. A request is a record of its dialog and its box; the response that follows
a close is a step of its own. Locals of functions that have returned are reset (`Unwind`).

Left out: progress, labels, what is combined and exported, pauses, the records of the inputs' outcomes.

### Promotion

A process (`Promoters`) publishes its `stage`, files in the order of `os.walk`, into the directory `disk`
under a policy; a name is a pair of a file and a suffix, 0 for none. `Precheck` plans, `Backup` sets a
target aside, `Move` moves one file, `MoveTaken` finds its name taken, `Undo` and `Restart` take a unit back
and try the next suffix, `Rollback`, `Restore`, `Clean` end it. The lock is per process, so that two
processes interleave at every call; `ForeignWrite` is another program. One process overwrites, or any
number do not (`Solo`): what two that overwrite do to each other is what they were asked for. `Fault` makes one call raise,
`Interrupt` is a signal during a rename or move, which has then been done, and `Die` a kill. `before` and
`faults` are ghosts. Which names have the base of the track (the matching in `promotion_plan.py`) is the
constant `Unit`.

### WeightCache

`items` has the object of each key, or `Absent`; `older` is the order of the OrderedDict, a pair for every
two entries of which the first would be evicted before the second. `resident` is the resident key, `device`
the modules on the device and the open sessions. The callers are a stack of passes: `BeginPass`, `Prepare` (helper networks),
`Hit` or `Load`, `Infer`, `Nest` (a pass within a pass: pre-process, secondary or splitter models),
`InferAgain`, `Fail`, `Release`; `Recover` and `EndFailed` are what a run does after a failure, and
`CleanupParks` the thread the window starts after one. Reclaiming memory may take any entry that is
not protected. The ghosts `mixed` and `raced` say that passes nested and that a cleanup thread came late.

### ModelData

A file is `{content}` or `{}`, a content a set of keys. A refresh fetches, takes the locks of its paths in
sorted order, stages, backs up and renames file by file (`Commit`), and may fail at each rename
(`CommitFails`) and in its roll-back (`RollbackFails`). The migration of the local names of a mapper
into its overlay is planned under the locks (`Writes`, `LocalOnly`, `Marked`); `Remember`, `Link`, `Unlink` are
the archival of the overlay. `Crash` ends the process: the files stay, the locks go. `before`, `first` and
`torn` are ghosts; a transaction's `spoilt` has the files its roll-back could not restore.

### CatalogueRefresh

A content is its version. A source has one request at a time (`flight`), made by its background thread or
by a puller, the thread of a forced refresh for that source; `Pull` joins, starts or retries, `Woken` is the
end of a wait. A caller is in `StartStale` ... `Shown` (a load that may start background requests) or in
`StartForce`, `Await`, `Join`, `Stamp`, `Finish` (a forced refresh, coalesced with one that is pending).
`Look` and `Publish` are the two halves of `_publish`, which reads the contents outside the lock.
Abstractions: the sources have been loaded from disk; the contents are read in one step, and the close is
one step; the pending event is set and cleared in one; whether a source is stale or backing off is a
choice; failed requests, waits that run out and the close share `MaxFaults`. The ghost `why` says why
the latest snapshot may not be of the contents.

## 3. Runs

| Run | Bounds | Shows |
|---|---|---|
| `queue_safety` | two clients, two worker identities, two models, `MaxItems` 2, `MaxRetries` 1, no detached window | `OneTransfer`, `NoStrandedItem`, `NoLostRefresh`, `PublishedIsShown`, `EnqueueAddsNoDuplicate`, `EndedStaysEnded`, `ImplementsPromise` |
| `queue_detach` | one client, two worker identities, one model, `MaxItems` 2, `MaxUnbinds` 1, fair threads | `DownloadingIsOwned`, `QueuedIsServed`, `CancelLands` |
| `transfer_safety` | three files, `MaxAttempts` 3, `MaxCrashes` 2, failing removals and renames | `AnnouncedIsWhole`, `CompleteMeansAll`, `ProgressWithinOne`, `StoppedLeavesNoFile`, `OnlyStopsLeaveParts`, `FinishedFilesStay` |
| `lifecycle` | `MaxOps` 2, `MaxStops` 2, `MaxCloses` 1, `MaxIdle` 1, `MaxPolls` 2 | `NoOrphanWorker`, `PauseIsLifted`, `CleanupIsOfTheRun`, `NoStartWhileClosing`, `StopEnds`, `CloseEnds` |
| `oom` | two runs of an ensemble of two models, one of which runs the other as its secondary; three inputs, one missing, one of three windows, one of a single one; windows of 4 samples that overlap by 1 | `WaiterHasAnswerer`, `NoAskBehindDialog`, `RetryShrinks`, `SalvageIsWhole`, `ReplyStands`, `RunEnds` |
| `promotion` | two processes, three files of which two are the unit, `MaxSuffix` 5, `MaxForeign` 1, `MaxFaults` 1 | `AllOrNothing`, `OneSuffix`, `NothingLost`, `ForeignStays` |
| `weights` | four keys in `MaxEntries` 3, `MaxRuns` 2, `MaxPasses` 2, `MaxDepth` 2 | `ResidentIsCached`, `OneModuleWarm`, `FailureFreesDevice`, `HitSurvives` |
| `model_data` | two refreshing threads and the archiver, a hash map and a name mapper with every earlier content over two keys, `MaxRefreshes` 3, `MaxArchives` 2, `MaxFaults` 2, `MaxCrashes` 1 | `AllFilesOrNone`, `NamesKept`, no deadlock |
| `catalogue` | two sources, two callers, two versions, `MaxCalls`, `MaxChanges`, `MaxFetches` 2, `MaxFaults` 1 | `SucceededIsFresh`, `StaleHasReason`, no deadlock |
| `lifecycle_refused`, `lifecycle_killed`, `catalogue_overtaken` | as needed | the violations of section 6 |

Why the bounds are enough. The queue's races are between two callers, a worker that leaves and one that
starts; two items make the order of the list and the second check of `enqueue` matter, and the proofs of
section 5 remove the bounds for most of it. The transfer needs three files to have one before, at and
after a stop, mirrors and announced lengths on different ones, and three calls to see what a crash or a
stop left behind. The lifecycle needs two operations, because its hazards are about the results of the first
that meet the second, two stops for the generations of the coordinator, and one close; `MaxPolls`
replaces the 80 polls by 2, which keeps "before", "at" and "after the last poll"; `MaxIdle` limits only how
many calls may be waiting when the user opens a dialog. The job loop needs three windows for a join of the
configured overlap and one of another, a model that another model runs too for a source to be shared, a single window
for one to be kept, an input after a missing and after a failed one, and sizes on and off the slider's
grid; a second run finds what the first left. Promotion needs a unit of two, so that the second file can
find its name taken, a file outside the unit, and suffixes enough for both processes and the other
program. The cache needs as many keys as entries and one more, with each kind of caller.
The model data need a mapper whose two files must change together, a second file beside them, and
three refreshes: one that moves the names, one after an archival, and one that meets either. The catalogue
needs a request that is joined by one of another kind and two publications that overtake each other.

Deadlock is checked in `model_data` and `catalogue`, whose threads wait for locks and events;
`CHECK_DEADLOCK FALSE` is set elsewhere because those systems really rest: an empty queue, a finished call,
an idle window, an application that has quit, a directory after the promotion. The type invariants
(`TypeOK`) are proved for every module (section 5) and are not repeated in the runs.

## 4. Fairness

- `DownloadQueue` (`FairSpec`, run `queue_detach`): every thread inside the queue's code keeps running; it
  waits only for the lock, which nobody holds across a wait, and for a transfer, which ends because every
  request has `_DOWNLOAD_TIMEOUT_SECONDS`. Nobody is obliged to call the queue.
- `RunLifecycle`: GLib serves idle calls and timers, and the preflight thread ends. In
  addition the user does not change the job under every preflight (`Settled`, strong fairness): each
  change resolves the plan again, so that someone who always does keeps the window preparing.
  A worker, a release and a download are obliged to nothing, which is the point of the timeouts.
- `OomRecovery` (`FairSpec`): the worker goes on, the main loop serves its calls, and the user answers a
  dialog that is open, in any way. Nobody is obliged to stop or quit.
- The other modules state safety only.

## 5. Proofs

TLAPS proves the following for every value of the constants that satisfies the modules' assumptions
(`QueueAssumption`, `TransferAssumption`, `LifecycleAssumption`, `RecoveryAssumption`, `PromotionAssumption`,
`CacheAssumption`, `ModelDataAssumption`, `CatalogueAssumption`; TLC evaluates each on its run). Every
invariant, every action property and the refinement of section 3's passing runs is stated by a theorem, and
so is the type invariant of every module. Where an invariant is not inductive, which is the rule, the
strengthening was first checked by TLC on the module's run.

**Queue** (`DownloadQueueProofs`). The invariants the runs check are not inductive: that one item is
transferred at a time depends on the flag, and what a row says depends on the thread that holds it.
`IInv` adds `OneLoop` (a frame in the loop implies `_worker_active`, and there is only one), `HoldsItem` and `Owned` (the
frame in an item and the row that is downloading point at each other), and `Allocated` (rows past the
count are unborn). `TypeStep`, `LoopStep`, `RowsClient`, `RowsWorker` and `RowsFinish` show that it is
preserved; then `QueueTypes`, `OneTransferHolds`, `DownloadingIsOwnedHolds`, `PublishedIsShownHolds` follow.
`QueueImplementsPromise` maps every step to a step of `SequentialDownloads` or a stutter, and
`EndedStaysEndedHolds` is read off the abstract steps. `NoStrandedItemHolds` needs that no window detaches
its callbacks (`MaxUnbinds = 0`): a callback that raises ends the call before its worker is started.
`NoLostRefreshHolds` needs no such condition: beside the types the property is inductive, since each
critical section that changes a status leaves its thread with the call of `on_changed` still to make.
`EnqueueAddsNoDuplicateHolds` is read off the only step that adds a row, whose second check is in the same
critical section.

**Transfer** (`DownloadTransferProofs`). `IInv` adds `Streamed` (what was streamed is what is in the `.part`
file, and only an accepted stream reaches the rename), `Passed` (the files before the one at hand are there,
the one at hand is not until it is renamed) and `Ended`. It gives `AnnouncedIsWholeHolds`,
`CompleteMeansAllHolds` and `FinishedFilesStayHolds`. `StoppedLeavesNoFileHolds` and `OnlyStopsLeavePartsHolds`
add what is true of the files past the job at hand and of those before it, but for the ones in `stuck`.
For `ProgressWithinOneHolds` a set of files is weighed by the cardinality of the set of its bytes (`Units`),
so that sums grow and stay within bounds as sets do; `TotalIsBytes` shows, by a smallest counterexample, that the
fold over the announced sizes is this number. `Fits` says that no file is larger than its size, and `Counted` that
what the bar has counted, in files and in bytes, is of the pending files behind the one at hand, which
is pending itself: hence there is room for it. `TransferTypes` follows with the fraction included.

**Run lifecycle** (`RunLifecycleProofs`). `IInv` holds the three properties together with what makes an operation
id mean something: `Numbered` (an id is handed out once, and workers and verdicts carry one of those handed
out), `Preflight` (the preflight of the operation is with its thread, on its way or in the plan's dialog, in one of these
places only, and nothing runs meanwhile), `Verdicts` (the verdict of the operation is on its way only after its worker has
ended and before its run is over) and `RunIsNamed`. These give `NoOrphanWorkerHolds` and `CleanupIsOfTheRunHolds`.
`PauseIsLiftedHolds` is not inductive even so: `Lifted` has to name the target that the pending answer will
resume or stop. All but the first two properties are claimed only while the window is not closing, since closing
forgets the operation. `NoStartWhileClosingHolds`: closing stays, and the only steps that start a worker test it in the
same handler.

**Recovery** (`OomRecoveryProofs`). Four invariants, each inductive with its own types, cover the module, and
`RecoveryTypes` puts their types together.

- For `RetryShrinksHolds`, `IInv` adds `Shrinking`: the candidates that are left are below every size that ran out
  of memory in this call; `RetriesShrink` and `OverrideRuns` are the facts about the arithmetic.
- For `ReplyStandsHolds`, `Asking` says that a request is on its way to the main loop at most once (`Queued`),
  has no reply as long as it is on its way or its dialog is open, and that the dialog on screen is no longer
  on its way (`Shown`).
- For `WaiterHasAnswererHolds` and `NoAskBehindDialogHolds`, `Waiting` adds whose the requests are: a call carries the operation
  of its request (`Named`), operations are numbered (`Numbered`), the dialog the controller holds is open and of the
  operation that runs (`InFront`), and a request of that operation without a reply is the last one made (`Lone`).
  A request that found a dialog in its way would be that dialog's own, on its way and open at once.
- For `SalvageIsWholeHolds`, `SInv` has `Placed` (where the three loops are), `Begun` (the parts of the model at hand are
  those of the windows behind it), `Fresh` (a source that is kept is of the only window, and none is kept where there
  are more) and the property itself. `PassFacts` draws from `Fresh` that a pass blends sources of its own window
  only.
- `JoinedWhereCut`, about `AudioChunking` alone: `CountFacts` bounds the number of windows, a division, from both
  sides; `WindowFacts` reads off it that the windows begin at 0, end with the mix and leave no gap. `EndsWhereCut` shows that
  the ends of the windows solve the recursive equation of the join and, by a least counterexample, that nothing
  else does.

**Promotion** (`PromotionProofs`). `PInv` says of each process: its records agree with its place in the code (`Shape`:
`Records`, `Named`, `ByPolicy`); one that overwrites has kept or still has every old file (`Kept`) and has listed
every one it set aside (`Listed`); what it moved and has not taken back is its own (`Mine`, as long as no restart of any
process was interrupted); and what the disk has of it is exactly that, with every old file in its place or listed
aside (`Exact`, `OldStays`, under the property's own condition `RollbackSuffices`). A process that overwrites is
alone (`OverwriterIsAlone`, see section 2), so that the steps of the others are `Harmless` to it, and
theirs to each other because a move never lands on a name that is taken. It gives `PromotionTypes`, `AllOrNothingHolds`,
`OneSuffixHolds`, `NothingLostHolds` and `ForeignStaysHolds`.

**Weight cache** (`WeightCacheProofs`). `WInv` has the cache (`Fit`: the order is a strict one of the entries, a key
has objects of its own, the resident key has an entry, `MaxEntries` is kept) and every pass of the stack: only
the innermost may still be without its model (`Waits`), what ran within a pass includes those that still do
(`Inner`), and a hit's entry is the one it was given, with only keys that ran within it used since (`Stands`).
An eviction takes the entry that nothing is older than, and there are `MaxEntries` others that are newer: more than ran
within the pass. A new object exists because there are more objects of a key than the cache and the stack
hold. It gives `CacheIsTyped`, `ResidentIsCachedHolds`, `OneModuleWarmHolds`, `FailureFreesDeviceHolds` and
`HitSurvivesHolds`.

**Model data** (`ModelDataProofs`). `TInv` has the locks (a thread past its locks holds all of its paths, no path
has two holders) and `Sound`, what each transaction's copies say of the files it has and has not renamed yet;
it gives `TypeCorrect` and `AllFilesOrNoneHolds`. `NInv` relates the ghosts to the files: `Kept`, `Waiting`,
`Linked` (the archival in the middle) and `Plans` (what a transaction under way will write); it gives
`NamesKeptHolds`.

**Catalogue** (`CatalogueProofs`). `IInv` has `Knows` (what a puller may conclude from the request it made or
joined), `Ended`, `OneResult` (a caller has one result of each source) and `IsFresh`; it gives
`SucceededIsFreshHolds`, beside `TypeCorrect`. For `StaleHasReasonHolds`, `UInv` says who is in the middle of a
publication (`InPlace`), that a forced request belongs to a puller (`Owned`), and `CatchesUp`: while the latest snapshot is behind
and no reason was recorded, somebody is `Due` to publish (a source whose request has ended and not been told, a
caller that joins its pullers, or a publication that has yet to look or has looked at the current contents). When
nothing is under way nobody is due.

Model-checked only: liveness (`QueuedIsServed`, `CancelLands`, `StopEnds`, `CloseEnds`, `RunEnds`), whose fairness
hypotheses are out of the prover's reach; and that `Windows` in closed form is what the loop of
`chunk_bounds_for_samples` appends, over lengths up to 20 (`WindowsAreTheLoop`): the loop is a recursive operator, and what a
recursion computes for every input takes an induction the installed provers cannot instantiate. What is proved is proved
of the models; the abstractions of section 2 are not.

## 6. Findings

Runs that show a disagreement:

- `lifecycle_refused` (`RunHasWorker`): a worker's thread still releases its resources after its verdict has been
  delivered. A run started in that time is shown as running (`begin_run`) while the runner ignores the
  start, because its thread lives: no verdict will ever come.
- `lifecycle_killed` (`OnlyStoppedWorkersAreKilled`): the result of a forced release is dropped when its stop is already over, but the release
  still kills whatever worker it finds, which may be the one of a later run.
- `catalogue_overtaken` (`LatestCatchesUp`): of two publications the one that read the older contents may come last; it
  replaces the newer snapshot, and since the newer one is then found in the cache, no later publication
  of the same contents makes it the latest again.

Observations met while modelling, without a run of their own; where one limits a property, the property
names the case:

- A stop after the loop's last test of it leaves the `.part` file, although `core/download_queue.py:161-163` says
  that the transfer removes it (`OnlyStopsLeaveParts` is about calls that end by themselves).
- Taking a quit confirmation back resumes the window only for the operation of the time it was opened
  (`ui/run_control.py:206`, `759`).
- A signal during a move or a rename of the promotion leaves that file where it landed, against
  `docs/cli.md:261-262` (`RollbackSuffices`). A restart that itself fails half-way is rolled back over all files of `moved`, those
  already taken back included.
- When passes nest, the put of the inner one parks the model of the outer one, against the docstring of the
  weight cache (lines 122-128; `OneModuleWarm`).
- A process killed between the two renames of a migration loses the local names of the mapper, and a roll-back that
  fails loses its backup (`torn`, `spoilt`).
- The deltas of the catalogue are computed from a `previous` that is read outside the lock; contents that
  go back to an earlier version find their snapshot in the cache, which is then not made the latest; an answer that
  comes after its forced refresh gave up is published by nobody; the error of a source is cleared by a
  load from disk (`core/remote_catalog_cache.py:506`).
- A missing input advances `iteration` by the models it would have run, but `units.total` does not count
  it (`core/run_loop.py:335-342`, `368`), so that the fraction passes 1 before its clamp.
- A segment override applies to every later model of the run, also to one whose own segment was smaller
  (`core/separator_run.py:46-59`), and running out of memory once empties `all_models`, so that later passes of the run share no sources.
- A signal between the installation of the handler and the reset of `start_resolved` is forgotten
  (`core/job_runner.py:160`): the job runs to its end.

## 7. Not modelled

- In the run lifecycle: the comparison dialogs, progress and console text, sleep inhibition, the suspension of
  display updates, and the settings object a runner is bound to.
- In the job loop: progress counters, the combination and export of stems, the export of a salvage, the
  records of outcomes. In audio chunking: samples, fades, and the conversion of seconds.
- In the JSON transaction: writes of a single file, and two functions that only tests call.
- In the catalogue: what a snapshot contains, deltas and subscribers, trusted identities, files on disk.
- Main-loop dispatch: what its coalescing could lose is a displayed fraction.
- Model installation and the download window beyond what the queue uses of them; planning and resolution of
  jobs (pure functions of large string data); the model repository's caches; settings binding (synchronous);
  playback (a library's state); parsing and reporting of the command line; widgets, views and drawing; engines and networks
  (numerics, which is most of the repository's code); static data, vendored code, scripts.

## 8. Plan

What could come next, the most consequential first:

1. The model repository: caches that are invalidated by generation, composed with the publications of the
   catalogue and the refresh of the model data.
2. The queue with the transfer in place of its abstract `TransferEnds`, and the proof that the composition implements the
   queue.
3. An abstract specification of the recovery's dialog (one question, one answer) that `OomRecovery` implements, and one of
   the promotion (a unit appears or does not), from the invariants proved here.
