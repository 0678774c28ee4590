# Verification of LlamaToolchest

LlamaToolchest (Go) is a server that builds llama.cpp, downloads models, runs one llama-server
"router" process, and benchmarks models against it.  This directory holds TLA+ models of the parts
of it in which several goroutines, requests, files and processes meet, the TLC instances that check
them, and TLAPS proofs of what matters most.  `PROJECT.json` ties every definition to the lines it
translates, every property to a run and a mutant, and every hazard to the properties about it.

## The system

| component | state it keeps | operations | talks to |
|---|---|---|---|
| process manager `internal/process/manager.go` | status, current command, done channel, log | Start, Stop, Restart, CheckHealth; per process a monitor and a health poller | the llama-server child |
| benchmark queue `internal/benchmark/job_runner.go` | the job in flight, its goroutine | Submit, RetryFailed, Cancel, run, runCell, runCapabilityCell | store, router environment, runner, evaluator |
| benchmark store `internal/benchmark/benchmark.go` | jobs, runs, `benchmarks.json` | Save, SaveJob, UpdateJobDefinition, DeleteJob, load | handlers in `internal/api/bench*.go` |
| router environment `internal/api/jobs_env.go`, `service.go` | build and config of the job, ownership | EnsureBuildActive, ApplyEphemeralConfig, StopRouterForEval, ClearEphemeralConfig; the users' start, stop, restart | process manager, registry |
| job definitions `internal/benchmark/sweep.go`, `api/bench_jobs.go` | the definition in the job, the values in its cells | SplitParams, validation, ExpandCellsWithSweeps, CellOverrides, UpdateJobDefinition | queue, store, runner |
| broadcaster `internal/broadcast` | history, subscriber channels | Subscribe, Broadcast, Unsubscribe, ClearHistory, CloseSubscribers | SSE handlers, logs, downloads |
| downloader `internal/huggingface/downloader.go` | active downloads, `.part` and final files | Start, Cancel, run, the 30 s removal; discard in `api/hf.go` | HuggingFace, ModelScope, registry |
| model registry `internal/models/registry.go`, `pending.go` | models, configs, `models.json`, configs restored for models not there yet | Register, Scan, Delete, SetConfig, toggles, ClaimPendingConfig, the preset file, the mark "restart to apply" | downloader, restore, router |
| builder `internal/builder` | builds, `builds.json`, one clone, a build directory per profile, logs, saved flag sets | detection, Build, Rebuild, Delete, RegisterExternal, FlagPresets, Restart | git, cmake, ninja |
| evaluation `internal/evaluate`, `api/jobs_env.go`, `eval_data.go` | KL base cache, datasets | prepare, ensureKLBase, RunEval, dataset download and verification, deletion from the card | llama-perplexity |
| memory report `internal/memreport`, `api/memory_measured.go` | a record per load, a reading of the cards per model | line collector, log watcher, one recorder goroutine per load, the monitor's poll | router log, hardware monitor |
| GPU assignment and estimate `internal/models/gpu_assign.go`, `vram.go`, `gguf.go` | none of its own: the choice is in the config | options, migration, recommendation, what an instance loads where | registry, pages, preset |
| presets and launch flags `internal/models/preset.go`, `specparams.go`, `api/proxy.go` | none | the section of a model, its names, the flags shown, what the proxy adds to a request | router, clients |
| configuration, backup `internal/config`, `internal/backup`, `api/settings.go`, `api/backup.go` | one YAML file, the router's environment | Load, the settings request, export, restore | everything |
| sampling presets `internal/presets` | cached pages, the recommended table of a model | the chain of sources, merge, what clients are told | web, registry |
| hardware monitor, model sources, benchmark runner, statistics, pages, agent, scripts | small or none | sampling, fetching, rendering | see `components` |

How they interact: HTTP handlers run concurrently with each other and with the benchmark goroutine.
A benchmark job drives the router through the environment, which calls the process manager that users
call too.  The store is shared by the handlers and the job, and a job record shares its cell array
with every copy of it.  Downloads, scans and restores all end in the registry, under its lock but with
several lock sections each.  The registry's config becomes a section of the router's preset file, which
the router reads when it starts; the router's log is read back by the watcher that files what a load
took.  An evaluation stops the router, since it needs the GPU, and runs another program of the build.
Builds share one clone.  Everything that streams goes through a broadcaster.

What is hard: unlocked waits in the middle of operations (Stop, Restart, restartRouter, Start of a
download), checks made in one critical section and acted on in another, pollers and timers that act
on what they read before, cleanups that must happen on every path, crashes between two saves, files
whose existence is taken for completeness, log lines read long after what they report, and caches (the
build and config last applied, the running build, the KL reference) compared instead of the thing itself.
`hazards` in PROJECT.json lists them line by line.

What makes each part correct:

* manager: one process; a Stop that succeeds saw its process exit; nobody is shown as starting with
  nothing to end it; a live process is not shown as stopped.
* queue and store: one job in flight; what is shown running is being run, also after a crash; a
  completed cell is measured and stays so; retry, edit and delete keep their word.
* router environment: a cell measures the build and config its run records; an evaluation has the GPU;
  after the job the router is the user's, and no flag of the job is left.
* job definitions: a result stands under the configuration it was measured at; no two cells are one
  measurement; the router reloads as seldom as the matrix allows.
* broadcaster: in order, nothing lost unless the channel was full, a newcomer sees the latest.
* downloader: a file under its final name is whole; a running download is listed; Cancel means stopped.
* registry: what a request was told is done is in the file; a model that has a projector beside it finds
  it; a restored config waits for its model and reaches it; an edit of a running model is marked.
* builder: a build listed as ready is there and is what its entry says; flags the user gave win; a page
  that follows a build learns its end; a saved set builds again what it built.
* evaluation: an unfinished reference or dataset is never used; the two sides of a comparison are
  measured alike; a cancelled job ends and leaves no run running.
* memory report: what is reported of a load was measured of that load, not of the one before it.
* placement, estimate, presets: the router is told to use the cards the user chose; a size is that of
  what is loaded; what is shown is what is launched.
* configuration, backup: a request changes what it edits and nothing else; a backup carries everything
  and a restore deletes nothing.

## Modules

| module | models | checked by | proved in |
|---|---|---|---|
| `RouterManager` | `process/manager.go` and the child processes | `MCRouterManager` | `LaunchProofs` |
| `JobQueue` | queue, run loop, store with its file, handlers, crash | `MCJobQueue` | `JobProofs` |
| `BenchRouter` | the job's router calls against the users' | `MCBenchRouter` | `ConfigProofs` |
| `JobMatrix` | from a job's definition to its cells and what they measure | `MCJobMatrix` | `JobProofs` |
| `Feed` | what a broadcaster promises (abstract) | by refinement, `MCBroadcaster` | `BuildProofs` |
| `Broadcaster` | `broadcast.go` and the readers in `sse.go` | `MCBroadcaster` | `BuildProofs` |
| `Downloader` | `downloader.go`, discard, the files | `MCDownloader` | `DownloaderProofs` |
| `ModelRegistry` | the registry, its callers' lock sections, `models.json` | `MCModelRegistry` | `ConfigProofs` |
| `Toolchain` | operators: what detection and configuration decide on a machine | through `Builder` | `BuildProofs` |
| `Builder` | requests, clone, build directories, entries, logs, flag sets | `MCBuilder` | `BuildProofs` |
| `Evaluation` | the cell of an evaluation, datasets, KL bases, the card's requests | `MCEvaluation` | `MeasureProofs` |
| `MemoryReport` | loads, the router's log, collector, watcher, recorders | `MCMemoryReport` | `MeasureProofs` |
| `Placement`, `Estimate`, `Settings`, `Preset`, `SamplingPresets` | operators: one file or two of the code each | through `Setup` | `LaunchProofs`, `SizesProofs` |
| `Maps` | operators: Go's maps as functions, written, deleted from and merged | through `Setup` | `LaunchProofs` |
| `Setup` | the composition: what a page saves, shows, launches, restores | `MCSetup` | `LaunchProofs`, `SizesProofs` |
| `Folding` | nothing: induction over numbers, finite sets, folds and sums, for the proofs | | itself |

Each `MC` module names the scenarios of its `.cfg` files.  Definitions
that a comment calls "mutant" are plausible bugs next to the code they would replace; a property counts
only because some mutant violates it.

### RouterManager

One action is one critical section of `m.mu` or one step between two.  `Start` is a single section
(`Launch` sets status, command and the two goroutines).  `Stop` is `StopBegin` (capture), `StopWait` or
`StopKill` (SIGTERM only makes an exit possible; after 30 s SIGKILL) and `StopFinal`, which overwrites the
status without looking.  `Restart` reads the config, stops, ignores the error, starts.  Pollers are not
tied to their process: they read the shared status and any process that serves the port answers them.
A process is unused, booting, serving or exited; only one can hold the port.

### JobQueue

`heap[j]` holds the cell arrays of job j and a record refers to one by index: this is Go's slice
aliasing, and it is why a retry or the runner changes cells under the store's feet.  `rj[j]` is the
goroutine executing `run()` on its copy, `hd[h]` an HTTP request between its sections, `disk` the file
written by every `persist`.  `Crash` keeps only the file and applies `load()`.  Cells are points of a
matrix, each its own model; a point in `KLCells` has the KL preset.  A measurement is one step with an
outcome.  The quick benchmark and moving runs by hand are left out.

### BenchRouter

The job is a program counter that follows `run` -> `runCell` -> `restartRouter`, returning to `then`.
`live` is what the process was started with (build, version of the saved configs, override), `rec` what
the run will claim.  The process manager is seen through its contract: `IsRunning` means the health check
passed, `Start` refuses unless stopped, `Stop` returns when it is gone.  A user's start is two steps,
check (`Admit`) and act; stop is not guarded in the code and not here.

### Broadcaster

Values are numbered as they are broadcast, so order and loss can be stated.  `until` and `overrun` are
history variables: how far the subscriber got, and whether its channel was ever full.

### Feed

The abstract broadcaster: values are published one after another, a reader that joins is owed an unbroken
run of recent ones and takes them in order, and a value may be withheld only from a reader that has
something left to take (a full channel is one).  `Broadcaster!Promise` is an `INSTANCE` of it, and
`KeepsItsPromise` says that each of its steps is one of Feed's or none.

### Downloader

One download ID.  A shard is a sequence of chunks; files are inodes, so a writer keeps the one it opened
when the name is removed or renamed.  `Respond` is the decision the code makes from the reply (whole file
or tail), `Chunk` one read and write, `Rename` the end.  Servers may answer a range with 206, with 200 and
Content-Range (ModelScope), with the whole file, or refuse it.  Start waits unlocked for an evicted entry.

### JobMatrix

Mostly operators: `Resolve` (the form's parameters become fixed and swept values), `Accepted` (every check of
a create or an edit), `ExpandCells` (the matrix) and `Asked` (what a cell measures: the overrides that reach
its preset's program).  Around them a small machine: a job is created, run cell by cell, cancelled, retried
and edited, and each completed cell keeps in `result` what was asked for when it was measured, which the code
never compares again.  A raw value is a record of its spelling and of what its parser makes of it, so "8" and
"08" are two spellings of one value; overrides are functions from the fields that are not nil.  Fields have
the registry's own names and traits.  One job, edited between its runs: what happens when requests overlap is
`JobQueue`, which in turn has points without values.  An identity is a record, not the string the code
renders, so two identities never collide by their punctuation.

### ModelRegistry

One action is one section of the registry's lock, or one call of a handler between two.  `GetConfig` hands out
the registry's own struct, so `Edit` decodes the form into memory before anything is checked or saved;
`SetConfig` saves it or `Refuse` answers 400, `PresetRead`/`PresetWrite` write the preset file, and `Mark` sets
the reload mark if the model is enabled and the router's state is running (`launched.ready`, from `BecomeReady`
on; a router that is starting has read its preset but is not marked).  `Migrate` is a page that rewrites an old
GPU assignment in the same struct and saves nothing.  When a restore, a claim or a removal replaces the struct,
the handlers that still use the old one keep it in `held`, and `SetConfig` puts it back.  `ScanWalk` reads the
directory, `ScanAdd` registers one file at a time.  `Arrive`, `Register`, `Attach` are the callback of a finished
download, `RestoreMatch`, `RestoreHold`, `RestoreApply` a restore, whose projector is found on this machine or is
not, `Start*` the start of the router, which reads the preset once.  `Crash` may leave `models.json` torn, and
`Boot` is what the next start does with it.  A config is a value, the enabled flag and whether it names a
projector; it is stale when the value or the projector is no longer the one launched.  Histories say which edits
were refused (`rejected`), which changes the code does not mark (`unseen`), which projectors a form, a restore or
a replaced struct took away (`detached`) and what a restore owes.

### Toolchain and Builder

`Toolchain` holds operators on a machine (cards, tools, packages, environment, what is on its path): which
ROCm tool, backends, targets, compilers and flags the code finds, and which cmake call comes of them.
`Builder` takes a request through its handler (fetch, checkout in the one clone, id, entry) and its
goroutine (`RunCMake`, `RunNinja`, `Install`, `Succeed`, `Close`).  A binary is the refs that the clone was
at while it was compiled, and its flags, so a build that compiles while another request checks out is seen
to be mixed.  `slot` is a request with its goroutine, `page` a browser that follows a log, `cut` the builds
that a crash interrupted.

### Evaluation

The cell of a capability job, from `prepare` to `eval`: the dataset, the reference, its key, the generation
of the base file under a `.partial` name, the ticker that saves the run while the tool works, the
flags of both sides.  Beside it, requests of the evaluation card (verify, delete, replace), edits of a
config, models that come and go, a cancel, a crash.  A file is whole or not, and knows what it was made of.

### MemoryReport

A load is one child of the router: it takes a port, prints its lines and is ready.  The log is a queue with
losses, the watcher takes lines from it in order (`AddSpawn`, `NoteSpawn`, `AddBuffers`, `AddReady`), and a
ready load starts a recorder that waits for the monitor's next reading.  The monitor reads the cards without its
lock (`Collect`) and delivers later to whoever waits by then (`Deliver`), so a recorder may be given a reading
begun before its load was ready; `midway` notes those loads.  A reading is the set of loads that
held memory when it was taken, so "the figure is of this load" can be stated.  `lost` is a
history variable: the loads whose spawn line the log dropped.

### Placement, Estimate, Settings, Preset, SamplingPresets and Setup

Five modules of operators, each from one part of the code that decides without keeping state, and `Setup`,
which composes them.  `Placement`: the choices of the dropdown, their text, the split, its trimming, the
migration, the recommendation, the map.  `Estimate`: the GGUF reader, the sums over layers and tensors, what
a config loads beside the model.  `Settings`: loading the file with the environment, the settings request,
the router's variables, a whole backup.  `Preset`: the section written for a config and every reader of the
same config; what the config says itself is a `Section`, and the user's free text comes over it.
`SamplingPresets`: the chain of sources, their merge and what a client is told.  `Setup` lets a page be opened,
a choice be saved, carried to another machine by a backup, and recommended again, and evaluates one input of the
other kinds at a time; its properties relate what different code says of the same input.

## Runs

Each component has one passing run.  A specification has a constant `Scenarios` and a variable (`ops` or
`sc`) that Init picks from it and no step changes: a scenario says which operations, failures and requests a
behaviour may meet.  So one run explores several small situations next to each other, instead of one large
one that would not finish, and a property that holds only in some of them says in which (its premise
names the operations it excludes; what happens with them is under "Known gaps").

| run | question | properties | bounds, and why they are enough |
|---|---|---|---|
| `manager` | is Stop sound and does it return, is a starting router watched and resolved, do orderly calls keep one process that is shown live? | `StopSawExit`, `StartingIsWatched`, `OrderlyUseIsSound`, `RouterSettles` | 2 callers, 2 processes: the smallest in which a process is replaced under another caller's Stop; calls overlap, or come one by one with and without a router slower than five minutes |
| `queue` | what do completed, running and live runs mean across retry, edit, delete, cancel and crash, and does every job end? | `OneJobAtATime`, `RunsAreTheirs`, `CompletedIsKept`, `JobEnds` | four scenarios: one job with a performance and a KL cell, two overlapping retries and a crash (3 runs: a cell fails, is retried and cut off); two jobs with edits; two jobs with deletes and cancels; runs deleted under a job with a crash |
| `router` | does a cell measure what it records, has an evaluation the GPU, is the router given back, does the job end? | `CellsGetTheirServer`, `MeasuresAServer`, `RouterIsTheUsers`, `RouterIsGivenBack` | 7 job shapes (two builds, sweep, override, evaluations, mixed) in 8 scenarios, 2 builds, 2 models, 1 edit; users that start, stop, edit, cancel; exits, slow loading, failures |
| `matrix` | do results keep their labels, are the points distinct, the order cheap, the size exact and every accepted job runnable? | `CompletedIsAsLabelled`, `MatrixIsSound`, `CompletedSurvives` | 23 bodies: values fixed, swept, misspelled, repeated and blank, JSON and form, each kind of preset alone and mixed, two builds and models, batch sizes that fit some, all and none of the cells, refused ones; two edits between any of them (a result can be lost and asked for again); a limit of 7 cells stands for 500, with a body above it |
| `broadcast` | order, retention, loss, what a newcomer sees; does it implement Feed? | `CompleteUnlessOverrun`, `ReplayHasLatest`, `KeepsItsPromise` | 2 subscribers, history 2 and channels 2, 6 values: the history wraps and channels overflow |
| `download` | whole files, listed, stopped, ended, across pauses, drops, a crash, discards and three kinds of reply | `ListedUnlessEarly`, `FilesAreSound`, `CancelIsObeyed` | 2 shards of 2 chunks, 2 requests, 2 goroutines, 1 crash: every shard can be cut off and resumed once at every point |
| `registry` | is the file what memory says, does a projector find its model, does a restored config wait and arrive, is an outdated launch marked? | `RegistryIsSaved`, `ProjectorIsAttached`, `RestoredIsHeld`, `StaleIsMarked` | 2 files, 3 ids of which one is an old id of a file, 2 concurrent actors, 3 operations besides pages, saves, stops and boots: any two of edit, toggle, scan, download, restore, deletion and start meet, after or before a third; the unsaved migration and a restart in between |
| `builder` | is a listed build what its entry says, do flags arrive, is a page told, does an import stay? | `BuildsAreAsListed`, `PageIsTold`, `FlagsAreTheUsers`, `ImportIsKept` | 2 machines (a Debian and an Arch one, with different tools), 5 requests, 2 slots, 1 page, 8 scenarios, 3 operations: a build, its rebuild or deletion, and one more; a page follows builds that fail, are deleted or replaced, and that run beside another |
| `evaluation` | is nothing half done used, are scores comparable, does a cancel end the job? | `NothingIsHalfDone`, `ScoresAreComparable`, `CancelEndsJob` | 3 models (one is not installed), 2 configs, 5 requests, 4 scenarios, 2 jobs: the second finds what the first left |
| `memory` | is what is reported of a load of that load? | `ReportIsOfTheLoad`, `CardReadingIsOfTheLoad` | 2 models, 2 ports, 2 configs, 2 loads, 2 turns of the router, a log of 2 lines: a port and a model are reused, lines are lost, and a reading is under way while a load starts or ends |
| `setup` | do placement, sizes, launch flags, settings and sampling presets agree with each other? | `PlacementIsHonoured`, `SizesAreRight`, `LaunchIsTheConfig`, `FreeTextIsHeard`, `SettingsSurvive`, `RecommendationsAreTheirs` | 10 machines of one to five GPUs with 80 GB each, where the score puts fewer cards first in some cases and not in others (see the gaps; the claim for cards up to 42 GB is proved only), models that need 1 to 300 GB, GPUs that others load with 0, 39 or 40 GB in every distribution; configs of before the dropdown, with layer and tensor splits; headers, models, shards, reports, configs, names, sources, forms and backups from small sets that hold each special case the code tests for |
| `router_cancel` (violation) | is an idle server's router the user's after a cancel? | `IdleIsUsers` | that of `router`, in its cancelling scenario |

`router_cancel` is the one run that must find a violation: `ClearEphemeralConfig` says that after it the
router is back on the user's configs, but a cancel during the health poll makes the cleanup look at a router
that is not running yet, and leave it to come up on the benchmark's config.

Some properties are conjunctions, so that one run of the mutants judges one question:

| property | of |
|---|---|
| `OrderlyUseIsSound` | `SingleWhenOrderly`, `LiveIsShownLive` |
| `RouterSettles` | `StopReturns`, `StartingResolves` |
| `OneJobAtATime` | `TypeOK`, `RunningIsInFlight`, `InFlightIsStored` |
| `RunsAreTheirs` | `LiveRunIsDriven`, `CompletedIsMeasured` |
| `CellsGetTheirServer` | `MeasuresWhatItRecords`, `EvalHasGPUOnce` |
| `RouterIsTheUsers` | `IdleIsClean`, `RestoredUnlessCut` |
| `RouterIsGivenBack` | `RouterComesBack`, `JobReleases` |
| `MatrixIsSound` | `MatrixTypeOK`, `PointsAreDistinct`, `ReloadsAreMinimal`, `CountIsExact`, `EveryModelCanRun` |
| `FilesAreSound` | `TypeOK`, `FinalIsWhole`, `CompleteIsOnDisk` |
| `CancelIsObeyed` | `CancelStops`, `CancelledEnds` |
| `RegistryIsSaved` | `TypeOK`, `SavedUnlessRejected` |
| `BuildsAreAsListed` | `BuilderTypeOK`, `BuiltAsRecorded`, `LaunchableIsThere` |
| `FlagsAreTheUsers` | `UserFlagWins`, `SavedSetReplays` |
| `NothingIsHalfDone` | `TypeOK`, `CacheIsSound`, `DatasetIsVerified`, `RunIsSettled` |
| `ScoresAreComparable` | `BothSidesAgree`, `F16UnlessAsked`, `ReferenceIsShared`, `ComparedWithItsReference` |
| `ReportIsOfTheLoad` | `BuffersAreTheirOwn`, `TooltipIsOfTheLaunch` |
| `CardReadingIsOfTheLoad` | `ReadingIncludesLoad`, `LateSpawnIsMarked` |
| `PlacementIsHonoured` | `LaunchedWhereChosen`, `MapIsWhereItRuns` |
| `SizesAreRight` | `RecommendedIsFewest`, `LabelIsRecommendation`, `ReadsWhatIsThere`, `KVCacheIsPerLayer`, `TableIsMeasured`, `TermsAddUp` |
| `LaunchIsTheConfig` | `PresetSaysTheConfig`, `ShownIsLaunched`, `ChargesWhatItLoads`, `NamesReachTheirModel` |
| `SettingsSurvive` | `OnlyTheEdit`, `BackupCarriesAll`, `RestoreNeverDeletes` |

`CHECK_DEADLOCK FALSE` is in every cfg because every instance may really stop: users need not do anything,
and when a bound (processes, runs, tasks, values, crashes, edits, operations) is used up an idle server has
no step left.

Fairness (`FairSpec` of `RouterManager`, `JobQueue`, `BenchRouter`, `Downloader`, `Evaluation`) is weak and
only on what the code schedules by itself: goroutines, timers and deadlines.  Users are never forced to act,
the network and the child process never to answer, except that in `BenchRouter` a router that starts comes up
or exits (`WF(ComeUp)`), without which only the give-up path remains (and that one is fair too).  A job's
steps are fair because each call it makes has a context or a time-out, but for the two requests of `unloadAllModels`
(`runner.go:326`, `:354`), which have neither: there the job's end rests on a router that answers or closes.  In `Downloader` reading a reply is
not fair at all: a cancelled download ends because its context is cancelled, even on a network that has
gone silent.

### Known gaps

Met while modelling.  The premises and the bounds of the passing properties exclude exactly these; they have no
run of their own, apart from `router_cancel`.

* manager: a router that loads for longer than the five-minute poll is shown as failed while it lives, and a
  start then launches a second process (`manager.go:391`); a health answer received before a Stop and stored
  after it makes the status "running" with no command, and Start and Stop both refuse from then on
  (`manager.go:381`).  `OrderlyUseIsSound` is about behaviours without either.
* queue: a skipped cell is one that no retry accepts (`job_runner.go:249`); a retry refused because another job
  runs has already turned the failed cells into pending ones (`job_runner.go:249`); an edit of a job while it
  runs works on a stale copy (`benchmark.go:866`); a retry between the check and the deletion of a delete
  leaves a job in flight without a record (`bench_jobs.go:762`); an edit to another KL reference keeps the old
  reference's cell (`benchmark.go:854`).
* router: after a cancelled override job, or one whose router was slower than the poll, the next job on that
  build takes the fast path onto the leftover override (`jobs_env.go:143`); an evaluation begins beside a router
  that is still starting (`jobs_env.go:315`), and one after a performance cell leaves it up (`jobs_env.go:311`);
  a start admitted before a job is submitted acts in the middle of its first cell (`service.go:198`); a config
  saved while the router runs is recorded by the next job although the fast path kept the router on the old one;
  a mixed job starts a router that the user had turned off and leaves it up (`jobs_env.go:247`); a job whose
  JSON names a model twice comes back to a config it has left, and what the runner noted as last applied may no
  longer be what the router runs (`job_runner.go:459`).  So `MeasuresWhatItRecords` excludes cancels, slow
  routers, edits and such starts, `EvalHasGPUOnce` starts, cancels, slow routers and plans with an evaluation
  before a measurement, `MeasuresAServer` exits, stops, failures, such starts and jobs that name a model twice
  (`Grouped`), `RestoredUnlessCut` cancels and slow routers.
* job definitions: a speculative mode's settings are compared as they are spelled, so `draft_max=8` and
  `draft_max=08` give two cells that are one measurement (`sweep.go:282`); a model or preset named twice in a
  JSON body is measured twice (`bench_jobs.go:137`); a value that moves from fixed to swept loses its result.
* broadcaster: the router log keeps 500 lines for channels of 256, so a newcomer may not be replayed the latest
  ones (`manager.go:83`); a progress page whose 16 slots are full never gets the terminal status (`hf.go:253`).
* downloader: a pause followed at once by a resume loses the entry (`downloader.go:333`), and of two starts of
  an ended download the one that waited does not look again (`downloader.go:183`); a discard during a
  resume leaves the tail in a new, empty file (`hf.go:412`); a pause after the last chunk and before the rename
  leaves a whole `.part`, which every resume asks to continue beyond its end (`downloader.go:465`); a resume
  sends no If-Range (`downloader.go:464`).
* registry: an edit refused by the preset's checks stays in memory and is saved with the next change
  (`service.go:980`); a page migrates an old GPU assignment in memory only (`gpu_view.go:29`), so a crash brings the
  old words back; a form posts the projector's path, so one that left it blank, or a page opened before the projector
  arrived, takes it away (`service.go:895`), and so does a restore that does not find the file (`restore.go:247`),
  until a scan or a download looks again.  Not marked are an edit made while the model is disabled, an edit while the
  router is starting (`service.go:1003`), which has read its preset, a refused edit, a projector that a scan or a
  download attaches (`registry.go:1089`, `hf.go:479`), and a migration; a start that reads the preset before an edit
  clears the mark after it (`service.go:552`).  A handler whose struct was replaced meanwhile puts the old one back
  (`service.go:991`): an edit undoes a restore.  Two writers of the preset file may finish in the wrong order; a scan
  can register a file that a delete is removing; a crash can tear `models.json`.  Two simplifications: getting the
  struct and decoding the form into it are one step, so a replacement falls before or after both, and two handlers
  that hold one replaced struct get a copy each.
* builder: two requests share the clone and, of one profile, the build directory (`builder.go:303`, `:425`), so
  builds that overlap can be mixed; an entry can be deleted or replaced while it is being built
  (`builder.go:684`); when an entry is deleted while its build runs, another build of the same id can start
  beside it and takes over its log stream, and a page that follows the first is never told of its end
  (`builder.go:358`, `:413`), so of builds at once `PageIsTold` and `LaunchableIsThere` say nothing when entries
  can be deleted or replaced (`Careful`); an import may be named like a build made here (`external.go:90`), which
  the model assumes nobody does; confirming a rebuild of an untagged build computes another id (`api/build.go:255`); a
  crash during a forced rebuild leaves an entry whose binary is gone; flag sets are found by name across
  profiles (`flag_presets.go:88`); a page that subscribes after the end is not told (`build.go:297`).
* evaluation: two files of one repository with one quantization share a reference (`klcache.go:42`,
  `jobs_env.go:511`), whose key names neither the model file nor the dataset; the reference is resolved again
  in each cell, so a config changed meanwhile changes it, and of two equally large files of a repository either
  may be taken, since the list is not in a fixed order (`jobs_env.go:429`, `registry.go:435`); the deletion of a
  base is checked and done in two steps (`eval_data.go:138`); temporary downloads stay after a crash.
* memory: a second load that becomes ready during the first one's reading is counted in it (`memory_measured.go:54`,
  `jobs_env.go:754`); a recorder that subscribes while the monitor reads the cards is given a reading begun before its
  load was ready (`monitor.go:130`), though `memory_measured.go:140` promises one "taken after this call", so
  `ReadingIncludesLoad` is about the others (`midway`); a stop of the router clears the running configs after the
  process has gone (`service.go:217`), so a start in between can lose its snapshot, which the model does in one step;
  a recorder checks the port, which may have been given to another load of the model; a load that wakes up overwrites
  the reading; an instance that dies before it is ready counts as loading from then on; lines of a lost spawn line go
  to the record before it.
* placement and estimate: "fewest GPUs where the model weights fit" (`gpu_assign.go:609`) is scored as the free
  memory less 100 GB per card (`gpu_assign.go:663`), so more cards are recommended when they have more than 100 GB
  more: always with idle cards of over 100 GB, and also of six cards of 80 GB with 1, 41, 1, 41,
  40 and 40 GB taken, where an 80 GB model is given the first three and not the last two.  `RecommendedIsFewest` says
  where it cannot happen: with cards up to 42 GB, and below 100 GB against a single card, against a part of the
  choice, and when all cards have the same free; of cards of 100 GB and more it says only that no integrated GPU is
  recommended.  A split names at most ten cards by one digit; a config saved while
  the monitor sees no card loses its split (`service.go:855`), and a page opened before the first sample writes
  "tensor-0"; changed hardware keeps the old split, and so does a restored config of before the dropdown on a
  machine with fewer GPUs (`restore.go:214` resolves named assignments only): the page then migrates its name
  (`gpu_view.go:44`) and a start passes devices that are not there; "all" is charged as one card and a context
  of 0 as 2048.
* presets: some speculative modes offer numbers that never reach the launch; `--fit off` is shown and is not in
  the preset (`registry.go:339`), flash attention that is off is in it and not shown (`registry.go:306`); the
  flags shown split the free text at blanks, inside quotes too; `FindByAny` does not know a directory's alias;
  the proxy adds the saved sampling only for a registry id, though its comment says alias (`proxy.go:285`).
* settings, backup: a refused form leaves earlier fields changed in memory (`settings.go:148`); a restore reads
  the environment and applies it in two steps (`backup.go:158`); the file is written in place; an environment
  override is saved by the next change; one unknown variable refuses the environment section; a restored token
  does not reach running clients.
* sampling presets: two enrichments of one model may overwrite each other (`api/presets.go:35`).

## Proofs

Checked by `tlapm`, for every value of the constants that satisfies the named assumptions (the `ASSUME`s in the
modules, which TLC evaluates in the runs).  In each module the invariant proved is the property with what makes
it inductive.

* `LaunchProofs`, the router's process and what it is told.  Of `RouterManager`: `IInv` adds to the type that no
  process beyond `spawned` has a history (`Launched`), that a closed `done` channel means an exit (`DoneMeansExited`)
  and what a caller inside Stop holds (`StopHolds`).  Without `Launched` a new process could have an old `done`;
  without `StopHolds` the captured target could be none.  `OrderlyUse` needs one more, for calls that do not overlap:
  a live process is the current one and shown so, and a caller inside Stop still holds it.  Results: `TypeCorrect`,
  `StopIsSound`, `StartIsWatched`, `OrderlyUse`.  Assumption: `MaxProcs` is positive. Of placement
  (`PlacementHonoured`): a config is what the dropdown saves for a choice (`Chosen` says which GPUs that is,
  `ResolvedIsSpread` that the split spreads the model over them and no other), or by hand, or an old one, or an old
  tensor split that a page has named (`PlacementFine`).  `SpreadRuns` compares such a config with the GPUs the router
  is started on; with the device list the split is counted over the devices that are left, so it needs the number of
  chosen GPUs before each one (`RankIs`).  `OptionsAreFine` does the same for every entry the page offers.  Restores
  resolve a choice again (`RestoredFine`).  Assumptions: `OneDigit`, at most ten GPUs, as the names of GPUs in an
  assignment are read digit by digit; machines have a GPU (`MachinesAssumption`), and a tensor split from before the
  dropdown is over the first GPUs of its machine (`OldConfigsAssumption`).  The proof found the old split that is
  restored on a smaller machine (known gaps). Of settings and backups (`SettingsKept`): `ApplyIs` says what a restore
  makes of each part of a server.  From it follow that what the server has stays, with its value, unless the file
  gives the like of it, where a blank variable of the file blanks the server's and a free text replaces the whole of
  the old one (`RestoreKeeps`), that a second restore is idle (`ApplyTwice`), and that a model which arrives after the
  restore ends as if it had been there before (`LateIsEarly`).  `PathComesBack` takes a path from one models directory
  to another and back, which `BackupCarries` needs to show that a backup of the restored server repeats the first, on
  servers that are `Alike`.  `EditsOnly` is about a form as the page fills it: what was not edited is posted as it was
  shown and is saved, launched with and loaded again as it was. Assumption (`InputsAssumption`): the settings are ones
  that a server wrote, with an environment that passed its checks; a form is one section of the page; a config waits
  only for a model that is not there. Of launches (`LaunchesTheConfig`): a section is its parts merged, and no two
  parts have a flag in common but where the later is meant to win (`SpecDomain`, `ChatDomain`, `SizesAre`), so each
  flag has one author (`SectionSays`); the page's list, the estimate, the proxy and llama-server's own defaults are
  then compared with it one flag at a time, a draft model's files and numbers through every speculative mode
  (`DraftsAre`, `DraftIsHeard`).  `PageShows` holds for any free text: both readers put the same text over the same
  flags, whatever its parse makes of it. The estimate's GPUs are those of the launch by `SpreadRuns` (`CardsAre`).
  For models and aliases told apart, each name of a section leads to its model (`NamesAreReached`).  Assumption
  (`ConfigInput`): a config as the page saves it; its placement is any of the dropdown's for two GPUs, the number that
  the estimate is asked for here. Maps are merged by `++` of `Maps`, since `tlapm` has no definition of `@@`. Of the
  free text (`FreeTextHeard`): the parse says of each token whether it is the value of the flag before it, by a
  recursion on positions; that recursion has one solution, the second tokens of the flags that have two
  (`SecondsAreTaken`), so what is parsed is each flag's last value (`ParsedIs`, `LastIs`).  Assumption (`TextInput`):
  a text is flags as they were typed one after the other; a flag begins with a dash and no digit, and a value that
  begins with a dash is a negative number. Of the sampling presets (`SamplingIsTheirs`): merging a source adds what
  the list does not say and changes nothing it says (`MergeOne`, `MergeSource`), so of several sources the first that
  says a parameter is heard (`FetchMerges`, `MergedIs`); a value kept from a page stood in a table or a line under the
  heading that was looked for (`PageIsRead`, `TableIs`), and the page is of the same version or says none
  (`PageIsTheirs`).  Assumption (`SamplingInput`): the registry has one preset of a name, pages and files are lists,
  and every repository that is named can be asked, whatever it answers.
* `SizesProofs`, what the page says of sizes (`SizesRight`): the reader of headers keeps, entry by entry, exactly the
  usable ones, and loses its place nowhere (`EntryIsRead`, `HeaderIsRead`); the cache computed from two sums per model
  is the sum over the layers (`CacheSplits`), for contexts below the window too; the table measured by the next offset
  is at least the table and less than an alignment more (`SizeIs`); the lines of a report add up to its totals, also
  when one line stands for all the cards (`CardsAddUp`); and of the options that fit none is smaller than the one the
  page recommends, wherever the score puts fewer cards first (`PageIsFewest`), and as many as the label says
  (`PageLabelIsRecommended`).  That the score does is shown case by case from what a choice has free (`FreeIs`,
  `Fitting`): a part of a choice loses less than 100 GB per card it leaves out (`PartIsBetter`), a single card cannot
  be beaten by cards that are each below 100 GB (`OneIsBetter`), with equal loads the free memory is a multiple of one
  card's (`EvenIsBetter`), and with cards up to 42 GB (`ModestIsBetter`) the other choices of more than three cards
  are parts of one another (`LargeIsFirst`, `FirstAreFirst`), while of at most three, 126 GB cannot pay for a fit and
  one more card.  Assumptions: `SizesAssumption`, sizes are numbers; `HeaderInput`, a header names its architecture
  first, no key twice, numbers are below the sign bit of the width they are written with, texts and lists within the
  limits the reader has, and no list of lists; `ModelInput`, the heads have a width; `TensorInput`, tensors lie one
  after the other at aligned offsets, listed in any order; `ReportInput`, lines are of the known kinds.  What the
  reader does with other headers is in `ReadEntry`, but no property is claimed of it.
* `JobProofs`.  Of the queue: `Inv1` has three parts.  `Base`: what the runner and the requests hold refers to
  an array there is, the cell in hand is shown as running, and the file is what memory holds, but for failed
  cells that a retry has marked and not yet saved.  `InTurn`: a job is in flight exactly if it is the queue's
  current one, shown as running only until `run()` restores the router, and a live run has a driver.
  `Recorded`: with one request at a time the job in flight keeps its record, since a delete that passed its
  check is not about it.  `Inv2` adds, when nothing is removed on request, that a job has one cell array, that
  completed cells have completed runs of their job, and what the runner is about to record.  Without the part
  about the file a crash could bring back anything.  `CompletedIsKept` is about steps: on top of `Inv2` no step
  changes a completed cell (`Steady`), and what is saved, or read back after a crash, is that cell.  Results:
  `OneAtATime`, `RunsTheirs`, `ResultsAreKept`.  Assumptions: sizes are numbers, matrices are nonempty.  Of the
  definitions (`JobMatrix`): the invariant is the property with the shape of the cells: a step either leaves a
  cell its status and result, or takes completion from it, or measures it now.  The edit is the case that
  matters: `CarriedCell` shows that what is carried over is an old cell with its own sweep values, under
  overrides that the identity makes equal, and `FreshCell` that nothing else is completed.  Nothing is assumed
  of requests, presets or values, and nothing is needed of how a definition expands, which is a fold.  Result:
  `ResultsAreAsLabelled`.
* `ConfigProofs`, the configs the router runs on.  Of `BenchRouter`: `IInv` says where in the program counter the job
  is restoring and that from there on the flags are clean: restartRouter called for the restore returns only to the
  release, failed or not.  On top of it, each for the behaviours its property is about: `Owned` (without cancels and
  slow routers a router of the job's making is owned until it is stopped), `CellsInv` (what the job believes of the
  build and the override is what the router runs, or it is about to restart it), `Quiet` (once stopped for an
  evaluation the router stays down) and `ServingInv` (where the job stands in its plan: what it noted as last applied
  is what the cell before asked for, so a cell that skips the restart skips it on a router that serves).  Results:
  `TypeCorrect`, `NoTraceOfAJob`, `GivenBack`, `GetWhatTheyAskFor`, `FindsAServer`.  Assumptions: plans are sequences
  of cells, with overrides for all measurements or none.  Trying to prove `MeasuresWhatItRecords` found that a router
  slower than the poll breaks it, which the instance did not contain; it does now.  `FindsAServer` needed `Grouped`: a
  plan like model 1, model 2, model 1, which only a JSON body can ask for, breaks `MeasuresAServer` when the first
  config is slow to apply. Of `ModelRegistry`: `RegistryInv` is the four properties with the type of what each request
  holds between two lock sections (`Acts`), with `Down` (while the toolchest is down nothing is in flight and the file
  holds what a restore owes) and with `Marked`, which is `StaleIsMarked` also in the middle of a start: until the
  router launched takes its snapshot, the marks are still those of the one before.  Results: `Saved`, `Attached`,
  `Held`, `StaleMarked`.  Assumption: every file has an id, whose path it is (`RegistryAssumption`).
* `BuildProofs`, the broadcaster and its largest user.  Of `Broadcaster`: `IInv` says that history and each
  channel are increasing runs that end at what was sent last, unless overrun.  Results: `TypeCorrect`,
  `HistoryIsTheEnd`, `DeliveredInOrder`, `NothingLost`, `ReplayIsLatest` under `HistSize <= ChanCap`, the
  condition the router log does not meet, and `ImplementsFeed`: initial states map to initial states of `Feed`,
  and each action to one of its own or to a stutter.  Of `Builder`: `Shape` is the typing of requests in flight,
  entries, file and sets.  `Turn` says who may be in the pipeline: one request unless builds overlap, and with
  `Careful` requests no two of one id.  `Kept`, for builds one at a time, follows the commit and the flags from
  the checkout through the build directory and the binary into the entry and the file; `There` is the part of it
  that survives overlapping builds.  `Imports` and `Streams`/`Followed` are about registered builds and about
  logs: a stream has the number of one running build, and a page is at the stream of a build that will close it.
  `FlagsKept` alone is about the operators of `Toolchain`: none of the detected settings is put before a flag
  the user gave.  Results: `BuildsTyped`, `BuildsListed`, `FlagsKept`, `PagesTold`, `ImportsKept`.  Assumptions:
  the latest release is a ref, requests name refs or "latest", and no ref is called "external"
  (`RefsAssumption`), by which registered builds have ids of their own.  The proof found that a deletion beside
  overlapping builds can silence a page (known gaps); a run with four operations confirms it, and the premise of
  `PageIsTold` now says so.
* `DownloaderProofs`, when no download is started again within the 30 seconds its entry is kept.  `Listing`: only
  the goroutine started last can be at work, and it is listed.  `Spent`: a goroutine makes one inode for a shard
  at most, so the bound on inodes is never what stops it.  `Content`, without discards: no two names share an
  inode, and a `.part` is a beginning of its shard of which the writer knows the length.  Results: `Listed`,
  `Sound`.
* `MeasureProofs`, what is measured and recorded.  Of `Evaluation`: by `Files` one base is being written, by the
  cell, and the ticker lives only meanwhile, so its late save cannot reopen a settled run; `Verdicts`: what a card
  request holds is of the dataset that is there, or of an older file, which its time tells.  `Measures` and `Shown` are
  about the score: a completed run has the settings it records, and its reference the same arithmetic over as many
  chunks.  That the reference is also the model it names needs `DistinctFiles`: no two files of a repository share a
  quantization.  `Shared` says what every reference of a job has in common while no model joins or leaves: it is the
  named one, or there is no larger one.  Trying to prove that it is a single one found the exception (known gaps), and
  `ReferenceIsShared` now states it.  Results: `NothingHalfDone`, `MeasuredAlike`, `OneReference`, `Comparable`.
  Assumption: sizes are numbers, requests are for known models, and scenarios of known operations.
  Of `MemoryReport`: a line carries only a port, so all rests on order: `Ordered` (in the log the spawn line of a
  load comes before its other lines and after every line of the loads that had its port before) and `Pending` (what
  is still to be read, and of whom).  `Instances`, `Collected` and `Opened` say what the collector knows meanwhile;
  `Noted` follows a record to what a page says, `Awaited` a recorder to its reading, `Marked` two loads that met to
  the mark.  Results: `TypeCorrect`, `Reported`, `CardsRead`.  Assumptions: finitely many ports, and `None` is
  not itself a config, a reading or a record.
* `Folding`, about nothing in the code: the library's induction theorems take an operator as a parameter, which no
  prover here can instantiate, so this module has the operators as CONSTANTS and a proof takes an instance of it.
  `Induction` and `SetInduction` come from the well-foundedness of the numbers; a fold of a sequence is unfolded to
  a chain of states (`FoldStates`), so that what holds at the start and is kept by each turn holds at the end
  (`FoldInduction`); a sum over a finite set does not depend on the order (`SumRemoves`), and is what any function
  is that starts at 0 and grows by each term (`SumIs`).

Only model-checked: liveness under fairness (`RouterSettles`, `JobEnds`, `RouterIsGivenBack`, `CancelIsObeyed`,
`CancelEndsJob`), which is out of the prover's reach; the properties of `JobMatrix` about the order and the size of a
matrix (`MatrixIsSound`), which speak of what `FlattenSeq` and `SortSeq` make: the first is defined by recursion and
the second by TLC, so `tlapm` has nothing to unfold; and that an edit loses no result (`CompletedSurvives`), which
needs that no two old cells have one identity, and so the same expansion.  Loops that are folds or sums are proved
about through `Folding`. The typing and retention properties of `Broadcaster`, `BenchRouter` and `RouterManager` are
proved and therefore no longer in a run.

## Plan

Done, in this order: `RouterManager`, `JobQueue`, `BenchRouter`, `Broadcaster`, `Downloader` and `JobMatrix`; then
`Placement`, `Preset`, `Settings`, `Estimate` and `SamplingPresets` with their composition `Setup`,
`ModelRegistry`, `Builder` with `Toolchain`, `Evaluation`, `MemoryReport`; the abstract `Feed`; and the proof
modules: seven for the components, alone or with a neighbour, and `Folding` under them.  What would come next: an
abstract router between `RouterManager` and `BenchRouter`, which now states the manager's contract itself; the
quick benchmark beside the queue; and the estimate for placements of more than two GPUs.

## Not modelled

* The generated table of sampling presets (2700 lines of numbers), the pages, templates and scripts: no behaviour.
* The benchmark runner: one measurement is a sequence of requests and a Python tool; the models see its outcome.
* Statistics and comparison views: floating-point aggregation of finished runs that nothing else reads.
* Model sources: HTTP clients of external services; what a download needs of them is `Downloader`'s server.
* Install and migration scripts, packaging, the terminal chat client: outside the running server.
* Within modelled parts: the factors of the VRAM estimate, which are fitted to measurements; the grammar of tool
  output and log lines; free-space arithmetic and progress figures; quoting in the free text of a config; the
  auto-start goroutine; the quick benchmark and moving runs by hand.  The notes of `components` say it part
  by part.

Time is abstracted to nondeterminism (a timer may fire at any moment from when it is set) except where a
bounded wait of five seconds only guards a goroutine that has nothing left to wait for.
