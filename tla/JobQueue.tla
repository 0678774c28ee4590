------------------------------ MODULE JobQueue ------------------------------
(***************************************************************************)
(* Benchmark jobs: internal/benchmark/job_runner.go (JobQueue, run,        *)
(* runCell, runCapabilityCell), the job half of the Store in               *)
(* internal/benchmark/benchmark.go with its file, and the HTTP handlers of *)
(* internal/api/bench_jobs.go that create, retry, edit, cancel and delete. *)
(*                                                                         *)
(* A BenchmarkJob is copied by value, but its Cells slice is not: the      *)
(* record in the store, the running job and every copy GetJob hands out    *)
(* share one backing array.  heap holds those arrays, and a record refers  *)
(* to one by its index.  Every action is one critical section (of the      *)
(* queue's mutex, with the store's inside it, or of the store's alone) or  *)
(* the unlocked code between two of them.                                  *)
(***************************************************************************)
EXTENDS Naturals, Sequences

CONSTANTS
    Jobs,         \* job IDs: numbers that grow with time
    Handlers,     \* HTTP requests that may be in progress together
    NCells,       \* (model, build, preset, sweep) points; each its own model
    KLCells,      \* the points whose preset is kl-divergence
    Matrices,     \* the point sets a create or an edit may ask for
    Scenarios,    \* what a behaviour may use of all this, and which operations
    MaxRuns,      \* bound: benchmark runs ever started
    MaxArrays,    \* bound: cell arrays per job between two restarts
    MaxCrashes    \* bound: server crashes

Cells == 1 .. NCells
RunIds == 1 .. MaxRuns
None == 0
Adhoc == 0          \* the synthetic job of runs without one

ASSUME SizesAssumption == NCells \in Nat /\ MaxRuns \in Nat
                          /\ MaxArrays \in Nat \ {0} /\ MaxCrashes \in Nat
ASSUME MatricesAssumption == Matrices \subseteq (SUBSET Cells) \ {{}}
ASSUME KLCellsAssumption == KLCells \subseteq Cells
ASSUME ScenariosAssumption ==
    Scenarios \subseteq
        [ops : SUBSET {"retry", "edit", "delete", "deleteRun", "cancel", "crash"},
         jobs : SUBSET Jobs, handlers : SUBSET Handlers, matrices : SUBSET Matrices,
         runs : 0 .. MaxRuns]
ASSUME IdsAssumption == Jobs \subseteq Nat \ {None}

VARIABLES
    jobs,     \* Store.jobs: status, cells array and KL reference of each job
    heap,     \* the cells arrays of each job
    runs,     \* Store.runs: status and JobID of each run
    started,  \* how many runs were ever started
    current,  \* q.current
    rj,       \* the goroutine executing run() for each job
    hd,       \* each HTTP request: where it is, and its copy of the job
    disk,     \* benchmarks.json
    crashes,
    sc        \* the scenario: chosen at the start, then constant

mem == <<jobs, heap, runs, started>>
vars == <<jobs, heap, runs, started, current, rj, hd, disk, crashes>>

JobStatuses == {"absent", "pending", "running", "completed", "failed", "canceled"}
CellStatuses == {"pending", "running", "completed", "failed", "skipped"}
RunStatuses == {"absent", "running", "completed", "failed"}
RunnerPCs == {"none", "start", "loop", "cell", "link", "measure", "skip", "read",
              "ok", "bad", "restore", "release"}
HandlerPCs == {"idle", "mark", "submit", "delete"}

Job == [status : JobStatuses, ref : 0 .. MaxArrays, kl : Cells \cup {None}]
Cell == [status : CellStatuses, run : RunIds \cup {None}, skip : BOOLEAN]
CellArrays == UNION {[m -> Cell] : m \in Matrices}
Run == [status : RunStatuses, job : Jobs \cup {Adhoc}]

NoJob == [status |-> "absent", ref |-> 0, kl |-> None]
NoRun == [status |-> "absent", job |-> Adhoc]
Idle == [pc |-> "none", ref |-> 0, kl |-> None, cell |-> 0, run |-> None,
         canceled |-> FALSE]
NoRequest == [pc |-> "idle", id |-> None, job |-> NoJob]

Stored(j) == jobs[j].status # "absent"
CellsOf(j) == heap[j][jobs[j].ref]
FreshCells(m) == [c \in m |-> [status |-> "pending", run |-> None, skip |-> FALSE]]

(* persist(): what the file says of a store, arrays copied out.            *)
FileOf(js, hp, rs) ==
    [jobs |-> [j \in Jobs |->
                 [status |-> js[j].status, kl |-> js[j].kl,
                  cells |-> IF js[j].ref = 0 THEN <<>> ELSE hp[j][js[j].ref]]],
     runs |-> rs]
Persist == disk' = FileOf(jobs', heap', runs')

Init ==
    /\ jobs = [j \in Jobs |-> NoJob]
    /\ heap = [j \in Jobs |-> <<>>]
    /\ runs = [r \in RunIds |-> NoRun]
    /\ started = 0
    /\ current = None
    /\ rj = [j \in Jobs |-> Idle]
    /\ hd = [h \in Handlers |-> NoRequest]
    /\ disk = FileOf(jobs, heap, runs)
    /\ crashes = 0
    /\ sc \in Scenarios

----------------------------------------------------------------------------
(* Submit: refused while a job is in flight, otherwise the record is saved *)
(* as pending (a record that was deleted meanwhile is appended again) and  *)
(* run() starts on the caller's copy.                                      *)

(* mutant: refuses only the job that is in flight itself *)
AcceptOther(j, job) ==
    /\ current # j
    /\ current' = j
    /\ jobs' = [jobs EXCEPT ![j] = [job EXCEPT !.status = "pending"]]
    /\ rj' = [rj EXCEPT ![j] = [Idle EXCEPT !.pc = "start", !.ref = job.ref,
                                            !.kl = job.kl]]

Accept(j, job) ==
    /\ current = None
    /\ current' = j
    /\ jobs' = [jobs EXCEPT ![j] = [job EXCEPT !.status = "pending"]]
    /\ rj' = [rj EXCEPT ![j] = [Idle EXCEPT !.pc = "start", !.ref = job.ref,
                                            !.kl = job.kl]]

(* validateKLJob: some selected model must differ from the reference.      *)
ValidKL(m, k) == m \cap KLCells # {} => \E c \in m : c # k

(* A reference is asked for with KL cells only.                            *)
References(m) == IF m \cap KLCells = {} THEN {None} ELSE Cells

(* handleCreateJob.  A new ID, so nothing is stored when Submit refuses.   *)
Create(j, m, k) ==
    /\ heap[j] = <<>>
    /\ \A i \in sc.jobs : i < j => heap[i] # <<>>
    /\ ValidKL(m, k)
    /\ heap' = [heap EXCEPT ![j] = <<FreshCells(m)>>]
    /\ Accept(j, [status |-> "pending", ref |-> 1, kl |-> k])
    /\ UNCHANGED <<runs, started, hd, crashes>>
    /\ Persist

(* The last call of RetryFailed and of handleUpdateJob.                    *)
SubmitCopy(h) ==
    /\ hd[h].pc = "submit"
    /\ hd' = [hd EXCEPT ![h] = NoRequest]
    /\ \/ /\ Accept(hd[h].id, hd[h].job)
          /\ UNCHANGED <<heap, runs, started>>
          /\ Persist
       \/ /\ current # None                        \* ErrJobAlreadyRunning
          /\ UNCHANGED <<mem, current, rj, disk>>
    /\ UNCHANGED crashes

(* RetryFailed: GetJob, ...                                                *)
RetryGet(h, j) ==
    /\ "retry" \in sc.ops
    /\ hd[h].pc = "idle"
    /\ Stored(j)
    /\ hd' = [hd EXCEPT ![h] = [pc |-> "mark", id |-> j, job |-> [jobs[j] EXCEPT !.status = "pending"]]]
    /\ UNCHANGED <<mem, current, rj, disk, crashes>>

(* mutant: every cell that ran before runs again                           *)
MarkAll(a) == [c \in DOMAIN a |-> [a[c] EXCEPT !.status = "pending"]]

Mark(a) ==
    [c \in DOMAIN a |-> IF a[c].status = "failed"
                        THEN [a[c] EXCEPT !.status = "pending"] ELSE a[c]]

(* ... flip the failed cells of the copy, in the array it shares with the  *)
(* store and with a running job, without a lock and before Submit decides. *)
RetryMark(h) ==
    LET j == hd[h].id
        a == heap[j][hd[h].job.ref]
    IN  /\ hd[h].pc = "mark"
        /\ IF \E c \in DOMAIN a : a[c].status = "failed"
           THEN /\ heap' = [heap EXCEPT ![j][hd[h].job.ref] = Mark(a)]
                /\ hd' = [hd EXCEPT ![h].pc = "submit"]
           ELSE /\ hd' = [hd EXCEPT ![h] = NoRequest]
                /\ UNCHANGED heap
        /\ UNCHANGED <<jobs, runs, started, current, rj, disk, crashes>>

(* UpdateJobDefinition: completed cells that survive the edit are kept     *)
(* with their run, the job's other runs go to the Ad-Hoc job, and the      *)
(* record gets a new array.                                                *)
KeptCells(a, m) ==
    [c \in m |-> IF c \in DOMAIN a /\ a[c].status = "completed"
                 THEN a[c] ELSE FreshCells(m)[c]]

EditStore(h, j, m, k) ==
    LET new == KeptCells(CellsOf(j), m)
        kept == {new[c].run : c \in m}
        job == [status |-> "pending", ref |-> Len(heap[j]) + 1, kl |-> k]
    IN  /\ "edit" \in sc.ops
        /\ hd[h].pc = "idle"
        /\ Stored(j)
        /\ ValidKL(m, k)
        /\ Len(heap[j]) < MaxArrays
        /\ heap' = [heap EXCEPT ![j] = Append(@, new)]
        /\ runs' = [r \in RunIds |->
                      IF runs[r].job = j /\ r \notin kept
                      THEN [runs[r] EXCEPT !.job = Adhoc] ELSE runs[r]]
        /\ jobs' = [jobs EXCEPT ![j] = job]
        /\ hd' = [hd EXCEPT ![h] = [pc |-> "submit", id |-> j, job |-> job]]
        /\ UNCHANGED <<started, current, rj, crashes>>
        /\ Persist

(* handleDeleteJob: the running check (Status), then DeleteJob.            *)
DeleteCheck(h, j) ==
    /\ "delete" \in sc.ops
    /\ hd[h].pc = "idle"
    /\ Stored(j)
    /\ current # j
    /\ hd' = [hd EXCEPT ![h] = [pc |-> "delete", id |-> j, job |-> NoJob]]
    /\ UNCHANGED <<mem, current, rj, disk, crashes>>

DeleteJob(h) ==
    LET j == hd[h].id
    IN  /\ hd[h].pc = "delete"
        /\ hd' = [hd EXCEPT ![h] = NoRequest]
        /\ IF Stored(j)
           THEN /\ jobs' = [jobs EXCEPT ![j] = NoJob]
                /\ \E cascade \in BOOLEAN :
                      runs' = [r \in RunIds |->
                                 IF runs[r].job # j THEN runs[r]
                                 ELSE IF cascade THEN NoRun
                                 ELSE [runs[r] EXCEPT !.job = Adhoc]]
                /\ UNCHANGED <<heap, started>>
                /\ Persist
           ELSE UNCHANGED <<mem, disk>>
        /\ UNCHANGED <<current, rj, crashes>>

(* handleDeleteBenchmark: any run, running or not.                         *)
DeleteRun(r) ==
    /\ "deleteRun" \in sc.ops
    /\ runs[r].status # "absent"
    /\ runs' = [runs EXCEPT ![r] = NoRun]
    /\ UNCHANGED <<jobs, heap, started, current, rj, hd, crashes>>
    /\ Persist

(* Cancel: only the job in flight, and only its context.                   *)
Cancel(j) ==
    /\ "cancel" \in sc.ops
    /\ current = j
    /\ ~rj[j].canceled
    /\ rj' = [rj EXCEPT ![j].canceled = TRUE]
    /\ UNCHANGED <<mem, current, hd, disk, crashes>>

----------------------------------------------------------------------------
(* run(): the goroutine of job j works on its own copy of the record and   *)
(* on the array the copy refers to.                                        *)
Mine(j) == heap[j][rj[j].ref]
MyCell(j) == Mine(j)[rj[j].cell]

SaveJob(j, status) ==
    jobs' = [jobs EXCEPT ![j] = [status |-> status, ref |-> rj[j].ref,
                                 kl |-> rj[j].kl]]

SetCell(j, c, cell) == heap' = [heap EXCEPT ![j][rj[j].ref][c] = cell]

RunStart(j) ==
    /\ rj[j].pc = "start"
    /\ SaveJob(j, "running")
    /\ rj' = [rj EXCEPT ![j].pc = "loop"]
    /\ UNCHANGED <<heap, runs, started, current, hd, crashes>>
    /\ Persist

(* The loop over the cells: completed ones are passed over, after a cancel *)
(* the others are marked skipped, and otherwise the next one runs.         *)
Left(j) == {c \in DOMAIN Mine(j) : c > rj[j].cell}
IsNext(j, c) == c \in Left(j) /\ \A d \in Left(j) : c <= d

PassCell(j) ==
    /\ rj[j].pc = "loop"
    /\ \E c \in Cells : /\ IsNext(j, c)
                        /\ Mine(j)[c].status = "completed"
                        /\ rj' = [rj EXCEPT ![j].cell = c]
    /\ UNCHANGED <<mem, current, hd, disk, crashes>>

SkipCanceled(j) ==
    /\ rj[j].pc = "loop"
    /\ rj[j].canceled
    /\ \E c \in Cells : /\ IsNext(j, c)
                        /\ Mine(j)[c].status # "completed"
                        /\ SetCell(j, c, [Mine(j)[c] EXCEPT !.status = "skipped"])
                        /\ rj' = [rj EXCEPT ![j].cell = c]
    /\ SaveJob(j, "running")
    /\ UNCHANGED <<runs, started, current, hd, crashes>>
    /\ Persist

StartCell(j) ==
    /\ rj[j].pc = "loop"
    /\ ~rj[j].canceled
    /\ \E c \in Cells : /\ IsNext(j, c)
                        /\ Mine(j)[c].status # "completed"
                        /\ SetCell(j, c, [Mine(j)[c] EXCEPT !.status = "running"])
                        /\ rj' = [rj EXCEPT ![j].cell = c, ![j].pc = "cell"]
    /\ SaveJob(j, "running")
    /\ UNCHANGED <<runs, started, current, hd, crashes>>
    /\ Persist

(* runCell fails before it has a run: overrides, build check, build        *)
(* switch, model or config.                                                *)
FailEarly(j) ==
    /\ rj[j].pc = "cell"
    /\ rj' = [rj EXCEPT ![j].pc = "bad"]
    /\ UNCHANGED <<mem, current, hd, disk, crashes>>

(* Save(run), then SaveJob with the run's ID in the cell.                  *)
CreateRun(j) ==
    /\ rj[j].pc = "cell"
    /\ started < sc.runs
    /\ started' = started + 1
    /\ runs' = [runs EXCEPT ![started + 1] = [status |-> "running", job |-> j]]
    /\ rj' = [rj EXCEPT ![j].pc = "link", ![j].run = started + 1]
    /\ UNCHANGED <<jobs, heap, current, hd, crashes>>
    /\ Persist

LinkRun(j) ==
    /\ rj[j].pc = "link"
    /\ SetCell(j, rj[j].cell, [MyCell(j) EXCEPT !.run = rj[j].run])
    /\ SaveJob(j, "running")
    /\ rj' = [rj EXCEPT ![j].pc = "measure"]
    /\ UNCHANGED <<runs, started, current, hd, crashes>>
    /\ Persist

IsKL(j) == rj[j].cell \in KLCells
IsOwnReference(j) == IsKL(j) /\ rj[j].cell = rj[j].kl

(* mutant: a failed measurement returns without its last Save *)
EndRunUnsaved(j) ==
    \E s \in {"completed", "failed"} :
        /\ rj[j].pc = "measure"
        /\ ~(IsOwnReference(j) /\ s = "completed")
        /\ runs' = IF s = "failed" THEN runs
                   ELSE [runs EXCEPT ![rj[j].run] = [status |-> s, job |-> j]]
        /\ rj' = [rj EXCEPT ![j].pc = IF ~IsKL(j) THEN "read"
                                      ELSE IF s = "completed" THEN "ok" ELSE "bad"]
        /\ UNCHANGED <<jobs, heap, started, current, hd, crashes>>
        /\ Persist

(* The measurement ends: the last Save of Runner.Run, or of                *)
(* runCapabilityCell, stores the whole run, whoever deleted it or moved it *)
(* to another job meanwhile.  A performance cell then reads it back.       *)
EndRun(j) ==
    \E s \in {"completed", "failed"} :
        /\ rj[j].pc = "measure"
        /\ ~(IsOwnReference(j) /\ s = "completed")
        /\ runs' = [runs EXCEPT ![rj[j].run] = [status |-> s, job |-> j]]
        /\ rj' = [rj EXCEPT ![j].pc = IF ~IsKL(j) THEN "read"
                                      ELSE IF s = "completed" THEN "ok" ELSE "bad"]
        /\ UNCHANGED <<jobs, heap, started, current, hd, crashes>>
        /\ Persist

ReadBack(j) ==
    /\ rj[j].pc = "read"
    /\ rj' = [rj EXCEPT ![j].pc =
                 IF runs[rj[j].run].status = "completed" THEN "ok" ELSE "bad"]
    /\ UNCHANGED <<mem, current, hd, disk, crashes>>

(* A KL cell of the reference model itself: no measurement, the run it     *)
(* created is deleted, and the cell gets a skip reason in place of a run.  *)
UnlinkRun(j) ==
    /\ rj[j].pc = "measure"
    /\ IsOwnReference(j)
    /\ SetCell(j, rj[j].cell, [MyCell(j) EXCEPT !.skip = TRUE])
    /\ runs' = [runs EXCEPT ![rj[j].run] = NoRun]
    /\ rj' = [rj EXCEPT ![j].pc = "skip"]
    /\ UNCHANGED <<jobs, started, current, hd, crashes>>
    /\ Persist

SkipReference(j) ==
    /\ rj[j].pc = "skip"
    /\ SetCell(j, rj[j].cell, [MyCell(j) EXCEPT !.run = None])
    /\ SaveJob(j, "running")
    /\ rj' = [rj EXCEPT ![j].pc = "ok"]
    /\ UNCHANGED <<runs, started, current, hd, crashes>>
    /\ Persist

EndCell(j) ==
    /\ rj[j].pc \in {"ok", "bad"}
    /\ SetCell(j, rj[j].cell, [MyCell(j) EXCEPT !.status =
                                 IF rj[j].pc = "ok" THEN "completed" ELSE "failed"])
    /\ SaveJob(j, "running")
    /\ rj' = [rj EXCEPT ![j].pc = "loop", ![j].run = None]
    /\ UNCHANGED <<runs, started, current, hd, crashes>>
    /\ Persist

(* anyCompleted: a completed cell stays completed, so the array tells it.  *)
FinalStatus(j) ==
    IF rj[j].canceled THEN "canceled"
    ELSE IF \E c \in DOMAIN Mine(j) : Mine(j)[c].status = "completed"
    THEN "completed" ELSE "failed"

Finish(j) ==
    /\ rj[j].pc = "loop"
    /\ Left(j) = {}
    /\ SaveJob(j, FinalStatus(j))
    /\ rj' = [rj EXCEPT ![j].pc = "restore"]
    /\ UNCHANGED <<heap, runs, started, current, hd, crashes>>
    /\ Persist

(* mutant: the cleanup waits under the cancelled context *)
RestoreUncanceled(j) ==
    /\ rj[j].pc = "restore"
    /\ ~rj[j].canceled
    /\ rj' = [rj EXCEPT ![j].pc = "release"]
    /\ UNCHANGED <<mem, current, hd, disk, crashes>>

(* The deferred calls: ClearEphemeralConfig, which may take a router       *)
(* restart, then q.current = nil.                                          *)
Restore(j) ==
    /\ rj[j].pc = "restore"
    /\ rj' = [rj EXCEPT ![j].pc = "release"]
    /\ UNCHANGED <<mem, current, hd, disk, crashes>>

Release(j) ==
    /\ rj[j].pc = "release"
    /\ current' = None
    /\ rj' = [rj EXCEPT ![j] = Idle]
    /\ UNCHANGED <<mem, hd, disk, crashes>>

----------------------------------------------------------------------------
(* A crash loses everything but the file; load() reads it back and fails   *)
(* whatever the previous process left running.                             *)

LoadCells(d) ==
    [c \in DOMAIN d.cells |->
        IF d.status = "running" /\ d.cells[c].status = "running"
        THEN [d.cells[c] EXCEPT !.status = "failed"] ELSE d.cells[c]]

LoadStatus(d) == IF d.status = "running" THEN "failed" ELSE d.status

LoadRun(r) ==
    IF r.status = "running" THEN [r EXCEPT !.status = "failed"] ELSE r

Crash ==
    /\ "crash" \in sc.ops
    /\ crashes < MaxCrashes
    /\ crashes' = crashes + 1
    /\ jobs' = [j \in Jobs |->
                  LET d == disk.jobs[j]
                  IN  IF d.status = "absent" THEN NoJob
                      ELSE [status |-> LoadStatus(d), ref |-> 1, kl |-> d.kl]]
    /\ heap' = [j \in Jobs |-> IF disk.jobs[j].status = "absent" THEN <<>>
                               ELSE <<LoadCells(disk.jobs[j])>>]
    /\ runs' = [r \in RunIds |-> LoadRun(disk.runs[r])]
    /\ current' = None
    /\ rj' = [j \in Jobs |-> Idle]
    /\ hd' = [h \in Handlers |-> NoRequest]
    /\ UNCHANGED started
    /\ Persist

----------------------------------------------------------------------------
RunnerNext(j) ==
    \/ RunStart(j) \/ PassCell(j) \/ SkipCanceled(j) \/ StartCell(j)
    \/ FailEarly(j) \/ CreateRun(j) \/ LinkRun(j) \/ EndRun(j) \/ ReadBack(j)
    \/ UnlinkRun(j) \/ SkipReference(j) \/ EndCell(j) \/ Finish(j)
    \/ Restore(j) \/ Release(j)

UserNext(j) ==
    \/ Cancel(j)
    \/ \E m \in sc.matrices : \E k \in References(m) : Create(j, m, k)
    \/ \E h \in sc.handlers :
          \/ RetryGet(h, j) \/ DeleteCheck(h, j)
          \/ \E m \in sc.matrices : \E k \in References(m) : EditStore(h, j, m, k)

HandlerNext(h) == RetryMark(h) \/ DeleteJob(h) \/ SubmitCopy(h)

Step ==
    \/ \E j \in sc.jobs : RunnerNext(j) \/ UserNext(j)
    \/ \E h \in sc.handlers : HandlerNext(h)
    \/ \E r \in RunIds : DeleteRun(r)
    \/ Crash

Next == Step /\ UNCHANGED sc

(* Everything run() calls returns: the environment's calls take a context  *)
(* or a timeout, and the store's are local.                                *)
Fairness == \A j \in Jobs : WF_vars(RunnerNext(j))

Spec == Init /\ [][Next]_<<vars, sc>>
FairSpec == Spec /\ Fairness

----------------------------------------------------------------------------
TypeOK ==
    /\ jobs \in [Jobs -> Job]
    /\ \A j \in Jobs : /\ heap[j] \in Seq(CellArrays)
                       /\ jobs[j].ref <= Len(heap[j])
                       /\ Stored(j) => jobs[j].ref > 0
    /\ runs \in [RunIds -> Run]
    /\ started \in 0 .. MaxRuns
    /\ current \in Jobs \cup {None}
    /\ rj \in [Jobs -> [pc : RunnerPCs, ref : 0 .. MaxArrays, kl : Cells \cup {None},
                        cell : 0 .. NCells, run : RunIds \cup {None},
                        canceled : BOOLEAN]]
    /\ hd \in [Handlers -> [pc : HandlerPCs, id : Jobs \cup {None}, job : Job]]
    /\ crashes \in 0 .. MaxCrashes
    /\ sc \in Scenarios

InFlight(j) == rj[j].pc # "none"

(* One benchmark at a time (JobQueue: "only one job runs at a time"), and  *)
(* a job shown as running is that one: whatever is retried, edited,        *)
(* deleted, cancelled or restarted, no job is left "running" for ever with *)
(* nothing executing it, and the queue is never freed while run() works.   *)
RunningIsInFlight ==
    /\ \A j \in Jobs : InFlight(j) <=> current = j
    /\ \A j \in Jobs : jobs[j].status = "running" => InFlight(j)

(* job_runner.go:538 "No exit may leave a stored StatusRunning run": a run *)
(* shown as live is being driven by the job that created it.               *)
LiveRunIsDriven ==
    \A r \in RunIds :
        runs[r].status = "running" =>
            \E j \in Jobs : rj[j].run = r /\ rj[j].pc \in {"link", "measure"}

(* Edits and deletes remove results on request.                            *)
NoRemovals == sc.ops \cap {"edit", "delete", "deleteRun"} = {}

(* A completed cell shows a measurement: a completed run that belongs to   *)
(* its job, or a skip reason and no run, through retries, cancels and      *)
(* crashes (runCell, runCapabilityCell and load).                          *)
CompletedIsMeasured ==
    NoRemovals => \A j \in Jobs : Stored(j) =>
        \A c \in DOMAIN CellsOf(j) :
            LET cell == CellsOf(j)[c]
            IN  cell.status = "completed" =>
                    IF cell.skip THEN cell.run = None
                    ELSE cell.run # None /\ runs[cell.run] = [status |-> "completed",
                                                              job |-> j]

(* help.html:359 "Retry failed - re-runs only the cells that failed,       *)
(* keeping completed results": once the file says that a cell completed,   *)
(* no retry, cancel or crash loses it or measures it again.                *)
CompletedIsKept ==
    [][NoRemovals => \A j \in Jobs : disk.jobs[j].status # "absent" =>
          \A c \in DOMAIN disk.jobs[j].cells :
              disk.jobs[j].cells[c].status = "completed" =>
                  disk'.jobs[j].cells[c] = disk.jobs[j].cells[c]]_vars

(* Liveness: whatever users do, the job in flight ends and frees the queue.*)
JobEnds == current # None ~> current = None

(* A job in flight has its record: a delete is refused while it runs, and  *)
(* a copy submitted after a delete is stored again (bench_jobs.go:759-761  *)
(* "the job would keep driving the router while every lookup by id         *)
(* failed").  It takes requests that do not overlap: the check and the     *)
(* deletion are two steps.                                                 *)
OneRequest == \A g, h \in sc.handlers : g = h
InFlightIsStored == OneRequest => (current # None => Stored(current))

(* One job runs at a time, it has its record, and no other job is shown as *)
(* running, whatever requests, failures and crashes come between.          *)
OneJobAtATime == TypeOK /\ RunningIsInFlight /\ InFlightIsStored

(* A run that is shown as live has a driver, and a cell that is shown as   *)
(* completed has a completed run of its own job.                           *)
RunsAreTheirs == LiveRunIsDriven /\ CompletedIsMeasured
============================================================================
