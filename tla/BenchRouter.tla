----------------------------- MODULE BenchRouter -----------------------------
(***************************************************************************)
(* Who drives the llama-server router: the running benchmark job, through  *)
(* internal/api/jobs_env.go (jobEnv) as internal/benchmark/job_runner.go   *)
(* calls it, and the users, through the handlers of internal/api/service.go*)
(* that start, stop and restart it and edit model configs.                 *)
(*                                                                         *)
(* The process manager is seen as its callers see it (RouterManager has    *)
(* its inside): IsRunning is TRUE only when the router answers health      *)
(* checks, Start refuses while it starts or runs, Stop returns when it is  *)
(* gone.  startRouterWith is one step: what it launches, and the record of *)
(* the running build, are those of its options.                            *)
(***************************************************************************)
EXTENDS Naturals, Sequences

CONSTANTS
    Plans,       \* job definitions: each the sequence of its expanded cells
    Builds, Models,
    UserBuild,   \* cfg.ActiveBuild, the user's saved selection
    Scenarios,   \* which jobs a behaviour may have, and what users and the
                 \* machine may do in it
    MaxEdits     \* bound: edits of the saved model configs

NoBuild == "none"
NoOv == 0        \* no overrides and no swept values: cellOv = nil
NoCfg == [base |-> 0, ov |-> NoOv, model |-> "none"]

ASSUME PlansAssumption ==
    Plans \subseteq Seq([model : Models, build : Builds, cap : BOOLEAN, ov : Nat])
(* Overrides and sweeps are the job's: they reach all its performance      *)
(* cells or none.                                                          *)
ASSUME UniformAssumption ==
    \A p \in Plans : \A i, k \in 1 .. Len(p) :
        ~p[i].cap /\ ~p[k].cap => (p[i].ov = NoOv <=> p[k].ov = NoOv)
ASSUME BuildsAssumption == UserBuild \in Builds /\ NoBuild \notin Builds
ASSUME ModelsAssumption == "none" \notin Models
ASSUME EditsAssumption == MaxEdits \in Nat
ASSUME ScenariosAssumption ==
    Scenarios \subseteq
        [plans : SUBSET Plans,
         ops : SUBSET {"start", "race", "stop", "edit", "cancel", "exit", "slow", "fail"}]

VARIABLES
    router,     \* "down", "starting" or "up": the manager's status
    live,       \* what the router was launched with
    saved,      \* version of the model configs in the registry
    jobBuildID, jobConfigs, ownsRouter, stoppedForEval,     \* jobEnv
    busy,       \* q.current # nil
    canceled,   \* the job's context is done
    plan, cur,  \* the job's cells and the one it is at
    pc,         \* where the job is
    then,       \* where restartRouter returns to
    prevBuildID, lastApplied,                               \* run()
    rec,        \* the config the current run records
    admitted,   \* a user's start or restart passed routerBusyWithJob
    sc          \* the scenario: chosen at the start, then constant

envVars == <<jobBuildID, jobConfigs, ownsRouter, stoppedForEval>>
runVars == <<prevBuildID, lastApplied, rec>>
jobVars == <<busy, canceled, plan, cur>>
vars == <<router, live, saved, envVars, jobVars, pc, then, runVars, admitted>>

PCs == {"idle", "next", "cell", "resolve", "apply", "measure", "evalStop",
        "evalStopping", "eval", "fail", "done", "stop", "stopping", "start",
        "poll", "clear", "restore", "release"}

Cfg == [base : 0 .. MaxEdits, ov : Nat, model : Models \cup {"none"}]

TypeOK ==
    /\ router \in {"down", "starting", "up"}
    /\ live \in [build : Builds, base : 0 .. MaxEdits, over : Cfg]
    /\ saved \in 0 .. MaxEdits
    /\ jobBuildID \in Builds \cup {NoBuild}
    /\ jobConfigs \in Cfg
    /\ {ownsRouter, stoppedForEval, busy, canceled, admitted} \subseteq BOOLEAN
    /\ plan \in Plans
    /\ cur \in 0 .. Len(plan)
    /\ {pc, then} \subseteq PCs
    /\ prevBuildID \in Builds \cup {NoBuild}
    /\ lastApplied \in [build : Builds \cup {NoBuild}, cfg : Cfg]
    /\ rec \in Cfg

NoneApplied == [build |-> NoBuild, cfg |-> NoCfg]

Init ==
    /\ router \in {"down", "up"}
    /\ live = [build |-> UserBuild, base |-> 0, over |-> NoCfg]
    /\ saved = 0
    /\ jobBuildID = NoBuild /\ jobConfigs = NoCfg
    /\ ownsRouter = FALSE /\ stoppedForEval = FALSE
    /\ busy = FALSE /\ canceled = FALSE
    /\ plan \in Plans /\ cur = 0
    /\ pc = "idle" /\ then = "idle"
    /\ prevBuildID = NoBuild /\ lastApplied = NoneApplied /\ rec = NoCfg
    /\ admitted = FALSE
    /\ sc \in Scenarios

Cell == plan[cur]
IsRunning == router = "up"

(* startRouterWith and Manager.Start: overrides go to one model, the       *)
(* others get the saved config.                                            *)
Launch(build, over) ==
    /\ router' = "starting"
    /\ live' = [build |-> IF build = NoBuild THEN UserBuild ELSE build,
                base |-> saved, over |-> over]

(* What the live process runs model m with.                                *)
Serves(m) == IF live.over.model = m THEN live.over
             ELSE [base |-> live.base, ov |-> NoOv, model |-> m]

----------------------------------------------------------------------------
(* The job: Submit and the cell loop of run().                             *)

Submit(p) ==
    /\ p \in sc.plans
    /\ ~busy
    /\ admitted => "race" \in sc.ops
    /\ busy' = TRUE /\ canceled' = FALSE
    /\ plan' = p /\ cur' = 0
    /\ pc' = "next"
    /\ prevBuildID' = NoBuild /\ lastApplied' = NoneApplied /\ rec' = NoCfg
    /\ UNCHANGED <<router, live, saved, envVars, then, admitted>>

Cancel ==
    /\ "cancel" \in sc.ops
    /\ busy /\ ~canceled
    /\ canceled' = TRUE
    /\ UNCHANGED <<router, live, saved, envVars, busy, plan, cur, pc, then,
                   runVars, admitted>>

Goto(l) == pc' = l /\ UNCHANGED then

NextCell ==
    /\ pc = "next"
    /\ IF canceled \/ cur = Len(plan)
       THEN Goto("clear") /\ UNCHANGED cur
       ELSE Goto("cell") /\ cur' = cur + 1
    /\ UNCHANGED <<router, live, saved, envVars, busy, canceled, plan, runVars,
                   admitted>>

(* mutant: a capability cell leaves the caches as they are *)
CellEndsCached ==
    /\ pc \in {"fail", "done"}
    /\ Goto("next")
    /\ UNCHANGED <<router, live, saved, envVars, jobVars, runVars, admitted>>

(* Whatever happened to it, a capability cell empties both caches.         *)
CellEnds ==
    /\ pc \in {"fail", "done"}
    /\ Goto("next")
    /\ IF Cell.cap THEN prevBuildID' = NoBuild /\ lastApplied' = NoneApplied
       ELSE UNCHANGED <<prevBuildID, lastApplied>>
    /\ UNCHANGED <<router, live, saved, envVars, jobVars, rec, admitted>>

(* A check or a lookup of runCell fails: build not runnable, model or      *)
(* build gone, invalid config, missing binary or dataset.                  *)
CellFails ==
    /\ "fail" \in sc.ops
    /\ pc \in {"cell", "resolve", "apply", "evalStop", "eval"}
    /\ Goto("fail")
    /\ UNCHANGED <<router, live, saved, envVars, jobVars, runVars, admitted>>

CallRestart(return) == pc' = "stop" /\ then' = return

(* EnsureBuildActive's fast path: already serving this build on the user's *)
(* config.                                                                 *)
AlreadyActive ==
    IsRunning /\ live.build = Cell.build /\ jobConfigs = NoCfg

(* A performance cell: the build switch, unless the previous cell did it.  *)
(* With an override to come (configFollows) the switch is left to it.      *)
PerfCell ==
    /\ pc = "cell" /\ ~Cell.cap
    /\ IF Cell.build = prevBuildID
       THEN Goto("resolve") /\ UNCHANGED <<envVars, prevBuildID>>
       ELSE /\ jobBuildID' = Cell.build
            /\ IF AlreadyActive \/ Cell.ov # NoOv
               THEN /\ Goto("resolve")
                    /\ prevBuildID' = Cell.build
                    /\ UNCHANGED ownsRouter
               ELSE /\ ownsRouter' = TRUE
                    /\ CallRestart("resolve")
                    /\ UNCHANGED prevBuildID
            /\ UNCHANGED <<jobConfigs, stoppedForEval>>
    /\ UNCHANGED <<router, live, saved, jobVars, lastApplied, rec, admitted>>

(* mutant: the applied config is remembered without its build *)
AppliedNoBuild(cfg) == [build |-> NoBuild, cfg |-> cfg]

Applied(cfg) == [build |-> Cell.build, cfg |-> cfg]

(* ResolveModel and applyOverrides.                                        *)
Resolve ==
    /\ pc = "resolve"
    /\ rec' = [base |-> saved, ov |-> Cell.ov, model |-> Cell.model]
    /\ Goto(IF Cell.ov # NoOv /\ lastApplied # Applied(rec') THEN "apply" ELSE "measure")
    /\ UNCHANGED <<router, live, saved, envVars, jobVars, prevBuildID, lastApplied,
                   admitted>>

(* mutant: does not take the router over before restarting it *)
ApplyUnowned ==
    /\ pc = "apply"
    /\ jobConfigs' = rec
    /\ CallRestart("measure")
    /\ UNCHANGED <<router, live, saved, jobBuildID, ownsRouter, stoppedForEval,
                   jobVars, runVars, admitted>>

(* ApplyEphemeralConfig.                                                   *)
Apply ==
    /\ pc = "apply"
    /\ jobConfigs' = rec
    /\ ownsRouter' = TRUE
    /\ CallRestart("measure")
    /\ UNCHANGED <<router, live, saved, jobBuildID, stoppedForEval, jobVars,
                   runVars, admitted>>

(* Runner.Run against whatever router is there; it may take long.          *)
Measured ==
    /\ pc = "measure"
    /\ Goto("done")
    /\ UNCHANGED <<router, live, saved, envVars, jobVars, runVars, admitted>>

----------------------------------------------------------------------------
(* restartRouter: stop if running, start on the job's options, poll.       *)

RestartFailed == pc' = (IF then = "release" THEN "release" ELSE "fail")

RestartStop ==
    /\ pc = "stop"
    /\ Goto(IF IsRunning THEN "stopping" ELSE "start")
    /\ UNCHANGED <<router, live, saved, envVars, jobVars, runVars, admitted>>

(* Manager.Stop; it fails when a user's stop came between.                 *)
RestartStopped ==
    /\ pc = "stopping"
    /\ router' = "down"
    /\ \/ Goto("start")
       \/ router = "down" /\ RestartFailed /\ UNCHANGED then
    /\ UNCHANGED <<live, saved, envVars, jobVars, runVars, admitted>>

RestartStart ==
    /\ pc = "start"
    /\ UNCHANGED then
    /\ \/ /\ router = "down"
          /\ Launch(jobBuildID, jobConfigs)
          /\ pc' = "poll"
       \/ /\ router # "down" \/ "fail" \in sc.ops
          /\ RestartFailed
          /\ UNCHANGED <<router, live>>
    /\ UNCHANGED <<saved, envVars, jobVars, runVars, admitted>>

(* The restore polls under a context that is never cancelled.              *)
Polls == then = "release" \/ ~canceled

PollUp ==
    /\ pc = "poll"
    /\ Polls
    /\ IsRunning
    /\ Goto(then)
    /\ lastApplied' = IF then = "measure" THEN Applied(rec) ELSE lastApplied
    /\ prevBuildID' = IF then = "resolve" THEN Cell.build ELSE prevBuildID
    /\ UNCHANGED <<router, live, saved, envVars, jobVars, rec, admitted>>

(* Cancelled, or two minutes have passed: a router that exited is never    *)
(* seen up, and one that loads slowly may not be.                          *)
PollGiveUp ==
    /\ pc = "poll"
    /\ ~Polls \/ router = "down" \/ (router = "starting" /\ "slow" \in sc.ops)
    /\ RestartFailed
    /\ UNCHANGED <<router, live, saved, envVars, jobVars, then, runVars, admitted>>

----------------------------------------------------------------------------
(* A capability cell: StopRouterForEval, then the evaluation.              *)

CapCell ==
    /\ pc = "cell" /\ Cell.cap
    /\ Goto("evalStop")
    /\ UNCHANGED <<router, live, saved, envVars, jobVars, runVars, admitted>>

StopRouterForEval ==
    /\ pc = "evalStop"
    /\ IF ~stoppedForEval /\ IsRunning
       THEN ownsRouter' = TRUE /\ stoppedForEval' = TRUE /\ Goto("evalStopping")
       ELSE Goto("eval") /\ UNCHANGED <<ownsRouter, stoppedForEval>>
    /\ UNCHANGED <<router, live, saved, jobBuildID, jobConfigs, jobVars, runVars,
                   admitted>>

EvalStop ==
    /\ pc = "evalStopping"
    /\ router' = "down"
    /\ \/ Goto("eval")
       \/ router = "down" /\ Goto("fail")
    /\ UNCHANGED <<live, saved, envVars, jobVars, runVars, admitted>>

(* RunEval ends, with scores or an error.                                  *)
Evaluated ==
    /\ pc = "eval"
    /\ Goto("done")
    /\ UNCHANGED <<router, live, saved, envVars, jobVars, runVars, admitted>>

----------------------------------------------------------------------------
(* ClearEphemeralConfig, deferred by run(), and the end of the job.        *)

(* mutant: takes a stopped router for one the user stopped *)
ClearForgetsEval ==
    /\ pc = "clear"
    /\ jobBuildID' = NoBuild /\ jobConfigs' = NoCfg
    /\ ownsRouter' = FALSE /\ stoppedForEval' = FALSE
    /\ Goto(IF ownsRouter \/ stoppedForEval THEN "restore" ELSE "release")
    /\ UNCHANGED <<router, live, saved, jobVars, runVars, admitted>>

Clear ==
    /\ pc = "clear"
    /\ jobBuildID' = NoBuild /\ jobConfigs' = NoCfg
    /\ ownsRouter' = FALSE /\ stoppedForEval' = FALSE
    /\ IF stoppedForEval THEN CallRestart("release")
       ELSE Goto(IF ownsRouter THEN "restore" ELSE "release")
    /\ UNCHANGED <<router, live, saved, jobVars, runVars, admitted>>

(* A router that is not running is one the user stopped: it stays so.      *)
Restore ==
    /\ pc = "restore"
    /\ IF IsRunning THEN CallRestart("release") ELSE Goto("release")
    /\ UNCHANGED <<router, live, saved, envVars, jobVars, runVars, admitted>>

Release ==
    /\ pc = "release"
    /\ Goto("idle")
    /\ busy' = FALSE
    /\ UNCHANGED <<router, live, saved, envVars, canceled, plan, cur, runVars,
                   admitted>>

JobStep ==
    \/ NextCell \/ CellEnds \/ CellFails
    \/ PerfCell \/ Resolve \/ Apply \/ Measured
    \/ RestartStop \/ RestartStopped \/ RestartStart \/ PollUp \/ PollGiveUp
    \/ CapCell \/ StopRouterForEval \/ EvalStop \/ Evaluated
    \/ Clear \/ Restore \/ Release

----------------------------------------------------------------------------
(* The router's own steps and the users'.                                  *)

NotTheJob == UNCHANGED <<saved, envVars, jobVars, pc, then, runVars>>

ComeUp ==
    /\ router = "starting"
    /\ router' = "up"
    /\ NotTheJob /\ UNCHANGED <<live, admitted>>

Exit ==
    /\ "exit" \in sc.ops
    /\ router # "down"
    /\ router' = "down"
    /\ NotTheJob /\ UNCHANGED <<live, admitted>>

routerBusyWithJob == busy \/ ownsRouter

(* handleServiceStart, handleServiceRestart and handleActivateModel: the   *)
(* check, and later the act.                                               *)
Admit ==
    /\ "start" \in sc.ops
    /\ ~admitted /\ ~routerBusyWithJob
    /\ admitted' = TRUE
    /\ NotTheJob /\ UNCHANGED <<router, live>>

UserStart ==
    /\ admitted
    /\ admitted' = FALSE
    /\ IF router = "down" THEN Launch(NoBuild, NoCfg) ELSE UNCHANGED <<router, live>>
    /\ NotTheJob

UserRestart ==
    /\ admitted
    /\ admitted' = FALSE
    /\ IF router # "starting" THEN Launch(NoBuild, NoCfg)
       ELSE UNCHANGED <<router, live>>
    /\ NotTheJob

(* handleServiceStop is not guarded: it is the way out of a hung cell.     *)
UserStop ==
    /\ "stop" \in sc.ops
    /\ router # "down"
    /\ router' = "down"
    /\ NotTheJob /\ UNCHANGED <<live, admitted>>

EditConfig ==
    /\ "edit" \in sc.ops
    /\ saved < MaxEdits
    /\ saved' = saved + 1
    /\ UNCHANGED <<router, live, envVars, jobVars, pc, then, runVars, admitted>>

Step ==
    \/ \E p \in Plans : Submit(p)
    \/ Cancel
    \/ JobStep
    \/ ComeUp \/ Exit
    \/ Admit \/ UserStart \/ UserRestart \/ UserStop \/ EditConfig

Next == Step /\ UNCHANGED sc

Spec == Init /\ [][Next]_<<vars, sc>>

(* The job's goroutine keeps running and a router that starts comes up if  *)
(* it does not exit.                                                       *)
FairSpec == Spec /\ WF_vars(JobStep) /\ WF_vars(ComeUp)

----------------------------------------------------------------------------
(* A cell that measures a live router measures the build and the config    *)
(* its run records (job_runner.go: "Without this the cell benchmarks the   *)
(* model's saved config and then records cfg"): with users who start and   *)
(* stop the router, exits and failures anywhere, as long as no job is      *)
(* cancelled and no router outlasts the poll (either leaves a job's router *)
(* to the next one), no config is saved under a running router and no      *)
(* start slips in between the busy check and a submission.                 *)
MeasuresWhatItRecords ==
    sc.ops \cap {"cancel", "slow", "edit", "race"} = {} /\ pc = "measure" /\ router = "up" =>
        live.build = Cell.build /\ Serves(Cell.model) = rec

(* ExpandCellsWithSweeps goes through builds, models, sweep values and      *)
(* presets in that order: of the measurements those of a build are one     *)
(* stretch, and so are those of a config on it.                            *)
SameBuild(c, d)  == c.build = d.build
SameConfig(c, d) == SameBuild(c, d) /\ c.model = d.model /\ c.ov = d.ov
Grouped(p) == \A i, k, j \in 1 .. Len(p) :
    i < k /\ k < j /\ ~p[i].cap /\ ~p[k].cap /\ ~p[j].cap =>
        /\ SameBuild(p[i], p[j]) => SameBuild(p[i], p[k])
        /\ SameConfig(p[i], p[j]) => SameConfig(p[i], p[k])

(* A cell measures a server that is there: even after an evaluation has    *)
(* stopped the router, the next performance cell gets it back (run():      *)
(* "Invalidate both caches so the NEXT PERFORMANCE cell unconditionally    *)
(* re-enters EnsureBuildActive/ApplyEphemeralConfig"), unless a restart    *)
(* that was admitted before the job acts in the middle of it.  A job that  *)
(* names a model twice is not Grouped: it returns to a config that         *)
(* lastApplied still names when the apply between has failed.              *)
MeasuresAServer ==
    sc.ops \cap {"exit", "stop", "fail", "race"} = {} /\ Grouped(plan) /\ pc = "measure" =>
        router = "up"

(* While an evaluation runs, the router is gone: llama-perplexity has the  *)
(* VRAM to itself (StopRouterForEval: "exclusive VRAM").                   *)
EvalHasGPU == pc = "eval" => router = "down"

(* It is, when the job's evaluations come after all its measurements, and  *)
(* nobody starts a router or cancels and no router outlasts the poll:      *)
(* StopRouterForEval stops it once, but not one that is still starting.    *)
EvalsLast(p) == \A i, k \in 1 .. Len(p) : p[i].cap /\ i < k => p[k].cap
EvalHasGPUOnce ==
    sc.ops \cap {"start", "cancel", "slow"} = {} /\ EvalsLast(plan) => EvalHasGPU

(* No job, no trace of one in the environment: whatever failed in the      *)
(* restore, users are not locked out of the router and a start of theirs   *)
(* uses their own build and config (ClearEphemeralConfig).                 *)
IdleIsClean ==
    ~busy => /\ ~ownsRouter /\ ~stoppedForEval
             /\ jobBuildID = NoBuild /\ jobConfigs = NoCfg

(* When no job runs, a router that is there is the user's: their build, no *)
(* substituted config (run(): "the router has to go back to the user's     *)
(* saved config and build").                                               *)
IdleIsUsers ==
    ~busy /\ router # "down" => live.build = UserBuild /\ live.over = NoCfg

(* That holds when no job is cancelled and no router takes more than the   *)
(* two minutes of the poll: then the cleanup never finds one starting.     *)
RestoredUnlessCut == sc.ops \cap {"cancel", "slow"} = {} => IdleIsUsers

(* A router that is up before a job is up again and again: no job, not     *)
(* even one cancelled in the middle of an evaluation, leaves it stopped    *)
(* (ClearEphemeralConfig: "the router goes back up -- including on failure *)
(* and cancel").                                                           *)
RouterComesBack ==
    router = "up" /\ sc.ops \cap {"exit", "stop", "fail"} = {} ~> []<>(router = "up")

(* A job ends, whatever users do to the router and whatever of its cells   *)
(* and restarts fails.                                                     *)
JobReleases == busy ~> ~busy

(* A cell gets what it asks for: a measurement the build and the config    *)
(* that its run records, and an evaluation the GPU to itself.              *)
CellsGetTheirServer == MeasuresWhatItRecords /\ EvalHasGPUOnce

(* Between jobs the environment and the router are the user's again.       *)
RouterIsTheUsers == IdleIsClean /\ RestoredUnlessCut

(* Liveness: every job ends, and the router it found up is up again.       *)
RouterIsGivenBack == RouterComesBack /\ JobReleases
=============================================================================
