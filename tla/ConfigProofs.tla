---------------------------- MODULE ConfigProofs ----------------------------
(***************************************************************************)
(* Proofs about the configs that the router is started with.               *)
(*  - BenchRouter, for every set of plans, builds, models and operations:  *)
(*    a job borrows the router, and gives back the user's.                 *)
(*  - ModelRegistry, for every set of ids, files, identities and actors:   *)
(*    configs are saved, restored, held, and marked when they are stale.   *)
(***************************************************************************)
EXTENDS BenchRouter, ModelRegistry, SequenceTheorems, TLAPS

InRestart == pc \in {"stop", "stopping", "start", "poll"}
InCell ==
    \/ pc \in {"cell", "resolve", "apply", "measure", "evalStop", "evalStopping",
               "eval", "fail", "done"}
    \/ InRestart /\ then # "release"
Restoring == pc \in {"restore", "release"} \/ (InRestart /\ then = "release")

Clean == /\ ~ownsRouter /\ ~stoppedForEval
         /\ jobBuildID = NoBuild /\ jobConfigs = NoCfg

(* The inductive invariant: once the flags are cleared nothing sets them   *)
(* before the job is released, because restartRouter called for the        *)
(* restore goes nowhere but to the release, failed or not.                 *)
IInv ==
    /\ TypeOK
    /\ busy <=> pc # "idle"
    /\ InCell => cur \in 1 .. Len(plan)
    /\ InRestart => then \in {"resolve", "measure", "release"}
    /\ Restoring \/ ~busy => Clean

LEMMA CfgFacts ==
    /\ NoCfg \in Cfg
    /\ NoneApplied \in [build : Builds \cup {NoBuild}, cfg : Cfg]
BY EditsAssumption DEF NoCfg, Cfg, NoOv, NoneApplied

(* The cell a job is at is one of its definition's.                        *)
LEMMA CellType ==
    ASSUME TypeOK, cur \in 1 .. Len(plan)
    PROVE  Cell \in [model : Models, build : Builds, cap : BOOLEAN, ov : Nat]
<1>1. plan \in Seq([model : Models, build : Builds, cap : BOOLEAN, ov : Nat])
      BY PlansAssumption DEF TypeOK
<1> QED BY <1>1, ElementOfSeq DEF Cell

LEMMA PlanLen ==
    ASSUME NEW p \in Plans
    PROVE  Len(p) \in Nat
BY PlansAssumption, LenProperties

LEMMA InitIInv == Init => IInv
<1> SUFFICES ASSUME Init PROVE IInv OBVIOUS
<1>1. /\ live \in [build : Builds, base : 0 .. MaxEdits, over : Cfg]
      /\ saved \in 0 .. MaxEdits
      BY CfgFacts, BuildsAssumption, EditsAssumption DEF Init
<1>2. cur \in 0 .. Len(plan)
      BY PlanLen DEF Init
<1>3. {pc, then} \subseteq PCs /\ router \in {"down", "starting", "up"}
      BY DEF Init, PCs
<1>4. {ownsRouter, stoppedForEval, busy, canceled, admitted} \subseteq BOOLEAN
      BY DEF Init
<1>5. TypeOK
      BY <1>1, <1>2, <1>3, <1>4, CfgFacts DEF Init, TypeOK
<1> QED BY <1>5 DEF Init, IInv, InCell, InRestart, Restoring, Clean

(* Launching a router keeps the types.                                     *)
LEMMA LaunchType ==
    ASSUME TypeOK, NEW b \in Builds \cup {NoBuild}, NEW o \in Cfg, Launch(b, o)
    PROVE  /\ router' \in {"down", "starting", "up"}
           /\ live' \in [build : Builds, base : 0 .. MaxEdits, over : Cfg]
BY BuildsAssumption DEF TypeOK, Launch

(* The loop of run(), Submit and Cancel.                                   *)
LEMMA LoopStep ==
    ASSUME IInv,
           (\E p \in Plans : Submit(p)) \/ Cancel \/ NextCell \/ CellEnds \/ CellFails
           \/ CapCell \/ Measured \/ Evaluated
    PROVE  IInv'
<1> USE DEF IInv, TypeOK, InCell, InRestart, Restoring, Clean, PCs, Goto
<1>1. CASE \E p \in Plans : Submit(p)
  <2> PICK p \in Plans : Submit(p) BY <1>1
  <2>1. /\ UNCHANGED <<router, live, saved, then, admitted, jobBuildID,
                       jobConfigs, ownsRouter, stoppedForEval>>
        /\ busy' = TRUE /\ canceled' = FALSE /\ pc' = "next"
        /\ plan' = p /\ cur' = 0
        /\ prevBuildID' = NoBuild /\ lastApplied' = NoneApplied /\ rec' = NoCfg
        BY DEF Submit, envVars
  <2>2. cur' \in 0 .. Len(plan') BY <2>1, PlanLen
  <2>3. {ownsRouter', stoppedForEval', busy', canceled', admitted'} \subseteq BOOLEAN
        BY <2>1
  <2>4. TypeOK' BY <2>1, <2>2, <2>3, CfgFacts
  <2>5. ~busy BY DEF Submit
  <2> QED BY <2>1, <2>4, <2>5
<1>2. CASE Cancel BY <1>2 DEF Cancel, envVars, runVars
<1>3. CASE NextCell
      BY <1>3, PlanLen DEF NextCell, envVars, runVars
<1>4. CASE CellEnds
      BY <1>4, CfgFacts DEF CellEnds, envVars, jobVars
<1>5. CASE CellFails
      BY <1>5 DEF CellFails, envVars, jobVars, runVars
<1>6. CASE CapCell
      BY <1>6 DEF CapCell, envVars, jobVars, runVars
<1>7. CASE Measured
      BY <1>7 DEF Measured, envVars, jobVars, runVars
<1>8. CASE Evaluated
      BY <1>8 DEF Evaluated, envVars, jobVars, runVars
<1> QED BY <1>1, <1>2, <1>3, <1>4, <1>5, <1>6, <1>7, <1>8

(* The cells' own use of the router.                                       *)
LEMMA CellStep ==
    ASSUME IInv, PerfCell \/ Resolve \/ Apply \/ StopRouterForEval \/ EvalStop
    PROVE  IInv'
<1> USE DEF IInv, TypeOK, InCell, InRestart, Restoring, Clean, PCs, Goto, CallRestart
<1>1. pc \in {"cell", "resolve", "apply", "evalStop", "evalStopping"} =>
          Cell \in [model : Models, build : Builds, cap : BOOLEAN, ov : Nat]
      BY CellType
<1>2. CASE PerfCell
      BY <1>1, <1>2, Zenon DEF PerfCell, envVars, jobVars
<1>3. CASE Resolve
      BY <1>1, <1>3 DEF Resolve, envVars, jobVars, Cfg
<1>4. CASE Apply
      BY <1>4 DEF Apply, envVars, jobVars, runVars
<1>5. CASE StopRouterForEval
      BY <1>5 DEF StopRouterForEval, envVars, jobVars, runVars
<1>6. CASE EvalStop
      BY <1>6 DEF EvalStop, envVars, jobVars, runVars
<1> QED BY <1>2, <1>3, <1>4, <1>5, <1>6

(* restartRouter, and the restore at the end of the job.                   *)
LEMMA RestartStep ==
    ASSUME IInv,
           RestartStop \/ RestartStopped \/ RestartStart \/ PollUp \/ PollGiveUp
           \/ Clear \/ Restore \/ Release
    PROVE  IInv'
<1> USE DEF IInv, TypeOK, InCell, InRestart, Restoring, Clean, PCs, Goto,
            RestartFailed, CallRestart
<1>1. CASE RestartStop
      BY <1>1 DEF RestartStop, envVars, jobVars, runVars
<1>2. CASE RestartStopped
      BY <1>2 DEF RestartStopped, envVars, jobVars, runVars
<1>3. CASE RestartStart
  <2>1. CASE router = "down" /\ Launch(jobBuildID, jobConfigs) /\ pc' = "poll"
        BY <1>3, <2>1, LaunchType DEF RestartStart, envVars, jobVars, runVars
  <2>2. CASE RestartFailed /\ UNCHANGED <<router, live>>
        BY <1>3, <2>2 DEF RestartStart, envVars, jobVars, runVars
  <2> QED BY <1>3, <2>1, <2>2 DEF RestartStart
<1>4. CASE PollUp
  <2>1. then # "release" => Cell \in [model : Models, build : Builds,
                                      cap : BOOLEAN, ov : Nat]
        BY <1>4, CellType DEF PollUp
  <2> QED BY <1>4, <2>1 DEF PollUp, Applied, envVars, jobVars
<1>5. CASE PollGiveUp
      BY <1>5 DEF PollGiveUp, envVars, jobVars, runVars
<1>6. CASE Clear
      BY <1>6, CfgFacts DEF Clear, jobVars, runVars
<1>7. CASE Restore
      BY <1>7 DEF Restore, envVars, jobVars, runVars
<1>8. CASE Release
      BY <1>8 DEF Release, envVars, runVars
<1> QED BY <1>1, <1>2, <1>3, <1>4, <1>5, <1>6, <1>7, <1>8

(* Users and the router leave the job and its environment alone.           *)
LEMMA OthersStep ==
    ASSUME IInv,
           ComeUp \/ Exit \/ Admit \/ UserStart \/ UserRestart \/ UserStop \/ EditConfig
    PROVE  IInv'
<1>1. ASSUME NotTheJob \/ EditConfig
      PROVE  UNCHANGED <<jobBuildID, jobConfigs, ownsRouter, stoppedForEval, busy,
                         canceled, plan, cur, pc, then, prevBuildID, lastApplied, rec>>
      BY <1>1 DEF NotTheJob, EditConfig, envVars, jobVars, runVars
<1>2. UNCHANGED <<jobBuildID, jobConfigs, ownsRouter, stoppedForEval, busy,
                  canceled, plan, cur, pc, then, prevBuildID, lastApplied, rec>>
      BY <1>1 DEF ComeUp, Exit, Admit, UserStart, UserRestart, UserStop
<1>3. /\ router' \in {"down", "starting", "up"}
      /\ live' \in [build : Builds, base : 0 .. MaxEdits, over : Cfg]
      /\ saved' \in 0 .. MaxEdits
      /\ admitted' \in BOOLEAN
  <2> USE DEF IInv, TypeOK
  <2>1. CASE ComeUp \/ Exit \/ Admit \/ UserStop
        BY <2>1 DEF ComeUp, Exit, Admit, UserStop, NotTheJob
  <2>2. CASE UserStart \/ UserRestart
    <3>1. CASE Launch(NoBuild, NoCfg)
          BY <2>2, <3>1, CfgFacts, LaunchType DEF UserStart, UserRestart, NotTheJob
    <3>2. CASE UNCHANGED <<router, live>>
          BY <2>2, <3>2 DEF UserStart, UserRestart, NotTheJob
    <3> QED BY <2>2, <3>1, <3>2 DEF UserStart, UserRestart
  <2>3. CASE EditConfig
        BY <2>3, EditsAssumption DEF EditConfig
  <2> QED BY <2>1, <2>2, <2>3
<1>4. TypeOK' BY <1>2, <1>3 DEF IInv, TypeOK
<1> QED BY <1>2, <1>4 DEF IInv, InCell, InRestart, Restoring, Clean

LEMMA InvStep == IInv /\ [Next]_<<vars, sc>> => IInv'
<1> SUFFICES ASSUME IInv, [Next]_<<vars, sc>> PROVE IInv' OBVIOUS
<1>1. CASE UNCHANGED <<vars, sc>>
      BY <1>1 DEF vars, envVars, jobVars, runVars, IInv, TypeOK, InCell,
                  InRestart, Restoring, Clean, Cell
<1>2. CASE Next
      BY <1>2, LoopStep, CellStep, RestartStep, OthersStep DEF Next, Step, JobStep
<1> QED BY <1>1, <1>2

THEOREM Invariance == Spec => []IInv
<1> QED BY InvStep, InitIInv, PTL DEF Spec

(* The environment and the job's control state keep their types.           *)
THEOREM TypeCorrect == Spec => []TypeOK
<1>1. IInv => TypeOK BY DEF IInv
<1> QED BY <1>1, Invariance, PTL

(* Whatever fails, is cancelled or is stopped by hand, a job that has      *)
(* ended leaves no flag behind that would lock users out of the router or  *)
(* send their next start to a benchmark build or config.                   *)
THEOREM NoTraceOfAJob == Spec => []IdleIsClean
<1>1. IInv => IdleIsClean BY DEF IInv, IdleIsClean, Clean
<1> QED BY <1>1, Invariance, PTL

------------------------------------------------------------------------------
(* What a job leaves behind, what its cells measure and what an evaluation *)
(* finds, for every set of plans, builds and models.  Four invariants on   *)
(* top of IInv, each for the behaviours its property is about.             *)

Can(op) == op \in sc.ops
IsUp == router # "down"
Calling == InRestart /\ then # "release"      \* a cell's restartRouter
Working == InCell \/ pc \in {"next", "clear"}

(* A router of a job's making.                                             *)
Strange == IsUp /\ ~(live.build = UserBuild /\ live.over = NoCfg)

(* Without cancels and slow routers, who leaves the poll leaves a router   *)
(* that is up or gone, so the job owns a strange one until it has stopped  *)
(* it.                                                                     *)
Owned ==
    /\ ~canceled
    /\ Strange => /\ busy /\ pc # "release"
                  /\ ~(pc \in {"start", "poll"} /\ then = "release")
                  /\ router = "starting" => pc = "poll"
                  /\ ownsRouter \/ pc = "restore" \/ (InRestart /\ then = "release")
    /\ Calling => ownsRouter

OwnedInv == ~Can("cancel") /\ ~Can("slow") => Owned

(* UniformAssumption: a job has overrides for all its measurements or for  *)
(* none.                                                                   *)
Plainly == \A i \in 1 .. Len(plan) : ~plan[i].cap => plan[i].ov = NoOv

(* What holds of any job, when the saved configs stay as they are.         *)
AtCell ==
    /\ saved = 0 /\ live.base = 0
    /\ busy => ~admitted
    /\ pc \in {"resolve", "apply", "measure"} \/ Calling => ~Cell.cap
    /\ pc \in {"resolve", "apply", "measure"} => prevBuildID = Cell.build
    /\ pc \in {"apply", "measure"} \/ (InRestart /\ then = "measure") =>
          rec = [base |-> 0, ov |-> Cell.ov, model |-> Cell.model]
    /\ Calling => jobBuildID = Cell.build /\ (then = "resolve" <=> Plainly)
    /\ pc = "apply" => ~Plainly

(* A job without overrides: the router has no substituted config, and the  *)
(* build the last switch gave it.                                          *)
PlainCells ==
    Working /\ Plainly =>
        /\ jobConfigs = NoCfg
        /\ IsUp => /\ live.over = NoCfg
                   /\ prevBuildID # NoBuild /\ pc # "poll" => live.build = prevBuildID
                   /\ pc = "poll" => live.build = Cell.build

(* A job with overrides: the router has what was applied last.             *)
OverriddenCells ==
    Working /\ ~Plainly =>
        /\ prevBuildID # NoBuild => jobBuildID = prevBuildID
        /\ InRestart => jobConfigs = rec /\ prevBuildID = Cell.build
        /\ IsUp => /\ lastApplied # NoneApplied /\ pc # "poll" =>
                         live.build = lastApplied.build /\ live.over = lastApplied.cfg
                   /\ pc = "poll" => live.build = Cell.build /\ live.over = rec
        /\ pc = "measure" => lastApplied = Applied(rec)

CellsInv ==
    ~Can("cancel") /\ ~Can("slow") /\ ~Can("edit") /\ ~Can("race") =>
        AtCell /\ PlainCells /\ OverriddenCells

(* Without starts of users, cancels and slow routers: once the router is   *)
(* stopped for an evaluation, only evaluations follow and nobody starts it.*)
Quiet ==
    /\ ~admitted /\ ~canceled
    /\ router = "starting" => pc = "poll"
    /\ pc \in {"resolve", "apply", "measure"} \/ Calling => ~Cell.cap
    /\ EvalsLast(plan) /\ Working =>
          /\ stoppedForEval => /\ cur \in 1 .. Len(plan) /\ Cell.cap
                               /\ pc # "evalStopping" => router = "down"
          /\ pc = "eval" => router = "down"
    /\ pc \in {"evalStop", "evalStopping", "eval"} => Cell.cap

QuietInv == ~Can("start") /\ ~Can("cancel") /\ ~Can("slow") => Quiet

(* Without exits, stops, failures and late starts.  A cache (prevBuildID   *)
(* for a job without overrides, lastApplied for one with them) names a     *)
(* cell already begun, and when the router is not up it names no cell that *)
(* is still to come, so that the next measurement restarts the router: the *)
(* job is Grouped, and never returns to a build or config it has left.     *)
Seen ==
    /\ prevBuildID # NoBuild =>
          \E i \in 1 .. cur : ~plan[i].cap /\ plan[i].build = prevBuildID
    /\ lastApplied # NoneApplied =>
          \E i \in 1 .. cur : /\ ~plan[i].cap
                              /\ plan[i].build = lastApplied.build
                              /\ plan[i].model = lastApplied.cfg.model
                              /\ plan[i].ov = lastApplied.cfg.ov
    /\ lastApplied.cfg.base <= saved /\ rec.base <= saved

Wanted(c) == [build |-> c.build, cfg |-> [base |-> saved, ov |-> c.ov, model |-> c.model]]
Unserved(n) ==
    \A k \in n .. Len(plan) : ~plan[k].cap =>
        IF Plainly THEN prevBuildID # plan[k].build ELSE lastApplied # Wanted(plan[k])
Ready(n) == router = "up" \/ Unserved(n)

AtMeasurement ==
    /\ busy => ~admitted
    /\ pc \in {"resolve", "apply", "measure"} \/ Calling => ~Cell.cap
    /\ pc \in {"evalStop", "evalStopping", "eval"} => Cell.cap
    /\ pc = "apply" => ~Plainly
    /\ Calling => (then = "resolve" <=> Plainly)
    /\ pc = "apply" \/ (InRestart /\ then = "measure") =>
          rec.ov = Cell.ov /\ rec.model = Cell.model

Serving ==
    /\ pc = "next" \/ (pc \in {"fail", "done"} /\ ~Cell.cap) => Ready(cur + 1)
    /\ pc \in {"cell", "resolve"} => Ready(cur)
    /\ pc = "resolve" /\ Plainly => router = "up"
    /\ pc = "measure" => router = "up"
    /\ pc = "apply" \/ Calling => Unserved(cur)

ServingInv ==
    ~Can("exit") /\ ~Can("stop") /\ ~Can("fail") /\ ~Can("race") /\ Grouped(plan) =>
        Seen /\ AtMeasurement /\ Serving

AllInv == IInv /\ OwnedInv /\ CellsInv /\ QuietInv /\ ServingInv

LEMMA InitAll == Init => AllInv
<1> SUFFICES ASSUME Init PROVE AllInv OBVIOUS
<1>1. IInv BY InitIInv
<1>2. Owned BY DEF Init, Owned, Strange, IsUp, Calling, InRestart
<1>3. AtCell /\ PlainCells /\ OverriddenCells
      BY DEF Init, AtCell, PlainCells, OverriddenCells, Working, InCell, Calling, InRestart
<1>4. Quiet
      BY DEF Init, Quiet, Working, InCell, Calling, InRestart
<1>5. Seen /\ AtMeasurement /\ Serving
      BY DEF Init, Seen, AtMeasurement, Serving, Calling, InRestart, NoneApplied, NoCfg
<1> QED BY <1>1, <1>2, <1>3, <1>4, <1>5
        DEF AllInv, OwnedInv, CellsInv, QuietInv, ServingInv

(* The cell a job is at has its type, and its build is not NoBuild.        *)
LEMMA CellFacts ==
    ASSUME IInv, InCell
    PROVE  /\ Cell \in [model : Models, build : Builds, cap : BOOLEAN, ov : Nat]
           /\ Cell.build # NoBuild /\ Cell.model # "none"
           /\ Plainly /\ ~Cell.cap => Cell.ov = NoOv
           /\ ~Plainly /\ ~Cell.cap => Cell.ov # NoOv
<1>1. cur \in 1 .. Len(plan) BY DEF IInv
<1>2. Cell \in [model : Models, build : Builds, cap : BOOLEAN, ov : Nat]
      BY <1>1, CellType DEF IInv
<1>3. Cell.build \in Builds /\ Cell.model \in Models
      BY <1>2
<1>4. Plainly /\ ~Cell.cap => Cell.ov = NoOv
      BY <1>1 DEF Plainly, Cell
<1>5. ASSUME ~Plainly, ~Cell.cap PROVE Cell.ov # NoOv
  <2>1. PICK i \in 1 .. Len(plan) : ~plan[i].cap /\ plan[i].ov # NoOv
        BY <1>5 DEF Plainly
  <2>2. plan \in Plans BY DEF IInv, TypeOK
  <2> QED BY <1>1, <1>5, <2>1, <2>2, UniformAssumption DEF Cell
<1> QED BY <1>2, <1>3, <1>4, <1>5, BuildsAssumption, ModelsAssumption

(* A router a job started stays owned until the restore has stopped it.    *)
LEMMA OwnedStep ==
    ASSUME IInv, OwnedInv, Step, UNCHANGED sc
    PROVE  OwnedInv'
<1> SUFFICES ASSUME ~Can("cancel"), ~Can("slow"), Owned PROVE Owned'
    BY DEF OwnedInv, Can
<1> USE DEF Owned, Strange, IsUp, Calling, InRestart, Can, Goto, CallRestart, IsRunning
<1>t. /\ router \in {"down", "starting", "up"}
      /\ InRestart => then \in {"resolve", "measure", "release"}
      BY DEF IInv, TypeOK
<1>1. CASE \E p \in Plans : Submit(p)
      BY <1>1 DEF Submit, envVars
<1>2. CASE Cancel
      BY <1>2 DEF Cancel
<1>3. CASE NextCell \/ CellEnds \/ CellFails \/ CapCell \/ Measured \/ Evaluated
           \/ Resolve \/ StopRouterForEval
      BY <1>3 DEF NextCell, CellEnds, CellFails, CapCell, Measured, Evaluated, Resolve,
                  StopRouterForEval, envVars, jobVars, runVars
<1>4. CASE PerfCell \/ Apply
      BY <1>4 DEF PerfCell, Apply, envVars, jobVars, runVars
<1>5. CASE EvalStop
      BY <1>5 DEF EvalStop, envVars, jobVars, runVars
<1>6. CASE RestartStop \/ RestartStopped
      BY <1>6, <1>t DEF RestartStop, RestartStopped, RestartFailed, envVars, jobVars, runVars
<1>7. CASE RestartStart
  <2>1. CASE router = "down" /\ Launch(jobBuildID, jobConfigs) /\ pc' = "poll"
    <3>1. then = "release" => jobBuildID = NoBuild /\ jobConfigs = NoCfg
          BY <1>7 DEF RestartStart, IInv, Restoring, Clean
    <3> QED BY <1>7, <2>1, <3>1 DEF RestartStart, Launch, envVars, jobVars, runVars, IInv
  <2>2. CASE RestartFailed /\ UNCHANGED <<router, live>>
        BY <1>7, <2>2 DEF RestartStart, RestartFailed, envVars, jobVars, runVars
  <2> QED BY <1>7, <2>1, <2>2 DEF RestartStart
<1>8. CASE PollUp
  <2>1. /\ pc = "poll" /\ router = "up" /\ pc' = then
        /\ UNCHANGED <<router, live, ownsRouter, busy, canceled, then>>
        BY <1>8 DEF PollUp, envVars, jobVars
  <2> QED BY <1>t, <2>1
<1>13. CASE PollGiveUp
  <2>1. /\ pc = "poll" /\ router = "down" /\ pc' \in {"release", "fail"}
        /\ UNCHANGED <<router, live, ownsRouter, busy, canceled, then>>
        BY <1>13, <1>t DEF PollGiveUp, Polls, RestartFailed, envVars, jobVars
  <2> QED BY <2>1
<1>9. CASE Clear \/ Restore \/ Release
      BY <1>9, <1>t DEF Clear, Restore, Release, envVars, jobVars, runVars
<1>10. CASE ComeUp \/ Exit \/ Admit \/ UserStop
      BY <1>10 DEF ComeUp, Exit, Admit, UserStop, NotTheJob, envVars, jobVars, runVars
<1>11. CASE UserStart \/ UserRestart
      BY <1>11 DEF UserStart, UserRestart, Launch, NotTheJob, envVars, jobVars, runVars
<1>12. CASE EditConfig
      BY <1>12 DEF EditConfig, envVars, jobVars, runVars
<1> QED BY <1>1, <1>2, <1>3, <1>4, <1>5, <1>6, <1>7, <1>8, <1>9, <1>10, <1>11, <1>12,
        <1>13
        DEF Step, JobStep

(* What a measurement finds is what its run records.                       *)
LEMMA CellsStep ==
    ASSUME IInv, OwnedInv, CellsInv, Step, UNCHANGED sc
    PROVE  CellsInv'
<1> SUFFICES ASSUME ~Can("cancel"), ~Can("slow"), ~Can("edit"), ~Can("race"),
                    Owned, AtCell, PlainCells, OverriddenCells
             PROVE  AtCell' /\ PlainCells' /\ OverriddenCells'
    BY DEF CellsInv, OwnedInv, Can
<1> USE DEF IsUp, Calling, InRestart, Goto, CallRestart, IsRunning, Working, InCell
<1>t. /\ router \in {"down", "starting", "up"}
      /\ InRestart => then \in {"resolve", "measure", "release"}
      /\ busy <=> pc # "idle"
      BY DEF IInv, TypeOK
<1>c. InCell => /\ Cell.build # NoBuild /\ Cell.model # "none"
                /\ Plainly /\ ~Cell.cap => Cell.ov = NoOv
                /\ ~Plainly /\ ~Cell.cap => Cell.ov # NoOv
      BY CellFacts
<1>u. UNCHANGED <<plan, cur>> => Cell' = Cell /\ Plainly' = Plainly
      BY DEF Cell, Plainly
<1>1. CASE \E p \in Plans : Submit(p)
  <2> PICK p \in Plans : Submit(p) BY <1>1
  <2>1. /\ ~busy /\ ~admitted /\ pc' = "next"
        /\ prevBuildID' = NoBuild /\ lastApplied' = NoneApplied
        /\ UNCHANGED <<router, live, saved, jobBuildID, jobConfigs, admitted>>
        BY DEF Submit, envVars, Can
  <2>2. jobConfigs = NoCfg /\ (IsUp => live.over = NoCfg)
        BY <2>1 DEF IInv, Clean, Owned, Strange
  <2> QED BY <2>1, <2>2 DEF AtCell, PlainCells, OverriddenCells
<1>2. CASE Cancel BY <1>2 DEF Cancel, Can
<1>3. CASE NextCell
  <2>1. /\ pc = "next" /\ pc' \in {"clear", "cell"} /\ plan' = plan
        /\ UNCHANGED <<router, live, saved, jobBuildID, jobConfigs, busy, prevBuildID,
                       lastApplied, rec, admitted, then>>
        BY <1>3 DEF NextCell, envVars, runVars
  <2>2. Plainly' = Plainly BY <2>1 DEF Plainly
  <2> QED BY <2>1, <2>2 DEF AtCell, PlainCells, OverriddenCells
<1>4. CASE CellEnds
  <2>1. /\ pc \in {"fail", "done"} /\ pc' = "next"
        /\ UNCHANGED <<router, live, saved, jobBuildID, jobConfigs, busy, plan, cur,
                       rec, admitted, then>>
        /\ prevBuildID' \in {NoBuild, prevBuildID}
        /\ lastApplied' \in {NoneApplied, lastApplied}
        BY <1>4 DEF CellEnds, envVars, jobVars
  <2> QED BY <2>1, <1>u DEF AtCell, PlainCells, OverriddenCells
<1>5. CASE CellFails \/ CapCell \/ Measured \/ Evaluated \/ StopRouterForEval
  <2>1. /\ pc \notin {"idle", "restore", "release"} /\ ~InRestart /\ InCell
        /\ pc' \in {"fail", "evalStop", "done", "eval", "evalStopping"}
        /\ UNCHANGED <<router, live, saved, jobBuildID, jobConfigs, busy, plan, cur,
                       prevBuildID, lastApplied, rec, admitted, then>>
        BY <1>5 DEF CellFails, CapCell, Measured, Evaluated, StopRouterForEval,
                    envVars, jobVars, runVars
  <2> QED BY <2>1, <1>u DEF AtCell, PlainCells, OverriddenCells
<1>6. CASE EvalStop
  <2>1. /\ pc = "evalStopping" /\ pc' \in {"fail", "eval"} /\ router' = "down"
        /\ UNCHANGED <<live, saved, jobBuildID, jobConfigs, busy, plan, cur,
                       prevBuildID, lastApplied, rec, admitted, then>>
        BY <1>6 DEF EvalStop, envVars, jobVars, runVars
  <2> QED BY <2>1, <1>u DEF AtCell, PlainCells, OverriddenCells
<1>7. CASE PerfCell
  <2>1. /\ pc = "cell" /\ ~Cell.cap
        /\ UNCHANGED <<router, live, saved, jobConfigs, busy, plan, cur,
                       lastApplied, rec, admitted>>
        BY <1>7 DEF PerfCell, envVars, jobVars
  <2>2. CASE Cell.build = prevBuildID
    <3>1. /\ pc' = "resolve" /\ UNCHANGED <<jobBuildID, prevBuildID, then>>
          BY <1>7, <2>2 DEF PerfCell, envVars
    <3> QED BY <2>1, <2>2, <3>1, <1>u DEF AtCell, PlainCells, OverriddenCells
  <2>3. CASE Cell.build # prevBuildID /\ (AlreadyActive \/ Cell.ov # NoOv)
    <3>1. /\ pc' = "resolve" /\ jobBuildID' = Cell.build /\ prevBuildID' = Cell.build
          /\ then' = then
          BY <1>7, <2>3 DEF PerfCell
    <3>2. Plainly => live.build = Cell.build
          BY <1>c, <2>1, <2>3 DEF AlreadyActive
    <3> QED BY <2>1, <3>1, <3>2, <1>u DEF AtCell, PlainCells, OverriddenCells
  <2>4. CASE Cell.build # prevBuildID /\ ~(AlreadyActive \/ Cell.ov # NoOv)
    <3>1. /\ pc' = "stop" /\ then' = "resolve" /\ jobBuildID' = Cell.build
          /\ prevBuildID' = prevBuildID
          BY <1>7, <2>4 DEF PerfCell
    <3>2. Plainly BY <1>c, <2>1, <2>4
    <3> QED BY <2>1, <3>1, <3>2, <1>u DEF AtCell, PlainCells, OverriddenCells
  <2> QED BY <2>2, <2>3, <2>4
<1>8. CASE Resolve
  <2>1. /\ pc = "resolve" /\ UNCHANGED <<router, live, saved, jobBuildID, jobConfigs,
               busy, plan, cur, prevBuildID, lastApplied, admitted, then>>
        /\ rec' = [base |-> 0, ov |-> Cell.ov, model |-> Cell.model]
        /\ pc' = IF Cell.ov # NoOv /\ lastApplied # Applied(rec') THEN "apply" ELSE "measure"
        BY <1>8 DEF Resolve, envVars, jobVars, AtCell
  <2>2. ~Cell.cap BY <2>1 DEF AtCell
  <2>3. Applied(rec)' = Applied(rec') BY <2>1, <1>u DEF Applied
  <2> QED BY <2>1, <2>2, <2>3, <1>c, <1>u DEF AtCell, PlainCells, OverriddenCells
<1>9. CASE Apply
  <2>1. /\ pc = "apply" /\ pc' = "stop" /\ then' = "measure" /\ jobConfigs' = rec
        /\ UNCHANGED <<router, live, saved, jobBuildID, busy, plan, cur, prevBuildID,
                       lastApplied, rec, admitted>>
        BY <1>9 DEF Apply, jobVars, runVars
  <2> QED BY <2>1, <1>c, <1>u DEF AtCell, PlainCells, OverriddenCells
<1>10. CASE RestartStop \/ RestartStopped
  <2>1. /\ pc \in {"stop", "stopping"} /\ pc' \in {"stopping", "start", "release", "fail"}
        /\ router' \in {router, "down"} /\ then' = then
        /\ pc' = "release" => then = "release"
        /\ then = "release" => pc' # "fail"
        /\ UNCHANGED <<live, saved, jobBuildID, jobConfigs, busy, plan, cur,
                       prevBuildID, lastApplied, rec, admitted>>
        BY <1>10 DEF RestartStop, RestartStopped, RestartFailed, envVars, jobVars, runVars
  <2> QED BY <2>1, <1>t, <1>u DEF AtCell, PlainCells, OverriddenCells
<1>11. CASE RestartStart
  <2>1. /\ pc = "start" /\ then' = then
        /\ UNCHANGED <<saved, jobBuildID, jobConfigs, busy, plan, cur,
                       prevBuildID, lastApplied, rec, admitted>>
        BY <1>11 DEF RestartStart, envVars, jobVars, runVars
  <2>2. CASE router = "down" /\ Launch(jobBuildID, jobConfigs) /\ pc' = "poll"
    <3>1. /\ live'.base = 0 /\ live'.over = jobConfigs
          /\ jobBuildID # NoBuild => live'.build = jobBuildID
          BY <2>2 DEF Launch, AtCell
    <3> QED BY <2>1, <2>2, <3>1, <1>t, <1>c, <1>u DEF AtCell, PlainCells, OverriddenCells
  <2>3. CASE RestartFailed /\ UNCHANGED <<router, live>>
    <3>1. /\ pc' \in {"release", "fail"}
          /\ pc' = "release" <=> then = "release"
          BY <2>3 DEF RestartFailed
    <3> QED BY <2>1, <2>3, <3>1, <1>t, <1>u DEF AtCell, PlainCells, OverriddenCells
  <2> QED BY <1>11, <2>2, <2>3 DEF RestartStart
<1>12. CASE PollUp
  <2>1. /\ pc = "poll" /\ pc' = then /\ router = "up"
        /\ UNCHANGED <<router, live, saved, jobBuildID, jobConfigs, busy, plan, cur,
                       rec, admitted, then>>
        /\ lastApplied' = IF then = "measure" THEN Applied(rec) ELSE lastApplied
        /\ prevBuildID' = IF then = "resolve" THEN Cell.build ELSE prevBuildID
        BY <1>12 DEF PollUp, envVars, jobVars
  <2>2. CASE then = "release"
        BY <2>1, <2>2, <1>u DEF AtCell, PlainCells, OverriddenCells
  <2>3. CASE then # "release" /\ Plainly
    <3>1. then = "resolve" BY <2>1, <2>3 DEF AtCell
    <3> QED BY <2>1, <2>3, <3>1, <1>u DEF AtCell, PlainCells, OverriddenCells
  <2>4. CASE then # "release" /\ ~Plainly
    <3>1. then = "measure" BY <1>t, <2>1, <2>4 DEF AtCell
    <3>2. /\ live.build = Cell.build /\ live.over = rec
          /\ prevBuildID = Cell.build /\ jobBuildID = Cell.build
          BY <2>1, <2>4 DEF AtCell, OverriddenCells
    <3>3. Applied(rec).build = Cell.build /\ Applied(rec).cfg = rec
          BY DEF Applied
    <3>4. lastApplied' = Applied(rec) /\ Applied(rec)' = Applied(rec)
          BY <2>1, <3>1, <1>u DEF Applied
    <3>5. AtCell' BY <2>1, <2>4, <3>1, <3>2, <1>u DEF AtCell
    <3>6. PlainCells' BY <2>1, <2>4, <1>u DEF PlainCells
    <3>7. OverriddenCells'
          BY <2>1, <2>4, <3>1, <3>2, <3>3, <3>4, <1>u DEF OverriddenCells
    <3> QED BY <3>5, <3>6, <3>7
  <2> QED BY <2>2, <2>3, <2>4
<1>13. CASE PollGiveUp
  <2>1. /\ pc = "poll" /\ router = "down"
        /\ pc' \in {"release", "fail"} /\ (pc' = "release" <=> then = "release")
        /\ UNCHANGED <<router, live, saved, jobBuildID, jobConfigs, busy, plan, cur,
                       prevBuildID, lastApplied, rec, admitted, then>>
        BY <1>13 DEF PollGiveUp, Polls, RestartFailed, envVars, jobVars, runVars, Owned, Can
  <2> QED BY <2>1, <1>u DEF AtCell, PlainCells, OverriddenCells
<1>14. CASE Clear \/ Restore \/ Release
  <2>1. /\ pc \in {"clear", "restore", "release"}
        /\ pc' \in {"stop", "restore", "release", "idle"}
        /\ pc' = "stop" => then' = "release"
        /\ busy' => busy
        /\ UNCHANGED <<router, live, saved, plan, cur, prevBuildID, lastApplied, rec,
                       admitted>>
        BY <1>14 DEF Clear, Restore, Release, envVars, jobVars, runVars
  <2> QED BY <2>1, <1>u DEF AtCell, PlainCells, OverriddenCells
<1>15. CASE ComeUp \/ Exit \/ UserStop
  <2>1. /\ router # "down" /\ NotTheJob /\ UNCHANGED <<live, admitted>>
        BY <1>15 DEF ComeUp, Exit, UserStop
  <2>2. UNCHANGED <<pc, then, saved, jobBuildID, jobConfigs, busy, plan, cur, prevBuildID,
                    lastApplied, rec>>
        BY <2>1 DEF NotTheJob, envVars, jobVars, runVars
  <2>3. Applied(rec)' = Applied(rec) BY <2>2, <1>u DEF Applied
  <2> QED BY <2>1, <2>2, <2>3, <1>u DEF AtCell, PlainCells, OverriddenCells
<1>16. CASE Admit \/ UserStart \/ UserRestart
  <2>1. ~busy /\ ~busy' /\ pc = "idle" /\ pc' = "idle"
        /\ UNCHANGED <<saved>>
        BY <1>16, <1>t DEF Admit, UserStart, UserRestart, NotTheJob, routerBusyWithJob,
                           jobVars, AtCell
  <2>2. live'.base = 0
        BY <1>16 DEF Admit, UserStart, UserRestart, Launch, AtCell
  <2> QED BY <2>1, <2>2 DEF AtCell, PlainCells, OverriddenCells
<1>17. CASE EditConfig BY <1>17 DEF EditConfig, Can
<1> QED BY <1>1, <1>2, <1>3, <1>4, <1>5, <1>6, <1>7, <1>8, <1>9, <1>10, <1>11, <1>12,
           <1>13, <1>14, <1>15, <1>16, <1>17 DEF Step, JobStep

(* Once stopped for an evaluation, the router stays down.                  *)
LEMMA QuietStep ==
    ASSUME IInv, QuietInv, Step, UNCHANGED sc
    PROVE  QuietInv'
<1> SUFFICES ASSUME ~Can("start"), ~Can("cancel"), ~Can("slow"), Quiet PROVE Quiet'
    BY DEF QuietInv, Can
<1> USE DEF Calling, InRestart, Goto, CallRestart, IsRunning, Working, InCell
<1>t. /\ router \in {"down", "starting", "up"}
      /\ InRestart => then \in {"resolve", "measure", "release"}
      BY DEF IInv, TypeOK
<1>u. UNCHANGED <<plan, cur>> => Cell' = Cell /\ EvalsLast(plan)' = EvalsLast(plan)
      BY DEF Cell, EvalsLast
<1>1. CASE \E p \in Plans : Submit(p)
  <2>1. /\ pc' = "next" /\ ~canceled' /\ ~stoppedForEval'
        /\ UNCHANGED <<router, admitted>> /\ pc = "idle"
        BY <1>1 DEF Submit, envVars, IInv, Clean
  <2> QED BY <2>1 DEF Quiet
<1>2. CASE Cancel BY <1>2 DEF Cancel, Can
<1>3. CASE NextCell
  <2>1. /\ pc = "next" /\ plan' = plan
        /\ \/ pc' = "clear" /\ cur' = cur
           \/ pc' = "cell" /\ cur' = cur + 1 /\ cur # Len(plan)
        /\ UNCHANGED <<router, canceled, admitted, stoppedForEval, then>>
        BY <1>3 DEF NextCell, envVars, jobVars
  <2>2. EvalsLast(plan)' = EvalsLast(plan) BY <2>1 DEF EvalsLast
  <2>3. CASE pc' = "clear"
        BY <2>1, <2>2, <2>3, <1>u DEF Quiet
  <2>4. CASE pc' = "cell" /\ cur' = cur + 1 /\ cur # Len(plan)
    <3>1. ASSUME EvalsLast(plan), stoppedForEval
          PROVE  Cell'.cap /\ cur' \in 1 .. Len(plan)
      <4>1. cur \in 1 .. Len(plan) /\ Cell.cap BY <2>1, <3>1 DEF Quiet
      <4>2. cur' \in 1 .. Len(plan)
        <5>1. plan \in Plans BY DEF IInv, TypeOK
        <5> QED BY <2>4, <4>1, <5>1, PlanLen
      <4> QED BY <2>1, <2>4, <3>1, <4>1, <4>2 DEF EvalsLast, Cell
    <3> QED BY <2>1, <2>2, <2>4, <3>1 DEF Quiet
  <2> QED BY <2>1, <2>3, <2>4
<1>4. CASE CellEnds \/ CellFails \/ Measured \/ Evaluated
  <2>1. /\ pc \in {"cell", "resolve", "apply", "measure", "evalStop", "eval", "fail", "done"}
        /\ pc' \in {"next", "fail", "done"} /\ then' = then
        /\ UNCHANGED <<router, canceled, admitted, stoppedForEval, plan, cur>>
        BY <1>4 DEF CellEnds, CellFails, Measured, Evaluated, envVars, jobVars
  <2> QED BY <2>1, <1>u DEF Quiet
<1>5. CASE CapCell
  <2>1. /\ pc = "cell" /\ Cell.cap /\ pc' = "evalStop" /\ then' = then
        /\ UNCHANGED <<router, canceled, admitted, stoppedForEval, plan, cur>>
        BY <1>5 DEF CapCell, envVars, jobVars
  <2> QED BY <2>1, <1>u DEF Quiet
<1>6. CASE StopRouterForEval
  <2>1. /\ pc = "evalStop" /\ Cell.cap /\ cur \in 1 .. Len(plan)
        /\ UNCHANGED <<router, canceled, admitted, plan, cur, then>>
        /\ \/ ~stoppedForEval /\ router = "up" /\ pc' = "evalStopping"
           \/ ~(~stoppedForEval /\ router = "up") /\ pc' = "eval"
              /\ stoppedForEval' = stoppedForEval
        BY <1>6 DEF StopRouterForEval, jobVars, Quiet, IInv
  <2> QED BY <2>1, <1>t, <1>u DEF Quiet
<1>7. CASE EvalStop
  <2>1. /\ pc = "evalStopping" /\ router' = "down" /\ pc' \in {"eval", "fail"}
        /\ UNCHANGED <<canceled, admitted, stoppedForEval, plan, cur, then>>
        BY <1>7 DEF EvalStop, envVars, jobVars
  <2>2. Cell.cap /\ cur \in 1 .. Len(plan) BY <2>1 DEF Quiet, IInv
  <2> QED BY <2>1, <2>2, <1>u DEF Quiet
<1>8. CASE PerfCell \/ Resolve \/ Apply
  <2>1. ~Cell.cap
        BY <1>8 DEF PerfCell, Resolve, Apply, Quiet
  <2>2. /\ pc \in {"cell", "resolve", "apply"} /\ pc' \in {"resolve", "apply", "measure", "stop"}
        /\ UNCHANGED <<router, canceled, admitted, stoppedForEval, plan, cur>>
        BY <1>8 DEF PerfCell, Resolve, Apply, envVars, jobVars
  <2> QED BY <2>1, <2>2, <1>u DEF Quiet
<1>9. CASE RestartStop \/ RestartStopped
  <2>1. /\ pc \in {"stop", "stopping"} /\ pc' \in {"stopping", "start", "release", "fail"}
        /\ router' \in {router, "down"} /\ then' = then
        /\ pc' = "release" => then = "release"
        /\ then = "release" => pc' # "fail"
        /\ UNCHANGED <<canceled, admitted, stoppedForEval, plan, cur>>
        BY <1>9 DEF RestartStop, RestartStopped, RestartFailed, envVars, jobVars
  <2> QED BY <2>1, <1>t, <1>u DEF Quiet
<1>10. CASE RestartStart
  <2>1. /\ pc = "start" /\ then' = then
        /\ \/ router' = "starting" /\ pc' = "poll"
           \/ router' = router /\ pc' \in {"release", "fail"}
              /\ (pc' = "release" <=> then = "release")
        /\ UNCHANGED <<canceled, admitted, stoppedForEval, plan, cur>>
        BY <1>10 DEF RestartStart, RestartFailed, Launch, envVars, jobVars
  <2>2. EvalsLast(plan) /\ Calling => ~stoppedForEval
        BY <2>1 DEF Quiet
  <2> QED BY <2>1, <2>2, <1>t, <1>u DEF Quiet
<1>11. CASE PollUp \/ PollGiveUp
  <2>1. /\ pc = "poll" /\ router # "starting" /\ router' = router /\ then' = then
        /\ pc' \in {then, "release", "fail"}
        /\ pc' = "release" <=> then = "release"
        /\ UNCHANGED <<canceled, admitted, stoppedForEval, plan, cur>>
        BY <1>11, <1>t DEF PollUp, PollGiveUp, Polls, RestartFailed, envVars, jobVars,
                           Quiet, Can
  <2> QED BY <2>1, <1>t, <1>u DEF Quiet
<1>12. CASE Clear \/ Restore \/ Release
  <2>1. /\ pc \in {"clear", "restore", "release"}
        /\ pc' \in {"stop", "restore", "release", "idle"}
        /\ pc' = "stop" => then' = "release"
        /\ UNCHANGED <<router, canceled, admitted, plan, cur>>
        BY <1>12 DEF Clear, Restore, Release, envVars, jobVars
  <2> QED BY <2>1, <1>u DEF Quiet
<1>13. CASE ComeUp \/ Exit \/ UserStop
  <2>1. /\ router # "down" /\ NotTheJob /\ UNCHANGED admitted
        /\ \/ router' = "down"
           \/ router = "starting" /\ router' = "up"
        BY <1>13 DEF ComeUp, Exit, UserStop
  <2>2. UNCHANGED <<pc, then, canceled, stoppedForEval, plan, cur>>
        BY <2>1 DEF NotTheJob, envVars, jobVars
  <2> QED BY <2>1, <2>2, <1>u DEF Quiet
<1>14. CASE Admit \/ UserStart \/ UserRestart
      BY <1>14 DEF Admit, UserStart, UserRestart, Quiet, Can
<1>15. CASE EditConfig
  <2>1. UNCHANGED <<router, pc, then, canceled, stoppedForEval, plan, cur, admitted>>
        BY <1>15 DEF EditConfig, envVars, jobVars
  <2> QED BY <2>1, <1>u DEF Quiet
<1> QED BY <1>1, <1>2, <1>3, <1>4, <1>5, <1>6, <1>7, <1>8, <1>9, <1>10, <1>11, <1>12,
           <1>13, <1>14, <1>15 DEF Step, JobStep

(* A cell that does not come further on is of no use to later ones.        *)
LEMMA UnservedNext ==
    ASSUME IInv, NEW n \in Nat, Unserved(n)
    PROVE  Unserved(n + 1)
<1>1. Len(plan) \in Nat BY PlanLen DEF IInv, TypeOK
<1> QED BY <1>1 DEF Unserved

LEMMA PlanCells ==
    ASSUME IInv
    PROVE  /\ Len(plan) \in Nat /\ cur \in Nat
           /\ \A k \in 1 .. Len(plan) :
                 plan[k] \in [model : Models, build : Builds, cap : BOOLEAN, ov : Nat]
<1>1. plan \in Seq([model : Models, build : Builds, cap : BOOLEAN, ov : Nat])
      BY PlansAssumption DEF IInv, TypeOK
<1>2. Len(plan) \in Nat BY <1>1, LenProperties
<1>3. cur \in Nat BY <1>2 DEF IInv, TypeOK
<1> QED BY <1>1, <1>2, <1>3, ElementOfSeq

(* When the cache does not name the cell the job is at, it names no later  *)
(* one: that would return to the build or config of an earlier cell.       *)
LEMMA NeverBack ==
    ASSUME IInv, Seen, Grouped(plan), cur \in 1 .. Len(plan), ~Cell.cap,
           IF Plainly THEN prevBuildID # Cell.build ELSE lastApplied # Wanted(Cell)
    PROVE  Unserved(cur)
<1>t. /\ Len(plan) \in Nat /\ cur \in Nat
      /\ \A k \in 1 .. Len(plan) :
            plan[k] \in [model : Models, build : Builds, cap : BOOLEAN, ov : Nat]
      BY PlanCells
<1>1. SUFFICES ASSUME NEW k \in cur .. Len(plan), ~plan[k].cap,
                      ~(IF Plainly THEN prevBuildID # plan[k].build
                                   ELSE lastApplied # Wanted(plan[k]))
               PROVE  FALSE
      BY DEF Unserved
<1>2. k \in 1 .. Len(plan) /\ cur < k
  <2>1. k # cur BY <1>1 DEF Cell
  <2> QED BY <1>t, <2>1
<1>3. CASE Plainly
  <2>1. prevBuildID = plan[k].build BY <1>1, <1>3
  <2>2. prevBuildID # NoBuild BY <1>t, <1>2, <2>1, BuildsAssumption
  <2>3. PICK i \in 1 .. cur : ~plan[i].cap /\ plan[i].build = prevBuildID
        BY <2>2 DEF Seen
  <2>4. i < cur /\ i \in 1 .. Len(plan)
    <3>1. i # cur BY <1>3, <2>3 DEF Cell
    <3> QED BY <1>t, <3>1
  <2>5. SameBuild(plan[i], plan[cur])
        BY <1>1, <1>2, <2>1, <2>3, <2>4 DEF Grouped, SameBuild, Cell
  <2> QED BY <1>3, <2>3, <2>5 DEF SameBuild, Cell
<1>4. CASE ~Plainly
  <2>1. lastApplied = Wanted(plan[k]) BY <1>1, <1>4
  <2>2. lastApplied # NoneApplied
        BY <1>t, <1>2, <2>1, BuildsAssumption DEF Wanted, NoneApplied
  <2>3. PICK i \in 1 .. cur : /\ ~plan[i].cap
                              /\ plan[i].build = lastApplied.build
                              /\ plan[i].model = lastApplied.cfg.model
                              /\ plan[i].ov = lastApplied.cfg.ov
        BY <2>2 DEF Seen
  <2>4. SameConfig(plan[i], plan[k])
        BY <2>1, <2>3 DEF Wanted, SameConfig, SameBuild
  <2>5. Wanted(plan[i]) = Wanted(plan[k])
        BY <2>4 DEF SameConfig, SameBuild, Wanted
  <2>6. i < cur /\ i \in 1 .. Len(plan)
    <3>1. i # cur BY <1>4, <2>1, <2>5 DEF Cell
    <3> QED BY <1>t, <3>1
  <2>7. SameConfig(plan[i], plan[cur])
        BY <1>1, <1>2, <2>3, <2>4, <2>6 DEF Grouped, Cell
  <2>8. Wanted(plan[i]) = Wanted(Cell)
        BY <2>7 DEF SameConfig, SameBuild, Wanted, Cell
  <2> QED BY <1>4, <2>1, <2>5, <2>8
<1> QED BY <1>3, <1>4

(* Without exits, stops, failures and late starts a measurement that finds *)
(* no router restarts it.                                                  *)
LEMMA ServingStep ==
    ASSUME IInv, ServingInv, Step, UNCHANGED sc
    PROVE  ServingInv'
<1> SUFFICES ASSUME ~Can("exit"), ~Can("stop"), ~Can("fail"), ~Can("race"),
                    Grouped(plan)', IInv, Step
             PROVE  (Seen /\ AtMeasurement /\ Serving)'
    BY DEF ServingInv, Can
<1> USE DEF Calling, InRestart, Goto, CallRestart, IsRunning
<1>t. /\ router \in {"down", "starting", "up"}
      /\ InRestart => then \in {"resolve", "measure", "release"}
      /\ busy <=> pc # "idle"
      /\ Len(plan) \in Nat /\ cur \in Nat /\ saved \in Nat
      BY PlanCells, EditsAssumption DEF IInv, TypeOK
<1>g. ASSUME UNCHANGED plan
      PROVE  Grouped(plan) /\ Seen /\ AtMeasurement /\ Serving /\ Plainly' = Plainly
      BY <1>g DEF ServingInv, Grouped, Plainly, Can
<1>u. UNCHANGED <<plan, cur>> => Cell' = Cell
      BY DEF Cell
<1>s. ASSUME UNCHANGED <<plan, cur, prevBuildID, lastApplied, saved, rec>>
      PROVE  Seen' /\ \A n \in Nat : Unserved(n)' = Unserved(n)
  <2>1. Seen /\ Plainly' = Plainly BY <1>s, <1>g
  <2> QED BY <1>s, <2>1 DEF Seen, Unserved, Wanted
<1>n. Unserved(cur) => Unserved(cur + 1)
      BY <1>t, UnservedNext
<1>1. CASE \E p \in Plans : Submit(p)
  <2>1. /\ pc' = "next" /\ cur' = 0 /\ ~admitted' /\ saved' = saved
        /\ prevBuildID' = NoBuild /\ lastApplied' = NoneApplied /\ rec' = NoCfg
        BY <1>1 DEF Submit, Can
  <2>2. IInv' BY <1>1, LoopStep
  <2>3. \A k \in 1 .. Len(plan') : plan'[k].build # NoBuild
    <3>1. plan' \in Plans BY <2>2 DEF IInv, TypeOK
    <3>2. plan' \in Seq([model : Models, build : Builds, cap : BOOLEAN, ov : Nat])
          BY <3>1, PlansAssumption
    <3>3. \A k \in 1 .. Len(plan') :
             plan'[k] \in [model : Models, build : Builds, cap : BOOLEAN, ov : Nat]
          BY <3>2, ElementOfSeq
    <3> QED BY <3>3, BuildsAssumption
  <2>4. Unserved(1)'
        BY <2>1, <2>3 DEF Unserved, Wanted, NoneApplied
  <2>5. Seen' BY <1>t, <2>1 DEF Seen, NoneApplied, NoCfg
  <2> QED BY <2>1, <2>4, <2>5 DEF AtMeasurement, Serving, Ready
<1>2. CASE Cancel
  <2>1. UNCHANGED <<router, busy, admitted, pc, then, plan, cur, prevBuildID, lastApplied,
                    saved, rec>>
        BY <1>2 DEF Cancel, runVars
  <2> QED BY <2>1, <1>g, <1>s, <1>u, <1>t DEF AtMeasurement, Serving, Ready
<1>3. CASE NextCell
  <2>1. /\ pc = "next" /\ plan' = plan
        /\ \/ pc' = "clear" /\ cur' = cur
           \/ pc' = "cell" /\ cur' = cur + 1
        /\ UNCHANGED <<router, busy, admitted, saved, prevBuildID, lastApplied, rec>>
        BY <1>3 DEF NextCell, jobVars, runVars
  <2>2. Seen' BY <2>1, <1>g, <1>t DEF Seen
  <2>3. \A n \in Nat : Unserved(n)' = Unserved(n)
        BY <2>1, <1>g DEF Unserved, Wanted
  <2>4. pc' = "cell" => Ready(cur)'
        BY <2>1, <2>3, <1>t, <1>g DEF Serving, Ready
  <2> QED BY <2>1, <2>2, <2>4, <1>g DEF AtMeasurement, Serving
<1>4. CASE CellEnds
  <2>1. /\ pc \in {"fail", "done"} /\ pc' = "next" /\ then' = then
        /\ UNCHANGED <<router, busy, admitted, saved, plan, cur, rec>>
        BY <1>4 DEF CellEnds, jobVars
  <2>2. CASE Cell.cap
    <3>1. prevBuildID' = NoBuild /\ lastApplied' = NoneApplied
          BY <1>4, <2>2 DEF CellEnds
    <3>2. Unserved(cur + 1)'
          BY <2>1, <3>1, <1>t, PlanCells, BuildsAssumption DEF Unserved, Wanted, NoneApplied
    <3>3. Seen' BY <2>1, <3>1, <1>g, <1>t DEF Seen, NoneApplied, NoCfg
    <3> QED BY <2>1, <3>2, <3>3, <1>g, <1>t DEF AtMeasurement, Serving, Ready
  <2>3. CASE ~Cell.cap
    <3>1. UNCHANGED <<prevBuildID, lastApplied>>
          BY <1>4, <2>3 DEF CellEnds
    <3>2. Ready(cur + 1)' = Ready(cur + 1) /\ Seen'
          BY <2>1, <3>1, <1>s, <1>t DEF Ready
    <3> QED BY <2>1, <2>3, <3>2, <1>g, <1>t DEF AtMeasurement, Serving
  <2> QED BY <2>2, <2>3
<1>5. CASE CellFails BY <1>5 DEF CellFails, Can
<1>6. CASE PerfCell
  <2>1. /\ pc = "cell" /\ ~Cell.cap
        /\ UNCHANGED <<router, busy, admitted, saved, plan, cur, lastApplied, rec>>
        BY <1>6 DEF PerfCell, jobVars
  <2>2. cur \in 1 .. Len(plan) /\ Cell.build # NoBuild
        /\ (Plainly => Cell.ov = NoOv) /\ (~Plainly => Cell.ov # NoOv)
        BY <2>1, CellFacts DEF IInv, InCell
  <2>3. CASE Cell.build = prevBuildID
    <3>1. pc' = "resolve" /\ prevBuildID' = prevBuildID
          BY <1>6, <2>3 DEF PerfCell
    <3>2. Seen' /\ Unserved(cur)' = Unserved(cur)
          BY <2>1, <3>1, <1>s, <1>t
    <3>3. Plainly => router = "up"
          BY <2>1, <2>2, <2>3, <1>g, <1>t DEF Serving, Ready, Unserved, Cell
    <3> QED BY <2>1, <3>1, <3>2, <3>3, <1>g, <1>u, <1>t DEF AtMeasurement, Serving, Ready
  <2>4. CASE Cell.build # prevBuildID /\ Cell.ov # NoOv
    <3>1. pc' = "resolve" /\ prevBuildID' = Cell.build
          BY <1>6, <2>4 DEF PerfCell
    <3>2. ~Plainly BY <2>2, <2>4
    <3>3. Seen' BY <2>1, <2>2, <3>1, <1>g, <1>t DEF Seen, Cell
    <3>4. Unserved(cur)' = Unserved(cur)
          BY <2>1, <3>2, <1>g DEF Unserved, Wanted
    <3> QED BY <2>1, <3>1, <3>2, <3>3, <3>4, <1>g, <1>u, <1>t
            DEF AtMeasurement, Serving, Ready
  <2>5. CASE Cell.build # prevBuildID /\ Cell.ov = NoOv
    <3>1. Plainly BY <2>2, <2>5
    <3>2. CASE AlreadyActive
      <4>1. pc' = "resolve" /\ prevBuildID' = Cell.build /\ router = "up"
            BY <1>6, <2>5, <3>2 DEF PerfCell, AlreadyActive
      <4>2. Seen' BY <2>1, <2>2, <4>1, <1>g, <1>t DEF Seen, Cell
      <4> QED BY <2>1, <4>1, <4>2, <1>g, <1>u, <1>t DEF AtMeasurement, Serving, Ready
    <3>3. CASE ~AlreadyActive
      <4>1. pc' = "stop" /\ then' = "resolve" /\ prevBuildID' = prevBuildID
            BY <1>6, <2>5, <3>3 DEF PerfCell
      <4>2. Unserved(cur)
            BY <2>1, <2>2, <2>5, <3>1, <1>g, NeverBack
      <4>3. Seen' /\ Unserved(cur)' = Unserved(cur)
            BY <2>1, <4>1, <1>s, <1>t
      <4> QED BY <2>1, <3>1, <4>1, <4>2, <4>3, <1>g, <1>u, <1>t DEF AtMeasurement, Serving
    <3> QED BY <3>2, <3>3
  <2> QED BY <2>3, <2>4, <2>5
<1>7. CASE Resolve
  <2>1. /\ pc = "resolve" /\ then' = then
        /\ UNCHANGED <<router, busy, admitted, saved, plan, cur, prevBuildID, lastApplied>>
        /\ rec' = [base |-> saved, ov |-> Cell.ov, model |-> Cell.model]
        BY <1>7 DEF Resolve, jobVars
  <2>2. cur \in 1 .. Len(plan) /\ ~Cell.cap
        /\ (Plainly => Cell.ov = NoOv) /\ (~Plainly => Cell.ov # NoOv)
        BY <2>1, <1>g, CellFacts DEF IInv, InCell, AtMeasurement
  <2>3. Wanted(Cell) = Applied(rec')
        BY <2>1 DEF Wanted, Applied
  <2>4. Seen'
    <3>1. rec'.base <= saved' BY <2>1, <1>t
    <3> QED BY <2>1, <3>1, <1>g DEF Seen
  <2>5. Unserved(cur)' = Unserved(cur)
        BY <2>1, <1>g DEF Unserved, Wanted
  <2>6. CASE Cell.ov # NoOv /\ lastApplied # Applied(rec')
    <3>1. pc' = "apply" /\ ~Plainly BY <1>7, <2>2, <2>6 DEF Resolve
    <3>2. Unserved(cur) BY <2>2, <2>3, <2>6, <3>1, <1>g, <2>1, NeverBack
    <3> QED BY <2>1, <2>2, <2>4, <2>5, <3>1, <3>2, <1>g, <1>u, <1>t
            DEF AtMeasurement, Serving
  <2>7. CASE ~(Cell.ov # NoOv /\ lastApplied # Applied(rec'))
    <3>1. pc' = "measure" BY <1>7, <2>7 DEF Resolve
    <3>2. router = "up"
      <4>1. CASE Plainly BY <2>1, <4>1, <1>g DEF Serving
      <4>2. CASE ~Plainly
        <5>1. lastApplied = Wanted(plan[cur]) BY <2>2, <2>3, <2>7, <4>2 DEF Cell
        <5>2. ~Unserved(cur) BY <2>2, <4>2, <5>1, <1>t DEF Unserved, Cell
        <5> QED BY <2>1, <5>2, <1>g DEF Serving, Ready
      <4> QED BY <4>1, <4>2
    <3> QED BY <2>1, <2>2, <2>4, <3>1, <3>2, <1>g, <1>u, <1>t DEF AtMeasurement, Serving
  <2> QED BY <2>6, <2>7
<1>8. CASE Apply
  <2>1. /\ pc = "apply" /\ pc' = "stop" /\ then' = "measure"
        /\ UNCHANGED <<router, busy, admitted, saved, plan, cur, prevBuildID, lastApplied,
                       rec>>
        BY <1>8 DEF Apply, jobVars, runVars
  <2> QED BY <2>1, <1>g, <1>s, <1>u, <1>t DEF AtMeasurement, Serving
<1>9. CASE Measured \/ Evaluated
  <2>1. /\ pc \in {"measure", "eval"} /\ pc' = "done" /\ then' = then
        /\ UNCHANGED <<router, busy, admitted, saved, plan, cur, prevBuildID, lastApplied,
                       rec>>
        BY <1>9 DEF Measured, Evaluated, jobVars, runVars
  <2> QED BY <2>1, <1>g, <1>s, <1>u, <1>t DEF AtMeasurement, Serving, Ready
<1>10. CASE RestartStop \/ RestartStopped
  <2>1. /\ pc \in {"stop", "stopping"} /\ pc' \in {"stopping", "start", "release", "fail"}
        /\ then' = then
        /\ pc' = "release" => then = "release"
        /\ then = "release" => pc' # "fail"
        /\ UNCHANGED <<busy, admitted, saved, plan, cur, prevBuildID, lastApplied, rec>>
        BY <1>10 DEF RestartStop, RestartStopped, RestartFailed, jobVars, runVars
  <2> QED BY <2>1, <1>g, <1>s, <1>u, <1>t, <1>n DEF AtMeasurement, Serving, Ready
<1>11. CASE RestartStart
  <2>1. /\ pc = "start" /\ pc' \in {"poll", "release", "fail"} /\ then' = then
        /\ pc' = "release" => then = "release"
        /\ then = "release" => pc' # "fail"
        /\ UNCHANGED <<busy, admitted, saved, plan, cur, prevBuildID, lastApplied, rec>>
        BY <1>11 DEF RestartStart, RestartFailed, jobVars, runVars
  <2> QED BY <2>1, <1>g, <1>s, <1>u, <1>t, <1>n DEF AtMeasurement, Serving, Ready
<1>12. CASE PollUp
  <2>1. /\ pc = "poll" /\ pc' = then /\ router' = "up"
        /\ UNCHANGED <<saved, busy, plan, cur, rec, admitted, then>>
        /\ lastApplied' = IF then = "measure" THEN Applied(rec) ELSE lastApplied
        /\ prevBuildID' = IF then = "resolve" THEN Cell.build ELSE prevBuildID
        BY <1>12 DEF PollUp, jobVars
  <2>2. CASE then = "release"
        BY <2>1, <2>2, <1>g, <1>s, <1>u, <1>t DEF AtMeasurement, Serving
  <2>3. CASE then # "release"
    <3>1. /\ then \in {"resolve", "measure"} /\ cur \in 1 .. Len(plan) /\ ~Cell.cap
          /\ then = "measure" => rec.ov = Cell.ov /\ rec.model = Cell.model
          BY <2>1, <2>3, <1>g, <1>t DEF IInv, InCell, AtMeasurement
    <3>2. Seen'
      <4>1. CASE then = "resolve" BY <2>1, <3>1, <4>1, <1>g, <1>t DEF Seen, Cell
      <4>2. CASE then = "measure"
        <5>1. /\ lastApplied'.build = plan[cur].build
              /\ lastApplied'.cfg.model = plan[cur].model
              /\ lastApplied'.cfg.ov = plan[cur].ov
              /\ lastApplied'.cfg.base = rec.base
              BY <2>1, <3>1, <4>2 DEF Applied, Cell
        <5>2. \E i \in 1 .. cur : /\ ~plan[i].cap
                                  /\ plan[i].build = lastApplied'.build
                                  /\ plan[i].model = lastApplied'.cfg.model
                                  /\ plan[i].ov = lastApplied'.cfg.ov
              BY <3>1, <5>1, <1>t DEF Cell
        <5> QED BY <2>1, <4>2, <5>1, <5>2, <1>g DEF Seen
      <4> QED BY <3>1, <4>1, <4>2
    <3> QED BY <2>1, <2>3, <3>1, <3>2, <1>g, <1>u, <1>t DEF AtMeasurement, Serving, Ready
  <2> QED BY <2>2, <2>3
<1>13. CASE PollGiveUp
  <2>1. /\ pc = "poll" /\ pc' \in {"release", "fail"} /\ then' = then
        /\ pc' = "release" <=> then = "release"
        /\ UNCHANGED <<router, busy, admitted, saved, plan, cur, prevBuildID, lastApplied,
                       rec>>
        BY <1>13 DEF PollGiveUp, RestartFailed, jobVars, runVars
  <2> QED BY <2>1, <1>g, <1>s, <1>u, <1>t, <1>n DEF AtMeasurement, Serving, Ready
<1>14. CASE CapCell \/ StopRouterForEval \/ EvalStop
  <2>1. /\ pc \in {"cell", "evalStop", "evalStopping"} /\ Cell.cap /\ then' = then
        /\ pc' \in {"evalStop", "evalStopping", "eval", "fail"}
        /\ UNCHANGED <<busy, admitted, saved, plan, cur, prevBuildID, lastApplied, rec>>
        BY <1>14, <1>g DEF CapCell, StopRouterForEval, EvalStop, jobVars, runVars,
                           AtMeasurement
  <2> QED BY <2>1, <1>g, <1>s, <1>u, <1>t DEF AtMeasurement, Serving
<1>15. CASE Clear \/ Restore \/ Release
  <2>1. /\ pc \in {"clear", "restore", "release"}
        /\ pc' \in {"stop", "restore", "release", "idle"}
        /\ pc' = "stop" => then' = "release"
        /\ busy' => busy
        /\ UNCHANGED <<admitted, saved, plan, cur, prevBuildID, lastApplied, rec>>
        BY <1>15 DEF Clear, Restore, Release, jobVars, runVars
  <2> QED BY <2>1, <1>g, <1>s, <1>u, <1>t DEF AtMeasurement, Serving
<1>16. CASE ComeUp
  <2>1. /\ router' = "up"
        /\ UNCHANGED <<busy, admitted, pc, then, plan, cur, prevBuildID, lastApplied,
                       saved, rec>>
        BY <1>16 DEF ComeUp, NotTheJob, jobVars, runVars
  <2> QED BY <2>1, <1>g, <1>s, <1>u, <1>t DEF AtMeasurement, Serving, Ready
<1>17. CASE Exit \/ UserStop BY <1>17 DEF Exit, UserStop, Can
<1>18. CASE Admit \/ UserStart \/ UserRestart
  <2>1. UNCHANGED <<busy, pc, then, plan, cur, prevBuildID, lastApplied, saved, rec>>
        BY <1>18 DEF Admit, UserStart, UserRestart, NotTheJob, jobVars, runVars
  <2>2. ~busy
        BY <1>18, <2>1, <1>g DEF Admit, UserStart, UserRestart, routerBusyWithJob,
                                 AtMeasurement
  <2> QED BY <2>1, <2>2, <1>g, <1>s, <1>t DEF AtMeasurement, Serving
<1>19. CASE EditConfig
  <2>1. /\ saved' = saved + 1
        /\ UNCHANGED <<router, busy, admitted, pc, then, plan, cur, prevBuildID,
                       lastApplied, rec>>
        BY <1>19 DEF EditConfig, jobVars, runVars
  <2>2. Seen'
    <3>1. /\ lastApplied.cfg.base \in Nat /\ rec.base \in Nat
          BY EditsAssumption DEF IInv, TypeOK, Cfg
    <3> QED BY <2>1, <3>1, <1>g, <1>t DEF Seen
  <2>3. ASSUME NEW n \in Nat, Unserved(n) PROVE Unserved(n)'
    <3>1. CASE Plainly
          BY <2>1, <2>3, <3>1, <1>g DEF Unserved
    <3>2. CASE ~Plainly
      <4>1. lastApplied.cfg.base \in Nat /\ lastApplied.cfg.base <= saved
            BY <1>g, <2>1, EditsAssumption DEF IInv, TypeOK, Cfg, Seen
      <4>2. \A k \in n .. Len(plan) : lastApplied # Wanted(plan[k])'
            BY <2>1, <4>1, <1>t DEF Wanted
      <4> QED BY <2>1, <3>2, <4>2, <1>g DEF Unserved
    <3> QED BY <3>1, <3>2
  <2> QED BY <2>1, <2>2, <2>3, <1>g, <1>u, <1>t DEF AtMeasurement, Serving, Ready
<1> QED BY <1>1, <1>2, <1>3, <1>4, <1>5, <1>6, <1>7, <1>8, <1>9, <1>10, <1>11, <1>12,
           <1>13, <1>14, <1>15, <1>16, <1>17, <1>18, <1>19 DEF Step, JobStep

THEOREM CellInvariance == Spec => []AllInv
<1>1. ASSUME AllInv, [Next]_<<vars, sc>> PROVE AllInv'
  <2>0. IInv' BY <1>1, InvStep DEF AllInv
  <2>1. CASE Next
        BY <1>1, <2>0, <2>1, OwnedStep, CellsStep, QuietStep, ServingStep DEF AllInv, Next
  <2>2. CASE UNCHANGED <<vars, sc>>
    <3>1. OwnedInv' BY <1>1, <2>2 DEF AllInv, OwnedInv, Owned, Strange, IsUp, Calling,
              InRestart, Can, vars, envVars, jobVars, runVars
    <3>2. CellsInv'
      <4>1. UNCHANGED <<saved, live, busy, admitted, pc, then, plan, cur, prevBuildID, rec,
                       jobBuildID, jobConfigs, lastApplied, router, sc>>
            BY <2>2 DEF vars, envVars, jobVars, runVars
      <4> QED BY <1>1, <4>1 DEF AllInv, CellsInv, AtCell, PlainCells, OverriddenCells,
              Plainly, Working, InCell, IsUp, Calling, InRestart, Can, Cell, Applied
    <3>3. QuietInv' BY <1>1, <2>2 DEF AllInv, QuietInv, Quiet, EvalsLast, Working, InCell,
              Calling, InRestart, Can, Cell, vars, envVars, jobVars, runVars
    <3>4. ServingInv'
      <4>1. UNCHANGED <<saved, busy, admitted, pc, then, plan, cur, prevBuildID, rec,
                        lastApplied, router, sc>>
            BY <2>2 DEF vars, jobVars, runVars
      <4> QED BY <1>1, <4>1 DEF AllInv, ServingInv, Seen, AtMeasurement, Serving, Ready,
              Unserved, Wanted, Plainly, Grouped, Calling, InRestart, Can, Cell
    <3> QED BY <2>0, <3>1, <3>2, <3>3, <3>4 DEF AllInv
  <2> QED BY <1>1, <2>1, <2>2
<1> QED BY <1>1, InitAll, PTL DEF Spec

(* Between jobs no flag of one is left and a router that is there is the   *)
(* user's, for any job definitions, when no job is cancelled and no router *)
(* outlasts the poll.                                                      *)
THEOREM GivenBack == Spec => []RouterIsTheUsers
<1>1. AllInv => RouterIsTheUsers
  <2> SUFFICES ASSUME AllInv PROVE RouterIsTheUsers OBVIOUS
  <2>1. IdleIsClean BY DEF AllInv, IInv, IdleIsClean, Clean
  <2>2. RestoredUnlessCut
        BY DEF AllInv, OwnedInv, Owned, Strange, IsUp, Can, RestoredUnlessCut, IdleIsUsers
  <2> QED BY <2>1, <2>2 DEF RouterIsTheUsers
<1> QED BY <1>1, CellInvariance, PTL

(* For any job definitions, a measurement has the build and the config its *)
(* run records, and an evaluation the GPU, in the behaviours the two       *)
(* properties name.                                                        *)
THEOREM GetWhatTheyAskFor == Spec => []CellsGetTheirServer
<1>1. AllInv => CellsGetTheirServer
  <2> SUFFICES ASSUME AllInv PROVE CellsGetTheirServer OBVIOUS
  <2>1. MeasuresWhatItRecords
    <3> SUFFICES ASSUME sc.ops \cap {"cancel", "slow", "edit", "race"} = {},
                        pc = "measure", router = "up"
                 PROVE  live.build = Cell.build /\ Serves(Cell.model) = rec
        BY DEF MeasuresWhatItRecords
    <3>1. AtCell /\ PlainCells /\ OverriddenCells
          BY DEF AllInv, CellsInv, Can
    <3>2. InCell /\ Working /\ IsUp /\ ~InRestart BY DEF InCell, Working, IsUp, InRestart
    <3>3. /\ Cell.build # NoBuild /\ Cell.model # "none"
          /\ Plainly /\ ~Cell.cap => Cell.ov = NoOv
          BY <3>2, CellFacts DEF AllInv
    <3>4. /\ ~Cell.cap /\ prevBuildID = Cell.build
          /\ rec = [base |-> 0, ov |-> Cell.ov, model |-> Cell.model]
          /\ live.base = 0
          BY <3>1 DEF AtCell
    <3>5. CASE Plainly
          BY <3>1, <3>2, <3>3, <3>4, <3>5 DEF PlainCells, Serves, NoCfg
    <3>6. CASE ~Plainly
      <4>1. lastApplied = Applied(rec) /\ Applied(rec) # NoneApplied
            BY <3>1, <3>2, <3>3, <3>6 DEF OverriddenCells, Applied, NoneApplied
      <4>2. live.build = Cell.build /\ live.over = rec
            BY <3>1, <3>2, <3>6, <4>1 DEF OverriddenCells, Applied
      <4> QED BY <3>4, <4>2 DEF Serves
    <3> QED BY <3>5, <3>6
  <2>2. EvalHasGPUOnce
        BY DEF AllInv, QuietInv, Quiet, Can, EvalHasGPUOnce, EvalHasGPU, Working, InCell
  <2> QED BY <2>1, <2>2 DEF CellsGetTheirServer
<1> QED BY <1>1, CellInvariance, PTL

(* For any job definitions whose measurements are grouped as               *)
(* ExpandCellsWithSweeps orders them, a measurement finds a router that    *)
(* answers, with evaluations that stop it in between, cancels, slow        *)
(* routers and configs saved at any time.                                  *)
THEOREM FindsAServer == Spec => []MeasuresAServer
<1>1. AllInv => MeasuresAServer
      BY DEF AllInv, ServingInv, Serving, Can, MeasuresAServer
<1> QED BY <1>1, CellInvariance, PTL

-----------------------------------------------------------------------------
(* The registry.                                                           *)
Texts == UNION {[S -> Config] : S \in SUBSET Ids}

(* Where a request or a callback can be, and what it holds.                *)
Acts ==
         [pc : {"idle"}]
    \cup [pc : {"save"}, id : Ids, by : {"edit", "toggle", "attach"}]
    \cup [pc : {"read"}, id : Ids, mark : BOOLEAN]
    \cup [pc : {"write"}, id : Ids, mark : BOOLEAN, text : Texts]
    \cup [pc : {"mark"}, id : Ids]
    \cup [pc : {"scan"}, found : SUBSET Files, any : BOOLEAN]
    \cup [pc : {"register", "attach"}, f : Files]
    \cup [pc : {"detect"}]
    \cup [pc : {"hold"}, i : Idents, mm : BOOLEAN]
    \cup [pc : {"apply"}, i : Idents, ids : (SUBSET Ids) \ {{}}, mm : BOOLEAN]
    \cup [pc : {"startWrite"}, text : Texts]
    \cup [pc : {"launch", "snapshot"}]

(* What a restore promised is in models.json while the toolchest is down.  *)
Down ==
    ~up => /\ \A a \in Actors : act[a] = Idle
           /\ ~launched.on
           /\ \A i \in DOMAIN owed : i \in DOMAIN file.pending /\ file.pending[i] = owed[i]

(* StaleIsMarked, in the middle of a start too: until the router launched  *)
(* takes its snapshot, the marks are those of the router before it.        *)
Marked ==
    up /\ launched.on /\ (\A a \in Actors : ~At(a, "snapshot")) =>
        \A id \in Stale : id \in dirty \union unseen \/ ToBeMarked(id)

(* Who holds a struct that was replaced still means to use it.             *)
Uses(x) == x.pc \in {"save", "mark"} \/ (x.pc \in {"read", "write"} /\ x.mark)
Holders == \A a \in DOMAIN held : Uses(act[a])

RegistryInv ==
    /\ RegistryTypeOK
    /\ act \in [Actors -> Acts]
    /\ Holders
    /\ Down
    /\ SavedUnlessRejected
    /\ RestoredIsHeld
    /\ ProjectorIsAttached
    /\ Marked

(* The maps from ids, or identities, to configs.                           *)
LEMMA NonePartial ==
    ASSUME NEW S
    PROVE  IsPartial(None, S) /\ DOMAIN None = {}
BY DEF IsPartial, None

LEMMA WithPartial ==
    ASSUME NEW S, NEW f, IsPartial(f, S), NEW k \in S, NEW c \in Config
    PROVE  /\ IsPartial(With(f, k, c), S)
           /\ DOMAIN With(f, k, c) = DOMAIN f \cup {k}
           /\ With(f, k, c)[k] = c
           /\ \A x \in DOMAIN f \ {k} : With(f, k, c)[x] = f[x]
BY DEF IsPartial, With

LEMMA RestrictPartial ==
    ASSUME NEW S, NEW f, IsPartial(f, S), NEW T \in SUBSET DOMAIN f
    PROVE  /\ IsPartial(Restrict(f, T), S)
           /\ DOMAIN Restrict(f, T) = T
           /\ \A x \in T : Restrict(f, T)[x] = f[x]
BY DEF IsPartial, Restrict

LEMMA WithoutPartial ==
    ASSUME NEW S, NEW f, IsPartial(f, S), NEW T
    PROVE  /\ IsPartial(Without(f, T), S)
           /\ DOMAIN Without(f, T) = DOMAIN f \ T
           /\ \A x \in DOMAIN f \ T : Without(f, T)[x] = f[x]
BY RestrictPartial DEF Without

LEMMA ExceptPartial ==
    ASSUME NEW S, NEW f, IsPartial(f, S), NEW k \in DOMAIN f, NEW c \in Config
    PROVE  /\ IsPartial([f EXCEPT ![k] = c], S)
           /\ DOMAIN [f EXCEPT ![k] = c] = DOMAIN f
           /\ [f EXCEPT ![k] = c][k] = c
           /\ \A x \in DOMAIN f \ {k} : [f EXCEPT ![k] = c][x] = f[x]
BY DEF IsPartial

LEMMA TextsPartial ==
    ASSUME NEW f
    PROVE  IsPartial(f, Ids) <=> f \in Texts
BY DEF IsPartial, Texts

LEMMA EnabledPartial ==
    ASSUME IsPartial(config, Ids)
    PROVE  Enabled(config) \in Texts
BY RestrictPartial, TextsPartial DEF Enabled

LEMMA DetectedPartial ==
    ASSUME NEW c, IsPartial(c, Ids), projector \in BOOLEAN
    PROVE  /\ IsPartial(Detected(c), Ids)
           /\ DOMAIN Detected(c) = DOMAIN c
           /\ \A id \in DOMAIN c : /\ Detected(c)[id].v = c[id].v
                                   /\ Detected(c)[id].on = c[id].on
                                   /\ Detected(c)[id].mm = (c[id].mm \/ projector)
<1>1. \A id \in DOMAIN c : c[id] \in Config
      BY DEF IsPartial
<1>2. \A id \in DOMAIN c : [c[id] EXCEPT !.mm = @ \/ projector] \in Config
      BY <1>1 DEF Config
<1>3. DOMAIN Detected(c) = DOMAIN c /\ Detected(c) \in [DOMAIN c -> Config]
      BY <1>2 DEF Detected
<1>4. IsPartial(Detected(c), Ids)
      BY <1>3 DEF IsPartial
<1>5. ASSUME NEW id \in DOMAIN c
      PROVE  /\ Detected(c)[id].v = c[id].v
             /\ Detected(c)[id].on = c[id].on
             /\ Detected(c)[id].mm = (c[id].mm \/ projector)
      BY <1>1, <1>5 DEF Detected, Config
<1> QED BY <1>3, <1>4, <1>5

LEMMA Resolved ==
    ASSUME NEW c \in Config, projector \in BOOLEAN
    PROVE  ResolveConfigPaths(c) \in Config
BY DEF ResolveConfigPaths, Config

LEMMA Constants ==
    Default \in Config /\ \A mm \in BOOLEAN : Backup(mm) \in Config
BY DEF Default, Backup, Config, Values

LEMMA MigratedConfig ==
    ASSUME NEW c \in Config
    PROVE  Migrated(c) \in Config /\ Migrated(c).mm = c.mm /\ Migrated(Migrated(c)) = Migrated(c)
BY DEF Migrated, Config, Values

(* Who used a struct that is replaced is left with a copy, nobody loses    *)
(* the one it has, and the replacer is done with its own.                  *)
LEMMA Replaced ==
    ASSUME RegistryTypeOK, act \in [Actors -> Acts], NEW a \in Actors, NEW S, Replace(a, S)
    PROVE  IsPartial(held', Actors) /\ a \notin DOMAIN held'
           /\ (S = {} => DOMAIN held' = DOMAIN held \ {a})
           /\ \A b \in DOMAIN held' :
                 b \in DOMAIN held \/ (Uses(act[b]) /\ act[b].id \in S)
<1> DEFINE U == {x \in Actors : Using(x) /\ act[x].id \in S \cap Registered}
           D == (DOMAIN held \union U) \ {a}
<1>1. held' = [b \in D |-> Stored(b)] BY DEF Replace
<1>2. IsPartial(config, Ids) /\ IsPartial(held, Actors) BY DEF RegistryTypeOK
<1>3. \A b \in D : Stored(b) \in Config
      BY <1>2 DEF Stored, IsPartial, Registered
<1>4. /\ D \subseteq Actors /\ a \notin D /\ (S = {} => D = DOMAIN held \ {a})
      /\ \A b \in D : b \in DOMAIN held \/ (Uses(act[b]) /\ act[b].id \in S)
      BY <1>2 DEF IsPartial, Using, Marking, At, Uses
<1> HIDE DEF D
<1> QED BY <1>1, <1>3, <1>4 DEF IsPartial

(* What Add does to the registry.                                          *)
LEMMA AddEffect ==
    ASSUME RegistryTypeOK, NEW id \in Ids, Add(id)
    PROVE  /\ IsPartial(config', Ids) /\ DOMAIN config' = Registered \cup {id}
           /\ \A x \in Registered \ {id} : config'[x] = config[x]
           /\ IsPartial(pending', Idents)
           /\ DOMAIN pending' = DOMAIN pending \ {IdentOf[id]}
           /\ \A i \in DOMAIN pending' : pending'[i] = pending[i]
           /\ IsPartial(owed', Idents)
           /\ DOMAIN owed' = DOMAIN owed \ ({IdentOf[id]} \cap DOMAIN pending)
           /\ \A i \in DOMAIN owed' : owed'[i] = owed[i]
           /\ file' = [config |-> config', pending |-> pending']
           /\ rejected' = {} /\ unseen' = unseen \cup {id}
<1> DEFINE c == IF Claims(id) THEN Claimed(id)
                ELSE IF id \in Registered THEN config[id] ELSE Default
<1>1. c \in Config
  <2>1. Claims(id) => pending[IdentOf[id]] \in Config
        BY DEF Claims, RegistryTypeOK, IsPartial
  <2>2. id \in Registered => config[id] \in Config
        BY DEF Registered, RegistryTypeOK, IsPartial
  <2> QED BY <2>1, <2>2, Resolved, Constants DEF Claimed, RegistryTypeOK
<1>2. config' = With(config, id, c) BY DEF Add
<1> HIDE DEF c
<1>3. /\ IsPartial(config', Ids) /\ DOMAIN config' = Registered \cup {id}
      /\ \A x \in Registered \ {id} : config'[x] = config[x]
  <2>1. IsPartial(config, Ids) BY DEF RegistryTypeOK
  <2> DEFINE g == With(config, id, c)
  <2>4. IsPartial(g, Ids) BY <1>1, <2>1, WithPartial
  <2>5. DOMAIN g = DOMAIN config \cup {id} BY DEF With
  <2>6. \A x \in DOMAIN config \ {id} : g[x] = config[x] BY DEF With
  <2>2. /\ IsPartial(With(config, id, c), Ids)
        /\ DOMAIN With(config, id, c) = DOMAIN config \cup {id}
        /\ \A x \in DOMAIN config \ {id} : With(config, id, c)[x] = config[x]
    BY <2>4, <2>5, <2>6
  <2>3. Registered = DOMAIN config BY DEF Registered
  <2> QED BY <1>2, <2>2, <2>3, Zenon
<1>4. /\ IsPartial(pending', Idents)
      /\ DOMAIN pending' = DOMAIN pending \ {IdentOf[id]}
      /\ \A i \in DOMAIN pending' : pending'[i] = pending[i]
  <2>1. IsPartial(pending, Idents) BY DEF RegistryTypeOK
  <2>2. pending' = Without(pending, {IdentOf[id]}) BY DEF Add
  <2>3. IsPartial(pending', Idents) BY <2>1, <2>2, WithoutPartial
  <2> QED BY <2>2, <2>3 DEF Without, Restrict
<1>5. /\ IsPartial(owed', Idents)
      /\ DOMAIN owed' = DOMAIN owed \ ({IdentOf[id]} \cap DOMAIN pending)
      /\ \A i \in DOMAIN owed' : owed'[i] = owed[i]
  <2>1. IsPartial(owed, Idents) BY DEF RegistryTypeOK
  <2> DEFINE S == {IdentOf[id]} \cap DOMAIN pending
  <2>2. owed' = Without(owed, S) BY DEF Add
  <2> HIDE DEF S
  <2>3. IsPartial(owed', Idents) BY <2>1, <2>2, WithoutPartial
  <2>4. DOMAIN owed' = DOMAIN owed \ S /\ \A i \in DOMAIN owed' : owed'[i] = owed[i]
    BY <2>2 DEF Without, Restrict
  <2> QED BY <2>3, <2>4 DEF S
<1> QED BY <1>3, <1>4, <1>5 DEF Add, SaveAll, Save

(* An actor that is still to save or to mark a model, or to look for its   *)
(* projector.                                                              *)
Writes(x, id) == x.pc = "save" /\ x.id = id
Edits(x, id) == Writes(x, id) /\ x.by = "edit"
Marks(x, id) == (x.pc = "mark" \/ (x.pc \in {"read", "write"} /\ x.mark)) /\ x.id = id
Settles(x, id) ==
    x.pc = "detect" \/ (x.pc = "scan" /\ x.any) \/ (x.pc = "attach" /\ IdOf[x.f] = id)

LEMMA ActFields ==
    ASSUME NEW x \in Acts
    PROVE  /\ x.pc = "read" => x.id \in Ids /\ x.mark \in BOOLEAN
           /\ x.pc = "write" => x.id \in Ids /\ x.mark \in BOOLEAN /\ x.text \in Texts
           /\ x.pc = "mark" => x.id \in Ids
           /\ x.pc = "scan" => x \in [pc : {"scan"}, found : SUBSET Files, any : BOOLEAN]
           /\ x.pc \in {"register", "attach"} => x.f \in Files
           /\ x.pc = "save" => x.id \in Ids /\ x.by \in {"edit", "toggle", "attach"}
           /\ x.pc = "hold" => x.i \in Idents /\ x.mm \in BOOLEAN
           /\ x.pc = "apply" =>
                 x \in [pc : {"apply"}, i : Idents, ids : (SUBSET Ids) \ {{}}, mm : BOOLEAN]
           /\ x.pc = "startWrite" => x.text \in Texts
BY DEF Acts

(* Who is in the middle of something runs in a toolchest that is up.       *)
LEMMA Awake ==
    ASSUME RegistryInv, NEW a \in Actors, act[a].pc # "idle"
    PROVE  up
BY DEF RegistryInv, Down, Idle

(* One actor moves on: its projector ...                                   *)
LEMMA StillAttached ==
    ASSUME RegistryInv, up, projector' = projector, NEW a \in Actors, NEW w,
           act' = [act EXCEPT ![a] = w],
           \A id \in Registered' : projector =>
               \/ config'[id].mm
               \/ Settles(w, id)
               \/ id \in detached'
               \/ /\ id \in Registered /\ (config[id].mm => config'[id].mm)
                  /\ Settles(act[a], id) => Settles(w, id)
                  /\ id \notin detached
    PROVE  ProjectorIsAttached'
<1> SUFFICES ASSUME NEW id \in Registered', id \notin detached', projector, ~config'[id].mm
             PROVE  Settling(id)'
    BY DEF ProjectorIsAttached
<1>1. act'[a] = w /\ \A b \in Actors \ {a} : act'[b] = act[b]
      BY DEF RegistryInv
<1>2. SUFFICES \E b \in Actors : Settles(act'[b], id)
      BY DEF Settling, At, Settles
<1>3. CASE Settles(w, id) BY <1>1, <1>3
<1>4. CASE ~Settles(w, id)
  <2>1. /\ id \in Registered /\ id \notin detached
        /\ ~config[id].mm /\ ~Settles(act[a], id)
        BY <1>4
  <2>2. PICK b \in Actors : Settles(act[b], id)
        BY <2>1 DEF RegistryInv, ProjectorIsAttached, Settling, At, Settles
  <2>3. b # a BY <2>1, <2>2
  <2> QED BY <1>1, <2>2, <2>3
<1> QED BY <1>3, <1>4

(* ... its mark ...                                                        *)
LEMMA StillMarked ==
    ASSUME RegistryInv, up, launched' = launched, NEW a \in Actors, NEW w,
           act' = [act EXCEPT ![a] = w], act[a].pc # "snapshot",
           dirty \subseteq dirty', unseen \subseteq unseen',
           \A id \in Registered' : launched.on =>
               \/ id \in dirty' \cup unseen'
               \/ Marks(w, id)
               \/ Edits(w, id) /\ a \notin DOMAIN held'
               \/ /\ id \in Registered /\ ~Differs(config'[id], config[id])
                  /\ ~Marks(act[a], id) /\ (Edits(act[a], id) => a \in DOMAIN held)
                  /\ \A b \in DOMAIN held' : b \in DOMAIN held \/ act[b].id # id
    PROVE  Marked'
<1> SUFFICES ASSUME launched.on, \A b \in Actors : act'[b].pc # "snapshot",
                    NEW id \in Stale', id \notin dirty' \cup unseen'
             PROVE  ToBeMarked(id)'
    BY DEF Marked, At
<1>1. act'[a] = w /\ \A b \in Actors \ {a} : act'[b] = act[b]
      BY DEF RegistryInv
<1>2. SUFFICES \E b \in Actors :
                   Marks(act'[b], id) \/ (Edits(act'[b], id) /\ b \notin DOMAIN held')
      BY DEF ToBeMarked, Marking, At, Marks, Edits, Writes
<1>3. CASE Marks(w, id) \/ (Edits(w, id) /\ a \notin DOMAIN held') BY <1>1, <1>3
<1>4. CASE ~(Marks(w, id) \/ (Edits(w, id) /\ a \notin DOMAIN held'))
  <2>1. /\ id \in DOMAIN launched.cfg /\ id \in Registered'
        /\ Differs(launched.cfg[id], config'[id])
        BY DEF Stale, Registered, Differs
  <2>2. /\ id \in Registered /\ ~Differs(config'[id], config[id])
        /\ ~Marks(act[a], id) /\ (Edits(act[a], id) => a \in DOMAIN held)
        /\ \A b \in DOMAIN held' : b \in DOMAIN held \/ act[b].id # id
        BY <1>4, <2>1
  <2>3. id \in Stale /\ id \notin dirty \cup unseen
        BY <2>1, <2>2 DEF Stale, Differs
  <2>4. \A b \in Actors : ~At(b, "snapshot")
        BY <1>1 DEF At
  <2>5. PICK b \in Actors : Marks(act[b], id) \/ (Edits(act[b], id) /\ b \notin DOMAIN held)
        BY <2>3, <2>4 DEF RegistryInv, Marked, ToBeMarked, Marking, At, Marks, Edits, Writes
  <2>6. b # a BY <2>2, <2>5
  <2>7. Edits(act[b], id) /\ b \notin DOMAIN held => b \notin DOMAIN held'
        BY <2>2 DEF Edits, Writes
  <2> QED BY <1>1, <2>5, <2>6, <2>7
<1> QED BY <1>3, <1>4

(* ... and what it has written are its own.                                *)
LEMMA StillSaved ==
    ASSUME RegistryInv, up, NEW a \in Actors, NEW w, act' = [act EXCEPT ![a] = w],
           UNCHANGED <<file, pending>>, Registered' = Registered,
           DOMAIN held' \subseteq DOMAIN held,
           \A id \in Registered :
               \/ id \in rejected'
               \/ Writes(w, id) /\ a \notin DOMAIN held'
               \/ /\ config'[id] = config[id] /\ id \notin rejected
                  /\ Writes(act[a], id) => a \in DOMAIN held
    PROVE  SavedUnlessRejected'
<1>1. act'[a] = w /\ \A b \in Actors \ {a} : act'[b] = act[b]
      BY DEF RegistryInv
<1>2. file.pending = pending /\ DOMAIN file.config = Registered
      BY DEF RegistryInv, SavedUnlessRejected
<1>3. ASSUME NEW id \in Registered, id \notin rejected', ~Writing(id)'
      PROVE  config'[id] \in {file.config[id], Migrated(file.config[id])}
  <2>1. ~(Writes(w, id) /\ a \notin DOMAIN held')
        BY <1>1, <1>3 DEF Writing, At, Writes
  <2>2. /\ config'[id] = config[id] /\ id \notin rejected
        /\ Writes(act[a], id) => a \in DOMAIN held
        BY <1>3, <2>1
  <2>3. ~Writing(id)
    <3> SUFFICES ASSUME NEW b \in Actors, Writes(act[b], id), b \notin DOMAIN held
                 PROVE  FALSE
        BY DEF Writing, At, Writes
    <3>1. b # a BY <2>2
    <3>2. Writes(act'[b], id) /\ b \notin DOMAIN held' BY <1>1, <3>1
    <3> QED BY <1>3, <3>2 DEF Writing, At, Writes
  <2> QED BY <1>3, <2>2, <2>3 DEF RegistryInv, SavedUnlessRejected
<1> QED BY <1>2, <1>3 DEF SavedUnlessRejected, Registered

(* What others hold stays theirs.                                          *)
HeldOn(a, w) ==
    \A b \in DOMAIN held' : IF b = a THEN Uses(w) ELSE b \in DOMAIN held \/ Uses(act[b])
LEMMA StillHeld ==
    ASSUME RegistryInv, NEW a \in Actors, NEW w, act' = [act EXCEPT ![a] = w],
           IsPartial(held', Actors), HeldOn(a, w)
    PROVE  Holders'
<1>1. act'[a] = w /\ \A b \in Actors \ {a} : act'[b] = act[b]
      BY DEF RegistryInv
<1>2. ASSUME NEW b \in DOMAIN held' PROVE Uses(act'[b])
  <2>1. b \in Actors BY DEF IsPartial
  <2>2. CASE b = a BY <1>1, <2>2 DEF HeldOn
  <2>3. CASE b # a
    <3>1. Uses(act[b]) BY <2>3 DEF HeldOn, RegistryInv, Holders
    <3> QED BY <1>1, <2>1, <2>3, <3>1
  <2> QED BY <2>2, <2>3
<1> QED BY <1>2 DEF Holders

LEMMA NoneHeld ==
    ASSUME RegistryInv, NEW a \in Actors, ~Uses(act[a])
    PROVE  a \notin DOMAIN held
BY DEF RegistryInv, Holders

(* What is written under the lock is what memory holds.                    *)
LEMMA SaveSaves ==
    ASSUME file' = [config |-> config', pending |-> pending']
    PROVE  SavedUnlessRejected' /\ file'.config = config' /\ file'.pending = pending'
BY DEF SavedUnlessRejected, Registered

(* Steps that leave the registry and the marks alone.                      *)
LEMMA Aside ==
    ASSUME RegistryInv, up, up' = up, NEW a \in Actors, NEW w \in Acts,
           act' = [act EXCEPT ![a] = w], act[a].pc \notin {"snapshot", "save"},
           UNCHANGED <<config, pending, file, held, launched, dirty, rejected, unseen, owed,
                       detached>>,
           disk' \in SUBSET Files, IsPartial(preset', Ids), projector' \in BOOLEAN,
           projector' = projector \/ w = [pc |-> "detect"],
           \A id : Settles(act[a], id) => Settles(w, id),
           \A id : Marks(act[a], id) => Marks(w, id)
    PROVE  RegistryInv'
<1>1. RegistryTypeOK' BY DEF RegistryInv, RegistryTypeOK
<1>2. (act \in [Actors -> Acts])' BY DEF RegistryInv
<1>3. Down' BY DEF Down
<1>4. SavedUnlessRejected'
  <2>1. \A id : ~Writes(act[a], id) BY DEF Writes
  <2> QED BY <2>1, StillSaved DEF Registered
<1>5. RestoredIsHeld' BY DEF RegistryInv, RestoredIsHeld
<1>6. ProjectorIsAttached'
  <2>1. CASE projector' = projector
        BY <2>1, StillAttached DEF Registered
  <2>2. CASE w = [pc |-> "detect"]
    <3>1. act'[a].pc = "detect" BY <2>2 DEF RegistryInv
    <3> QED BY <3>1 DEF ProjectorIsAttached, Settling, At
  <2> QED BY <2>1, <2>2
<1>7. Marked'
  <2>1. \A id : ~Differs(config'[id], config[id]) /\ ~Edits(act[a], id)
        BY DEF Differs, Edits, Writes
  <2> QED BY <2>1, StillMarked DEF Registered
<1>8. Holders'
  <2>1. Uses(act[a]) => Marks(act[a], act[a].id) BY DEF Uses, Marks
  <2>2. \A id : Marks(w, id) => Uses(w) BY DEF Uses, Marks
  <2>3. HeldOn(a, w) BY <2>1, <2>2 DEF HeldOn, RegistryInv, Holders
  <2>4. IsPartial(held', Actors) BY DEF RegistryInv, RegistryTypeOK
  <2> QED BY <2>3, <2>4, StillHeld
<1> QED BY <1>1, <1>2, <1>3, <1>4, <1>5, <1>6, <1>7, <1>8 DEF RegistryInv


(* The steps of a handler that only read, or write the preset.             *)
LEMMA AsideStep ==
    ASSUME RegistryInv, NEW a \in Actors,
           \/ PresetRead(a) \/ PresetWrite(a) \/ ScanWalk(a)
           \/ \E f \in Files : Arrive(a, f)
           \/ ArriveProjector(a)
           \/ \E i \in Idents, mm \in BOOLEAN : RestoreMatch(a, i, mm)
           \/ StartRead(a) \/ StartWrite(a)
    PROVE  RegistryInv'
<1> USE DEF Begin, Go, At, Idle, regVars, launchVars, diskVars, histVars
<1>t. /\ act[a] \in Acts /\ RegistryTypeOK /\ Enabled(config) \in Texts
      /\ DOMAIN config \in SUBSET Ids
      BY EnabledPartial DEF RegistryInv, RegistryTypeOK, IsPartial
<1>1. CASE PresetRead(a)
  <2>1. act[a].id \in Ids /\ act[a].mark \in BOOLEAN /\ act[a].pc = "read"
        BY <1>1, <1>t, ActFields DEF PresetRead
  <2> DEFINE w == [pc |-> "write", id |-> act[a].id, mark |-> act[a].mark,
                   text |-> Enabled(config)]
  <2>2. w \in Acts BY <2>1, <1>t DEF Acts
  <2>3. /\ \A id : Settles(act[a], id) => Settles(w, id)
        /\ \A id : Marks(act[a], id) => Marks(w, id)
        BY <2>1 DEF Settles, Marks
  <2>4. act' = [act EXCEPT ![a] = w] BY <1>1 DEF PresetRead
  <2> HIDE DEF w
  <2> QED BY <1>1, <1>t, <2>1, <2>2, <2>3, <2>4, Awake, Aside DEF PresetRead, RegistryTypeOK
<1>2. CASE PresetWrite(a)
  <2>1. /\ act[a].id \in Ids /\ act[a].text \in Texts /\ act[a].pc = "write"
        /\ act[a].mark \in BOOLEAN
        BY <1>2, <1>t, ActFields DEF PresetWrite
  <2> DEFINE w == IF act[a].mark THEN [pc |-> "mark", id |-> act[a].id] ELSE [pc |-> "idle"]
  <2>2. w \in Acts BY <2>1 DEF Acts
  <2>3. /\ \A id : Settles(act[a], id) => Settles(w, id)
        /\ \A id : Marks(act[a], id) => Marks(w, id)
        BY <2>1 DEF Settles, Marks
  <2>4. act' = [act EXCEPT ![a] = w] BY <1>2 DEF PresetWrite
  <2>5. IsPartial(preset', Ids) BY <1>2, <2>1, TextsPartial DEF PresetWrite
  <2> HIDE DEF w
  <2> QED BY <1>2, <1>t, <2>1, <2>2, <2>3, <2>4, <2>5, Awake, Aside DEF PresetWrite, RegistryTypeOK
<1>3. CASE ScanWalk(a)
  <2> DEFINE w == [pc |-> "scan", found |-> disk \ {PathOf[id] : id \in Registered},
                   any |-> FALSE]
  <2>1. w \in Acts BY <1>t DEF Acts, RegistryTypeOK
  <2>2. act' = [act EXCEPT ![a] = w] /\ act[a] = [pc |-> "idle"] BY <1>3 DEF ScanWalk
  <2>3. /\ \A id : Settles(act[a], id) => Settles(w, id)
        /\ \A id : Marks(act[a], id) => Marks(w, id)
        BY <2>2 DEF Settles, Marks
  <2> HIDE DEF w
  <2> QED BY <1>3, <1>t, <2>1, <2>2, <2>3, Aside DEF ScanWalk, RegistryTypeOK
<1>4. CASE \E f \in Files : Arrive(a, f)
  <2> PICK f \in Files : Arrive(a, f) BY <1>4
  <2> DEFINE w == [pc |-> "register", f |-> f]
  <2>1. w \in Acts BY DEF Acts
  <2>2. act' = [act EXCEPT ![a] = w] /\ act[a] = [pc |-> "idle"] BY DEF Arrive
  <2>3. /\ \A id : Settles(act[a], id) => Settles(w, id)
        /\ \A id : Marks(act[a], id) => Marks(w, id)
        BY <2>2 DEF Settles, Marks
  <2>4. disk' \in SUBSET Files BY <1>t DEF Arrive, RegistryTypeOK
  <2> HIDE DEF w
  <2>5. /\ up /\ up' = up /\ act[a].pc \notin {"snapshot", "save"}
        /\ UNCHANGED <<config, pending, file, held, launched, dirty, rejected, unseen, owed,
                       detached>>
        /\ IsPartial(preset', Ids) /\ projector' = projector /\ projector' \in BOOLEAN
        BY <1>t, <2>2 DEF Arrive, RegistryTypeOK
  <2> QED BY <2>1, <2>2, <2>3, <2>4, <2>5, Aside
<1>5. CASE ArriveProjector(a)
  <2> DEFINE w == [pc |-> "detect"]
  <2>1. w \in Acts BY DEF Acts
  <2>2. act' = [act EXCEPT ![a] = w] /\ act[a] = [pc |-> "idle"]
        BY <1>5 DEF ArriveProjector
  <2>3. /\ \A id : Settles(act[a], id) => Settles(w, id)
        /\ \A id : Marks(act[a], id) => Marks(w, id)
        BY <2>2 DEF Settles, Marks
  <2>4. /\ up /\ up' = up /\ act[a].pc \notin {"snapshot", "save"}
        /\ UNCHANGED <<config, pending, file, held, launched, dirty, rejected, unseen, owed,
                       detached>>
        /\ disk' \in SUBSET Files /\ IsPartial(preset', Ids) /\ projector' \in BOOLEAN
        BY <1>5, <1>t, <2>2 DEF ArriveProjector, RegistryTypeOK
  <2> QED BY <2>1, <2>2, <2>3, <2>4, Aside
<1>6. CASE \E i \in Idents, mm \in BOOLEAN : RestoreMatch(a, i, mm)
  <2> PICK i \in Idents, mm \in BOOLEAN : RestoreMatch(a, i, mm) BY <1>6
  <2> DEFINE ids == {id \in Registered : IdentOf[id] = i}
             w == IF ids = {} THEN [pc |-> "hold", i |-> i, mm |-> mm]
                              ELSE [pc |-> "apply", i |-> i, ids |-> ids, mm |-> mm]
  <2>1. w \in Acts
    <3>1. ids \in SUBSET Ids BY <1>t DEF Registered
    <3> HIDE DEF ids
    <3>2. CASE ids = {}
      <4>1. w = [pc |-> "hold", i |-> i, mm |-> mm] BY <3>2
      <4>2. [pc |-> "hold", i |-> i, mm |-> mm] \in [pc : {"hold"}, i : Idents, mm : BOOLEAN] OBVIOUS
      <4> QED BY <4>1, <4>2 DEF Acts
    <3>3. CASE ids # {}
      <4>1. ids \in (SUBSET Ids) \ {{}} BY <3>1, <3>3
      <4> QED BY <3>3, <4>1 DEF Acts
    <3> QED BY <3>2, <3>3
  <2>2. act' = [act EXCEPT ![a] = w] /\ act[a] = [pc |-> "idle"] BY DEF RestoreMatch
  <2>3. /\ \A id : Settles(act[a], id) => Settles(w, id)
        /\ \A id : Marks(act[a], id) => Marks(w, id)
        BY <2>2 DEF Settles, Marks
  <2> HIDE DEF w, ids
  <2> QED BY <1>t, <2>1, <2>2, <2>3, Aside DEF RestoreMatch, RegistryTypeOK
<1>7. CASE StartRead(a)
  <2> DEFINE w == [pc |-> "startWrite", text |-> Enabled(config)]
  <2>1. w \in Acts BY <1>t DEF Acts
  <2>2. act' = [act EXCEPT ![a] = w] /\ act[a] = [pc |-> "idle"] BY <1>7 DEF StartRead
  <2>3. /\ \A id : Settles(act[a], id) => Settles(w, id)
        /\ \A id : Marks(act[a], id) => Marks(w, id)
        BY <2>2 DEF Settles, Marks
  <2> HIDE DEF w
  <2>4. /\ up /\ up' = up /\ act[a].pc \notin {"snapshot", "save"}
        /\ UNCHANGED <<config, pending, file, held, launched, dirty, rejected, unseen, owed,
                       detached>>
        /\ disk' \in SUBSET Files /\ IsPartial(preset', Ids) /\ projector' = projector /\ projector' \in BOOLEAN
        BY <1>7, <1>t, <2>2 DEF StartRead, RegistryTypeOK
  <2> QED BY <2>1, <2>2, <2>3, <2>4, Aside
<1>8. CASE StartWrite(a)
  <2>1. act[a].text \in Texts /\ act[a].pc = "startWrite"
        BY <1>8, <1>t, ActFields DEF StartWrite
  <2> DEFINE w == [pc |-> "launch"]
  <2>2. w \in Acts BY DEF Acts
  <2>3. /\ \A id : Settles(act[a], id) => Settles(w, id)
        /\ \A id : Marks(act[a], id) => Marks(w, id)
        BY <2>1 DEF Settles, Marks
  <2>4. act' = [act EXCEPT ![a] = w] BY <1>8 DEF StartWrite
  <2>5. IsPartial(preset', Ids) BY <1>8, <2>1, TextsPartial DEF StartWrite
  <2> HIDE DEF w
  <2> QED BY <1>8, <1>t, <2>1, <2>2, <2>3, <2>4, <2>5, Awake, Aside DEF StartWrite, RegistryTypeOK
<1> QED BY <1>1, <1>2, <1>3, <1>4, <1>5, <1>6, <1>7, <1>8

(* The marks, the launch of the router and its snapshot; and its end.      *)
LEMMA MarkStep ==
    ASSUME RegistryInv, NEW a \in Actors, Mark(a) \/ StartLaunch(a) \/ StartSnapshot(a)
    PROVE  RegistryInv'
<1> USE DEF Go, At, Idle, regVars, diskVars, histVars
<1>t. /\ act[a] \in Acts /\ RegistryTypeOK /\ act \in [Actors -> Acts]
      /\ SavedUnlessRejected /\ RestoredIsHeld
      BY DEF RegistryInv
<1>1. CASE Mark(a)
  <2>1. act[a].id \in Ids /\ act[a].pc = "mark" /\ up
        BY <1>1, <1>t, ActFields, Awake DEF Mark
  <2> DEFINE w == [pc |-> "idle"]
             marks == Stored(a).on /\ launched.ready
  <2>2. /\ UNCHANGED <<config, pending, file, preset, launched, disk, projector, rejected,
                       owed, detached, up>>
        /\ act' = [act EXCEPT ![a] = w]
        /\ dirty' = IF marks THEN dirty \union {act[a].id} ELSE dirty
        /\ unseen' = IF marks THEN unseen ELSE unseen \union {act[a].id}
        /\ Replace(a, {})
        BY <1>1 DEF Mark
  <2> HIDE DEF marks
  <2>r. /\ IsPartial(held', Actors) /\ DOMAIN held' \subseteq DOMAIN held
        /\ HeldOn(a, w)
        BY <2>2, <1>t, Replaced DEF HeldOn
  <2>3. RegistryTypeOK' BY <2>1, <2>2, <2>r, <1>t DEF RegistryTypeOK
  <2>4. (act \in [Actors -> Acts])' BY <2>2, <1>t DEF Acts
  <2>5. Down' BY <2>1, <2>2 DEF Down
  <2>6. SavedUnlessRejected' /\ RestoredIsHeld'
    <3>1. \A id : ~Writes(act[a], id) BY <2>1 DEF Writes
    <3>2. SavedUnlessRejected' BY <2>1, <2>2, <2>r, <3>1, StillSaved DEF Registered
    <3> QED BY <2>2, <3>2, <1>t DEF RestoredIsHeld
  <2>7. ProjectorIsAttached'
        BY <2>1, <2>2, StillAttached DEF Settles, Registered
  <2>8. Marked'
    <3>1. \A id : Marks(act[a], id) => id = act[a].id BY DEF Marks
    <3>2. launched.on => act[a].id \in dirty' \cup unseen' BY <2>2
    <3>3. \A id : ~Differs(config'[id], config[id]) /\ ~Edits(act[a], id)
          BY <2>1, <2>2 DEF Differs, Edits, Writes
    <3> QED BY <2>1, <2>2, <2>r, <3>1, <3>2, <3>3, StillMarked DEF Registered
  <2>9. Holders' BY <2>2, <2>r, StillHeld
  <2> QED BY <2>3, <2>4, <2>5, <2>6, <2>7, <2>8, <2>9 DEF RegistryInv
<1>2. CASE StartLaunch(a)
  <2>1. act[a].pc = "launch" /\ up
        BY <1>2, Awake DEF StartLaunch
  <2>2. CASE launched.on
    <3> DEFINE w == [pc |-> "idle"]
    <3>1. /\ UNCHANGED <<config, pending, file, held, preset, launched, dirty, disk, projector,
                         rejected, unseen, owed, detached, up>>
          /\ act' = [act EXCEPT ![a] = w]
          BY <1>2, <2>2 DEF StartLaunch
    <3>2. w \in Acts BY DEF Acts
    <3>3. /\ \A id : Settles(act[a], id) => Settles(w, id)
          /\ \A id : Marks(act[a], id) => Marks(w, id)
          BY <2>1 DEF Settles, Marks
    <3> QED BY <2>1, <3>1, <3>2, <3>3, <1>t, Aside DEF RegistryTypeOK
  <2>3. CASE ~launched.on
    <3> DEFINE w == [pc |-> "snapshot"]
    <3>1. /\ UNCHANGED <<config, pending, file, held, preset, dirty, disk, projector,
                         rejected, unseen, owed, detached, up>>
          /\ act' = [act EXCEPT ![a] = w]
          /\ launched' = [on |-> TRUE, ready |-> FALSE, cfg |-> preset]
          BY <1>2, <2>3 DEF StartLaunch
    <3>3. RegistryTypeOK' BY <3>1, <1>t DEF RegistryTypeOK
    <3>4. (act \in [Actors -> Acts])' BY <3>1, <1>t DEF Acts
    <3>5. Down' BY <2>1, <3>1 DEF Down
    <3>6. SavedUnlessRejected' /\ RestoredIsHeld'
      <4>1. \A id : ~Writes(act[a], id) BY <2>1 DEF Writes
      <4>2. SavedUnlessRejected' BY <2>1, <3>1, <4>1, StillSaved DEF Registered
      <4> QED BY <3>1, <4>2, <1>t DEF RestoredIsHeld
    <3>7. ProjectorIsAttached'
          BY <2>1, <3>1, StillAttached DEF Settles, Registered
    <3>8. Marked' BY <3>1, <1>t DEF Marked
    <3>9. Holders'
      <4>1. ~Uses(act[a]) BY <2>1 DEF Uses
      <4>2. HeldOn(a, w) /\ IsPartial(held', Actors)
            BY <3>1, <4>1, <1>t, NoneHeld DEF HeldOn, RegistryTypeOK
      <4> QED BY <3>1, <4>2, StillHeld
    <3> QED BY <3>3, <3>4, <3>5, <3>6, <3>7, <3>8, <3>9 DEF RegistryInv
  <2> QED BY <2>2, <2>3
<1>3. CASE StartSnapshot(a)
  <2>1. act[a].pc = "snapshot" /\ up
        BY <1>3, Awake DEF StartSnapshot
  <2> DEFINE w == [pc |-> "idle"]
  <2>2. /\ UNCHANGED <<config, pending, file, held, preset, launched, disk, projector,
                       rejected, owed, detached, up>>
        /\ act' = [act EXCEPT ![a] = w]
        /\ dirty' = {} /\ unseen' = Stale
        BY <1>3 DEF StartSnapshot
  <2>3. RegistryTypeOK'
    <3>1. Stale \in SUBSET Ids BY <1>t DEF RegistryTypeOK, IsPartial, Stale, Registered
    <3> QED BY <2>2, <3>1, <1>t DEF RegistryTypeOK
  <2>4. (act \in [Actors -> Acts])' BY <2>2, <1>t DEF Acts
  <2>5. Down' BY <2>1, <2>2 DEF Down
  <2>6. SavedUnlessRejected' /\ RestoredIsHeld'
    <3>1. \A id : ~Writes(act[a], id) BY <2>1 DEF Writes
    <3>2. SavedUnlessRejected' BY <2>1, <2>2, <3>1, StillSaved DEF Registered
    <3> QED BY <2>2, <3>2, <1>t DEF RestoredIsHeld
  <2>7. ProjectorIsAttached'
        BY <2>1, <2>2, StillAttached DEF Settles, Registered
  <2>8. Marked'
    <3>1. Stale' = Stale BY <2>2 DEF Stale, Registered
    <3> QED BY <2>2, <3>1 DEF Marked
  <2>9. Holders'
    <3>1. ~Uses(act[a]) BY <2>1 DEF Uses
    <3>2. HeldOn(a, w) /\ IsPartial(held', Actors)
          BY <2>2, <3>1, <1>t, NoneHeld DEF HeldOn, RegistryTypeOK
    <3> QED BY <2>2, <3>2, StillHeld
  <2> QED BY <2>3, <2>4, <2>5, <2>6, <2>7, <2>8, <2>9 DEF RegistryInv
<1> QED BY <1>1, <1>2, <1>3

LEMMA StopStep ==
    ASSUME RegistryInv, Stop \/ BecomeReady
    PROVE  RegistryInv'
<1>t. RegistryTypeOK /\ SavedUnlessRejected /\ RestoredIsHeld BY DEF RegistryInv
<1>1. UNCHANGED <<up, config, pending, file, held, preset, disk, projector, act, rejected,
                  unseen, owed, detached, dirty>>
      BY DEF Stop, BecomeReady, regVars, diskVars, histVars
<1>2. \/ launched' = Off
      \/ /\ launched.on /\ launched' = [on |-> TRUE, ready |-> TRUE, cfg |-> launched.cfg]
      BY DEF Stop, BecomeReady
<1>3. /\ launched'.on \in BOOLEAN /\ launched'.ready \in BOOLEAN /\ IsPartial(launched'.cfg, Ids)
      /\ launched'.on => launched.on /\ launched'.cfg = launched.cfg
  <2>1. CASE launched' = Off BY <2>1, NonePartial DEF Off, None
  <2>2. CASE launched.on /\ launched' = [on |-> TRUE, ready |-> TRUE, cfg |-> launched.cfg]
    <3>2. launched'.on = launched.on /\ launched'.ready = TRUE /\ launched'.cfg = launched.cfg
          BY <2>2
    <3> QED BY <1>t, <2>2, <3>2 DEF RegistryTypeOK
  <2> QED BY <1>2, <2>1, <2>2
<1>4. RegistryTypeOK' BY <1>1, <1>3, <1>t DEF RegistryTypeOK
<1>5. (act \in [Actors -> Acts])' BY <1>1 DEF RegistryInv
<1>6. Down' BY <1>1, <1>3 DEF RegistryInv, Down
<1>7. SavedUnlessRejected' /\ RestoredIsHeld'
      BY <1>1, <1>t DEF SavedUnlessRejected, RestoredIsHeld, Registered, Writing, At
<1>8. ProjectorIsAttached'
      BY <1>1 DEF RegistryInv, ProjectorIsAttached, Settling, At, Registered
<1>9. Marked'
      BY <1>1, <1>3 DEF RegistryInv, Marked, Stale, ToBeMarked, Marking, At, Registered
<1>10. Holders' BY <1>1 DEF RegistryInv, Holders
<1> QED BY <1>4, <1>5, <1>6, <1>7, <1>8, <1>9, <1>10 DEF RegistryInv

(* Steps that change the registry: what each has to show.                  *)
LEMMA Changes ==
    ASSUME RegistryInv, up, up' = up, NEW a \in Actors, NEW w \in Acts,
           act' = [act EXCEPT ![a] = w], act[a].pc # "snapshot",
           UNCHANGED <<preset, launched, projector>>, disk' \in SUBSET Files,
           IsPartial(config', Ids), IsPartial(pending', Idents), IsPartial(owed', Idents),
           IsPartial(held', Actors), HeldOn(a, w), detached' \in SUBSET Ids,
           \/ file' = [config |-> config', pending |-> pending'] /\ rejected' = {}
           \/ UNCHANGED <<file, pending>> /\ rejected' \in SUBSET Ids /\ SavedUnlessRejected',
           dirty \subseteq dirty', dirty' \in SUBSET Ids,
           unseen \subseteq unseen', unseen' \in SUBSET Ids,
           \A i \in DOMAIN owed' : i \in DOMAIN pending' /\ pending'[i] = owed'[i],
           \A id \in Registered' : projector =>
               \/ config'[id].mm
               \/ Settles(w, id)
               \/ id \in detached'
               \/ /\ id \in Registered /\ (config[id].mm => config'[id].mm)
                  /\ Settles(act[a], id) => Settles(w, id)
                  /\ id \notin detached,
           \A id \in Registered' : launched.on =>
               \/ id \in dirty' \cup unseen'
               \/ Marks(w, id)
               \/ Edits(w, id) /\ a \notin DOMAIN held'
               \/ /\ id \in Registered /\ ~Differs(config'[id], config[id])
                  /\ ~Marks(act[a], id) /\ (Edits(act[a], id) => a \in DOMAIN held)
                  /\ \A b \in DOMAIN held' : b \in DOMAIN held \/ act[b].id # id
    PROVE  RegistryInv'
<1>1. RegistryTypeOK'
  <2>1. /\ IsPartial(file'.config, Ids) /\ IsPartial(file'.pending, Idents)
        /\ rejected' \in SUBSET Ids
        BY SaveSaves DEF RegistryInv, RegistryTypeOK
  <2> QED BY <2>1 DEF RegistryInv, RegistryTypeOK
<1>2. (act \in [Actors -> Acts])' BY DEF RegistryInv
<1>3. Down' BY DEF Down
<1>4. SavedUnlessRejected' BY SaveSaves
<1>5. RestoredIsHeld' BY DEF RestoredIsHeld
<1>6. ProjectorIsAttached' BY StillAttached
<1>7. Marked' BY StillMarked
<1>8. Holders' BY StillHeld
<1> QED BY <1>1, <1>2, <1>3, <1>4, <1>5, <1>6, <1>7, <1>8 DEF RegistryInv

(* One config is replaced by another.                                      *)
LEMMA Rewritten ==
    ASSUME IsPartial(config, Ids), NEW id \in Registered, NEW c \in Config,
           config' = [config EXCEPT ![id] = c]
    PROVE  /\ IsPartial(config', Ids) /\ Registered' = Registered
           /\ config'[id] = c /\ \A x \in Registered \ {id} : config'[x] = config[x]
<1>1. IsPartial([config EXCEPT ![id] = c], Ids)
      BY ExceptPartial DEF Registered
<1> QED BY <1>1 DEF Registered, IsPartial

(* Edits, toggles, removals and deletions.                                 *)
LEMMA EditStep ==
    ASSUME RegistryInv, NEW a \in Actors, NEW id \in Ids,
           \/ \E mm \in {FALSE, projector} : Edit(a, id, mm)
           \/ \E b \in BOOLEAN : Enable(a, id, b)
           \/ Remove(a, id) \/ Delete(a, id)
    PROVE  RegistryInv'
<1> USE DEF Begin, Idle, regVars, launchVars, diskVars, histVars, SaveAll, Save
<1>t. /\ RegistryTypeOK /\ SavedUnlessRejected /\ act \in [Actors -> Acts]
      /\ IsPartial(config, Ids) /\ IsPartial(pending, Idents) /\ IsPartial(owed, Idents)
      /\ IsPartial(held, Actors) /\ detached \in SUBSET Ids
      /\ dirty \in SUBSET Ids /\ unseen \in SUBSET Ids /\ rejected \in SUBSET Ids
      /\ disk \in SUBSET Files /\ projector \in BOOLEAN
      BY DEF RegistryInv, RegistryTypeOK
<1>h. up => \A i \in DOMAIN owed : i \in DOMAIN pending /\ pending[i] = owed[i]
      BY DEF RegistryInv, RestoredIsHeld
<1>c. \A x \in Registered : config[x] \in Config
      BY <1>t DEF IsPartial, Registered
<1>1. CASE \E mm \in {FALSE, projector} : Edit(a, id, mm)
  <2> PICK mm \in {FALSE, projector} : Edit(a, id, mm) BY <1>1
  <2> DEFINE w == [pc |-> "save", id |-> id, by |-> "edit"]
             c == [config[id] EXCEPT !.v = "edited", !.mm = mm]
  <2>1. /\ id \in Registered /\ act[a] = [pc |-> "idle"] /\ up /\ up' = up
        /\ config' = [config EXCEPT ![id] = c]
        /\ act' = [act EXCEPT ![a] = w]
        /\ UNCHANGED <<pending, file, held, preset, launched, dirty, disk, projector,
                       rejected, unseen, owed>>
        /\ Projects(id, mm)
        BY DEF Edit
  <2>c. c \in Config /\ c.mm = mm BY <1>t, <1>c, <2>1 DEF Config, Values
  <2>w. w \in Acts /\ Edits(w, id) /\ Writes(w, id) BY DEF Acts, Edits, Writes
  <2>a. \A x \in Registered : /\ ~Settles(act[a], x) /\ ~Marks(act[a], x)
                             /\ ~Writes(act[a], x) /\ ~Edits(act[a], x)
        BY <2>1 DEF Settles, Marks, Writes, Edits
  <2> HIDE DEF w, c
  <2>2. /\ IsPartial(config', Ids) /\ Registered' = Registered
        /\ config'[id].mm = mm /\ \A x \in Registered \ {id} : config'[x] = config[x]
        BY <1>t, <2>1, <2>c, Rewritten
  <2>d. /\ detached' \in SUBSET Ids
        /\ \A x \in Registered \ {id} : x \in detached => x \in detached'
        /\ mm \/ id \in detached' \/ (~config[id].mm /\ id \notin detached)
        BY <1>t, <2>1 DEF Projects
  <2>3. \A x \in Registered' : projector =>
            \/ config'[x].mm
            \/ Settles(w, x)
            \/ x \in detached'
            \/ /\ x \in Registered /\ (config[x].mm => config'[x].mm)
               /\ Settles(act[a], x) => Settles(w, x)
               /\ x \notin detached
        BY <2>2, <2>a, <2>d
  <2>4. \A x \in Registered' : launched.on =>
            \/ x \in dirty' \cup unseen'
            \/ Marks(w, x)
            \/ Edits(w, x) /\ a \notin DOMAIN held'
            \/ /\ x \in Registered /\ ~Differs(config'[x], config[x])
               /\ ~Marks(act[a], x) /\ (Edits(act[a], x) => a \in DOMAIN held)
               /\ \A b \in DOMAIN held' : b \in DOMAIN held \/ act[b].id # x
    <3>1. held' = held /\ a \notin DOMAIN held BY <2>1, NoneHeld DEF Uses
    <3> QED BY <2>2, <2>w, <2>a, <3>1 DEF Differs
  <2>5. a \notin DOMAIN held /\ HeldOn(a, w)
        BY <2>1, NoneHeld DEF Uses, HeldOn
  <2>6. SavedUnlessRejected'
        BY <2>1, <2>2, <2>w, <2>a, <2>5, StillSaved
  <2>7. /\ act[a].pc # "snapshot" /\ disk' \in SUBSET Files
        /\ IsPartial(pending', Idents) /\ IsPartial(owed', Idents)
        /\ IsPartial(held', Actors) /\ detached' \in SUBSET Ids
        /\ dirty \subseteq dirty' /\ dirty' \in SUBSET Ids
        /\ unseen \subseteq unseen' /\ unseen' \in SUBSET Ids
        /\ \A i \in DOMAIN owed' : i \in DOMAIN pending' /\ pending'[i] = owed'[i]
        BY <1>t, <1>h, <2>1, <2>d
  <2> QED BY <1>t, <2>1, <2>2, <2>w, <2>3, <2>4, <2>5, <2>6, <2>7, Changes
<1>2. CASE \E b \in BOOLEAN : Enable(a, id, b)
  <2> PICK on \in BOOLEAN : Enable(a, id, on) BY <1>2
  <2> DEFINE w == [pc |-> "save", id |-> id, by |-> "toggle"]
             c == [config[id] EXCEPT !.on = on]
  <2>1. /\ id \in Registered /\ act[a] = [pc |-> "idle"] /\ up /\ up' = up
        /\ config' = [config EXCEPT ![id] = c]
        /\ act' = [act EXCEPT ![a] = w]
        /\ UNCHANGED <<pending, file, held, preset, launched, dirty, disk, projector,
                       rejected, unseen, owed, detached>>
        BY DEF Enable
  <2>c. c \in Config /\ c.mm = config[id].mm /\ c.v = config[id].v
        BY <1>t, <1>c, <2>1 DEF Config
  <2>w. w \in Acts /\ Writes(w, id) BY DEF Acts, Writes
  <2>a. \A x \in Registered : /\ ~Settles(act[a], x) /\ ~Marks(act[a], x)
                             /\ ~Writes(act[a], x) /\ ~Edits(act[a], x)
        BY <2>1 DEF Settles, Marks, Writes, Edits
  <2> HIDE DEF w, c
  <2>2. /\ IsPartial(config', Ids) /\ Registered' = Registered
        /\ config'[id] = c /\ \A x \in Registered \ {id} : config'[x] = config[x]
        BY <1>t, <2>1, <2>c, Rewritten
  <2>3. \A x \in Registered' : projector =>
            \/ config'[x].mm
            \/ Settles(w, x)
            \/ x \in detached'
            \/ /\ x \in Registered /\ (config[x].mm => config'[x].mm)
               /\ Settles(act[a], x) => Settles(w, x)
               /\ x \notin detached
        BY <2>1, <2>2, <2>c, <2>a
  <2>4. \A x \in Registered' : launched.on =>
            \/ x \in dirty' \cup unseen'
            \/ Marks(w, x)
            \/ Edits(w, x) /\ a \notin DOMAIN held'
            \/ /\ x \in Registered /\ ~Differs(config'[x], config[x])
               /\ ~Marks(act[a], x) /\ (Edits(act[a], x) => a \in DOMAIN held)
               /\ \A b \in DOMAIN held' : b \in DOMAIN held \/ act[b].id # x
    <3>1. held' = held BY <2>1
    <3> QED BY <2>2, <2>c, <2>a, <3>1 DEF Differs
  <2>5. a \notin DOMAIN held /\ HeldOn(a, w)
        BY <2>1, NoneHeld DEF Uses, HeldOn
  <2>6. SavedUnlessRejected'
        BY <2>1, <2>2, <2>w, <2>a, <2>5, StillSaved
  <2>7. /\ act[a].pc # "snapshot" /\ disk' \in SUBSET Files
        /\ IsPartial(pending', Idents) /\ IsPartial(owed', Idents)
        /\ IsPartial(held', Actors) /\ detached' \in SUBSET Ids
        /\ dirty \subseteq dirty' /\ dirty' \in SUBSET Ids
        /\ unseen \subseteq unseen' /\ unseen' \in SUBSET Ids
        /\ \A i \in DOMAIN owed' : i \in DOMAIN pending' /\ pending'[i] = owed'[i]
        BY <1>t, <1>h, <2>1
  <2> QED BY <1>t, <2>1, <2>2, <2>w, <2>3, <2>4, <2>5, <2>6, <2>7, Changes
<1>3. CASE Remove(a, id) \/ Delete(a, id)
  <2> DEFINE w == [pc |-> "read", id |-> id, mark |-> FALSE]
  <2>1. /\ act[a] = [pc |-> "idle"] /\ up /\ up' = up
        /\ config' = Without(config, {id})
        /\ act' = [act EXCEPT ![a] = w]
        /\ UNCHANGED <<pending, preset, launched, dirty, projector, owed, unseen, detached>>
        /\ file' = [config |-> config', pending |-> pending'] /\ rejected' = {}
        /\ disk' \in SUBSET Files
        /\ Replace(a, {id})
        BY <1>3, <1>t DEF Remove, Delete, Unregister
  <2>2. /\ IsPartial(config', Ids) /\ Registered' \subseteq Registered
        /\ \A x \in Registered' : config'[x] = config[x]
    <3>1. IsPartial(config', Ids) BY <1>t, <2>1, WithoutPartial
    <3> QED BY <2>1, <3>1 DEF Without, Restrict, Registered
  <2>w. w \in Acts BY DEF Acts
  <2>a. \A x \in Registered : ~Settles(act[a], x) /\ ~Marks(act[a], x) /\ ~Edits(act[a], x)
        BY <2>1 DEF Settles, Marks, Writes, Edits
  <2> HIDE DEF w
  <2>3. \A x \in Registered' : projector =>
            \/ config'[x].mm
            \/ Settles(w, x)
            \/ x \in detached'
            \/ /\ x \in Registered /\ (config[x].mm => config'[x].mm)
               /\ Settles(act[a], x) => Settles(w, x)
               /\ x \notin detached
        BY <2>1, <2>2, <2>a
  <2>4. \A x \in Registered' : launched.on =>
            \/ x \in dirty' \cup unseen'
            \/ Marks(w, x)
            \/ Edits(w, x) /\ a \notin DOMAIN held'
            \/ /\ x \in Registered /\ ~Differs(config'[x], config[x])
               /\ ~Marks(act[a], x) /\ (Edits(act[a], x) => a \in DOMAIN held)
               /\ \A b \in DOMAIN held' : b \in DOMAIN held \/ act[b].id # x
    <3>1. \A b \in DOMAIN held' : b \in DOMAIN held \/ act[b].id = id
          BY <1>t, <2>1, Replaced
    <3>2. id \notin Registered' BY <2>1 DEF Without, Restrict, Registered
    <3> QED BY <2>2, <2>a, <3>1, <3>2 DEF Differs
  <2>5. IsPartial(held', Actors) /\ HeldOn(a, w)
        BY <1>t, <2>1, Replaced DEF HeldOn
  <2>6. /\ act[a].pc # "snapshot" /\ disk' \in SUBSET Files
        /\ IsPartial(pending', Idents) /\ IsPartial(owed', Idents)
        /\ IsPartial(held', Actors) /\ detached' \in SUBSET Ids
        /\ dirty \subseteq dirty' /\ dirty' \in SUBSET Ids
        /\ unseen \subseteq unseen' /\ unseen' \in SUBSET Ids
        /\ \A i \in DOMAIN owed' : i \in DOMAIN pending' /\ pending'[i] = owed'[i]
        BY <1>t, <1>h, <2>1, <2>5
  <2> QED BY <1>t, <2>1, <2>2, <2>w, <2>3, <2>4, <2>5, <2>6, Changes
<1> QED BY <1>1, <1>2, <1>3

(* SetConfig with what a handler holds, or its refusal.                    *)
LEMMA SaveStep ==
    ASSUME RegistryInv, NEW a \in Actors, SetConfig(a) \/ Refuse(a)
    PROVE  RegistryInv'
<1> USE DEF Go, Idle, regVars, launchVars, diskVars, histVars, SaveAll, Save
<1> DEFINE id == act[a].id
           old == a \in DOMAIN held
<1>t. /\ RegistryTypeOK /\ SavedUnlessRejected /\ act \in [Actors -> Acts]
      /\ IsPartial(config, Ids) /\ IsPartial(pending, Idents) /\ IsPartial(owed, Idents)
      /\ IsPartial(held, Actors) /\ detached \in SUBSET Ids
      /\ dirty \in SUBSET Ids /\ unseen \in SUBSET Ids /\ rejected \in SUBSET Ids
      /\ disk \in SUBSET Files /\ projector \in BOOLEAN
      BY DEF RegistryInv, RegistryTypeOK
<1>h. up => \A i \in DOMAIN owed : i \in DOMAIN pending /\ pending[i] = owed[i]
      BY DEF RegistryInv, RestoredIsHeld
<1>c. \A x \in Registered : config[x] \in Config
      BY <1>t DEF IsPartial, Registered
<1>1. act[a].pc = "save" /\ id \in Ids /\ act[a].by \in {"edit", "toggle", "attach"} /\ up
  <2>1. act[a].pc = "save" BY DEF SetConfig, Refuse, At
  <2> QED BY <2>1, <1>t, ActFields, Awake
<1>a. \A x : /\ ~Settles(act[a], x)
             /\ ~Marks(act[a], x)
             /\ Writes(act[a], x) <=> x = id
             /\ Edits(act[a], x) <=> act[a].by = "edit" /\ x = id
      BY <1>1 DEF Settles, Marks, Writes, Edits
<1>2. CASE SetConfig(a)
  <2> DEFINE c == Stored(a)
             w == IF act[a].by = "attach" THEN [pc |-> "idle"]
                  ELSE [pc |-> "read", id |-> id, mark |-> (act[a].by = "edit")]
  <2>1. /\ id \in Registered /\ up' = up
        /\ config' = [config EXCEPT ![id] = c]
        /\ file' = [config |-> config', pending |-> pending'] /\ rejected' = {}
        /\ Replace(a, IF old THEN {id} ELSE {})
        /\ Projects(id, c.mm)
        /\ unseen' = IF old /\ act[a].by # "edit" THEN unseen \union {id} ELSE unseen
        /\ act' = [act EXCEPT ![a] = w]
        /\ UNCHANGED <<pending, preset, launched, dirty, disk, projector, owed>>
        BY <1>2 DEF SetConfig
  <2>c. c \in Config /\ (~old => c = config[id])
        BY <1>t, <1>c, <2>1 DEF Stored, IsPartial
  <2>w. w \in Acts /\ (act[a].by = "edit" => Marks(w, id))
        BY <1>1 DEF Acts, Marks
  <2> HIDE DEF w, c
  <2>2. /\ IsPartial(config', Ids) /\ Registered' = Registered
        /\ config'[id] = c /\ \A x \in Registered \ {id} : config'[x] = config[x]
        BY <1>t, <2>1, <2>c, Rewritten
  <2>d. /\ detached' \in SUBSET Ids
        /\ \A x \in Registered \ {id} : x \in detached => x \in detached'
        /\ c.mm \/ id \in detached' \/ (~config[id].mm /\ id \notin detached)
        BY <1>t, <1>1, <2>1 DEF Projects
  <2>3. \A x \in Registered' : projector =>
            \/ config'[x].mm
            \/ Settles(w, x)
            \/ x \in detached'
            \/ /\ x \in Registered /\ (config[x].mm => config'[x].mm)
               /\ Settles(act[a], x) => Settles(w, x)
               /\ x \notin detached
        BY <2>2, <1>a, <2>d
  <2>4. \A x \in Registered' : launched.on =>
            \/ x \in dirty' \cup unseen'
            \/ Marks(w, x)
            \/ Edits(w, x) /\ a \notin DOMAIN held'
            \/ /\ x \in Registered /\ ~Differs(config'[x], config[x])
               /\ ~Marks(act[a], x) /\ (Edits(act[a], x) => a \in DOMAIN held)
               /\ \A b \in DOMAIN held' : b \in DOMAIN held \/ act[b].id # x
    <3>1. \A b \in DOMAIN held' : b \in DOMAIN held \/ (old /\ act[b].id = id)
      <4>1. CASE old
        <5>1. Replace(a, {id}) BY <2>1, <4>1
        <5> HIDE DEF id
        <5> QED BY <1>t, <4>1, <5>1, Replaced
      <4>2. CASE ~old
        <5>1. Replace(a, {}) BY <2>1, <4>2
        <5> HIDE DEF id
        <5> QED BY <1>t, <5>1, Replaced
      <4> QED BY <4>1, <4>2
    <3>2. \A x \in Registered \ {id} : ~Differs(config'[x], config[x]) /\ ~Edits(act[a], x)
          BY <2>2, <1>a DEF Differs
    <3>3. \/ id \in dirty' \cup unseen' \/ Marks(w, id)
          \/ ~old /\ act[a].by # "edit" /\ ~Differs(config'[id], config[id])
      <4>1. CASE act[a].by = "edit" BY <2>w, <4>1
      <4>2. CASE act[a].by # "edit" /\ old BY <2>1, <4>2
      <4>3. CASE act[a].by # "edit" /\ ~old BY <2>2, <2>c, <4>3 DEF Differs
      <4> QED BY <4>1, <4>2, <4>3
    <3> QED BY <2>2, <1>a, <3>1, <3>2, <3>3
  <2>5. IsPartial(held', Actors) /\ HeldOn(a, w)
        BY <1>t, <2>1, Replaced DEF HeldOn
  <2>6. /\ act[a].pc # "snapshot" /\ disk' \in SUBSET Files
        /\ IsPartial(pending', Idents) /\ IsPartial(owed', Idents)
        /\ IsPartial(held', Actors) /\ detached' \in SUBSET Ids
        /\ dirty \subseteq dirty' /\ dirty' \in SUBSET Ids
        /\ unseen \subseteq unseen' /\ unseen' \in SUBSET Ids
        /\ \A i \in DOMAIN owed' : i \in DOMAIN pending' /\ pending'[i] = owed'[i]
        BY <1>t, <1>h, <1>1, <2>1, <2>5, <2>d
  <2>7. /\ file' = [config |-> config', pending |-> pending'] /\ rejected' = {}
        /\ UNCHANGED <<preset, launched, projector>>
        /\ up /\ up' = up /\ act' = [act EXCEPT ![a] = w]
        BY <1>1, <2>1
  <2> HIDE DEF id, old
  <2> QED BY <2>2, <2>w, <2>3, <2>4, <2>5, <2>6, <2>7, Changes
<1>3. CASE Refuse(a)
  <2> DEFINE w == [pc |-> "idle"]
             changed == IF old THEN {} ELSE {id}
  <2>1. /\ up' = up /\ act' = [act EXCEPT ![a] = w]
        /\ rejected' = rejected \union changed /\ unseen' = unseen \union changed
        /\ act[a].by = "edit" \/ id \notin Registered
        /\ Replace(a, {})
        /\ UNCHANGED <<config, pending, file, preset, launched, dirty, disk, projector,
                       owed, detached>>
        BY <1>3 DEF Refuse
  <2>w. w \in Acts BY DEF Acts
  <2>c. changed \subseteq Ids /\ (id \in changed \/ old) BY <1>1
  <2> HIDE DEF w, changed
  <2>2. /\ IsPartial(config', Ids) /\ Registered' = Registered
        BY <1>t, <2>1 DEF Registered
  <2>3. \A x \in Registered' : projector =>
            \/ config'[x].mm
            \/ Settles(w, x)
            \/ x \in detached'
            \/ /\ x \in Registered /\ (config[x].mm => config'[x].mm)
               /\ Settles(act[a], x) => Settles(w, x)
               /\ x \notin detached
        BY <2>1, <2>2, <1>a
  <2>5. /\ IsPartial(held', Actors) /\ HeldOn(a, w)
        /\ DOMAIN held' \subseteq DOMAIN held
        BY <1>t, <2>1, Replaced DEF HeldOn
  <2>6. SavedUnlessRejected'
        BY <1>1, <1>a, <2>1, <2>2, <2>c, <2>5, StillSaved
  <2>7. /\ act[a].pc # "snapshot" /\ disk' \in SUBSET Files
        /\ IsPartial(pending', Idents) /\ IsPartial(owed', Idents)
        /\ IsPartial(held', Actors) /\ detached' \in SUBSET Ids
        /\ dirty \subseteq dirty' /\ dirty' \in SUBSET Ids
        /\ unseen \subseteq unseen' /\ unseen' \in SUBSET Ids
        /\ \A i \in DOMAIN owed' : i \in DOMAIN pending' /\ pending'[i] = owed'[i]
        BY <1>t, <1>h, <1>1, <2>1, <2>5, <2>c
  <2>8. rejected' \in SUBSET Ids BY <1>t, <2>1, <2>c
  <2>4. \A x \in Registered' : launched.on =>
            \/ x \in dirty' \cup unseen'
            \/ Marks(w, x)
            \/ Edits(w, x) /\ a \notin DOMAIN held'
            \/ /\ x \in Registered /\ ~Differs(config'[x], config[x])
               /\ ~Marks(act[a], x) /\ (Edits(act[a], x) => a \in DOMAIN held)
               /\ \A b \in DOMAIN held' : b \in DOMAIN held \/ act[b].id # x
    <3>1. \A x : ~Differs(config'[x], config[x]) BY <2>1 DEF Differs
    <3> QED BY <2>1, <2>2, <2>c, <2>5, <1>a, <3>1
  <2> QED BY <1>t, <1>1, <2>1, <2>2, <2>w, <2>3, <2>4, <2>5, <2>6, <2>7, <2>8, Changes
<1> QED BY <1>2, <1>3

(* A page migrates a config in memory.                                     *)
LEMMA MigrateStep ==
    ASSUME RegistryInv, NEW id \in Ids, Migrate(id)
    PROVE  RegistryInv'
<1> USE DEF launchVars, diskVars
<1>t. /\ RegistryTypeOK /\ SavedUnlessRejected /\ act \in [Actors -> Acts]
      /\ IsPartial(config, Ids) /\ IsPartial(pending, Idents) /\ IsPartial(owed, Idents)
      /\ IsPartial(held, Actors) /\ detached \in SUBSET Ids
      /\ dirty \in SUBSET Ids /\ unseen \in SUBSET Ids /\ rejected \in SUBSET Ids
      /\ disk \in SUBSET Files /\ projector \in BOOLEAN
      BY DEF RegistryInv, RegistryTypeOK
<1>h. up => \A i \in DOMAIN owed : i \in DOMAIN pending /\ pending[i] = owed[i]
      BY DEF RegistryInv, RestoredIsHeld
<1>c. \A x \in Registered : config[x] \in Config
      BY <1>t DEF IsPartial, Registered
<1>1. /\ id \in Registered /\ config' = [config EXCEPT ![id] = Migrated(config[id])]
      /\ unseen' = unseen \union {id}
      /\ UNCHANGED <<up, pending, file, held, preset, launched, dirty, disk, projector, act,
                     rejected, owed, detached>>
      BY DEF Migrate
<1>2. /\ Migrated(config[id]) \in Config /\ Migrated(config[id]).mm = config[id].mm
      BY <1>1, <1>c, MigratedConfig
<1>3. /\ IsPartial(config', Ids) /\ Registered' = Registered
      /\ config'[id] = Migrated(config[id])
      /\ \A x \in Registered \ {id} : config'[x] = config[x]
      BY <1>t, <1>1, <1>2, Rewritten
<1>4. RegistryTypeOK' BY <1>t, <1>1, <1>3 DEF RegistryTypeOK
<1>5. (act \in [Actors -> Acts])' /\ Down' /\ Holders' /\ RestoredIsHeld'
      BY <1>1 DEF RegistryInv, Down, Holders, RestoredIsHeld
<1>6. SavedUnlessRejected'
  <2> SUFFICES ASSUME up PROVE SavedUnlessRejected' BY <1>1 DEF SavedUnlessRejected
  <2>1. file.pending = pending /\ DOMAIN file.config = Registered
        BY <1>t DEF SavedUnlessRejected
  <2>2. ASSUME NEW x \in Registered, x \notin rejected, ~Writing(x)
        PROVE  config'[x] \in {file.config[x], Migrated(file.config[x])}
    <3>1. config[x] \in {file.config[x], Migrated(file.config[x])}
          BY <1>t, <2>2 DEF SavedUnlessRejected
    <3>2. file.config[x] \in Config BY <1>t, <2>1 DEF RegistryTypeOK, IsPartial
    <3>3. Migrated(Migrated(file.config[x])) = Migrated(file.config[x])
          BY <3>2, MigratedConfig
    <3> QED BY <1>3, <3>1, <3>3
  <2>3. \A x : Writing(x)' <=> Writing(x) BY <1>1 DEF Writing, At
  <2> QED BY <1>1, <1>3, <2>1, <2>2, <2>3 DEF SavedUnlessRejected
<1>7. ProjectorIsAttached'
  <2>1. \A x \in Registered : config'[x].mm = config[x].mm BY <1>2, <1>3
  <2> QED BY <1>1, <1>3, <2>1 DEF RegistryInv, ProjectorIsAttached, Settling, At
<1>8. Marked'
  <2>1. \A x \in Stale' : x = id \/ x \in Stale BY <1>1, <1>3 DEF Stale
  <2>2. \A x : ToBeMarked(x)' <=> ToBeMarked(x) BY <1>1 DEF ToBeMarked, Marking, At
  <2>3. up' = up /\ launched' = launched /\ dirty' = dirty /\ act' = act BY <1>1
  <2> QED BY <1>1, <2>1, <2>2, <2>3 DEF RegistryInv, Marked, At
<1> QED BY <1>4, <1>5, <1>6, <1>7, <1>8 DEF RegistryInv

(* A scan and a finished download register models.                         *)
LEMMA AddStep ==
    ASSUME RegistryInv, NEW a \in Actors, ScanAdd(a) \/ Register(a)
    PROVE  RegistryInv'
<1> USE DEF Go, At, diskVars, launchVars
<1>t. /\ RegistryTypeOK /\ act \in [Actors -> Acts] /\ act[a] \in Acts
      /\ detached \in SUBSET Ids
      BY DEF RegistryInv, RegistryTypeOK
<1>1. ASSUME NEW f \in Files, NEW w \in Acts, Add(IdOf[f]), up, up' = up,
             act' = [act EXCEPT ![a] = w], act[a].pc \in {"scan", "register"},
             Replace(a, {id \in {IdOf[f]} : Claims(id)}),
             Settles(w, IdOf[f]),
             \A id \in Registered : Settles(act[a], id) => Settles(w, id),
             UNCHANGED <<preset, launched, dirty, disk, projector, detached>>
      PROVE  RegistryInv'
  <2> DEFINE new == IdOf[f]
             S == {id \in {IdOf[f]} : Claims(id)}
  <2>1. new \in Ids BY RegistryAssumption
  <2>r. Replace(a, S) /\ \A id \in S : id = new BY <1>1
  <2> HIDE DEF S
  <2>h. /\ IsPartial(held', Actors) /\ a \notin DOMAIN held'
        /\ \A b \in DOMAIN held' : b \in DOMAIN held \/ (Uses(act[b]) /\ act[b].id = new)
    <3> HIDE DEF new
    <3> QED BY <1>t, <2>r, Replaced
  <2> HIDE DEF new
  <2>2. /\ IsPartial(config', Ids) /\ DOMAIN config' = Registered \cup {new}
        /\ \A x \in Registered \ {new} : config'[x] = config[x]
        /\ IsPartial(pending', Idents)
        /\ DOMAIN pending' = DOMAIN pending \ {IdentOf[new]}
        /\ \A i \in DOMAIN pending' : pending'[i] = pending[i]
        /\ IsPartial(owed', Idents)
        /\ DOMAIN owed' = DOMAIN owed \ ({IdentOf[new]} \cap DOMAIN pending)
        /\ \A i \in DOMAIN owed' : owed'[i] = owed[i]
        /\ file' = [config |-> config', pending |-> pending']
        /\ rejected' = {} /\ unseen' = unseen \cup {new}
        BY <1>t, <1>1, <2>1, AddEffect DEF new
  <2>3. \A i \in DOMAIN owed' : i \in DOMAIN pending' /\ pending'[i] = owed'[i]
    <3>1. \A i \in DOMAIN owed : i \in DOMAIN pending /\ pending[i] = owed[i]
          BY <1>1 DEF RegistryInv, RestoredIsHeld
    <3> QED BY <2>2, <3>1
  <2>4. /\ disk' \in SUBSET Files /\ dirty \subseteq dirty' /\ dirty' \in SUBSET Ids
        /\ unseen \subseteq unseen' /\ unseen' \in SUBSET Ids /\ detached' \in SUBSET Ids
        BY <1>t, <1>1, <2>1, <2>2 DEF RegistryTypeOK
  <2>5. \A x \in Registered' : x = new \/ (x \in Registered /\ config'[x] = config[x])
        BY <2>2 DEF Registered
  <2>6. Settles(w, new) /\ \A x : ~Marks(act[a], x) /\ ~Edits(act[a], x)
        BY <1>1 DEF new, Marks, Edits, Writes
  <2>7. \A x \in Registered' : projector =>
            \/ config'[x].mm
            \/ Settles(w, x)
            \/ x \in detached'
            \/ /\ x \in Registered /\ (config[x].mm => config'[x].mm)
               /\ Settles(act[a], x) => Settles(w, x)
               /\ x \notin detached
        BY <1>1, <2>5, <2>6
  <2>8. \A x \in Registered' : launched.on =>
            \/ x \in dirty' \cup unseen'
            \/ Marks(w, x)
            \/ Edits(w, x) /\ a \notin DOMAIN held'
            \/ /\ x \in Registered /\ ~Differs(config'[x], config[x])
               /\ ~Marks(act[a], x) /\ (Edits(act[a], x) => a \in DOMAIN held)
               /\ \A b \in DOMAIN held' : b \in DOMAIN held \/ act[b].id # x
        BY <2>2, <2>5, <2>6, <2>h DEF Differs
  <2>9. HeldOn(a, w) BY <2>h DEF HeldOn
  <2>10. act[a].pc # "snapshot" BY <1>1
  <2> QED BY <1>1, <2>2, <2>3, <2>4, <2>7, <2>8, <2>9, <2>10, <2>h, Changes
<1>2. CASE ScanAdd(a)
  <2>1. PICK f \in act[a].found :
            /\ Add(IdOf[f])
            /\ Replace(a, {id \in {IdOf[f]} : Claims(id)})
            /\ Go(a, [act[a] EXCEPT !.found = @ \ {f}, !.any = TRUE])
        BY <1>2 DEF ScanAdd
  <2>2. /\ act[a].pc = "scan" /\ up
        /\ act[a] \in [pc : {"scan"}, found : SUBSET Files, any : BOOLEAN]
        BY <1>2, <1>t, ActFields, Awake DEF ScanAdd
  <2> DEFINE w == [act[a] EXCEPT !.found = @ \ {f}, !.any = TRUE]
  <2>3. /\ w \in [pc : {"scan"}, found : SUBSET Files, any : BOOLEAN] /\ w.any
        /\ f \in Files
        BY <2>2
  <2>4. w \in Acts /\ \A id : Settles(w, id)
        BY <2>3 DEF Acts, Settles
  <2>5. act' = [act EXCEPT ![a] = w] /\ up' = up
        BY <2>1
  <2>6. UNCHANGED <<preset, launched, dirty, disk, projector, detached>>
        BY <1>2 DEF ScanAdd
  <2> HIDE DEF w
  <2> QED BY <1>1, <2>1, <2>2, <2>3, <2>4, <2>5, <2>6
<1>3. CASE Register(a)
  <2>1. act[a].pc = "register" /\ up /\ act[a].f \in Files
        BY <1>3, <1>t, ActFields, Awake DEF Register
  <2> DEFINE w == [pc |-> "attach", f |-> act[a].f]
  <2>2. w \in Acts /\ Settles(w, IdOf[act[a].f])
        BY <2>1 DEF Acts, Settles
  <2>3. \A id : ~Settles(act[a], id) BY <2>1 DEF Settles
  <2>4. /\ act' = [act EXCEPT ![a] = w] /\ up' = up
        /\ Add(IdOf[act[a].f]) /\ Replace(a, {id \in {IdOf[act[a].f]} : Claims(id)})
        /\ UNCHANGED <<preset, launched, dirty, disk, projector, detached>>
        BY <1>3 DEF Register
  <2> HIDE DEF w
  <2> QED BY <1>1, <2>1, <2>2, <2>3, <2>4
<1> QED BY <1>2, <1>3

(* Who looks for the projector finds it for the models it looks at.        *)
LEMMA ProjectorStep ==
    ASSUME RegistryInv, NEW a \in Actors, ScanDone(a) \/ Attach(a) \/ AutoDetect(a)
    PROVE  RegistryInv'
<1> USE DEF Go, At, Idle, regVars, launchVars, diskVars
<1>t. /\ RegistryTypeOK /\ act[a] \in Acts /\ projector \in BOOLEAN
      /\ IsPartial(config, Ids) /\ IsPartial(pending, Idents) /\ IsPartial(owed, Idents)
      /\ IsPartial(held, Actors) /\ detached \in SUBSET Ids /\ unseen \in SUBSET Ids
      /\ dirty \in SUBSET Ids /\ rejected \in SUBSET Ids /\ disk \in SUBSET Files
      /\ SavedUnlessRejected
      BY DEF RegistryInv, RegistryTypeOK
<1>1. /\ act[a].pc \in {"scan", "attach", "detect"} /\ up /\ up' = up
      /\ UNCHANGED <<held, preset, launched, dirty, disk, projector, owed, detached>>
  <2>1. act[a].pc \in {"scan", "attach", "detect"} /\ up' = up
        BY DEF ScanDone, Attach, AutoDetect
  <2>2. UNCHANGED <<held, preset, launched, dirty, disk, projector, owed, detached>>
        BY DEF ScanDone, Attach, AutoDetect
  <2> QED BY <2>1, <2>2, Awake
<1>3. /\ \A x : ~Marks(act[a], x) /\ ~Edits(act[a], x) /\ ~Writes(act[a], x)
      /\ a \notin DOMAIN held
      BY <1>1, NoneHeld DEF Marks, Edits, Writes, Uses
<1>h. \A i \in DOMAIN owed : i \in DOMAIN pending /\ pending[i] = owed[i]
      BY <1>1 DEF RegistryInv, RestoredIsHeld
<1>4. ASSUME NEW w \in Acts, act' = [act EXCEPT ![a] = w],
             pending' = pending, IsPartial(config', Ids), Registered' = Registered,
             unseen \subseteq unseen', unseen' \in SUBSET Ids,
             \A x \in Registered : /\ x \in unseen' \/ ~Differs(config'[x], config[x])
                                   /\ config[x].mm => config'[x].mm
                                   /\ projector /\ Settles(act[a], x) => config'[x].mm,
             \/ file' = [config |-> config', pending |-> pending'] /\ rejected' = {}
             \/ UNCHANGED <<file, rejected>> /\ SavedUnlessRejected'
      PROVE  RegistryInv'
  <2>1. HeldOn(a, w) BY <1>1, <1>3 DEF HeldOn
  <2>2. \A x \in Registered' : projector =>
            \/ config'[x].mm
            \/ Settles(w, x)
            \/ x \in detached'
            \/ /\ x \in Registered /\ (config[x].mm => config'[x].mm)
               /\ Settles(act[a], x) => Settles(w, x)
               /\ x \notin detached
        BY <1>1, <1>4
  <2>3. \A x \in Registered' : launched.on =>
            \/ x \in dirty' \cup unseen'
            \/ Marks(w, x)
            \/ Edits(w, x) /\ a \notin DOMAIN held'
            \/ /\ x \in Registered /\ ~Differs(config'[x], config[x])
               /\ ~Marks(act[a], x) /\ (Edits(act[a], x) => a \in DOMAIN held)
               /\ \A b \in DOMAIN held' : b \in DOMAIN held \/ act[b].id # x
        BY <1>1, <1>3, <1>4
  <2>4. /\ act[a].pc # "snapshot" /\ disk' \in SUBSET Files
        /\ IsPartial(pending', Idents) /\ IsPartial(owed', Idents)
        /\ IsPartial(held', Actors) /\ detached' \in SUBSET Ids
        /\ dirty \subseteq dirty' /\ dirty' \in SUBSET Ids
        /\ \A i \in DOMAIN owed' : i \in DOMAIN pending' /\ pending'[i] = owed'[i]
        BY <1>t, <1>h, <1>1, <1>4
  <2>5. \/ file' = [config |-> config', pending |-> pending'] /\ rejected' = {}
        \/ UNCHANGED <<file, pending>> /\ rejected' \in SUBSET Ids /\ SavedUnlessRejected'
        BY <1>t, <1>4
  <2> QED BY <1>1, <1>4, <2>1, <2>2, <2>3, <2>4, <2>5, Changes
<1>5. ASSUME AutoDetectMMProj, unseen' = unseen \union Projected,
             act' = [act EXCEPT ![a] = [pc |-> "idle"]]
      PROVE  RegistryInv'
  <2> DEFINE w == [pc |-> "idle"]
  <2>1. config' = Detected(config) /\ pending' = pending BY <1>5 DEF AutoDetectMMProj
  <2>2. /\ IsPartial(Detected(config), Ids) /\ DOMAIN Detected(config) = DOMAIN config
        /\ \A id \in DOMAIN config : /\ Detected(config)[id].v = config[id].v
                                     /\ Detected(config)[id].mm = (config[id].mm \/ projector)
        BY <1>t, DetectedPartial
  <2>3. /\ IsPartial(config', Ids) /\ Registered' = Registered
        /\ \A x \in Registered : /\ config'[x].v = config[x].v
                                 /\ config'[x].mm = (config[x].mm \/ projector)
        BY <2>1, <2>2 DEF Registered
  <2>4. /\ Projected \in SUBSET Ids
        /\ \A x \in Registered : x \in unseen' \/ ~Differs(config'[x], config[x])
        BY <1>t, <1>5, <2>3 DEF Projected, Differs, Registered, IsPartial
  <2>5. \/ file' = [config |-> config', pending |-> pending'] /\ rejected' = {}
        \/ UNCHANGED <<file, rejected>> /\ SavedUnlessRejected'
    <3>1. CASE config' # config BY <1>5, <3>1 DEF AutoDetectMMProj, SaveAll, Save
    <3>2. CASE config' = config
      <4>1. UNCHANGED <<file, rejected>> BY <1>5, <3>2 DEF AutoDetectMMProj
      <4>2. SavedUnlessRejected'
        <5>1. act' = [act EXCEPT ![a] = w] BY <1>5
        <5> HIDE DEF w
        <5> QED BY <1>1, <1>3, <2>1, <2>3, <3>2, <4>1, <5>1, StillSaved
      <4> QED BY <4>1, <4>2
    <3> QED BY <3>1, <3>2
  <2>6. w \in Acts BY DEF Acts
  <2>7. act' = [act EXCEPT ![a] = w] BY <1>5
  <2>8. unseen \subseteq unseen' /\ unseen' \in SUBSET Ids BY <1>t, <1>5, <2>4
  <2> HIDE DEF w
  <2> QED BY <1>4, <2>1, <2>3, <2>4, <2>5, <2>6, <2>7, <2>8
<1>6. CASE AutoDetect(a) BY <1>5, <1>6 DEF AutoDetect
<1>7. CASE ScanDone(a)
  <2>1. CASE act[a].any BY <1>5, <1>7, <2>1 DEF ScanDone
  <2>2. CASE ~act[a].any
    <3> DEFINE w == [pc |-> "idle"]
    <3>1. /\ act' = [act EXCEPT ![a] = w] /\ act[a].pc = "scan"
          /\ UNCHANGED <<config, pending, file, rejected>>
          BY <1>7, <2>2 DEF ScanDone
    <3>2. Projected = {} BY <3>1 DEF Projected
    <3>3. unseen' = unseen BY <1>7, <3>2 DEF ScanDone
    <3>4. /\ \A id : Settles(act[a], id) => Settles(w, id)
          /\ \A id : Marks(act[a], id) => Marks(w, id)
          BY <1>3, <2>2, <3>1 DEF Settles
    <3>5. w \in Acts BY DEF Acts
    <3>6. IsPartial(preset', Ids) BY <1>t, <1>1 DEF RegistryTypeOK
    <3> HIDE DEF w
    <3> QED BY <1>t, <1>1, <3>1, <3>3, <3>4, <3>5, <3>6, Aside
  <2> QED BY <2>1, <2>2
<1>8. CASE Attach(a)
  <2> DEFINE id == IdOf[act[a].f]
  <2>1. act[a].f \in Files /\ id \in Ids /\ act[a].pc = "attach"
        BY <1>t, <1>8, ActFields, RegistryAssumption DEF Attach
  <2>2. \A x : Settles(act[a], x) => x = id BY <2>1 DEF Settles
  <2>3. CASE ~(projector /\ id \in Registered /\ ~config[id].mm)
    <3> DEFINE w == [pc |-> "idle"]
    <3>1. /\ UNCHANGED <<config, pending, file, rejected, unseen>>
          /\ act' = [act EXCEPT ![a] = w]
          BY <1>8, <2>3 DEF Attach
    <3>2. w \in Acts BY DEF Acts
    <3> HIDE DEF w, id
    <3>3. Registered' = Registered /\ IsPartial(config', Ids) BY <1>t, <3>1 DEF Registered
    <3>4. SavedUnlessRejected'
          BY <1>1, <1>3, <3>1, <3>3, StillSaved
    <3>5. \A x \in Registered : /\ ~Differs(config'[x], config[x])
                                /\ config[x].mm => config'[x].mm
                                /\ projector /\ Settles(act[a], x) => config'[x].mm
          BY <2>2, <2>3, <3>1 DEF Differs
    <3>6. unseen \subseteq unseen' /\ unseen' \in SUBSET Ids BY <1>t, <3>1
    <3> QED BY <1>4, <3>1, <3>2, <3>3, <3>4, <3>5, <3>6
  <2>4. CASE projector /\ id \in Registered /\ ~config[id].mm
    <3> DEFINE c == [config[id] EXCEPT !.mm = TRUE]
               w == [pc |-> "save", id |-> id, by |-> "attach"]
    <3>1. /\ config' = [config EXCEPT ![id] = c]
          /\ UNCHANGED <<pending, file, rejected>> /\ unseen' = unseen \union {id}
          /\ act' = [act EXCEPT ![a] = w]
          BY <1>8, <2>4 DEF Attach
    <3>2. w \in Acts /\ Writes(w, id) BY <2>1 DEF Acts, Writes
    <3>c. c \in Config /\ c.mm /\ c.v = config[id].v
      <4>1. config[id] \in Config BY <1>t, <2>4 DEF IsPartial, Registered
      <4> QED BY <4>1 DEF Config
    <3> HIDE DEF c, w, id
    <3>3. /\ IsPartial(config', Ids) /\ Registered' = Registered
          /\ config'[id] = c /\ \A x \in Registered \ {id} : config'[x] = config[x]
          BY <1>t, <2>4, <3>1, <3>c, Rewritten
    <3>4. SavedUnlessRejected'
          BY <1>1, <1>3, <3>1, <3>2, <3>3, StillSaved
    <3>5. \A x \in Registered : /\ x \in unseen' \/ ~Differs(config'[x], config[x])
                                /\ config[x].mm => config'[x].mm
                                /\ projector /\ Settles(act[a], x) => config'[x].mm
          BY <2>2, <3>1, <3>c, <3>3 DEF Differs
    <3>6. unseen \subseteq unseen' /\ unseen' \in SUBSET Ids BY <1>t, <2>1, <3>1
    <3> QED BY <1>4, <3>1, <3>2, <3>3, <3>4, <3>5, <3>6
  <2> QED BY <2>3, <2>4
<1> QED BY <1>6, <1>7, <1>8

(* A restore applies a config or holds it, and the user discards a held one.*)
LEMMA RestoreStep ==
    ASSUME RegistryInv, NEW a \in Actors,
           RestoreHold(a) \/ RestoreApply(a) \/ \E i \in Idents : Discard(a, i)
    PROVE  RegistryInv'
<1> USE DEF Go, At, Begin, Idle, regVars, launchVars, diskVars, SaveAll, Save
<1>t. /\ RegistryTypeOK /\ act \in [Actors -> Acts] /\ act[a] \in Acts
      /\ projector \in BOOLEAN /\ disk \in SUBSET Files
      /\ IsPartial(config, Ids) /\ IsPartial(pending, Idents) /\ IsPartial(owed, Idents)
      /\ IsPartial(held, Actors) /\ detached \in SUBSET Ids
      /\ SavedUnlessRejected /\ dirty \in SUBSET Ids /\ unseen \in SUBSET Ids
      /\ rejected \in SUBSET Ids
      BY DEF RegistryInv, RegistryTypeOK
<1>u. /\ up /\ act[a].pc \in {"hold", "apply", "idle"} /\ a \notin DOMAIN held
      /\ \A x : /\ ~Marks(act[a], x) /\ ~Settles(act[a], x)
                /\ ~Edits(act[a], x) /\ ~Writes(act[a], x)
  <2>1. act[a].pc \in {"hold", "apply", "idle"} /\ up
    <3>1. CASE RestoreHold(a) BY <3>1, Awake DEF RestoreHold
    <3>2. CASE RestoreApply(a)
      <4>1. act[a].pc = "apply" BY <3>2 DEF RestoreApply
      <4> QED BY <4>1, Awake
    <3>3. CASE \E i \in Idents : Discard(a, i) BY <3>3 DEF Discard
    <3> QED BY <3>1, <3>2, <3>3
  <2>2. a \notin DOMAIN held BY <2>1, NoneHeld DEF Uses
  <2>3. \A x : /\ ~Marks(act[a], x) /\ ~Settles(act[a], x)
               /\ ~Edits(act[a], x) /\ ~Writes(act[a], x)
        BY <2>1 DEF Marks, Settles, Edits, Writes
  <2> QED BY <2>1, <2>2, <2>3
<1>h. \A i \in DOMAIN owed : i \in DOMAIN pending /\ pending[i] = owed[i]
      BY <1>u DEF RegistryInv, RestoredIsHeld
<1>1. ASSUME NEW w \in Acts, act' = [act EXCEPT ![a] = w], up' = up,
             UNCHANGED <<config, held, preset, launched, dirty, disk, projector, unseen,
                         detached>>,
             file' = [config |-> config', pending |-> pending'], rejected' = {},
             IsPartial(pending', Idents), IsPartial(owed', Idents),
             \A i \in DOMAIN owed' : i \in DOMAIN pending' /\ pending'[i] = owed'[i]
      PROVE  RegistryInv'
  <2>1. /\ \A x : ~Differs(config'[x], config[x]) /\ HeldOn(a, w)
        /\ act[a].pc # "snapshot"
        BY <1>1, <1>u DEF Differs, HeldOn
  <2>2. \A x \in Registered' : x \in Registered /\ config'[x] = config[x]
        BY <1>1 DEF Registered
  <2>3. \A x \in Registered' : projector =>
            \/ config'[x].mm
            \/ Settles(w, x)
            \/ x \in detached'
            \/ /\ x \in Registered /\ (config[x].mm => config'[x].mm)
               /\ Settles(act[a], x) => Settles(w, x)
               /\ x \notin detached
        BY <1>u, <1>1, <2>2
  <2>4. \A x \in Registered' : launched.on =>
            \/ x \in dirty' \cup unseen'
            \/ Marks(w, x)
            \/ Edits(w, x) /\ a \notin DOMAIN held'
            \/ /\ x \in Registered /\ ~Differs(config'[x], config[x])
               /\ ~Marks(act[a], x) /\ (Edits(act[a], x) => a \in DOMAIN held)
               /\ \A b \in DOMAIN held' : b \in DOMAIN held \/ act[b].id # x
        BY <1>u, <1>1, <2>1, <2>2
  <2>5. /\ disk' \in SUBSET Files /\ IsPartial(config', Ids)
        /\ IsPartial(held', Actors) /\ detached' \in SUBSET Ids
        /\ dirty \subseteq dirty' /\ dirty' \in SUBSET Ids
        /\ unseen \subseteq unseen' /\ unseen' \in SUBSET Ids
        BY <1>t, <1>1
  <2> QED BY <1>u, <1>1, <2>1, <2>3, <2>4, <2>5, Changes
<1>2. CASE RestoreHold(a)
  <2> DEFINE w == [pc |-> "idle"]
             c == Backup(act[a].mm)
  <2>1. act[a].i \in Idents /\ act[a].mm \in BOOLEAN
        BY <1>t, <1>2, ActFields DEF RestoreHold
  <2>2. /\ act' = [act EXCEPT ![a] = w] /\ up' = up
        /\ UNCHANGED <<config, held, preset, launched, dirty, disk, projector, unseen,
                       detached>>
        /\ file' = [config |-> config', pending |-> pending'] /\ rejected' = {}
        /\ pending' = With(pending, act[a].i, c)
        /\ owed' = With(owed, act[a].i, c)
        BY <1>2 DEF RestoreHold
  <2>3. w \in Acts BY DEF Acts
  <2>c. c \in Config BY <2>1, Constants
  <2> HIDE DEF w, c
  <2>4. IsPartial(pending', Idents) /\ IsPartial(owed', Idents)
        BY <1>t, <2>1, <2>2, <2>c, WithPartial
  <2>5. \A i \in DOMAIN owed' : i \in DOMAIN pending' /\ pending'[i] = owed'[i]
        BY <1>h, <2>2 DEF With
  <2> QED BY <1>1, <2>1, <2>2, <2>3, <2>4, <2>5
<1>3. CASE \E i \in Idents : Discard(a, i)
  <2> PICK i \in Idents : Discard(a, i) BY <1>3
  <2> DEFINE w == [pc |-> "idle"]
  <2>1. /\ act' = [act EXCEPT ![a] = w] /\ up' = up
        /\ UNCHANGED <<config, held, preset, launched, dirty, disk, projector, unseen,
                       detached>>
        /\ file' = [config |-> config', pending |-> pending'] /\ rejected' = {}
        /\ pending' = Without(pending, {i}) /\ owed' = Without(owed, {i})
        BY DEF Discard
  <2>2. w \in Acts BY DEF Acts
  <2>3. IsPartial(pending', Idents) /\ IsPartial(owed', Idents)
        BY <1>t, <2>1, WithoutPartial
  <2>4. \A k \in DOMAIN owed' : k \in DOMAIN pending' /\ pending'[k] = owed'[k]
        BY <1>h, <2>1 DEF Without, Restrict
  <2> HIDE DEF w
  <2> QED BY <1>1, <2>1, <2>2, <2>3, <2>4
<1>4. CASE RestoreApply(a)
  <2> DEFINE id == CHOOSE x \in act[a].ids : TRUE
             rest == act[a].ids \ {id}
             c == ResolveConfigPaths(Backup(act[a].mm))
             w == IF rest = {} THEN [pc |-> "read", id |-> id, mark |-> FALSE]
                               ELSE [act[a] EXCEPT !.ids = rest]
  <2>1. /\ act[a].pc = "apply" /\ act[a].mm \in BOOLEAN
        /\ act[a] \in
             [pc : {"apply"}, i : Idents, ids : (SUBSET Ids) \ {{}}, mm : BOOLEAN]
        BY <1>t, <1>4, ActFields DEF RestoreApply
  <2>2. id \in Ids /\ rest \in SUBSET Ids BY <2>1
  <2>3. w \in Acts
    <3>1. CASE rest = {}
      <4>1. w = [pc |-> "read", id |-> id, mark |-> FALSE] BY <3>1
      <4> HIDE DEF id, w
      <4> QED BY <2>2, <4>1 DEF Acts
    <3>2. CASE rest # {}
      <4>1. w = [act[a] EXCEPT !.ids = rest] BY <3>2
      <4> HIDE DEF rest, w
      <4>2. w \in [pc : {"apply"}, i : Idents, ids : (SUBSET Ids) \ {{}}, mm : BOOLEAN]
            BY <2>1, <2>2, <3>2, <4>1
      <4> QED BY <4>2 DEF Acts
    <3> QED BY <3>1, <3>2
  <2>c. c \in Config BY <1>t, <2>1, Resolved, Constants
  <2>4. /\ act' = [act EXCEPT ![a] = w] /\ up' = up
        /\ UNCHANGED <<preset, launched, disk, projector, unseen, owed>>
        BY <1>4 DEF RestoreApply
  <2>5. \/ /\ id \in Registered
           /\ config' = [config EXCEPT ![id] = c]
           /\ pending' = pending /\ dirty' = dirty \union {id}
           /\ file' = [config |-> config', pending |-> pending'] /\ rejected' = {}
           /\ Replace(a, {id}) /\ Projects(id, c.mm)
        \/ UNCHANGED <<config, pending, file, held, rejected, dirty, detached>>
        BY <1>4 DEF RestoreApply
  <2> HIDE DEF id, rest, c, w
  <2>6. CASE UNCHANGED <<config, pending, file, held, rejected, dirty, detached>>
    <3>1. /\ \A x : Settles(act[a], x) => Settles(w, x)
          /\ \A x : Marks(act[a], x) => Marks(w, x)
          BY <1>u
    <3>2. /\ act[a].pc \notin {"snapshot", "save"} /\ disk' \in SUBSET Files
          /\ IsPartial(preset', Ids) /\ projector' \in BOOLEAN
          BY <1>t, <1>u, <2>4 DEF RegistryTypeOK
    <3> QED BY <1>u, <2>3, <2>4, <2>6, <3>1, <3>2, Aside
  <2>7. CASE /\ id \in Registered
             /\ config' = [config EXCEPT ![id] = c]
             /\ pending' = pending /\ dirty' = dirty \union {id}
             /\ file' = [config |-> config', pending |-> pending'] /\ rejected' = {}
             /\ Replace(a, {id}) /\ Projects(id, c.mm)
    <3>1. /\ IsPartial(config', Ids) /\ Registered' = Registered
          /\ config'[id] = c /\ \A x \in Registered \ {id} : config'[x] = config[x]
          BY <1>t, <2>7, <2>c, Rewritten
    <3>2. /\ detached' \in SUBSET Ids
          /\ \A x \in Registered \ {id} : x \in detached => x \in detached'
          /\ c.mm \/ id \in detached' \/ (~config[id].mm /\ id \notin detached)
          BY <1>t, <2>2, <2>7 DEF Projects
    <3>3. \A x \in Registered' : projector =>
              \/ config'[x].mm
              \/ Settles(w, x)
              \/ x \in detached'
              \/ /\ x \in Registered /\ (config[x].mm => config'[x].mm)
                 /\ Settles(act[a], x) => Settles(w, x)
                 /\ x \notin detached
          BY <1>u, <3>1, <3>2
    <3>4. /\ IsPartial(held', Actors) /\ a \notin DOMAIN held'
          /\ \A b \in DOMAIN held' : b \in DOMAIN held \/ (Uses(act[b]) /\ act[b].id = id)
          BY <1>t, <2>7, Replaced
    <3>5. \A x \in Registered' : launched.on =>
              \/ x \in dirty' \cup unseen'
              \/ Marks(w, x)
              \/ Edits(w, x) /\ a \notin DOMAIN held'
              \/ /\ x \in Registered /\ ~Differs(config'[x], config[x])
                 /\ ~Marks(act[a], x) /\ (Edits(act[a], x) => a \in DOMAIN held)
                 /\ \A b \in DOMAIN held' : b \in DOMAIN held \/ act[b].id # x
          BY <1>u, <2>7, <3>1, <3>4 DEF Differs
    <3>6. HeldOn(a, w) BY <3>4 DEF HeldOn
    <3>7. /\ act[a].pc # "snapshot" /\ disk' \in SUBSET Files
          /\ IsPartial(pending', Idents) /\ IsPartial(owed', Idents)
          /\ dirty \subseteq dirty' /\ dirty' \in SUBSET Ids
          /\ unseen \subseteq unseen' /\ unseen' \in SUBSET Ids
          /\ \A i \in DOMAIN owed' : i \in DOMAIN pending' /\ pending'[i] = owed'[i]
          BY <1>t, <1>h, <1>u, <2>2, <2>4, <2>7
    <3> QED BY <1>u, <2>3, <2>4, <2>7, <3>1, <3>2, <3>3, <3>4, <3>5, <3>6, <3>7, Changes
  <2> QED BY <2>5, <2>6, <2>7
<1> QED BY <1>2, <1>3, <1>4


(* Starts and crashes of the toolchest.                                    *)
LEMMA CrashStep ==
    ASSUME RegistryInv, Crash
    PROVE  RegistryInv'
<1> USE DEF diskVars
<1>t. RegistryTypeOK /\ SavedUnlessRejected /\ RestoredIsHeld BY DEF RegistryInv
<1>1. /\ up /\ up' = FALSE /\ config' = None /\ pending' = None /\ launched' = Off
      /\ held' = None /\ dirty' = {} /\ rejected' = {} /\ unseen' = {} /\ detached' = {}
      /\ act' = [b \in Actors |-> Idle]
      /\ UNCHANGED <<preset, disk, projector>>
      /\ UNCHANGED <<file, owed>> \/ (file' = Torn /\ owed' = None)
      BY DEF Crash
<1>2. RegistryTypeOK'
  <2>1. /\ IsPartial(config', Ids) /\ IsPartial(pending', Idents)
        /\ IsPartial(held', Actors) /\ IsPartial(launched'.cfg, Ids)
        /\ launched'.on = FALSE /\ launched'.ready = FALSE
        BY <1>1, NonePartial DEF Off, None
  <2>2. /\ IsPartial(file'.config, Ids) /\ IsPartial(file'.pending, Idents)
        /\ IsPartial(owed', Idents)
        BY <1>t, <1>1, NonePartial DEF Torn, RegistryTypeOK
  <2> QED BY <1>t, <1>1, <2>1, <2>2 DEF RegistryTypeOK
<1>3. (act \in [Actors -> Acts])' BY <1>1 DEF Acts, Idle
<1>4. Down'
  <2>1. ~launched'.on /\ \A a \in Actors : act'[a] = Idle
        BY <1>1 DEF Off
  <2>2. \A i \in DOMAIN owed' : i \in DOMAIN file'.pending /\ file'.pending[i] = owed'[i]
    <3>1. CASE UNCHANGED <<file, owed>>
          BY <1>t, <1>1, <3>1 DEF SavedUnlessRejected, RestoredIsHeld
    <3>2. CASE owed' = None BY <3>2, NonePartial
    <3> QED BY <1>1, <3>1, <3>2
  <2> QED BY <2>1, <2>2 DEF Down
<1>5. SavedUnlessRejected' /\ RestoredIsHeld' /\ ProjectorIsAttached' /\ Marked'
      BY <1>1 DEF SavedUnlessRejected, RestoredIsHeld, ProjectorIsAttached, Marked
<1>6. Holders' BY <1>1, NonePartial DEF Holders
<1> QED BY <1>2, <1>3, <1>4, <1>5, <1>6 DEF RegistryInv

LEMMA BootStep ==
    ASSUME RegistryInv, Boot
    PROVE  RegistryInv'
<1> USE DEF diskVars, launchVars
<1>t. /\ RegistryTypeOK /\ ~up /\ projector \in BOOLEAN
      /\ IsPartial(file.config, Ids) /\ IsPartial(file.pending, Idents)
      /\ IsPartial(owed, Idents)
      BY DEF RegistryInv, RegistryTypeOK, Boot
<1>d. /\ \A a \in Actors : act[a] = Idle
      /\ ~launched.on
      /\ \A i \in DOMAIN owed : i \in DOMAIN file.pending /\ file.pending[i] = owed[i]
      BY <1>t DEF RegistryInv, Down
<1> DEFINE found(K) == {IdOf[f] : f \in disk \ {PathOf[i] : i \in K}}
           claim(id) == IdentOf[id] \in DOMAIN file.pending
           fresh(K) == [id \in found(K) |-> IF claim(id)
                            THEN ResolveConfigPaths(file.pending[IdentOf[id]])
                            ELSE Default]
           kept(K) == Restrict(file.config, K)
           all(K) == [id \in K \union found(K) |->
                            IF id \in found(K) THEN fresh(K)[id] ELSE kept(K)[id]]
<1>1. PICK K \in Deduplicated(DOMAIN file.config) :
        /\ config' = Detected(all(K))
        /\ pending' = Without(file.pending, {IdentOf[id] : id \in found(K)})
        /\ owed' = Without(owed, {IdentOf[id] : id \in {x \in found(K) : claim(x)}})
      BY DEF Boot
<1>2. /\ up' /\ UNCHANGED <<held, preset, launched, dirty, disk, projector, act, rejected,
                            unseen, detached>>
      BY DEF Boot
<1>3. K \in SUBSET DOMAIN file.config /\ K \in SUBSET Ids
      BY <1>t DEF Deduplicated, IsPartial
<1>4. found(K) \in SUBSET Ids BY <1>t, RegistryAssumption DEF RegistryTypeOK
<1>5. IsPartial(all(K), Ids)
  <2>1. \A id \in found(K) : fresh(K)[id] \in Config
    <3>1. \A i \in DOMAIN file.pending : file.pending[i] \in Config
          BY <1>t DEF IsPartial
    <3>2. ASSUME NEW id \in found(K) PROVE fresh(K)[id] \in Config
      <4>1. CASE claim(id)
        <5>1. file.pending[IdentOf[id]] \in Config BY <3>1, <4>1
        <5> QED BY <1>t, <4>1, <5>1, Resolved
      <4>2. CASE ~claim(id) BY <4>2, Constants
      <4> QED BY <4>1, <4>2
    <3> QED BY <3>2
  <2>2. \A id \in K : kept(K)[id] \in Config
        BY <1>t, <1>3 DEF IsPartial, Restrict
  <2>3. \A id \in K \cup found(K) :
            (IF id \in found(K) THEN fresh(K)[id] ELSE kept(K)[id]) \in Config
        BY <2>1, <2>2
  <2> HIDE DEF found, fresh, kept
  <2> QED BY <1>3, <1>4, <2>3 DEF IsPartial
<1>6. /\ IsPartial(config', Ids)
      /\ \A id \in Registered' : projector => config'[id].mm
  <2> HIDE DEF all
  <2> QED BY <1>t, <1>1, <1>5, DetectedPartial DEF Registered
<1>7. IsPartial(pending', Idents) /\ IsPartial(owed', Idents)
  <2> HIDE DEF found
  <2> QED BY <1>t, <1>1, WithoutPartial
<1>8. \A i \in DOMAIN owed' : i \in DOMAIN pending' /\ pending'[i] = owed'[i]
      BY <1>1, <1>d DEF Without, Restrict
<1>9. file'.config = config' /\ file'.pending = pending'
      BY DEF Boot, Save
<1>10. RegistryTypeOK' BY <1>t, <1>2, <1>6, <1>7, <1>9 DEF RegistryTypeOK
<1>11. (act \in [Actors -> Acts])' BY <1>2 DEF RegistryInv
<1>12. Down' BY <1>2 DEF Down
<1>13. SavedUnlessRejected' BY <1>9 DEF SavedUnlessRejected, Registered
<1>14. RestoredIsHeld' BY <1>8 DEF RestoredIsHeld
<1>15. ProjectorIsAttached' BY <1>2, <1>6 DEF ProjectorIsAttached
<1>16. Marked' BY <1>2, <1>d DEF Marked
<1>17. Holders' BY <1>2 DEF RegistryInv, Holders
<1> QED BY <1>10, <1>11, <1>12, <1>13, <1>14, <1>15, <1>16, <1>17 DEF RegistryInv

LEMMA InitRegistry == RegistryInit => RegistryInv
<1> SUFFICES ASSUME RegistryInit PROVE RegistryInv OBVIOUS
<1> DEFINE c(id, old) == IF id \in old THEN [Default EXCEPT !.v = "legacy"] ELSE Default
<1>1. PICK S \in SUBSET {id \in Ids : PathOf[id] \in disk} : \E old \in SUBSET S :
          file = [config |-> [id \in S |-> c(id, old)], pending |-> None]
      BY DEF RegistryInit
<1>c. \A id, old : c(id, old) \in Config BY DEF Default, Config, Values
<1> HIDE DEF c
<1>2. RegistryTypeOK
  <2>1. IsPartial(file.config, Ids) BY <1>1, <1>c DEF IsPartial
  <2>2. /\ IsPartial(config, Ids) /\ IsPartial(pending, Idents) /\ IsPartial(held, Actors)
        /\ IsPartial(file.pending, Idents) /\ IsPartial(preset, Ids)
        /\ launched.on = FALSE /\ launched.ready = FALSE
        /\ IsPartial(launched.cfg, Ids) /\ IsPartial(owed, Idents)
        BY <1>1, NonePartial DEF RegistryInit, Off, None
  <2> QED BY <2>1, <2>2 DEF RegistryInit, RegistryTypeOK
<1>3. act \in [Actors -> Acts] BY DEF RegistryInit, Acts, Idle
<1>4. Down BY NonePartial DEF RegistryInit, Down, Off
<1>5. SavedUnlessRejected /\ RestoredIsHeld /\ ProjectorIsAttached /\ Marked
      BY DEF RegistryInit, SavedUnlessRejected, RestoredIsHeld, ProjectorIsAttached, Marked
<1>6. Holders BY NonePartial DEF RegistryInit, Holders
<1> QED BY <1>2, <1>3, <1>4, <1>5, <1>6 DEF RegistryInv

LEMMA RegistryStep == RegistryInv /\ [RegistryNext]_registryVars => RegistryInv'
<1> SUFFICES ASSUME RegistryInv, [RegistryNext]_registryVars PROVE RegistryInv' OBVIOUS
<1>1. CASE UNCHANGED registryVars
  <2>1. UNCHANGED <<up, config, pending, file, held, preset, launched, dirty, disk, projector,
                    act, rejected, unseen, owed, detached>>
        BY <1>1 DEF registryVars, regVars, launchVars, diskVars, histVars
  <2>2. RegistryTypeOK' BY <2>1 DEF RegistryInv, RegistryTypeOK
  <2>3. (act \in [Actors -> Acts])' /\ Holders' /\ Down'
        BY <2>1 DEF RegistryInv, Holders, Down
  <2>4. SavedUnlessRejected' /\ RestoredIsHeld'
        BY <2>1 DEF RegistryInv, SavedUnlessRejected, RestoredIsHeld, Registered, Writing, At
  <2>5. ProjectorIsAttached'
        BY <2>1 DEF RegistryInv, ProjectorIsAttached, Settling, At, Registered
  <2>6. Marked'
        BY <2>1 DEF RegistryInv, Marked, Stale, ToBeMarked, Marking, At, Registered
  <2> QED BY <2>2, <2>3, <2>4, <2>5, <2>6 DEF RegistryInv
<1>2. CASE Boot \/ Crash \/ BecomeReady \/ Stop
      BY <1>2, BootStep, CrashStep, StopStep
<1>3. CASE \E id \in Ids : Migrate(id) BY <1>3, MigrateStep
<1>4. CASE \E a \in Actors : Handler(a)
  <2> PICK a \in Actors : Handler(a) BY <1>4
  <2>1. CASE (\E id \in Ids : \E mm \in {FALSE, projector} : Edit(a, id, mm))
             \/ (\E id \in Ids : \E b \in BOOLEAN : Enable(a, id, b))
             \/ (\E id \in Ids : Remove(a, id) \/ Delete(a, id))
    <3>1. projector \in BOOLEAN BY DEF RegistryInv, RegistryTypeOK
    <3> QED BY <2>1, <3>1, EditStep
  <2>2. CASE SetConfig(a) \/ Refuse(a) BY <2>2, SaveStep
  <2>3. CASE \/ PresetRead(a) \/ PresetWrite(a) \/ ScanWalk(a) \/ ArriveProjector(a)
             \/ StartRead(a) \/ StartWrite(a)
             \/ \E f \in Files : Arrive(a, f)
             \/ \E i \in Idents : \E mm \in BOOLEAN : RestoreMatch(a, i, mm)
        BY <2>3, AsideStep
  <2>4. CASE ScanAdd(a) \/ Register(a) BY <2>4, AddStep
  <2>5. CASE ScanDone(a) \/ Attach(a) \/ AutoDetect(a) BY <2>5, ProjectorStep
  <2>6. CASE RestoreHold(a) \/ RestoreApply(a) \/ \E i \in Idents : Discard(a, i)
        BY <2>6, RestoreStep
  <2>7. CASE Mark(a) \/ StartLaunch(a) \/ StartSnapshot(a) BY <2>7, MarkStep
  <2> QED BY <2>1, <2>2, <2>3, <2>4, <2>5, <2>6, <2>7 DEF Handler
<1> QED BY <1>1, <1>2, <1>3, <1>4 DEF RegistryNext

THEOREM RegistryInvariance == RegistrySpec => []RegistryInv
<1> QED BY InitRegistry, RegistryStep, PTL DEF RegistrySpec

(* Whatever handlers, callbacks and crashes interleave, models.json is     *)
(* what the registry holds in memory, apart from the models whose edit was *)
(* refused or is about to be saved, and from GPU assignments in old words, *)
(* which a page migrates in memory only.                                   *)
THEOREM Saved == RegistrySpec => []RegistryIsSaved
<1>1. RegistryInv => RegistryIsSaved BY DEF RegistryInv, RegistryIsSaved
<1> QED BY <1>1, RegistryInvariance, PTL

(* A model and its projector find each other in whatever order their       *)
(* downloads, scans and restores end, unless a form, a restore or a save   *)
(* of a replaced struct took the projector away from the model.            *)
THEOREM Attached == RegistrySpec => []ProjectorIsAttached
<1>1. RegistryInv => ProjectorIsAttached BY DEF RegistryInv
<1> QED BY <1>1, RegistryInvariance, PTL

(* A config restored for a model that is not here waits for it, across     *)
(* restarts, until the model registers or the user discards it.            *)
THEOREM Held == RegistrySpec => []RestoredIsHeld
<1>1. RegistryInv => RestoredIsHeld BY DEF RegistryInv
<1> QED BY <1>1, RegistryInvariance, PTL

(* A model of the launched router whose config or projector is no longer   *)
(* the one it runs on carries the reload mark, or its edit is about to set *)
(* it, with the exceptions that unseen records: the changes the code does  *)
(* not mark, an edit while the router is starting among them.              *)
THEOREM StaleMarked == RegistrySpec => []StaleIsMarked
<1>1. RegistryInv => StaleIsMarked BY DEF RegistryInv, Marked, StaleIsMarked, Starting, At
<1> QED BY <1>1, RegistryInvariance, PTL
=============================================================================
