------------------------ MODULE LaunchProofs ------------------------
(***************************************************************************)
(* Proofs about the launching of the router and what is launched.          *)
(*  - RouterManager, for any set of callers and any bound on the number of *)
(*    launched processes.  The invariant is inductive once it says which   *)
(*    processes exist (none beyond spawned), that a closed done channel    *)
(*    means the process was reaped, and what a caller inside Stop holds.   *)
(*  - The placement page and the start, for any machine of up to ten GPUs: *)
(*    the map written by the page is where the start puts the model.       *)
(*  - Settings and backups: forms, export and restore, for any settings.   *)
(*  - The names of the models in the preset.                               *)
(*  - The free text and the sampling presets, whose loops are folds: of    *)
(*    each, Folding says that what holds at the start and is kept by one   *)
(*    turn holds at the end.                                               *)
(***************************************************************************)
EXTENDS RouterManager, Setup, FiniteSetTheorems, TLAPS

Unlaunched(p) == proc[p] = "unused" /\ ~done[p]

Launched ==
    /\ cmd <= spawned
    /\ \A p \in Procs : p > spawned => Unlaunched(p)

DoneMeansExited == \A p \in Procs : done[p] => Exited(p)

StopHolds ==
    \A c \in Callers :
        /\ pc[c] \in {"wait", "final"} => target[c] \in Procs
        /\ pc[c] = "final" => done[target[c]]

IInv == TypeOK /\ Launched /\ DoneMeansExited /\ StopHolds /\ StartingIsWatched

(* The initial state satisfies the inductive invariant (NewManager).       *)
LEMMA InitIInv == Init => IInv
  <1> SUFFICES ASSUME Init PROVE IInv
    OBVIOUS
  <1> USE MaxProcsAssumption DEF Init, Procs, NoCmd
  <1>1. TypeOK
    <2>1. state \in States /\ healthOK \in BOOLEAN
      BY DEF States
    <2>2. cmd \in Procs \cup {NoCmd} /\ spawned \in 0 .. MaxProcs
      OBVIOUS
    <2>3. /\ proc \in [Procs -> ProcStates]
          /\ monitor \in [Procs -> MonitorPCs]
          /\ poller \in [Procs -> PollerPCs]
      BY DEF ProcStates, MonitorPCs, PollerPCs
    <2>4. done \in [Procs -> BOOLEAN] /\ expired \in [Procs -> BOOLEAN]
      OBVIOUS
    <2>5. /\ pc \in [Callers -> CallerPCs]
          /\ target \in [Callers -> Procs \cup {NoCmd}]
          /\ relaunch \in [Callers -> BOOLEAN]
      BY DEF CallerPCs
    <2>6. QED
      BY <2>1, <2>2, <2>3, <2>4, <2>5 DEF TypeOK
  <1>2. Launched /\ DoneMeansExited /\ StopHolds /\ StartingIsWatched
    BY DEF Launched, Unlaunched, DoneMeansExited, Exited, StopHolds,
           StartingIsWatched
  <1>3. QED
    BY <1>1, <1>2, Zenon DEF IInv

(* Launching a process keeps the invariant, whoever launches it: the new   *)
(* process is the one Launched said nothing had happened to, and its own   *)
(* poller watches the status.                                              *)
LEMMA LaunchStep ==
    ASSUME IInv, Launch,
           pc' \in [Callers -> CallerPCs], target' = target, relaunch' = relaunch,
           \A c \in Callers : pc'[c] \in {"wait", "final"} => pc'[c] = pc[c]
    PROVE  IInv'
  <1> DEFINE q == spawned + 1
  <1> USE MaxProcsAssumption DEF IInv, Launch, Procs, NoCmd
  <1>1. q \in Procs /\ Unlaunched(q) /\ spawned \in Nat /\ MaxProcs \in Nat
    BY DEF TypeOK, Launched
  <1>2. TypeOK'
    <2>1. state' \in States /\ healthOK' \in BOOLEAN
      BY DEF States
    <2>2. cmd' \in Procs \cup {NoCmd} /\ spawned' \in 0 .. MaxProcs
      BY <1>1
    <2>3. /\ proc' \in [Procs -> ProcStates]
          /\ monitor' \in [Procs -> MonitorPCs]
          /\ poller' \in [Procs -> PollerPCs]
      BY <1>1 DEF TypeOK, ProcStates, MonitorPCs, PollerPCs
    <2>4. done' \in [Procs -> BOOLEAN] /\ expired' \in [Procs -> BOOLEAN]
      BY DEF TypeOK
    <2>5. /\ target' \in [Callers -> Procs \cup {NoCmd}]
          /\ relaunch' \in [Callers -> BOOLEAN]
      BY DEF TypeOK
    <2>6. QED
      BY <2>1, <2>2, <2>3, <2>4, <2>5 DEF TypeOK
  <1>3. Launched'
    BY <1>1 DEF TypeOK, Launched, Unlaunched
  <1>4. DoneMeansExited'
    BY <1>1 DEF TypeOK, DoneMeansExited, Exited, Unlaunched
  <1>5. StopHolds'
    BY DEF TypeOK, StopHolds
  <1>6. StartingIsWatched'
    BY <1>1 DEF TypeOK, StartingIsWatched
  <1>7. QED
    BY <1>2, <1>3, <1>4, <1>5, <1>6

(* A caller's step keeps the invariant.                                    *)
LEMMA CallerStep == ASSUME IInv, NEW c \in Callers, CallerNext(c) PROVE IInv'
  <1> USE MaxProcsAssumption DEF Procs, NoCmd, statusVars, procVars, callerVars
  <1>t. TypeOK
    BY DEF IInv
  <1>1. CASE Start(c)
    BY <1>1, <1>t, LaunchStep DEF Start, TypeOK
  <1>2. CASE StopBegin(c)
    BY <1>2 DEF StopBegin, CaptureForStop, IInv, TypeOK, CallerPCs, Launched,
                Unlaunched, DoneMeansExited, Exited, StopHolds, StartingIsWatched
  <1>3. CASE StopWait(c)
    BY <1>3 DEF StopWait, IInv, TypeOK, CallerPCs, Launched, Unlaunched,
                DoneMeansExited, Exited, StopHolds, StartingIsWatched
  <1>4. CASE StopKill(c)
    <2>1. target[c] \in Procs
      BY <1>4 DEF StopKill, IInv, StopHolds
    <2>2. TypeOK'
      BY <1>4, <1>t, <2>1 DEF StopKill, TypeOK, ProcStates
    <2>3. Launched'
      BY <1>4, <1>t, <2>1 DEF StopKill, IInv, TypeOK, Launched, Unlaunched, Alive
    <2>4. DoneMeansExited' /\ StopHolds' /\ StartingIsWatched'
      BY <1>4, <1>t, <2>1 DEF StopKill, IInv, TypeOK, DoneMeansExited, Exited,
                              StopHolds, StartingIsWatched
    <2>5. QED
      BY <2>2, <2>3, <2>4 DEF IInv
  <1>5. CASE StopFinal(c)
    <2>1. pc' \in [Callers -> CallerPCs]
      BY <1>5, <1>t DEF StopFinal, TypeOK, CallerPCs
    <2>2. TypeOK'
      BY <1>5, <1>t, <2>1 DEF StopFinal, TypeOK, States
    <2>3. Launched' /\ DoneMeansExited' /\ StartingIsWatched'
      BY <1>5 DEF StopFinal, IInv, TypeOK, Launched, Unlaunched,
                  DoneMeansExited, Exited, StartingIsWatched
    <2>4. StopHolds'
      BY <1>5, <1>t DEF StopFinal, IInv, TypeOK, StopHolds
    <2>5. QED
      BY <2>2, <2>3, <2>4 DEF IInv
  <1>6. CASE RestartRead(c)
    BY <1>6 DEF RestartRead, IInv, TypeOK, CallerPCs, Launched, Unlaunched,
                DoneMeansExited, Exited, StopHolds, StartingIsWatched
  <1>7. CASE RestartStop(c)
    BY <1>7 DEF RestartStop, CaptureForStop, IInv, TypeOK, CallerPCs, Launched,
                Unlaunched, DoneMeansExited, Exited, StopHolds, StartingIsWatched
  <1>8. CASE RestartStopRefused(c)
    BY <1>8 DEF RestartStopRefused, IInv, TypeOK, CallerPCs, Launched, Unlaunched,
                DoneMeansExited, Exited, StopHolds, StartingIsWatched
  <1>9. CASE RestartStart(c)
    <2>1. /\ pc' \in [Callers -> CallerPCs]
          /\ \A d \in Callers : pc'[d] \in {"wait", "final"} => pc'[d] = pc[d]
      BY <1>9, <1>t DEF RestartStart, TypeOK, CallerPCs
    <2>2. CASE Launch
      BY <1>9, <2>1, <2>2, LaunchStep DEF RestartStart
    <2>3. CASE UNCHANGED <<statusVars, cmd, procVars>>
      BY <1>9, <2>1, <2>3 DEF RestartStart, IInv, TypeOK, Launched, Unlaunched,
                DoneMeansExited, Exited, StopHolds, StartingIsWatched
    <2>4. QED
      BY <1>9, <2>2, <2>3 DEF RestartStart
  <1>10. CASE CheckHealthGet(c)
    BY <1>10 DEF CheckHealthGet, IInv, TypeOK, CallerPCs, Launched, Unlaunched,
                DoneMeansExited, Exited, StopHolds, StartingIsWatched
  <1>11. CASE CheckHealthSet(c)
    BY <1>11 DEF CheckHealthSet, IInv, TypeOK, CallerPCs, Launched, Unlaunched,
                DoneMeansExited, Exited, StopHolds, StartingIsWatched
  <1>12. QED
    BY <1>1, <1>2, <1>3, <1>4, <1>5, <1>6, <1>7, <1>8, <1>9, <1>10, <1>11
       DEF CallerNext

(* A step of a process, of its monitor or of its poller keeps it.          *)
LEMMA ProcStep == ASSUME IInv, NEW p \in Procs, ProcNext(p) PROVE IInv'
  <1> USE MaxProcsAssumption
      DEF Procs, NoCmd, statusVars, procVars, callerVars, IInv, TypeOK, States,
          ProcStates, PollerPCs, MonitorPCs, Launched, Unlaunched,
          DoneMeansExited, Exited, Alive, StopHolds, StartingIsWatched
  <1>1. CASE MonitorWait(p)
    BY <1>1 DEF MonitorWait
  <1>2. CASE MonitorReport(p)
    BY <1>2 DEF MonitorReport
  <1>3. CASE PollCheck(p)
    BY <1>3 DEF PollCheck
  <1>4. CASE PollGet(p)
    BY <1>4 DEF PollGet
  <1>5. CASE PollSet(p)
    BY <1>5 DEF PollSet
  <1>6. CASE PollGiveUp(p)
    BY <1>6 DEF PollGiveUp
  <1>7. CASE PollDeadline(p)
    BY <1>7 DEF PollDeadline
  <1>8. CASE Serve(p)
    BY <1>8 DEF Serve
  <1>9. CASE Exit(p)
    BY <1>9 DEF Exit
  <1>10. QED
    BY <1>1, <1>2, <1>3, <1>4, <1>5, <1>6, <1>7, <1>8, <1>9 DEF ProcNext

(* One step keeps the inductive invariant.                                 *)
LEMMA InvStep == IInv /\ [Next]_<<vars, ops>> => IInv'
  <1> SUFFICES ASSUME IInv, [Next]_<<vars, ops>> PROVE IInv'
    OBVIOUS
  <1>1. CASE Next
    BY <1>1, CallerStep, ProcStep DEF Next, Step
  <1>2. CASE UNCHANGED <<vars, ops>>
    BY <1>2 DEF vars, IInv, TypeOK, Launched, Unlaunched, DoneMeansExited,
                Exited, StopHolds, StartingIsWatched
  <1>3. QED
    BY <1>1, <1>2

(* The inductive invariant holds in every reachable state.                 *)
THEOREM Invariance == Spec => []IInv
  BY InvStep, InitIInv, PTL DEF Spec

(* Type correctness of the Manager's state.                                *)
THEOREM TypeCorrect == Spec => []TypeOK
  <1>1. IInv => TypeOK
    BY DEF IInv
  <1>2. QED
    BY <1>1, Invariance, PTL

(* Stop returns success only after the process it captured is gone, for    *)
(* any number of concurrent callers (Manager.Stop waits on its own done).  *)
THEOREM StopIsSound == Spec => []StopSawExit
  <1>1. IInv => StopSawExit
    BY DEF IInv, StopHolds, DoneMeansExited, StopSawExit
  <1>2. QED
    BY <1>1, Invariance, PTL

(* A starting router always has a poller that will resolve it.             *)
THEOREM StartIsWatched == Spec => []StartingIsWatched
  <1>1. IInv => StartingIsWatched
    BY DEF IInv
  <1>2. QED
    BY <1>1, Invariance, PTL

----------------------------------------------------------------------------
(* With one call at a time and routers that are up or gone within five     *)
(* minutes, only the current process can be alive, and the status says so: *)
(* a caller inside Stop is the only one and still holds that process.      *)
Orderly ==
    /\ \A c, d \in Callers : pc[c] # "idle" /\ pc[d] # "idle" => c = d
    /\ \A p \in Procs : ~expired[p]
    /\ \A p \in Procs : Alive(p) => cmd = p /\ state \in {"starting", "running"}
    /\ \A p \in Procs : monitor[p] = "lock" => done[p]
    /\ \A c \in Callers : pc[c] \in {"wait", "final"} => target[c] = cmd

OrderlyInv == ops = {} => Orderly

(* A process is launched when none is alive.                               *)
LEMMA OrderlyLaunch ==
    ASSUME IInv, Orderly, Launch, MayStart,
           pc' \in [Callers -> CallerPCs], target' = target,
           \A c, d \in Callers : pc'[c] # "idle" /\ pc'[d] # "idle" => c = d,
           \A c \in Callers : pc'[c] \notin {"wait", "final"}
    PROVE  Orderly'
  <1>1. spawned + 1 \in Procs /\ ~expired[spawned + 1]
    BY MaxProcsAssumption DEF Launch, IInv, TypeOK, Procs, Orderly
  <1>2. \A p \in Procs : ~Alive(p)
    BY DEF Orderly, MayStart
  <1>3. \A p \in Procs : Alive(p)' => cmd' = p /\ state' = "starting"
    BY <1>1, <1>2 DEF Launch, IInv, TypeOK, Alive
  <1>4. \A p \in Procs : monitor'[p] = "lock" => done'[p]
    BY <1>1 DEF Launch, IInv, TypeOK, Orderly
  <1>5. QED
    BY <1>3, <1>4 DEF Launch, Orderly

LEMMA OrderlyStep == ASSUME IInv, OrderlyInv, Next PROVE OrderlyInv'
  <1> SUFFICES ASSUME ops = {}, Orderly, Step PROVE Orderly'
    BY DEF OrderlyInv, Next
  <1> USE DEF statusVars, procVars, callerVars
  <1>t. TypeOK
    BY DEF IInv
  <1>1. ASSUME NEW c \in Callers, CallerNext(c) PROVE Orderly'
    <2> USE <1>1, <1>t
    <2>1. CASE Start(c)
      <3>1. \A d \in Callers : pc[d] = "idle"
        BY <2>1 DEF Start, MayCall
      <3>2. /\ pc' = pc /\ target' = target /\ MayStart /\ Launch
        BY <2>1 DEF Start
      <3>3. QED
        BY <3>1, <3>2, OrderlyLaunch DEF TypeOK
    <2>2. CASE RestartStart(c)
      <3>1. /\ pc[c] = "relaunch" /\ pc' = [pc EXCEPT ![c] = "idle"] /\ target' = target
        BY <2>2 DEF RestartStart
      <3>2. \A d \in Callers : pc'[d] = "idle"
        BY <3>1 DEF Orderly, TypeOK
      <3>3. CASE MayStart /\ Launch
        BY <3>1, <3>2, <3>3, OrderlyLaunch DEF TypeOK, CallerPCs
      <3>4. CASE UNCHANGED <<statusVars, cmd, procVars>>
        BY <3>1, <3>2, <3>4 DEF Orderly, Alive
      <3>5. QED
        BY <2>2, <3>3, <3>4 DEF RestartStart
    <2>3. CASE StopBegin(c) \/ RestartRead(c) \/ CheckHealthGet(c)
      <3>1. \A d \in Callers : pc[d] = "idle"
        BY <2>3 DEF StopBegin, RestartRead, CheckHealthGet, MayCall
      <3>2. /\ UNCHANGED <<statusVars, cmd, procVars>>
            /\ \A d \in Callers : d # c => pc'[d] = pc[d]
            /\ pc'[c] \in {"wait", "final"} => target'[c] = cmd
        BY <2>3 DEF StopBegin, CaptureForStop, RestartRead, CheckHealthGet, TypeOK
      <3>3. QED
        BY <3>1, <3>2 DEF Orderly, Alive
    <2>4. CASE StopWait(c) \/ RestartStop(c) \/ RestartStopRefused(c)
      <3>1. /\ UNCHANGED <<statusVars, cmd, procVars>>
            /\ pc[c] # "idle"
            /\ \A d \in Callers : d # c => pc'[d] = pc[d] /\ target'[d] = target[d]
            /\ pc'[c] \in {"wait", "final"} => target'[c] = cmd
        BY <2>4 DEF StopWait, RestartStop, CaptureForStop, RestartStopRefused, TypeOK, Orderly
      <3>2. QED
        BY <3>1 DEF Orderly, Alive
    <2>5. CASE StopKill(c)
      BY <2>5 DEF StopKill, Orderly, Alive, TypeOK
    <2>6. CASE StopFinal(c)
      <3>1. /\ pc[c] = "final" /\ target[c] = cmd /\ UNCHANGED procVars
            /\ pc' = [pc EXCEPT ![c] = IF relaunch[c] THEN "relaunch" ELSE "idle"]
        BY <2>6 DEF StopFinal, Orderly
      <3>2. cmd \in Procs /\ Exited(cmd)
        BY <3>1 DEF IInv, StopHolds, DoneMeansExited
      <3>3. \A p \in Procs : ~Alive(p)
        BY <3>2 DEF Orderly, Exited, Alive
      <3>4. \A d \in Callers : d # c => pc'[d] = "idle"
        BY <3>1 DEF Orderly, TypeOK
      <3>5. pc'[c] \in {"relaunch", "idle"}
        BY <3>1 DEF TypeOK
      <3>6. QED
        BY <3>1, <3>3, <3>4, <3>5 DEF Orderly, Alive
    <2>7. CASE CheckHealthSet(c)
      BY <2>7 DEF CheckHealthSet, Orderly, Alive, TypeOK
    <2>8. QED
      BY <2>1, <2>2, <2>3, <2>4, <2>5, <2>6, <2>7 DEF CallerNext
  <1>2. ASSUME NEW p \in Procs, ProcNext(p) PROVE Orderly'
    <2> USE <1>2, <1>t DEF Orderly, Alive, TypeOK
    <2>1. CASE MonitorWait(p)
      BY <2>1 DEF MonitorWait
    <2>2. CASE MonitorReport(p)
      <3>1. Exited(p)
        BY <2>2 DEF MonitorReport, IInv, DoneMeansExited
      <3>2. QED
        BY <2>2, <3>1 DEF MonitorReport, Exited
    <2>3. CASE PollCheck(p) \/ PollGet(p)
      BY <2>3 DEF PollCheck, PollGet
    <2>4. CASE PollSet(p)
      BY <2>4 DEF PollSet
    <2>5. CASE PollGiveUp(p) \/ PollDeadline(p)
      BY <2>5 DEF PollGiveUp, PollDeadline
    <2>6. CASE Serve(p) \/ Exit(p)
      BY <2>6 DEF Serve, Exit
    <2>7. QED
      BY <2>1, <2>2, <2>3, <2>4, <2>5, <2>6 DEF ProcNext
  <1>3. QED
    BY <1>1, <1>2 DEF Step

(* Orderly use never leaves a second process behind, and shows the one     *)
(* there is as what it is, for any number of callers and processes.        *)
THEOREM OrderlyUse == Spec => []OrderlyUseIsSound
  <1>1. Init => OrderlyInv
    BY DEF Init, OrderlyInv, Orderly, Alive
  <1>2. IInv /\ OrderlyInv /\ [Next]_<<vars, ops>> => OrderlyInv'
    <2>1. ASSUME OrderlyInv, UNCHANGED <<vars, ops>> PROVE OrderlyInv'
      BY <2>1 DEF vars, OrderlyInv, Orderly, Alive
    <2>2. QED
      BY <2>1, OrderlyStep
  <1>3. IInv /\ OrderlyInv => OrderlyUseIsSound
    <2> SUFFICES ASSUME IInv, OrderlyInv, ops = {}
                 PROVE  SingleProcess /\ (cmd # NoCmd /\ Alive(cmd) =>
                                            state \in {"starting", "running"})
      BY DEF OrderlyUseIsSound, SingleWhenOrderly, LiveIsShownLive
    <2>1. {p \in Procs : Alive(p)} \subseteq {cmd}
      BY DEF OrderlyInv, Orderly
    <2>2. SingleProcess
      <3>1. IsFiniteSet({cmd}) /\ Cardinality({cmd}) = 1
        BY FS_Singleton
      <3>2. Cardinality({p \in Procs : Alive(p)}) <= Cardinality({cmd})
        BY <2>1, <3>1, FS_Subset
      <3>3. QED
        BY <3>1, <3>2 DEF SingleProcess
    <2>3. cmd # NoCmd => cmd \in Procs
      BY DEF IInv, TypeOK
    <2>4. QED
      BY <2>2, <2>3 DEF OrderlyInv, Orderly
  <1>4. QED
    BY <1>1, <1>2, <1>3, InvStep, InitIInv, PTL DEF Spec

-----------------------------------------------------------------------------
(* Placement, for machines whose GPUs have names of one digit: a choice of *)
(* the dropdown names GPUs, whatever reads it.                             *)
OneDigit == \A m \in Machines : m.n <= 10

Choice(a, n) ==
    \/ a = All
    \/ \E g \in GPUs(n) : a = Single(g)
    \/ \E lo, hi \in GPUs(n) : lo <= hi /\ a = Span(lo, hi)
    \/ \E S \in SUBSET GPUs(n) : S # {} /\ a \in {Listed(S), TensorOf(S)}
    \/ \E k \in 1 .. n : a = TensorFirst(k)

Chosen(a, n) ==
    IF a.form \in Tensors THEN TensorAssignGPUs(a, n)
    ELSE IF a.form = "all" THEN GPUs(n) ELSE ParseGPURange(a)

Whole(a) == a.form \in Tensors \union {"all"}

(* The split of a choice: each GPU that it names, and no other.            *)
Spread(c, S, n) ==
    \/ c.split = NoSplit /\ S = GPUs(n) /\ Whole(c.assign)
    \/ c.split = [len |-> n, on |-> S]

LEMMA ChosenIs ==
    ASSUME NEW n \in 1 .. 10, NEW a, Choice(a, n)
    PROVE  /\ a.form \in {"all", "single", "range", "set", "tensorSet", "tensorN"}
           /\ Chosen(a, n) # {} /\ Chosen(a, n) \subseteq GPUs(n)
           /\ a.form \notin Tensors \union {"all"} => ParseGPURange(a) = Chosen(a, n)
<1> USE DEF Chosen, GPUs, Tensors, All, Single, Span, Listed, TensorOf, TensorFirst,
            TensorAssignGPUs, ParseGPURange
<1>1. CASE a = All
      BY <1>1
<1>2. ASSUME NEW g \in GPUs(n), a = Single(g) PROVE a.form = "single" /\ Chosen(a, n) = {g}
      BY <1>2
<1>3. ASSUME NEW lo \in GPUs(n), NEW hi \in GPUs(n), lo <= hi, a = Span(lo, hi)
      PROVE  a.form = "range" /\ Chosen(a, n) = lo .. hi /\ lo \in lo .. hi /\ lo .. hi \subseteq GPUs(n)
      BY <1>3
<1>4. ASSUME NEW S \in SUBSET GPUs(n), S # {}, a \in {Listed(S), TensorOf(S)}
      PROVE  a.form \in {"set", "tensorSet"} /\ Chosen(a, n) = S
      BY <1>4
<1>5. ASSUME NEW k \in 1 .. n, a = TensorFirst(k)
      PROVE  a.form = "tensorN" /\ Chosen(a, n) = GPUs(k) /\ 0 \in GPUs(k) /\ GPUs(k) \subseteq GPUs(n)
      BY <1>5
<1>6. CASE \E g \in GPUs(n) : a = Single(g)
      BY <1>2, <1>6
<1>7. CASE \E lo, hi \in GPUs(n) : lo <= hi /\ a = Span(lo, hi)
      BY <1>3, <1>7
<1>8. CASE \E S \in SUBSET GPUs(n) : S # {} /\ a \in {Listed(S), TensorOf(S)}
      BY <1>4, <1>8
<1>9. CASE \E k \in 1 .. n : a = TensorFirst(k)
      BY <1>5, <1>9
<1> QED BY <1>1, <1>6, <1>7, <1>8, <1>9 DEF Choice

LEMMA GPUsAre ==
    ASSUME NEW n \in Nat, NEW S \in SUBSET GPUs(n)
    PROVE  /\ IsFiniteSet(S) /\ Cardinality(S) \in 0 .. n /\ Cardinality(GPUs(n)) = n
           /\ Cardinality(S) = n => S = GPUs(n)
           /\ S # {} => Cardinality(S) > 0
<1>1. IsFiniteSet(GPUs(n)) /\ Cardinality(GPUs(n)) = n
  BY FS_Interval, SMT DEF GPUs
<1>2. /\ IsFiniteSet(S) /\ Cardinality(S) <= n
      /\ Cardinality(S) = n => S = GPUs(n)
  BY <1>1, FS_Subset
<1>3. Cardinality(S) \in Nat /\ (S # {} => Cardinality(S) # 0)
  BY <1>2, FS_CardinalityType, FS_EmptySet
<1> QED BY <1>1, <1>2, <1>3

(* How many GPUs come before one: on the whole machine its number, and of  *)
(* a few of them less than there are.                                      *)
LEMMA RankIs ==
    ASSUME NEW n \in Nat, NEW S \in SUBSET GPUs(n), NEW g \in S
    PROVE  /\ Cardinality({h \in S : h < g}) \in 0 .. Cardinality(S) - 1
           /\ S = GPUs(n) => Cardinality({h \in S : h < g}) = g
<1> DEFINE B == {h \in S : h < g}
<1>1. IsFiniteSet(S) /\ Cardinality(S) \in Nat /\ B \in SUBSET S /\ g \notin B /\ g \in Int
  BY GPUsAre DEF GPUs
<1>2. IsFiniteSet(B) /\ Cardinality(B) <= Cardinality(S) /\ Cardinality(B) # Cardinality(S)
  BY <1>1, FS_Subset
<1>3. Cardinality(B) \in Nat
  BY <1>2, FS_CardinalityType
<1> HIDE DEF B
<1>4. ASSUME S = GPUs(n) PROVE Cardinality(B) = g
  <2>1. B = 0 .. g - 1 /\ g \in Nat
    BY <1>4 DEF GPUs, B
  <2>2. Cardinality(0 .. g - 1) = IF 0 > g - 1 THEN 0 ELSE g - 1 - 0 + 1
    BY <2>1, FS_Interval
  <2> QED BY <2>1, <2>2
<1> QED BY <1>1, <1>2, <1>3, <1>4 DEF B

(* A start of a spread placement puts the weights where it says, with the  *)
(* device list and without, and the estimate charges as many GPUs.         *)
LEMMA SpreadRuns ==
    ASSUME NEW n \in 1 .. 10, NEW c, Choice(c.assign, n), Spread(c, Chosen(c.assign, n), n)
    PROVE  /\ \A b : Holding(GPUPlacementParams(c, b), n) = Chosen(c.assign, n)
           /\ \A b \in Addressable : Visible(GPUPlacementParams(c, b), n) = Chosen(c.assign, n)
           /\ DeviceCountForConfig(c, n) = Cardinality(Chosen(c.assign, n))
<1> DEFINE S == Chosen(c.assign, n)
<1>1. /\ n \in Nat /\ S # {} /\ S \in SUBSET GPUs(n)
      /\ c.assign.form \notin {"unset", "custom"}
  BY ChosenIs
<1>2. Cardinality(S) > 0 /\ Cardinality(S) \in Nat /\ Cardinality(GPUs(n)) = n
  BY <1>1, GPUsAre
<1> HIDE DEF S
<1>3. CASE c.split = NoSplit /\ S = GPUs(n) /\ Whole(c.assign)
  <2>1. SplitDeviceIndices(c.split) = {} /\ c.split.len = 0 /\ c.split.on = {}
    BY <1>3 DEF SplitDeviceIndices, NoSplit, GPUs
  <2>2. \A b : GPUPlacementParams(c, b) = [device |-> {}, split |-> c.split, mode |-> c.mode]
    BY <2>1 DEF GPUPlacementParams
  <2>3. \A b : Visible(GPUPlacementParams(c, b), n) = S /\ Holding(GPUPlacementParams(c, b), n) = S
    BY <1>3, <2>1, <2>2 DEF Visible, Holding
  <2>4. DeviceCountForConfig(c, n) = Cardinality(S)
    <3>1. CASE c.assign.form \in Tensors
      <4>1. S = TensorAssignGPUs(c.assign, n)
        BY <3>1 DEF S, Chosen
      <4> QED BY <2>1, <3>1, <4>1 DEF DeviceCountForConfig
    <3>2. CASE c.assign.form = "all"
      BY <1>2, <1>3, <2>1, <3>2 DEF DeviceCountForConfig, Tensors
    <3> QED BY <1>3, <3>1, <3>2 DEF Whole
  <2> QED BY <2>3, <2>4 DEF S
<1>4. CASE c.split = [len |-> n, on |-> S]
  <2>1. SplitDeviceIndices(c.split) = (IF S = GPUs(n) THEN {} ELSE S) /\ c.split.len = n /\ c.split.on = S
    BY <1>4 DEF SplitDeviceIndices
  <2>2. ASSUME NEW b, S = GPUs(n) \/ b \notin Addressable
        PROVE  /\ Holding(GPUPlacementParams(c, b), n) = S
               /\ S = GPUs(n) => Visible(GPUPlacementParams(c, b), n) = S
    <3>1. GPUPlacementParams(c, b) = [device |-> {}, split |-> c.split, mode |-> c.mode]
      BY <2>1, <2>2 DEF GPUPlacementParams
    <3>2. Visible(GPUPlacementParams(c, b), n) = GPUs(n)
      BY <3>1 DEF Visible
    <3>3. GPUPlacementParams(c, b).split.len = n /\ GPUPlacementParams(c, b).split.on = S
      BY <2>1, <3>1
    <3>4. \A g \in GPUs(n) : Cardinality({h \in GPUs(n) : h < g}) = g
      BY <1>1, RankIs
    <3> QED BY <1>1, <3>2, <3>3, <3>4 DEF Holding
  <2>3. ASSUME NEW b \in Addressable, S # GPUs(n)
        PROVE  /\ Holding(GPUPlacementParams(c, b), n) = S
               /\ Visible(GPUPlacementParams(c, b), n) = S
    <3> DEFINE k == Cardinality(S)
    <3>1. GPUPlacementParams(c, b)
            = [device |-> S, split |-> [len |-> k, on |-> GPUs(k)], mode |-> c.mode]
      BY <1>1, <2>1, <2>3 DEF GPUPlacementParams
    <3>2. Visible(GPUPlacementParams(c, b), n) = S
      BY <1>1, <3>1 DEF Visible
    <3>3. \A g \in S : Cardinality({h \in S : h < g}) \in GPUs(k)
      BY <1>1, RankIs DEF GPUs
    <3>4. GPUPlacementParams(c, b).split.on = GPUs(k)
      BY <3>1
    <3> QED BY <3>2, <3>3, <3>4 DEF Holding
  <2>4. DeviceCountForConfig(c, n) = Cardinality(S)
    BY <1>1, <2>1 DEF DeviceCountForConfig
  <2> QED BY <2>2, <2>3, <2>4 DEF S
<1> QED BY <1>3, <1>4 DEF Spread, S

(* What the dropdown saves is spread over the GPUs that were chosen.       *)
LEMMA ResolvedIsSpread ==
    ASSUME NEW n \in 1 .. 10, NEW a, Choice(a, n)
    PROVE  LET c == ResolveGPUAssign(a, n)
           IN  c.assign = a /\ Spread(c, Chosen(a, n), n)
<1> DEFINE c == ResolveGPUAssign(a, n)
           S == Chosen(a, n)
<1>0. ~(n <= 0)
  OBVIOUS
<1>1. /\ n \in Nat /\ S # {} /\ S \in SUBSET GPUs(n)
      /\ a.form \notin {"unset", "custom"}
      /\ a.form \notin Tensors \union {"all"} => ParseGPURange(a) = S
  BY ChosenIs
<1>2. Padded(S, n) = [len |-> n, on |-> S]
  BY <1>1 DEF Padded
<1>3. Cardinality(S) >= n => S = GPUs(n)
  BY <1>1, GPUsAre
<1>4. CASE a.form = "all"
  <2>1. c = Placed(a, NoSplit, "layer")
    BY <1>0, <1>1, <1>4 DEF ResolveGPUAssign
  <2>2. S = GPUs(n)
    BY <1>4 DEF Chosen, Tensors
  <2> QED BY <1>4, <2>1, <2>2 DEF Spread, Whole, Placed
<1>5. CASE a.form \in Tensors
  <2>1. S = TensorAssignGPUs(a, n)
    BY <1>5 DEF Chosen
  <2>2. c = Placed(a, IF Cardinality(S) >= n THEN NoSplit ELSE Padded(S, n), "tensor")
    BY <1>0, <1>1, <1>5, <2>1 DEF ResolveGPUAssign, Tensors
  <2> QED BY <1>2, <1>3, <1>5, <2>2 DEF Spread, Whole, Placed
<1>6. CASE a.form \notin Tensors \union {"all"}
  <2>1. c = Placed(a, Padded(S, n), "layer")
    BY <1>0, <1>1, <1>6 DEF ResolveGPUAssign
  <2> QED BY <1>2, <2>1 DEF Spread, Placed
<1> QED BY <1>4, <1>5, <1>6

(* Every option but "custom" names the GPUs that it lists.                 *)
OptionFine(o, n, igpu) ==
    /\ Choice(o.assign, n) /\ o.gpus = Chosen(o.assign, n)
    /\ ~o.igpu => o.gpus \intersect Warned(n, igpu) = {}

LEMMA SingleOption ==
    ASSUME NEW n \in 1 .. 10, NEW igpu, NEW g \in GPUs(n)
    PROVE  OptionFine(Option(Single(g), {g}, Warned(n, igpu)), n, igpu)
<1>1. Choice(Single(g), n) /\ Chosen(Single(g), n) = {g}
  BY DEF Choice, Chosen, Single, Tensors, ParseGPURange, GPUs
<1> QED BY <1>1 DEF OptionFine, Option

LEMMA SpanOption ==
    ASSUME NEW n \in 1 .. 10, NEW igpu, NEW lo \in GPUs(n), NEW hi \in GPUs(n), lo <= hi
    PROVE  OptionFine(Option(Span(lo, hi), lo .. hi, Warned(n, igpu)), n, igpu)
<1>1. Choice(Span(lo, hi), n) /\ Chosen(Span(lo, hi), n) = lo .. hi
  BY DEF Choice, Chosen, Span, Tensors, ParseGPURange
<1> QED BY <1>1 DEF OptionFine, Option

(* The spanning options leave out the GPUs that they would warn of.        *)
LEMMA DiscreteIs ==
    ASSUME NEW n \in 1 .. 10, NEW igpu \in SUBSET GPUs(n)
    PROVE  /\ Discrete(n, igpu) # {} /\ Discrete(n, igpu) \subseteq GPUs(n)
           /\ Discrete(n, igpu) \intersect Warned(n, igpu) = {}
<1>1. 0 \in GPUs(n)
  BY DEF GPUs
<1> QED BY <1>1 DEF Discrete, Warned

LEMMA SpanAllOption ==
    ASSUME NEW n \in 1 .. 10, NEW igpu \in SUBSET GPUs(n)
    PROVE  OptionFine(SpanAll(n, igpu), n, igpu)
<1> DEFINE D == Discrete(n, igpu)
<1>1. D # {} /\ D \in SUBSET GPUs(n) /\ D \intersect Warned(n, igpu) = {} /\ n \in Nat
  BY DiscreteIs
<1> HIDE DEF D
<1>2. CASE D = GPUs(n)
  <2>1. Choice(All, n) /\ Chosen(All, n) = GPUs(n)
    BY DEF Choice, Chosen, All, Tensors
  <2> QED BY <1>1, <1>2, <2>1 DEF OptionFine, Option, SpanAll, D
<1>3. CASE D # GPUs(n)
  <2>1. SpanAll(n, igpu) = Option(Joined(D), D, {})
    BY <1>3 DEF SpanAll, D
  <2>2. CASE Cardinality(D) = 1
    <3>1. PICK g : D = {g}
      BY <1>1, <2>2, GPUsAre, FS_Singleton
    <3>2. Joined(D) = Single(g) /\ g \in GPUs(n)
      BY <1>1, <2>2, <3>1 DEF Joined
    <3>3. Choice(Single(g), n) /\ Chosen(Single(g), n) = {g}
      BY <3>2, SingleOption DEF OptionFine, Option
    <3> QED BY <1>1, <2>1, <3>1, <3>2, <3>3 DEF OptionFine, Option
  <2>3. CASE Cardinality(D) # 1
    <3>1. Joined(D) = Listed(D)
      BY <2>3 DEF Joined
    <3>2. Choice(Listed(D), n) /\ Chosen(Listed(D), n) = D
      BY <1>1 DEF Choice, Chosen, Listed, Tensors, ParseGPURange
    <3> QED BY <1>1, <2>1, <3>1, <3>2 DEF OptionFine, Option
  <2> QED BY <2>2, <2>3
<1> QED BY <1>2, <1>3

LEMMA Smallest ==
    ASSUME NEW S \in SUBSET Nat, S # {}
    PROVE  \E g \in S : \A h \in S : g <= h
<1> DEFINE Less == {p \in Nat \X Nat : p[1] < p[2]}
<1>1. IsWellFoundedOn(Less, Nat)
  BY NatLessThanWellFounded, Zenon DEF OpToRel
<1>2. PICK g \in S : \A h \in S : ~(<<h, g>> \in Less)
  BY <1>1, WFMin, Zenon
<1>3. \A h \in S : ~(h < g)
  BY <1>2
<1> QED BY <1>3

LEMMA TensorOptionFine ==
    ASSUME NEW n \in 1 .. 10, NEW igpu \in SUBSET GPUs(n),
           NEW k \in 2 .. Cardinality(Discrete(n, igpu))
    PROVE  OptionFine(TensorOption(n, igpu, k), n, igpu)
<1> DEFINE D == Discrete(n, igpu)
           S == First(D, k)
<1>1. D # {} /\ D \in SUBSET GPUs(n) /\ D \intersect Warned(n, igpu) = {} /\ n \in Nat
  BY DiscreteIs
<1>2. Cardinality(D) \in 0 .. n
  BY <1>1, GPUsAre
<1>3. k \in 2 .. n
  BY <1>2
<1> HIDE DEF D
<1>4. S \subseteq D /\ S # {}
  <2>1. PICK g \in D : \A h \in D : g <= h
    BY <1>1, Smallest DEF GPUs
  <2>2. \A h \in D : ~(h < g)
    BY <1>1, <2>1 DEF GPUs
  <2>3. {h \in D : h < g} = {} /\ Cardinality({h \in D : h < g}) = 0
    BY <2>2, FS_EmptySet
  <2> QED BY <1>3, <2>1, <2>3 DEF First
<1> HIDE DEF S
<1>5. CASE S = GPUs(k)
  <2>1. TensorOption(n, igpu, k) = Option(TensorFirst(k), S, {})
    BY <1>5 DEF TensorOption, S, D
  <2>2. Choice(TensorFirst(k), n) /\ Chosen(TensorFirst(k), n) = GPUs(k)
    BY <1>3 DEF Choice, Chosen, TensorFirst, Tensors, TensorAssignGPUs
  <2> QED BY <1>1, <1>4, <1>5, <2>1, <2>2 DEF OptionFine, Option
<1>6. CASE S # GPUs(k)
  <2>1. TensorOption(n, igpu, k) = Option(TensorOf(S), S, {})
    BY <1>6 DEF TensorOption, S, D
  <2>2. Choice(TensorOf(S), n) /\ Chosen(TensorOf(S), n) = S
    BY <1>1, <1>4 DEF Choice, Chosen, TensorOf, Tensors, TensorAssignGPUs
  <2> QED BY <1>1, <1>4, <2>1, <2>2 DEF OptionFine, Option
<1> QED BY <1>5, <1>6

LEMMA OptionsAreFine ==
    ASSUME NEW n \in 1 .. 10, NEW igpu \in SUBSET GPUs(n),
           NEW o \in GPUAssignOptions(n, igpu), o # CustomOption
    PROVE  OptionFine(o, n, igpu)
<1> DEFINE D == Discrete(n, igpu)
           Runs2(k) == {Option(Span(i, i + k), i .. i + k, Warned(n, igpu)) : i \in 0 .. n - 1 - k}
<1>1. \/ \E g \in GPUs(n) : o = Option(Single(g), {g}, Warned(n, igpu))
      \/ \E k \in {1, 2} : o \in Runs2(k)
      \/ o = SpanAll(n, igpu)
      \/ \E k \in 2 .. Cardinality(D) : o = TensorOption(n, igpu, k)
  BY DEF GPUAssignOptions
<1>2. ASSUME NEW k \in {1, 2}, o \in Runs2(k) PROVE OptionFine(o, n, igpu)
  <2>1. PICK i \in 0 .. n - 1 - k : o = Option(Span(i, i + k), i .. i + k, Warned(n, igpu))
    BY <1>2
  <2>2. i \in GPUs(n) /\ i + k \in GPUs(n) /\ i <= i + k
    BY DEF GPUs
  <2> QED BY <2>1, <2>2, SpanOption
<1> QED BY <1>1, <1>2, SingleOption, SpanAllOption, TensorOptionFine

(* A placement is one that the dropdown saved on this machine, an old one  *)
(* that was never opened, one by hand, or an old tensor split that a page  *)
(* has named: by the first GPUs that it lists, on the machine it is of.    *)
Migrated(c, n) ==
    /\ \E k \in 1 .. n : c.assign = TensorFirst(k)
    /\ c.split = NoSplit \/ c.split.len = n => Spread(c, Chosen(c.assign, n), n)

PlacementFine(c, n) ==
    \/ c \in OldConfigs
    \/ c.assign.form = "custom"
    \/ Choice(c.assign, n) /\ c = ResolveGPUAssign(c.assign, n)
    \/ Migrated(c, n)

ShownFine ==
    shown # None => shown \in Offered /\ shown.assign = cfg.assign

PlacementInv ==
    /\ host \in Machines
    /\ PlacementFine(cfg, host.n)
    /\ ShownFine

LEMMA MachineIs ==
    ASSUME OneDigit, NEW m \in Machines
    PROVE  m.n \in 1 .. 10 /\ m.igpu \in SUBSET GPUs(m.n)
BY MachinesAssumption DEF OneDigit

LEMMA OldIs ==
    ASSUME NEW c \in OldConfigs
    PROVE  /\ c = Placed(Unset, c.split, c.mode) /\ c.assign = Unset
           /\ c.split = [len |-> c.split.len, on |-> c.split.on] /\ c.split.len \in Nat
           /\ c.mode = "tensor" =>
                c.split = NoSplit \/ \E k \in 2 .. c.split.len : c.split.on = GPUs(k)
BY OldConfigsAssumption DEF Placed

(* A page names the split of an old config by how many GPUs it lists.      *)
LEMMA LegacyFine ==
    ASSUME NEW n \in 1 .. 10, NEW c, PlacementFine(c, n)
    PROVE  PlacementFine(Legacy(c, n), n)
<1>1. CASE c \in OldConfigs
  <2>1. /\ c.assign.form = "unset"
        /\ c.split = [len |-> c.split.len, on |-> c.split.on] /\ c.split.len \in Nat
        /\ c = [assign |-> Unset, split |-> c.split, mode |-> c.mode]
        /\ c.mode = "tensor" =>
             c.split = NoSplit \/ \E k \in 2 .. c.split.len : c.split.on = GPUs(k)
    BY <1>1, OldIs DEF Unset, Placed
  <2>2. CASE c.mode = "tensor"
    <3> DEFINE j == Cardinality(c.split.on)
               k == IF j >= 2 /\ j < n THEN j ELSE n
               d == [c EXCEPT !.assign = TensorFirst(k)]
    <3>1. Legacy(c, n) = d
      BY <2>1, <2>2 DEF Legacy
    <3>2. d.assign = TensorFirst(k) /\ d.split = c.split
      BY <2>1
    <3>3. j \in Nat
      <4>1. CASE c.split = NoSplit
        BY <4>1, FS_EmptySet DEF NoSplit
      <4>2. CASE \E i \in 2 .. c.split.len : c.split.on = GPUs(i)
        BY <4>2, GPUsAre
      <4> QED BY <2>1, <2>2, <4>1, <4>2
    <3>4. k \in 1 .. n
      BY <3>3
    <3> HIDE DEF k
    <3>5. Chosen(d.assign, n) = GPUs(k) /\ Whole(d.assign)
      BY <3>2, <3>4 DEF Chosen, TensorFirst, Tensors, TensorAssignGPUs, Whole
    <3>6. ASSUME c.split = NoSplit PROVE Spread(d, GPUs(k), n)
      <4>1. j = 0
        BY <3>6, FS_EmptySet DEF NoSplit
      <4>2. k = n
        BY <4>1 DEF k
      <4> QED BY <3>2, <3>5, <3>6, <4>2 DEF Spread
    <3>7. ASSUME c.split # NoSplit, c.split.len = n PROVE Spread(d, GPUs(k), n)
      <4>1. PICK i \in 2 .. n : c.split.on = GPUs(i)
        BY <2>1, <2>2, <3>7
      <4>2. j = i
        BY <4>1, GPUsAre
      <4>3. k = i
        BY <4>2 DEF k
      <4> QED BY <2>1, <3>2, <3>7, <4>1, <4>3 DEF Spread
    <3>8. Migrated(d, n)
      BY <3>2, <3>4, <3>5, <3>6, <3>7 DEF Migrated
    <3> QED BY <3>1, <3>8 DEF PlacementFine
  <2>3. CASE c.mode # "tensor" /\ c.split # NoSplit
    <3>1. Legacy(c, n) = [c EXCEPT !.assign = Custom]
      BY <2>1, <2>3 DEF Legacy
    <3>2. Legacy(c, n).assign.form = "custom"
      BY <2>1, <3>1 DEF Custom
    <3> QED BY <3>2 DEF PlacementFine
  <2>4. CASE c.mode # "tensor" /\ c.split = NoSplit
    BY <1>1, <2>1, <2>4 DEF Legacy, PlacementFine
  <2> QED BY <2>2, <2>3, <2>4
<1>2. CASE c.assign.form \notin {"unset", "tensor"}
  BY <1>2 DEF Legacy
<1>3. c \in OldConfigs \/ c.assign.form \notin {"unset", "tensor"}
  <2>1. Choice(c.assign, n) => c.assign.form \notin {"unset", "tensor"}
    BY ChosenIs
  <2>2. Migrated(c, n) => c.assign.form \notin {"unset", "tensor"}
    BY DEF Migrated, TensorFirst
  <2> QED BY <2>1, <2>2 DEF PlacementFine
<1> QED BY <1>1, <1>2, <1>3

LEMMA MigrateFine ==
    ASSUME NEW n \in 1 .. 10, NEW igpu \in SUBSET GPUs(n), NEW c, PlacementFine(c, n)
    PROVE  PlacementFine(MigrateGPUAssign(c, n, igpu), n)
<1>1. CASE MigrateGPUAssign(c, n, igpu) = Legacy(c, n)
  BY <1>1, LegacyFine
<1>2. CASE MigrateGPUAssign(c, n, igpu) = ResolveGPUAssign(SpanAll(n, igpu).assign, n)
  <2>1. Choice(SpanAll(n, igpu).assign, n)
    BY SpanAllOption DEF OptionFine
  <2>2. ResolveGPUAssign(SpanAll(n, igpu).assign, n).assign = SpanAll(n, igpu).assign
    BY <2>1, ResolvedIsSpread
  <2> QED BY <1>2, <2>1, <2>2 DEF PlacementFine
<1> QED BY <1>1, <1>2 DEF MigrateGPUAssign

LEMMA InRangeIsChoice ==
    ASSUME NEW m \in 1 .. 10, NEW n \in 1 .. 10, NEW a, Choice(a, m), ~AssignGPUsOutOfRange(a, n)
    PROVE  Choice(a, n)
<1>1. ASSUME NEW g \in GPUs(m), a = Single(g) PROVE g \in GPUs(n)
      BY <1>1 DEF AssignGPUsOutOfRange, ParseGPURange, Single, GPUs
<1>2. ASSUME NEW lo \in GPUs(m), NEW hi \in GPUs(m), lo <= hi, a = Span(lo, hi)
      PROVE  lo \in GPUs(n) /\ hi \in GPUs(n)
  <2>1. lo \in lo .. hi /\ hi \in lo .. hi /\ \A g \in lo .. hi : ~(g >= n)
      BY <1>2 DEF AssignGPUsOutOfRange, ParseGPURange, Span, GPUs
  <2> QED BY <1>2, <2>1 DEF GPUs
<1>3. ASSUME NEW S \in SUBSET GPUs(m), a \in {Listed(S), TensorOf(S)} PROVE S \in SUBSET GPUs(n)
  <2>1. \A g \in S : ~(g >= n)
      BY <1>3 DEF AssignGPUsOutOfRange, ParseGPURange, Listed, TensorOf
  <2> QED BY <2>1 DEF GPUs
<1>4. ASSUME NEW k \in 1 .. m, a = TensorFirst(k) PROVE k \in 1 .. n
      BY <1>4 DEF AssignGPUsOutOfRange, TensorFirst
<1> QED BY <1>1, <1>2, <1>3, <1>4 DEF Choice

(* A restore resolves a choice again, for the machine that it is now on.   *)
LEMMA RestoredFine ==
    ASSUME NEW m \in 1 .. 10, NEW n \in 1 .. 10, NEW c, PlacementFine(c, m)
    PROVE  PlacementFine(Restored(c, n), n)
<1>1. CASE c.assign.form \in {"unset", "custom"}
  <2>1. Restored(c, n) = c
    BY <1>1 DEF Restored
  <2>2. Choice(c.assign, m) => c.assign.form \notin {"unset"}
    BY ChosenIs
  <2>3. Migrated(c, m) => c.assign.form = "tensorN"
    BY DEF Migrated, TensorFirst
  <2> QED BY <1>1, <2>1, <2>2, <2>3 DEF PlacementFine
<1>2. CASE c.assign.form \notin {"unset", "custom"}
  <2> DEFINE a == IF AssignGPUsOutOfRange(c.assign, n) THEN All ELSE c.assign
  <2>1. Restored(c, n) = ResolveGPUAssign(a, n)
    BY <1>2 DEF Restored
  <2>2. Choice(c.assign, m)
    <3>1. c \in OldConfigs => c.assign = Unset
      BY OldIs
    <3>3. c \notin OldConfigs
      BY <1>2, <3>1 DEF Unset
    <3>2. Migrated(c, m) => Choice(c.assign, m)
      BY DEF Migrated, Choice
    <3> QED BY <1>2, <3>2, <3>3 DEF PlacementFine
  <2>3. Choice(a, n)
    <3>1. CASE AssignGPUsOutOfRange(c.assign, n)
      BY <3>1 DEF Choice
    <3>2. CASE ~AssignGPUsOutOfRange(c.assign, n)
      BY <2>2, <3>2, InRangeIsChoice
    <3> QED BY <3>1, <3>2
  <2>4. ResolveGPUAssign(a, n).assign = a
    BY <2>3, ResolvedIsSpread
  <2> QED BY <2>1, <2>3, <2>4 DEF PlacementFine
<1> QED BY <1>1, <1>2

LEMMA PlacementStep ==
    ASSUME OneDigit, PlacementInv, [SetupNext]_setupVars PROVE PlacementInv'
<1>1. /\ host.n \in 1 .. 10 /\ host.igpu \in SUBSET GPUs(host.n) /\ PlacementFine(cfg, host.n)
  BY MachineIs DEF PlacementInv
<1>2. CASE OpenPage
  <2>1. host' = host /\ cfg' = MigrateGPUAssign(cfg, host.n, host.igpu)
    BY <1>2 DEF OpenPage
  <2>2. PlacementFine(cfg', host.n)
    BY <1>1, <2>1, MigrateFine
  <2>3. ASSUME \E o \in Offered : o.assign = cfg'.assign PROVE ShownFine'
    <3> DEFINE o == CHOOSE x \in Offered : x.assign = cfg'.assign
    <3>1. o \in Offered /\ o.assign = cfg'.assign
      BY <2>3
    <3>2. shown' = o
      BY <1>2, <2>3 DEF OpenPage
    <3> HIDE DEF o
    <3> QED BY <2>1, <3>1, <3>2 DEF ShownFine, Offered
  <2>4. ASSUME ~\E o \in Offered : o.assign = cfg'.assign PROVE ShownFine'
    <3>1. shown' = None
      BY <1>2, <2>4 DEF OpenPage
    <3> QED BY <3>1 DEF ShownFine
  <2> QED BY <2>1, <2>2, <2>3, <2>4 DEF PlacementInv
<1>3. CASE Save
  <2>1. PICK o \in Offered : /\ o.assign # Custom
                             /\ cfg' = ResolveGPUAssign(o.assign, host.n)
                             /\ shown' = o
    BY <1>3 DEF Save
  <2>2. host' = host
    BY <1>3 DEF Save
  <2>3. Choice(o.assign, host.n)
    BY <1>1, <2>1, OptionsAreFine DEF Offered, OptionFine, CustomOption, Option
  <2>4. cfg'.assign = o.assign
    BY <1>1, <2>1, <2>3, ResolvedIsSpread
  <2>5. PlacementFine(cfg', host.n)
    BY <2>1, <2>3, <2>4 DEF PlacementFine
  <2>6. ShownFine'
    BY <2>1, <2>2, <2>4 DEF ShownFine, Offered
  <2> QED BY <2>2, <2>5, <2>6 DEF PlacementInv
<1>4. CASE SaveCustom
  <2>1. cfg'.assign = Custom /\ shown' = CustomOption /\ host' = host
    <3>1. PICK S \in SUBSET GPUs(host.n) : cfg' = Placed(Custom, Padded(S, host.n), "")
      BY <1>4 DEF SaveCustom
    <3>2. shown' = CustomOption /\ host' = host
      BY <1>4 DEF SaveCustom
    <3> QED BY <3>1, <3>2 DEF Placed
  <2>2. CustomOption \in Offered /\ CustomOption.assign = Custom
    BY DEF Offered, GPUAssignOptions, CustomOption, Option
  <2>3. PlacementFine(cfg', host.n) /\ ShownFine'
    BY <2>1, <2>2 DEF PlacementFine, Custom, ShownFine, Offered
  <2> QED BY <2>1, <2>3 DEF PlacementInv
<1>5. CASE Restore
  <2>1. PICK m \in Machines : host' = m /\ cfg' = Restored(cfg, m.n)
    BY <1>5 DEF Restore
  <2>2. PlacementFine(cfg', m.n)
    BY <1>1, <2>1, RestoredFine, MachineIs
  <2>3. ShownFine'
    BY <1>5 DEF Restore, ShownFine
  <2> QED BY <2>1, <2>2, <2>3 DEF PlacementInv
<1>6. CASE Recommend \/ Estimated \/ UNCHANGED setupVars
  <2>1. UNCHANGED <<host, cfg, shown>>
    BY <1>6 DEF Recommend, Estimated, setupVars
  <2> QED BY <2>1 DEF PlacementInv, ShownFine, Offered
<1> QED BY <1>2, <1>3, <1>4, <1>5, <1>6 DEF SetupNext

(* A config whose assignment is the dropdown's is spread over it, unless   *)
(* its split is an old one of another machine.                             *)
LEMMA ByDropdownIs ==
    ASSUME OneDigit, PlacementInv, ByDropdown, OfThisMachine(cfg)
    PROVE  Choice(cfg.assign, host.n) /\ Spread(cfg, Chosen(cfg.assign, host.n), host.n)
<1>1. host.n \in 1 .. 10 /\ PlacementFine(cfg, host.n)
  BY MachineIs DEF PlacementInv
<1>2. cfg \in OldConfigs => cfg.assign = Unset
  BY OldIs
<1>3. cfg \notin OldConfigs /\ cfg.assign.form # "custom"
  BY <1>2 DEF ByDropdown, Unset
<1>4. CASE Migrated(cfg, host.n)
  BY <1>4 DEF Migrated, OfThisMachine, Choice
<1>5. CASE Choice(cfg.assign, host.n) /\ cfg = ResolveGPUAssign(cfg.assign, host.n)
  BY <1>1, <1>5, ResolvedIsSpread
<1> QED BY <1>1, <1>3, <1>4, <1>5 DEF PlacementFine

LEMMA PlacementIs ==
    ASSUME OneDigit, PlacementInv PROVE PlacementIsHonoured
<1>1. host.n \in 1 .. 10 /\ host.igpu \in SUBSET GPUs(host.n)
  BY MachineIs DEF PlacementInv
<1> DEFINE S == Chosen(cfg.assign, host.n)
<1>2. ASSUME ByDropdown, OfThisMachine(cfg)
      PROVE  /\ \A b : Runs(b) = S
             /\ \A b \in Addressable : Visible(Passed(b), host.n) = S
             /\ DeviceCountForConfig(cfg, host.n) = Cardinality(S)
  <2>1. Choice(cfg.assign, host.n) /\ Spread(cfg, S, host.n)
    BY <1>2, ByDropdownIs
  <2> QED BY <1>1, <2>1, SpreadRuns DEF Runs, Passed
<1>3. LaunchedWhereChosen
  <2> SUFFICES ASSUME shown # None, shown # CustomOption, OfThisMachine(cfg)
               PROVE  \A b \in {"rocm", "metal"} :
                        /\ Runs(b) = shown.gpus
                        /\ b \in Addressable => Visible(Passed(b), host.n) = shown.gpus
                        /\ ~shown.igpu => Runs(b) \intersect Warned(host.n, host.igpu) = {}
    BY DEF LaunchedWhereChosen
  <2>1. OptionFine(shown, host.n, host.igpu) /\ shown.assign = cfg.assign
    BY <1>1, OptionsAreFine DEF PlacementInv, ShownFine, Offered
  <2>2. ByDropdown
    BY <1>1, <2>1, ChosenIs DEF OptionFine, ByDropdown
  <2> QED BY <1>2, <2>1, <2>2 DEF OptionFine
<1>4. MapIsWhereItRuns
  <2> SUFFICES ASSUME ByDropdown, OfThisMachine(cfg)
               PROVE  LET R == ResolveModelGPUs(cfg, host.n)
                      IN  /\ R # {} /\ R \subseteq GPUs(host.n)
                          /\ Runs("rocm") = R
                          /\ DeviceCountForConfig(cfg, host.n) = Cardinality(R)
    BY DEF MapIsWhereItRuns
  <2>1. /\ S # {} /\ S \subseteq GPUs(host.n)
        /\ cfg.assign.form \notin Tensors \union {"all"} => ParseGPURange(cfg.assign) = S
    BY <1>1, ByDropdownIs, ChosenIs
  <2>2. ResolveModelGPUs(cfg, host.n) = S
    <3>1. CASE cfg.assign.form \in Tensors
      BY <3>1 DEF ResolveModelGPUs, Chosen
    <3>2. CASE cfg.assign.form = "all"
      BY <3>2 DEF ResolveModelGPUs, Chosen, Tensors
    <3>3. CASE cfg.assign.form \notin Tensors \union {"all"}
      BY <2>1, <3>3 DEF ResolveModelGPUs
    <3> QED BY <3>1, <3>2, <3>3
  <2> QED BY <1>2, <2>1, <2>2
<1> QED BY <1>3, <1>4 DEF PlacementIsHonoured

(* PlacementIsHonoured: wherever a config was chosen, saved, restored or   *)
(* migrated, what starts, what the map draws and what the estimate charges *)
(* are the GPUs of the choice.                                             *)
THEOREM PlacementHonoured == OneDigit => (SetupSpec => []PlacementIsHonoured)
<1> SUFFICES ASSUME OneDigit PROVE SetupSpec => []PlacementIsHonoured
  OBVIOUS
<1>1. SetupInit => PlacementInv
  <2> SUFFICES ASSUME SetupInit PROVE PlacementInv
    OBVIOUS
  <2>1. host \in Machines /\ host.n \in 1 .. 10 /\ ShownFine
    BY MachineIs DEF SetupInit, ShownFine
  <2>2. ASSUME cfg = Placed(All, NoSplit, "layer") PROVE PlacementFine(cfg, host.n)
    <3>1. cfg.assign = All /\ Choice(All, host.n)
      BY <2>2 DEF Placed, Choice
    <3>2. cfg = ResolveGPUAssign(cfg.assign, host.n)
      <4>1. ~(host.n <= 0) /\ All.form = "all"
        BY <2>1 DEF All
      <4> QED BY <2>2, <3>1, <4>1 DEF ResolveGPUAssign
    <3> QED BY <3>1, <3>2 DEF PlacementFine
  <2> QED BY <2>1, <2>2 DEF SetupInit, PlacementInv, PlacementFine
<1>2. PlacementInv /\ [SetupNext]_setupVars => PlacementInv'
  BY PlacementStep
<1>3. PlacementInv => PlacementIsHonoured
  BY PlacementIs
<1> QED BY <1>1, <1>2, <1>3, PTL DEF SetupSpec

-----------------------------------------------------------------------------
(* Settings and backups.  Maps that are merged.                            *)
LEMMA OverIs ==
    ASSUME NEW f, NEW g
    PROVE  /\ DOMAIN (f ++ g) = DOMAIN f \union DOMAIN g
           /\ \A x \in DOMAIN f : (f ++ g)[x] = f[x]
           /\ \A x \in DOMAIN g \ DOMAIN f : (f ++ g)[x] = g[x]
BY DEF ++

LEMMA OverTwice ==
    ASSUME NEW f, NEW g PROVE f ++ (f ++ g) = f ++ g
<1>1. DOMAIN (f ++ (f ++ g)) = DOMAIN f \union DOMAIN g
  BY DEF ++
<1>2. \A x \in DOMAIN f \union DOMAIN g :
        (IF x \in DOMAIN f THEN f[x] ELSE (f ++ g)[x]) = (IF x \in DOMAIN f THEN f[x] ELSE g[x])
  BY DEF ++
<1> QED BY <1>1, <1>2 DEF ++

IsServer(s) ==
    s = [conf |-> s.conf, presets |-> s.presets, models |-> s.models, pending |-> s.pending,
         files |-> s.files, n |-> s.n, dir |-> s.dir]

IsConf(conf) ==
    /\ conf = [plain |-> conf.plain, env |-> conf.env, extra |-> conf.extra]
    /\ conf.plain = [x \in Plain |-> conf.plain[x]]

(* What a restore makes of a server, a part at a time.                     *)
ConfAfter(conf, file, sel) ==
    LET c == IF "settings" \in sel THEN ApplySettings(conf, file) ELSE conf
    IN  IF "env" \in sel THEN ApplyEnv(c, file) ELSE c

PresetsAfter(s, file, sel) ==
    IF "presets" \in sel THEN file.presets ++ s.presets ELSE s.presets

LocalConfig(file, k, n) == [file.configs[k] EXCEPT !.place = Restored(@, n)]

ModelAfter(s, file, id) ==
    IF s.models[id].key \in DOMAIN file.configs
    THEN [s.models[id] EXCEPT !.cfg = ResolveConfigPaths(LocalConfig(file, s.models[id].key, s.n), s)]
    ELSE s.models[id]

ModelsAfter(s, file, sel) ==
    IF "configs" \in sel THEN [id \in DOMAIN s.models |-> ModelAfter(s, file, id)] ELSE s.models

WaitingAfter(s, file) ==
    [k \in {x \in DOMAIN file.configs : Installed(s, x) = {}} |-> LocalConfig(file, k, s.n)]

PendingAfter(s, file, sel) ==
    IF "configs" \in sel THEN WaitingAfter(s, file) ++ s.pending ELSE s.pending

LEMMA ApplyIs ==
    ASSUME NEW s, IsServer(s), NEW file, NEW sel
    PROVE  Apply(s, file, sel) =
            [conf |-> ConfAfter(s.conf, file, sel), presets |-> PresetsAfter(s, file, sel),
             models |-> ModelsAfter(s, file, sel), pending |-> PendingAfter(s, file, sel),
             files |-> s.files, n |-> s.n, dir |-> s.dir]
<1> DEFINE a == IF "settings" \in sel THEN [s EXCEPT !.conf = ApplySettings(@, file)] ELSE s
           b == IF "env" \in sel THEN [a EXCEPT !.conf = ApplyEnv(@, file)] ELSE a
           c == IF "presets" \in sel THEN [b EXCEPT !.presets = file.presets ++ @] ELSE b
           Rest(conf, presets) ==
               [conf |-> conf, presets |-> presets, models |-> s.models, pending |-> s.pending,
                files |-> s.files, n |-> s.n, dir |-> s.dir]
<1>1. a = Rest(IF "settings" \in sel THEN ApplySettings(s.conf, file) ELSE s.conf, s.presets)
  BY DEF IsServer
<1>2. b = Rest(ConfAfter(s.conf, file, sel), s.presets)
  BY <1>1 DEF ConfAfter
<1>3. c = Rest(ConfAfter(s.conf, file, sel), PresetsAfter(s, file, sel))
  BY <1>2 DEF PresetsAfter
<1>4. Apply(s, file, sel) = IF "configs" \in sel THEN ApplyConfigs(c, file) ELSE c
  BY DEF Apply
<1> HIDE DEF a, b, c
<1>5. CASE "configs" \notin sel
  BY <1>3, <1>4, <1>5 DEF ModelsAfter, PendingAfter
<1>6. CASE "configs" \in sel
  <2>1. c.models = s.models /\ c.pending = s.pending /\ c.files = s.files /\ c.n = s.n /\ c.dir = s.dir
    BY <1>3
  <2>2. \A k : Installed(c, k) = Installed(s, k)
    BY <2>1 DEF Installed
  <2>3. \A cfg0 : ResolveConfigPaths(cfg0, c) = ResolveConfigPaths(cfg0, s)
    BY <2>1 DEF ResolveConfigPaths
  <2>4. ApplyConfigs(c, file) =
          [c EXCEPT !.models = [id \in DOMAIN s.models |-> ModelAfter(s, file, id)],
                    !.pending = WaitingAfter(s, file) ++ s.pending]
    <3> DEFINE M == [id \in DOMAIN c.models |->
                        IF c.models[id].key \in DOMAIN file.configs
                        THEN [c.models[id] EXCEPT
                                !.cfg = ResolveConfigPaths(LocalConfig(file, c.models[id].key, c.n), c)]
                        ELSE c.models[id]]
               W == [k \in {x \in DOMAIN file.configs : Installed(c, x) = {}} |-> LocalConfig(file, k, c.n)]
    <3>1. ApplyConfigs(c, file) = [c EXCEPT !.models = M, !.pending = W ++ @]
      BY DEF ApplyConfigs, LocalConfig
    <3>2. M = [id \in DOMAIN s.models |-> ModelAfter(s, file, id)]
      BY <2>1, <2>3 DEF ModelAfter
    <3>3. W = WaitingAfter(s, file)
      BY <2>1, <2>2 DEF WaitingAfter
    <3> HIDE DEF M, W
    <3>4. ApplyConfigs(c, file) = [c EXCEPT !.models = M, !.pending = W ++ c.pending]
      BY <1>3, <3>1
    <3> QED BY <2>1, <3>2, <3>3, <3>4
  <2> QED BY <1>3, <1>4, <1>6, <2>1, <2>4 DEF ModelsAfter, PendingAfter
<1> QED BY <1>5, <1>6

PlainAfter(conf, file, x) ==
    IF x \in DOMAIN file.plain /\ Given(x, file.plain[x]) /\ file.plain[x] # conf.plain[x]
    THEN Normal(x, file.plain[x]) ELSE conf.plain[x]

ExtraAfter(conf, file) == IF file.extra = <<>> THEN conf.extra ELSE file.extra

LEMMA SavedIsConf == ASSUME NEW conf, SavedConf(conf) PROVE IsConf(conf)
BY DEF SavedConf, IsConf

LEMMA ConfAfterIs ==
    ASSUME NEW conf, IsConf(conf), ValidEnv(conf.env, conf.extra), NEW file, NEW sel
    PROVE  LET r == ConfAfter(conf, file, sel)
           IN  /\ IsConf(r) /\ ValidEnv(r.env, r.extra)
               /\ r.plain = IF "settings" \in sel THEN [x \in Plain |-> PlainAfter(conf, file, x)]
                            ELSE conf.plain
               /\ IF "env" \in sel /\ ValidEnv(file.env ++ conf.env, ExtraAfter(conf, file))
                  THEN r.env = file.env ++ conf.env /\ r.extra = ExtraAfter(conf, file)
                  ELSE r.env = conf.env /\ r.extra = conf.extra
<1> DEFINE c == IF "settings" \in sel THEN ApplySettings(conf, file) ELSE conf
           P == IF "settings" \in sel THEN [x \in Plain |-> PlainAfter(conf, file, x)] ELSE conf.plain
<1>1. DOMAIN conf.plain = Plain
  BY DEF IsConf
<1>2. ApplySettings(conf, file) =
        [conf EXCEPT !.plain = [x \in Plain |-> PlainAfter(conf, file, x)]]
  BY <1>1 DEF ApplySettings, PlainAfter
<1>3. c = [plain |-> P, env |-> conf.env, extra |-> conf.extra]
  BY <1>2 DEF IsConf
<1>4. P = [x \in Plain |-> P[x]]
  BY DEF IsConf
<1> HIDE DEF P
<1>5. MergedEnv(c, file) = [plain |-> P, env |-> file.env ++ conf.env, extra |-> ExtraAfter(conf, file)]
  <2> HIDE DEF c
  <2>1. MergedEnv(c, file) = [c EXCEPT !.env = file.env ++ c.env,
                                       !.extra = IF file.extra = <<>> THEN c.extra ELSE file.extra]
    BY <1>3 DEF MergedEnv
  <2> QED BY <1>3, <2>1 DEF ExtraAfter
<1>6. CASE "env" \notin sel
  <2>1. ConfAfter(conf, file, sel) = c
    BY <1>6 DEF ConfAfter
  <2> QED BY <1>3, <1>4, <1>6, <2>1 DEF IsConf, P
<1>7. CASE "env" \in sel
  <2>1. ConfAfter(conf, file, sel) = ApplyEnv(c, file)
    BY <1>7 DEF ConfAfter
  <2>2. ApplyEnv(c, file) =
            IF ValidEnv(file.env ++ conf.env, ExtraAfter(conf, file)) THEN MergedEnv(c, file) ELSE c
    BY <1>5 DEF ApplyEnv
  <2> HIDE DEF c
  <2>3. CASE ValidEnv(file.env ++ conf.env, ExtraAfter(conf, file))
    <3>1. ConfAfter(conf, file, sel)
            = [plain |-> P, env |-> file.env ++ conf.env, extra |-> ExtraAfter(conf, file)]
      BY <1>5, <2>1, <2>2, <2>3
    <3> QED BY <1>4, <1>7, <2>3, <3>1 DEF IsConf, P
  <2>4. CASE ~ValidEnv(file.env ++ conf.env, ExtraAfter(conf, file))
    BY <1>3, <1>4, <2>1, <2>2, <2>4 DEF IsConf, P
  <2> QED BY <2>3, <2>4
<1> QED BY <1>6, <1>7

(* What a backup is, whole or edited by hand.                              *)
Archive(file) ==
    /\ DOMAIN file.plain \subseteq Carried \union Secrets \union {"default_model_source"}
    /\ \A x \in DOMAIN file.plain \intersect Carried : file.plain[x] # ""

LEMMA AssembleIs ==
    ASSUME NEW s, SavedConf(s.conf), NEW secrets \in BOOLEAN
    PROVE  /\ Archive(Assemble(s, secrets))
           /\ Archive([Assemble(s, secrets) EXCEPT !.plain = Put(@, "hf_token", "")])
           /\ \A x, v : Archive([Assemble(s, secrets) EXCEPT !.env = Put(@, x, v)])
<1> DEFINE file == Assemble(s, secrets)
           P == [x \in Exported(s.conf, secrets) |-> s.conf.plain[x]]
<1>1. /\ file.plain = P
      /\ [file EXCEPT !.plain = Put(@, "hf_token", "")].plain = Put(P, "hf_token", "")
      /\ \A x, v : [file EXCEPT !.env = Put(@, x, v)].plain = P
  BY DEF Assemble
<1>2. DOMAIN P \subseteq Carried \union Secrets \union {"default_model_source"}
  BY DEF Exported
<1>3. \A x \in DOMAIN P \intersect Carried : P[x] # ""
  BY DEF SavedConf
<1>4. /\ DOMAIN Put(P, "hf_token", "") = DOMAIN P \union {"hf_token"}
      /\ \A x \in DOMAIN P \intersect Carried : Put(P, "hf_token", "")[x] = P[x]
  BY DEF Put, Carried
<1> HIDE DEF file, P
<1>5. Archive(file)
  BY <1>1, <1>2, <1>3 DEF Archive
<1>6. Archive([file EXCEPT !.plain = Put(@, "hf_token", "")])
  <2>1. "hf_token" \in Secrets /\ "hf_token" \notin Carried
    BY DEF Secrets, Carried
  <2> QED BY <1>1, <1>2, <1>3, <1>4, <2>1 DEF Archive
<1>7. \A x, v : Archive([file EXCEPT !.env = Put(@, x, v)])
  BY <1>1, <1>2, <1>3 DEF Archive
<1> QED BY <1>5, <1>6, <1>7 DEF file

KeptIn(r, old, file, sel) ==
    LET given(section, part) == IF section \in sel THEN part ELSE <<>>
        before == LinePairs(old.conf.extra)
        text == given("env", file.extra)
    IN  /\ ValidEnv(r.conf.env, r.conf.extra)
        /\ \A x \in Plain :
            \/ r.conf.plain[x] = old.conf.plain[x]
            \/ /\ x \in DOMAIN given("settings", file.plain)
               /\ r.conf.plain[x] = Normal(x, file.plain[x]) /\ r.conf.plain[x] # ""
        /\ Kept(old.conf.env, given("env", file.env), r.conf.env)
        /\ r.conf.extra \in {old.conf.extra, file.extra}
        /\ text = <<>> => r.conf.extra = old.conf.extra
        /\ \A x \in DOMAIN Pairs(old.conf.env, old.conf.extra) :
            \/ LaunchValue(r.conf, x) = LaunchValue(old.conf, x)
            \/ x \in DOMAIN given("env", file.env) \union DOMAIN LinePairs(text)
            \/ text # <<>> /\ x \in DOMAIN before
        /\ Kept(old.presets, given("presets", file.presets), r.presets)
        /\ DOMAIN old.models = DOMAIN r.models
        /\ DOMAIN old.pending \subseteq DOMAIN r.pending
        /\ \A id \in DOMAIN old.models :
            old.models[id].key \notin DOMAIN given("configs", file.configs)
                => r.models[id] = old.models[id]
        /\ \A k \in DOMAIN old.pending :
            k \notin DOMAIN given("configs", file.configs) => r.pending[k] = old.pending[k]

(* A variable of neither a file's map nor of the free texts is launched with *)
(* the value it had.                                                        *)
LEMMA SameVariable ==
    ASSUME NEW env, NEW extra, NEW more, NEW text, NEW x \in DOMAIN Pairs(env, extra),
           x \notin DOMAIN more,
           text = extra \/ x \notin DOMAIN LinePairs(text) \union DOMAIN LinePairs(extra)
    PROVE  LET new == Pairs(more ++ env, text)
           IN  x \in DOMAIN new /\ new[x] = Pairs(env, extra)[x]
<1>1. x \in DOMAIN (more ++ env) <=> x \in DOMAIN env
  BY DEF ++
<1>2. x \in DOMAIN env => (more ++ env)[x] = env[x]
  BY DEF ++
<1>3. x \in DOMAIN LinePairs(text) <=> x \in DOMAIN LinePairs(extra)
  OBVIOUS
<1>4. x \in DOMAIN LinePairs(extra) => LinePairs(text)[x] = LinePairs(extra)[x]
  OBVIOUS
<1> DEFINE E == more ++ env  L == LinePairs(text)  M == LinePairs(extra)
<1> HIDE DEF E, L, M
<1>5. /\ Pairs(E, text) = L ++ [y \in {z \in DOMAIN E : E[z] # ""} |-> E[y]]
      /\ Pairs(env, extra) = M ++ [y \in {z \in DOMAIN env : env[z] # ""} |-> env[y]]
  BY DEF Pairs, L, M
<1> QED BY <1>1, <1>2, <1>3, <1>4, <1>5 DEF ++, E, L, M

LEMMA RestoreKeeps ==
    ASSUME NEW old, IsServer(old), SavedConf(old.conf), NEW file, Archive(file), NEW sel
    PROVE  KeptIn(Apply(old, file, sel), old, file, sel)
<1> DEFINE r == Apply(old, file, sel)
           conf == old.conf
<1>1. /\ r.conf = ConfAfter(conf, file, sel) /\ r.presets = PresetsAfter(old, file, sel)
      /\ r.models = ModelsAfter(old, file, sel) /\ r.pending = PendingAfter(old, file, sel)
  BY ApplyIs
<1> HIDE DEF r, conf
<1>2. IsConf(conf) /\ ValidEnv(conf.env, conf.extra)
  BY SavedIsConf DEF SavedConf, conf
<1>3. /\ ValidEnv(r.conf.env, r.conf.extra)
      /\ r.conf.plain = IF "settings" \in sel THEN [x \in Plain |-> PlainAfter(conf, file, x)] ELSE conf.plain
      /\ \/ "env" \in sel /\ r.conf.env = file.env ++ conf.env /\ r.conf.extra = ExtraAfter(conf, file)
         \/ r.conf.env = conf.env /\ r.conf.extra = conf.extra
  BY <1>1, <1>2, ConfAfterIs
<1> DEFINE given(section, part) == IF section \in sel THEN part ELSE <<>>
           text == given("env", file.extra)
           before == LinePairs(conf.extra)
<1>4. /\ Kept(conf.env, given("env", file.env), r.conf.env)
      /\ r.conf.extra \in {conf.extra, file.extra}
      /\ text = <<>> => r.conf.extra = conf.extra
  BY <1>3 DEF ExtraAfter, Kept, ++
<1>5. ASSUME NEW x \in DOMAIN Pairs(conf.env, conf.extra)
      PROVE  \/ LaunchValue(r.conf, x) = LaunchValue(conf, x)
             \/ x \in DOMAIN given("env", file.env) \union DOMAIN LinePairs(text)
             \/ text # <<>> /\ x \in DOMAIN before
  <2>1. CASE r.conf.env = conf.env /\ r.conf.extra = conf.extra
    BY <2>1 DEF LaunchValue
  <2>2. CASE "env" \in sel /\ r.conf.env = file.env ++ conf.env /\ r.conf.extra = ExtraAfter(conf, file)
    <3>1. given("env", file.env) = file.env /\ text = file.extra
      BY <2>2
    <3> SUFFICES ASSUME x \notin DOMAIN file.env,
                        file.extra = <<>> \/ x \notin DOMAIN LinePairs(file.extra) \union DOMAIN before
                 PROVE  LaunchValue(r.conf, x) = LaunchValue(conf, x)
      BY <3>1
    <3>2. \/ ExtraAfter(conf, file) = conf.extra
          \/ x \notin DOMAIN LinePairs(ExtraAfter(conf, file)) \union DOMAIN LinePairs(conf.extra)
      BY DEF ExtraAfter
    <3>3. LET p == Pairs(file.env ++ conf.env, ExtraAfter(conf, file))
          IN  x \in DOMAIN p /\ p[x] = Pairs(conf.env, conf.extra)[x]
      BY <3>2, SameVariable
    <3> QED BY <1>5, <2>2, <3>3 DEF LaunchValue
  <2> QED BY <1>3, <2>1, <2>2
<1>6. ASSUME NEW x \in Plain
      PROVE  \/ r.conf.plain[x] = conf.plain[x]
             \/ /\ x \in DOMAIN given("settings", file.plain)
                /\ r.conf.plain[x] = Normal(x, file.plain[x]) /\ r.conf.plain[x] # ""
  <2>1. ASSUME x \in DOMAIN file.plain, Given(x, file.plain[x]) PROVE Normal(x, file.plain[x]) # ""
    <3>1. CASE x = "default_model_source"
      BY <3>1 DEF Normal
    <3>2. CASE x # "default_model_source"
      <4>1. x \in Carried \union Secrets
        BY <2>1, <3>2 DEF Archive
      <4> QED BY <2>1, <3>2, <4>1 DEF Archive, Normal, Given
    <3> QED BY <3>1, <3>2
  <2> QED BY <1>3, <2>1 DEF PlainAfter
<1>7. /\ Kept(old.presets, given("presets", file.presets), r.presets)
      /\ DOMAIN old.pending \subseteq DOMAIN r.pending
      /\ \A k \in DOMAIN old.pending :
            k \notin DOMAIN given("configs", file.configs) => r.pending[k] = old.pending[k]
  BY <1>1 DEF PresetsAfter, PendingAfter, WaitingAfter, Kept, ++
<1>8. /\ DOMAIN old.models = DOMAIN r.models
      /\ \A id \in DOMAIN old.models :
            old.models[id].key \notin DOMAIN given("configs", file.configs) => r.models[id] = old.models[id]
  BY <1>1 DEF ModelsAfter, ModelAfter
<1> QED BY <1>3, <1>4, <1>5, <1>6, <1>7, <1>8 DEF KeptIn, r, conf

InputKnown == input = None \/ input.kind = "page" \/ input \in Inputs

LEMMA RestoreDeletesNone ==
    ASSUME InputKnown PROVE RestoreNeverDeletes
<1> SUFFICES ASSUME input # None, input.kind = "backup" PROVE RestoreNeverDeletes
  BY DEF RestoreNeverDeletes
<1> DEFINE old == input.to
           plain == Assemble(input.from, FALSE)
           files == {Assemble(input.from, TRUE), plain,
                     [plain EXCEPT !.plain = Put(@, "hf_token", "")],
                     [plain EXCEPT !.env = Put(@, "verbosity", "")],
                     [plain EXCEPT !.env = Put(@, "bogus", "1")]}
<1>1. ServerInput(input.from) /\ ServerInput(old)
  BY InputsAssumption DEF InputKnown
<1>2. SavedConf(input.from.conf) /\ IsServer(old) /\ SavedConf(old.conf)
  BY <1>1 DEF ServerInput, IsServer
<1>3. \A file \in files : Archive(file)
  <2>1. Archive(Assemble(input.from, TRUE)) /\ Archive(plain)
    BY <1>2, AssembleIs
  <2>2. Archive([plain EXCEPT !.plain = Put(@, "hf_token", "")])
    BY <1>2, AssembleIs
  <2>3. /\ Archive([plain EXCEPT !.env = Put(@, "verbosity", "")])
        /\ Archive([plain EXCEPT !.env = Put(@, "bogus", "1")])
    BY <1>2, AssembleIs
  <2> QED BY <2>1, <2>2, <2>3, Zenon
<1>4. ASSUME NEW file \in files, NEW sel \in SUBSET Sections4
      PROVE  KeptIn(Apply(old, file, sel), old, file, sel)
  BY <1>2, <1>3, RestoreKeeps
<1> HIDE DEF files, plain
<1> QED BY <1>4 DEF RestoreNeverDeletes, files, plain, KeptIn

(* A restore of the same backup changes nothing the second time.           *)
ModelsAre(s) == \A id \in DOMAIN s.models : s.models[id] = [key |-> s.models[id].key, cfg |-> s.models[id].cfg]

LEMMA ModelsKeepTheirKeys ==
    ASSUME NEW s, IsServer(s), ModelsAre(s), NEW file, NEW sel
    PROVE  LET r == Apply(s, file, sel)
           IN  /\ IsServer(r) /\ r.files = s.files /\ r.n = s.n /\ r.dir = s.dir
               /\ DOMAIN r.models = DOMAIN s.models
               /\ \A id \in DOMAIN s.models : r.models[id].key = s.models[id].key
               /\ ModelsAre(r)
               /\ Identities(r) = Identities(s)
               /\ \A k : Installed(r, k) = Installed(s, k)
<1> DEFINE r == Apply(s, file, sel)
<1>1. /\ IsServer(r) /\ r.files = s.files /\ r.n = s.n /\ r.dir = s.dir
      /\ r.models = ModelsAfter(s, file, sel)
  BY ApplyIs DEF IsServer
<1> HIDE DEF r
<1>2. \A id \in DOMAIN s.models :
        /\ ModelAfter(s, file, id).key = s.models[id].key
        /\ ModelAfter(s, file, id) = [key |-> s.models[id].key, cfg |-> ModelAfter(s, file, id).cfg]
  <2> SUFFICES ASSUME NEW id \in DOMAIN s.models
               PROVE  /\ ModelAfter(s, file, id).key = s.models[id].key
                      /\ ModelAfter(s, file, id) = [key |-> s.models[id].key, cfg |-> ModelAfter(s, file, id).cfg]
    OBVIOUS
  <2> DEFINE X == ResolveConfigPaths(LocalConfig(file, s.models[id].key, s.n), s)
  <2>1. s.models[id] = [key |-> s.models[id].key, cfg |-> s.models[id].cfg]
    BY DEF ModelsAre
  <2>2. ModelAfter(s, file, id) \in {s.models[id], [s.models[id] EXCEPT !.cfg = X]}
    BY DEF ModelAfter
  <2> HIDE DEF X
  <2>3. [s.models[id] EXCEPT !.cfg = X] = [key |-> s.models[id].key, cfg |-> X]
    BY <2>1
  <2> QED BY <2>1, <2>2, <2>3
<1>3. /\ DOMAIN r.models = DOMAIN s.models
      /\ \A id \in DOMAIN s.models : r.models[id].key = s.models[id].key
      /\ ModelsAre(r)
  BY <1>1, <1>2 DEF ModelsAfter, ModelsAre
<1>4. Identities(r) = Identities(s) /\ \A k : Installed(r, k) = Installed(s, k)
  BY <1>3 DEF Identities, Installed
<1> QED BY <1>1, <1>3, <1>4 DEF r

LEMMA ConfTwice ==
    ASSUME NEW conf, IsConf(conf), ValidEnv(conf.env, conf.extra), NEW file, NEW sel
    PROVE  ConfAfter(ConfAfter(conf, file, sel), file, sel) = ConfAfter(conf, file, sel)
<1> DEFINE r == ConfAfter(conf, file, sel)
           t == ConfAfter(r, file, sel)
<1>1. /\ IsConf(r) /\ ValidEnv(r.env, r.extra)
      /\ r.plain = IF "settings" \in sel THEN [x \in Plain |-> PlainAfter(conf, file, x)] ELSE conf.plain
      /\ IF "env" \in sel /\ ValidEnv(file.env ++ conf.env, ExtraAfter(conf, file))
         THEN r.env = file.env ++ conf.env /\ r.extra = ExtraAfter(conf, file)
         ELSE r.env = conf.env /\ r.extra = conf.extra
  BY ConfAfterIs
<1> HIDE DEF r
<1>2. /\ IsConf(t)
      /\ t.plain = IF "settings" \in sel THEN [x \in Plain |-> PlainAfter(r, file, x)] ELSE r.plain
      /\ IF "env" \in sel /\ ValidEnv(file.env ++ r.env, ExtraAfter(r, file))
         THEN t.env = file.env ++ r.env /\ t.extra = ExtraAfter(r, file)
         ELSE t.env = r.env /\ t.extra = r.extra
  BY <1>1, ConfAfterIs
<1> HIDE DEF t
<1>3. t.plain = r.plain
  BY <1>1, <1>2 DEF PlainAfter
<1>4. t.env = r.env /\ t.extra = r.extra
  <2>1. CASE "env" \in sel /\ ValidEnv(file.env ++ conf.env, ExtraAfter(conf, file))
    <3>1. file.env ++ r.env = r.env
      BY <1>1, <2>1, OverTwice
    <3>2. ExtraAfter(r, file) = r.extra
      BY <1>1, <2>1 DEF ExtraAfter
    <3> QED BY <1>2, <3>1, <3>2
  <2>2. CASE ~("env" \in sel /\ ValidEnv(file.env ++ conf.env, ExtraAfter(conf, file)))
    BY <1>1, <1>2, <2>2 DEF ExtraAfter
  <2> QED BY <2>1, <2>2
<1>5. t = r
  BY <1>1, <1>2, <1>3, <1>4 DEF IsConf
<1> QED BY <1>5 DEF r, t

LEMMA ApplyTwice ==
    ASSUME NEW s, IsServer(s), ModelsAre(s), SavedConf(s.conf), NEW file, NEW sel
    PROVE  Apply(Apply(s, file, sel), file, sel) = Apply(s, file, sel)
<1> DEFINE r == Apply(s, file, sel)
           t == Apply(r, file, sel)
<1>1. /\ r.conf = ConfAfter(s.conf, file, sel) /\ r.presets = PresetsAfter(s, file, sel)
      /\ r.models = ModelsAfter(s, file, sel) /\ r.pending = PendingAfter(s, file, sel)
  BY ApplyIs
<1>2. /\ IsServer(r) /\ r.files = s.files /\ r.n = s.n /\ r.dir = s.dir
      /\ DOMAIN r.models = DOMAIN s.models
      /\ \A id \in DOMAIN s.models : r.models[id].key = s.models[id].key
      /\ \A k : Installed(r, k) = Installed(s, k)
  BY ModelsKeepTheirKeys
<1> HIDE DEF r
<1>3. /\ t.conf = ConfAfter(r.conf, file, sel) /\ t.presets = PresetsAfter(r, file, sel)
      /\ t.models = ModelsAfter(r, file, sel) /\ t.pending = PendingAfter(r, file, sel)
      /\ IsServer(t) /\ t.files = r.files /\ t.n = r.n /\ t.dir = r.dir
  BY <1>2, ApplyIs DEF IsServer
<1> HIDE DEF t
<1>4. t.conf = r.conf
  <2>1. IsConf(s.conf) /\ ValidEnv(s.conf.env, s.conf.extra)
    BY SavedIsConf DEF SavedConf
  <2> QED BY <1>1, <1>3, <2>1, ConfTwice
<1>5. t.presets = r.presets
  BY <1>1, <1>3, OverTwice DEF PresetsAfter
<1>6. t.models = r.models
  <2>1. ASSUME NEW id \in DOMAIN s.models, "configs" \in sel
        PROVE  ModelAfter(r, file, id) = ModelAfter(s, file, id)
    <3>1. r.models[id] = ModelAfter(s, file, id)
      BY <1>1, <2>1 DEF ModelsAfter
    <3>2. \A c : ResolveConfigPaths(c, r) = ResolveConfigPaths(c, s)
      BY <1>2 DEF ResolveConfigPaths
    <3> DEFINE X == ResolveConfigPaths(LocalConfig(file, s.models[id].key, s.n), s)
    <3>3. ModelAfter(r, file, id) =
            IF s.models[id].key \in DOMAIN file.configs THEN [r.models[id] EXCEPT !.cfg = X] ELSE r.models[id]
      BY <1>2, <3>2 DEF ModelAfter
    <3> HIDE DEF X
    <3>4. [[s.models[id] EXCEPT !.cfg = X] EXCEPT !.cfg = X] = [s.models[id] EXCEPT !.cfg = X]
      BY DEF ModelsAre
    <3>5. ModelAfter(s, file, id) =
            IF s.models[id].key \in DOMAIN file.configs THEN [s.models[id] EXCEPT !.cfg = X] ELSE s.models[id]
      BY DEF ModelAfter, X
    <3> QED BY <3>1, <3>3, <3>4, <3>5
  <2> QED BY <1>1, <1>2, <1>3, <2>1 DEF ModelsAfter
<1>7. t.pending = r.pending
  <2>1. WaitingAfter(r, file) = WaitingAfter(s, file)
    BY <1>2 DEF WaitingAfter
  <2> QED BY <1>1, <1>3, <2>1, OverTwice DEF PendingAfter
<1>8. t = r
  BY <1>2, <1>3, <1>4, <1>5, <1>6, <1>7 DEF IsServer
<1> QED BY <1>8 DEF r, t

(* A model that arrives after the restore, or before it.                   *)
LEMMA ArriveIs ==
    ASSUME NEW s, IsServer(s), NEW id, NEW k, NEW default
    PROVE  Arrive(s, id, k, default) =
            [conf |-> s.conf, presets |-> s.presets,
             models |-> Put(s.models, id,
                            [key |-> k, cfg |-> IF k \in DOMAIN s.pending
                                                THEN ResolveConfigPaths(s.pending[k], s) ELSE default]),
             pending |-> Without(s.pending, k), files |-> s.files, n |-> s.n, dir |-> s.dir]
<1> DEFINE M == Put(s.models, id, [key |-> k, cfg |-> IF k \in DOMAIN s.pending
                                                THEN ResolveConfigPaths(s.pending[k], s) ELSE default])
           P == Without(s.pending, k)
           s2 == [s EXCEPT !.models = M]
<1>1. Arrive(s, id, k, default) = [s EXCEPT !.models = M, !.pending = P]
  BY DEF Arrive
<1> HIDE DEF M, P
<1>2. s2 = [conf |-> s.conf, presets |-> s.presets, models |-> M, pending |-> s.pending,
            files |-> s.files, n |-> s.n, dir |-> s.dir]
  BY DEF IsServer
<1>3. [s EXCEPT !.models = M, !.pending = P] = [s2 EXCEPT !.pending = P]
  BY DEF IsServer
<1> HIDE DEF s2
<1>4. [s2 EXCEPT !.pending = P] =
        [conf |-> s.conf, presets |-> s.presets, models |-> M, pending |-> P,
         files |-> s.files, n |-> s.n, dir |-> s.dir]
  BY <1>2
<1> QED BY <1>1, <1>3, <1>4 DEF M, P

LEMMA LateIsEarly ==
    ASSUME NEW s, IsServer(s), ModelsAre(s), NEW file, NEW k \in DOMAIN file.configs, k \notin Identities(s),
           NEW id, id \notin DOMAIN s.models, NEW default, NEW sel, "configs" \in sel
    PROVE  Arrive(Apply(s, file, sel), id, k, default) = Apply(Arrive(s, id, k, default), file, sel)
<1> DEFINE r == Apply(s, file, sel)
           a == Arrive(s, id, k, default)
           late == Arrive(r, id, k, default)
           early == Apply(a, file, sel)
           X == ResolveConfigPaths(LocalConfig(file, k, s.n), s)
           N == [key |-> k, cfg |-> X]
           W == WaitingAfter(s, file)
<1>1. /\ IsServer(r) /\ r.conf = ConfAfter(s.conf, file, sel) /\ r.presets = PresetsAfter(s, file, sel)
      /\ r.models = ModelsAfter(s, file, sel) /\ r.pending = W ++ s.pending
      /\ r.files = s.files /\ r.n = s.n /\ r.dir = s.dir
  BY ApplyIs DEF IsServer, PendingAfter
<1> DEFINE c0 == IF k \in DOMAIN s.pending THEN ResolveConfigPaths(s.pending[k], s) ELSE default
<1>2. /\ IsServer(a) /\ a.conf = s.conf /\ a.presets = s.presets
      /\ a.models = Put(s.models, id, [key |-> k, cfg |-> c0])
      /\ a.pending = Without(s.pending, k)
      /\ a.files = s.files /\ a.n = s.n /\ a.dir = s.dir
  BY ArriveIs DEF IsServer
<1> HIDE DEF r, a, c0
<1>3. Installed(s, k) = {} /\ k \in DOMAIN W /\ W[k] = LocalConfig(file, k, s.n)
  BY DEF Installed, Identities, WaitingAfter
<1>4. k \in DOMAIN r.pending /\ r.pending[k] = LocalConfig(file, k, s.n)
  BY <1>1, <1>3 DEF ++
<1> HIDE DEF W
<1>5. \A c : ResolveConfigPaths(c, r) = ResolveConfigPaths(c, s) /\ ResolveConfigPaths(c, a) = ResolveConfigPaths(c, s)
  BY <1>1, <1>2 DEF ResolveConfigPaths
<1>6. late = [conf |-> r.conf, presets |-> r.presets, models |-> Put(r.models, id, N),
              pending |-> Without(r.pending, k), files |-> s.files, n |-> s.n, dir |-> s.dir]
  BY <1>1, <1>4, <1>5, ArriveIs
<1>7. early = [conf |-> ConfAfter(s.conf, file, sel), presets |-> PresetsAfter(s, file, sel),
               models |-> ModelsAfter(a, file, sel), pending |-> WaitingAfter(a, file) ++ a.pending,
               files |-> s.files, n |-> s.n, dir |-> s.dir]
  BY <1>2, ApplyIs DEF PresetsAfter, PendingAfter
<1>8. ModelsAfter(a, file, sel) = Put(r.models, id, N)
  <2>1. DOMAIN a.models = DOMAIN s.models \union {id} /\ a.models[id] = [key |-> k, cfg |-> c0]
        /\ \A x \in DOMAIN s.models : a.models[x] = s.models[x]
    BY <1>2 DEF Put
  <2>2. ModelAfter(a, file, id) = N
    BY <1>2, <1>5, <2>1 DEF ModelAfter
  <2>3. \A x \in DOMAIN s.models : ModelAfter(a, file, x) = ModelAfter(s, file, x)
    BY <1>2, <1>5, <2>1 DEF ModelAfter
  <2>4. r.models = [x \in DOMAIN s.models |-> ModelAfter(s, file, x)]
    BY <1>1 DEF ModelsAfter
  <2> HIDE DEF N
  <2> QED BY <2>1, <2>2, <2>3, <2>4 DEF ModelsAfter, Put
<1>9. WaitingAfter(a, file) ++ a.pending = Without(r.pending, k)
  <2>1. \A x : Installed(a, x) = {} <=> Installed(s, x) = {} /\ x # k
    <3>1. DOMAIN a.models = DOMAIN s.models \union {id} /\ a.models[id].key = k
          /\ \A x \in DOMAIN s.models : a.models[x] = s.models[x]
      BY <1>2 DEF Put
    <3> QED BY <3>1 DEF Installed
  <2>2. WaitingAfter(a, file) = Without(W, k)
    BY <1>2, <2>1 DEF WaitingAfter, Without, W
  <2>3. Without(W, k) ++ Without(s.pending, k) = Without(W ++ s.pending, k)
    BY DEF ++, Without
  <2> QED BY <1>1, <1>2, <2>2, <2>3
<1> QED BY <1>1, <1>6, <1>7, <1>8, <1>9 DEF r, a

(* A path taken from one models directory to another comes back the same.  *)
LEMMA AppendedIs ==
    ASSUME NEW d \in Seq(STRING), NEW q \in Seq(STRING)
    PROVE  /\ IsPrefix(d, d \o q)
           /\ SubSeq(d \o q, Len(d) + 1, Len(d \o q)) = q
<1>1. d \o q \in Seq(STRING) /\ Len(d \o q) = Len(d) + Len(q) /\ Len(d) \in Nat /\ Len(q) \in Nat
  OBVIOUS
<1>2. \A i \in 1 .. Len(d) : (d \o q)[i] = d[i]
  OBVIOUS
<1>3. \A i \in 1 .. Len(q) : (d \o q)[Len(d) + i] = q[i]
  OBVIOUS
<1>4. SubSeq(d, 1, Len(d)) = SubSeq(d \o q, 1, Len(d))
  <2>1. SubSeq(d, 1, Len(d)) = [i \in 1 .. Len(d) |-> d[i]]
    BY <1>1
  <2>2. SubSeq(d \o q, 1, Len(d)) = [i \in 1 .. Len(d) |-> (d \o q)[i]]
    BY <1>1
  <2> QED BY <1>2, <2>1, <2>2
<1>5. SubSeq(d \o q, Len(d) + 1, Len(d \o q)) = q
  <2> DEFINE u == SubSeq(d \o q, Len(d) + 1, Len(d \o q))
  <2>1. u \in Seq(STRING) /\ Len(u) = Len(q)
    BY <1>1
  <2>2. \A i \in 1 .. Len(q) : u[i] = q[i]
    BY <1>1, <1>3
  <2> HIDE DEF u
  <2>3. u = q
    BY <2>1, <2>2
  <2> QED BY <2>3 DEF u
<1> QED BY <1>1, <1>4, <1>5 DEF IsPrefix

Paths == [abs : BOOLEAN, parts : Seq(STRING)]

LEMMA PathComesBack ==
    ASSUME NEW p \in Paths, NEW dir \in Seq(STRING), NEW files,
           \/ p = NoPath
           \/ p.abs /\ p.parts \in files /\ ~IsPrefix(dir, p.parts)
           \/ ~p.abs /\ dir \o p.parts \in files
    PROVE  Relativized(ResolvedPath(p, dir, files), dir) = p
<1>1. CASE p = NoPath
  BY <1>1 DEF NoPath, ResolvedPath, Relativized
<1>2. CASE p # NoPath /\ p.abs
  <2>1. ResolvedPath(p, dir, files) = AbsolutePath(p.parts)
    BY <1>2 DEF ResolvedPath
  <2>2. AbsolutePath(p.parts) = p
    BY <1>2 DEF AbsolutePath, Paths
  <2> QED BY <1>2, <2>1, <2>2 DEF Relativized
<1>3. CASE p # NoPath /\ ~p.abs
  <2>1. ResolvedPath(p, dir, files) = AbsolutePath(dir \o p.parts)
    BY <1>3 DEF ResolvedPath
  <2>2. p.parts \in Seq(STRING) /\ p = [abs |-> FALSE, parts |-> p.parts]
    BY <1>3 DEF Paths
  <2>3. Relativized(AbsolutePath(dir \o p.parts), dir) = [abs |-> FALSE, parts |-> p.parts]
    BY <2>2, AppendedIs DEF Relativized, AbsolutePath
  <2> QED BY <2>1, <2>2, <2>3
<1> QED BY <1>1, <1>2, <1>3

LEMMA RelativizedIs ==
    ASSUME NEW p \in Paths, NEW dir \in Seq(STRING) PROVE Relativized(p, dir) \in Paths
<1>1. CASE p.abs /\ IsPrefix(dir, p.parts)
  <2>1. p.parts \in Seq(STRING) /\ Len(dir) \in Nat /\ Len(p.parts) \in Nat
    BY DEF Paths
  <2>2. SubSeq(p.parts, Len(dir) + 1, Len(p.parts)) \in Seq(STRING)
    BY <2>1
  <2> QED BY <1>1, <2>2 DEF Relativized, Paths
<1>2. CASE ~(p.abs /\ IsPrefix(dir, p.parts))
  BY <1>2 DEF Relativized
<1> QED BY <1>1, <1>2

LEMMA InstalledMin ==
    ASSUME NEW s, DOMAIN s.models \subseteq Nat, NEW k \in Identities(s)
    PROVE  Min(Installed(s, k)) \in DOMAIN s.models /\ s.models[Min(Installed(s, k))].key = k
<1>1. Installed(s, k) \in SUBSET Nat /\ Installed(s, k) # {}
  BY DEF Installed, Identities
<1>2. \E x \in Installed(s, k) : \A y \in Installed(s, k) : x <= y
  BY <1>1, Smallest
<1>3. Min(Installed(s, k)) \in Installed(s, k)
  BY <1>2 DEF Min
<1> QED BY <1>3 DEF Installed

(* A backup of a server that was restored on says what the backup said.    *)
LEMMA ConfigSaysAgain ==
    ASSUME NEW from, ServerInput(from), NEW to, ServerInput(to), Alike(from, to),
           NEW k \in Identities(to), k \in Identities(from)
    PROVE  LET file == Assemble(from, TRUE)
               r == Apply(to, file, Sections4)
           IN  Assemble(r, TRUE).configs[k] = file.configs[k]
<1> DEFINE file == Assemble(from, TRUE)
           r == Apply(to, file, Sections4)
           j == Min(Installed(from, k))
           i == Min(Installed(r, k))
           c == from.models[j].cfg
           Q == [x \in DOMAIN c.paths |-> Relativized(c.paths[x], from.dir)]
           F == [place |-> c.place, paths |-> Q]
<1>1. DOMAIN file.configs = Identities(from) /\ file.configs[k] = RelativizePaths(c, from.dir)
  BY DEF Assemble
<1>2. Assemble(r, TRUE).configs = [x \in Identities(r) |->
            RelativizePaths(r.models[Min(Installed(r, x))].cfg, r.dir)]
  BY DEF Assemble
<1> HIDE DEF file
<1>3. IsServer(to) /\ ModelsAre(to) /\ DOMAIN to.models \subseteq Nat /\ to.dir \in Seq(STRING)
  <2>1. \A id \in DOMAIN to.models : to.models[id] = [key |-> to.models[id].key, cfg |-> to.models[id].cfg]
    BY DEF ServerInput
  <2> QED BY <2>1 DEF ServerInput, IsServer, ModelsAre
<1>4. /\ r.models = ModelsAfter(to, file, Sections4) /\ r.dir = to.dir
      /\ DOMAIN r.models = DOMAIN to.models /\ Identities(r) = Identities(to)
      /\ \A x : Installed(r, x) = Installed(to, x)
  <2>1. r.models = ModelsAfter(to, file, Sections4) /\ r.dir = to.dir
    BY <1>3, ApplyIs
  <2>2. /\ DOMAIN r.models = DOMAIN to.models /\ Identities(r) = Identities(to)
        /\ \A x : Installed(r, x) = Installed(to, x)
    BY <1>3, ModelsKeepTheirKeys
  <2> QED BY <2>1, <2>2
<1>5. j \in DOMAIN from.models
  BY InstalledMin DEF ServerInput
<1>6. i \in DOMAIN to.models /\ to.models[i].key = k
  BY <1>3, <1>4, InstalledMin
<1>7. Assemble(r, TRUE).configs[k] = RelativizePaths(r.models[i].cfg, r.dir)
  BY <1>2, <1>4
<1> HIDE DEF r, i, j
<1>8. /\ c = [place |-> c.place, paths |-> c.paths]
      /\ \A x \in DOMAIN c.paths : c.paths[x] \in Paths
      /\ from.dir \in Seq(STRING)
  BY <1>5 DEF ServerInput, Paths
<1>9. /\ from.n = to.n /\ Restored(c.place, to.n) = c.place
      /\ \A x \in DOMAIN c.paths : \/ Q[x] = NoPath
                                   \/ Q[x].abs /\ Q[x].parts \in to.files /\ ~IsPrefix(to.dir, Q[x].parts)
                                   \/ ~Q[x].abs /\ to.dir \o Q[x].parts \in to.files
  BY <1>5 DEF Alike
<1>10. \A x \in DOMAIN c.paths : Relativized(ResolvedPath(Q[x], to.dir, to.files), to.dir) = Q[x]
  <2> SUFFICES ASSUME NEW x \in DOMAIN c.paths
               PROVE  Relativized(ResolvedPath(Q[x], to.dir, to.files), to.dir) = Q[x]
    OBVIOUS
  <2>1. Q[x] \in Paths
    BY <1>8, RelativizedIs
  <2> HIDE DEF Q
  <2> QED BY <1>3, <1>9, <2>1, PathComesBack
<1> HIDE DEF c
<1>11. file.configs[k] = F
  BY <1>1, <1>8 DEF RelativizePaths
<1>12. DOMAIN Q = DOMAIN c.paths
  OBVIOUS
<1> HIDE DEF Q
<1>13. LocalConfig(file, k, to.n) = F
  BY <1>9, <1>11 DEF LocalConfig
<1> DEFINE A == [x \in DOMAIN Q |-> ResolvedPath(Q[x], to.dir, to.files)]
           B == [x \in DOMAIN Q |-> Relativized(A[x], to.dir)]
<1>14. ResolveConfigPaths(F, to) = [place |-> c.place, paths |-> A]
  BY DEF ResolveConfigPaths
<1>15. r.models[i].cfg = [place |-> c.place, paths |-> A]
  <2>1. r.models[i] = ModelAfter(to, file, i)
    BY <1>4, <1>6 DEF ModelsAfter, Sections4
  <2>2. ModelAfter(to, file, i) = [to.models[i] EXCEPT !.cfg = ResolveConfigPaths(F, to)]
    BY <1>1, <1>6, <1>13 DEF ModelAfter
  <2>3. to.models[i] = [key |-> to.models[i].key, cfg |-> to.models[i].cfg]
    BY <1>3, <1>6 DEF ModelsAre
  <2> HIDE DEF A, F
  <2>4. [to.models[i] EXCEPT !.cfg = ResolveConfigPaths(F, to)].cfg = ResolveConfigPaths(F, to)
    BY <2>3
  <2> QED BY <1>14, <2>1, <2>2, <2>4
<1>16. RelativizePaths(r.models[i].cfg, r.dir) = [place |-> c.place, paths |-> B]
  BY <1>4, <1>15 DEF RelativizePaths
<1>17. B = Q
  <2>1. \A x \in DOMAIN Q : B[x] = Q[x]
    BY <1>10, <1>12
  <2>2. Q = [x \in DOMAIN Q |-> Q[x]]
    BY DEF Q
  <2> QED BY <2>1, <2>2
<1> QED BY <1>7, <1>11, <1>16, <1>17 DEF file, r

LEMMA SettingsSayAgain ==
    ASSUME NEW from, ServerInput(from), NEW to, ServerInput(to)
    PROVE  LET file == Assemble(from, TRUE)
               again == Assemble(Apply(to, file, Sections4), TRUE)
           IN  /\ \A x \in DOMAIN file.plain : again.plain[x] = Normal(x, file.plain[x])
               /\ again.env = file.env ++ to.conf.env
               /\ file.extra # <<>> => again.extra = file.extra
               /\ again.presets = file.presets ++ to.presets
<1> DEFINE file == Assemble(from, TRUE)
           r == Apply(to, file, Sections4)
           again == Assemble(r, TRUE)
<1>1. /\ file.env = from.conf.env /\ file.extra = from.conf.extra
      /\ file.plain = [x \in Exported(from.conf, TRUE) |-> from.conf.plain[x]]
      /\ again.env = r.conf.env /\ again.extra = r.conf.extra /\ again.presets = r.presets
      /\ again.plain = [x \in Exported(r.conf, TRUE) |-> r.conf.plain[x]]
  BY DEF Assemble
<1>2. SavedConf(from.conf) /\ SavedConf(to.conf) /\ IsServer(to) /\ IsConf(to.conf)
  BY SavedIsConf DEF ServerInput, IsServer
<1> HIDE DEF file
<1>3. r.conf = ConfAfter(to.conf, file, Sections4) /\ r.presets = file.presets ++ to.presets
  BY <1>2, ApplyIs DEF PresetsAfter, Sections4
<1> HIDE DEF r, again
<1>4. ValidEnv(file.env ++ to.conf.env, ExtraAfter(to.conf, file))
  <2>1. ValidEnv(file.env, file.extra) /\ ValidEnv(to.conf.env, to.conf.extra)
    BY <1>1, <1>2 DEF SavedConf
  <2> QED BY <2>1 DEF ValidEnv, ExtraAfter, ++
<1>5. r.conf.env = file.env ++ to.conf.env /\ r.conf.extra = ExtraAfter(to.conf, file)
      /\ r.conf.plain = [x \in Plain |-> PlainAfter(to.conf, file, x)]
  <2>1. ValidEnv(to.conf.env, to.conf.extra)
    BY <1>2 DEF SavedConf
  <2>2. "settings" \in Sections4 /\ "env" \in Sections4
    BY DEF Sections4
  <2> QED BY <1>2, <1>3, <1>4, <2>1, <2>2, ConfAfterIs
<1>6. ASSUME NEW x \in DOMAIN file.plain
      PROVE  again.plain[x] = Normal(x, file.plain[x])
  <2> DEFINE v == file.plain[x]
  <2>1. x \in Carried \union Secrets \union {"default_model_source"} /\ x \in Plain /\ v = from.conf.plain[x]
    BY <1>1 DEF Exported, Carried, Plain
  <2>2. v # ""
    BY <1>1, <1>2, <2>1 DEF Exported, SavedConf
  <2>3. x = "default_model_source" => v \in {"huggingface", "modelscope"}
    BY <1>2, <2>1, <2>2 DEF SavedConf
  <2> HIDE DEF v
  <2>4. Normal(x, v) = v
    BY <2>3 DEF Normal
  <2>5. PlainAfter(to.conf, file, x) = v
    BY <2>2, <2>4 DEF PlainAfter, Given, v
  <2>6. r.conf.plain[x] = v
    BY <1>5, <2>1, <2>5
  <2>7. x \in Exported(r.conf, TRUE)
    BY <2>1, <2>2, <2>6 DEF Exported
  <2> QED BY <1>1, <2>4, <2>6, <2>7 DEF v
<1>7. file.extra # <<>> => again.extra = file.extra
  BY <1>1, <1>5 DEF ExtraAfter
<1> QED BY <1>1, <1>3, <1>5, <1>6, <1>7 DEF file, r, again

LEMMA BackupCarries ==
    ASSUME InputKnown PROVE BackupCarriesAll
<1> SUFFICES ASSUME input # None, input.kind = "backup" PROVE BackupCarriesAll
  BY DEF BackupCarriesAll
<1> DEFINE from == input.from
           to == input.to
           file == Assemble(from, TRUE)
           r == Apply(to, file, Sections4)
           again == Assemble(r, TRUE)
<1>1. ServerInput(from) /\ ServerInput(to)
  BY InputsAssumption DEF InputKnown
<1> HIDE DEF from, to
<1>2. IsServer(to) /\ ModelsAre(to) /\ SavedConf(to.conf) /\ DOMAIN to.pending \intersect Identities(to) = {}
  BY <1>1 DEF ServerInput, IsServer, ModelsAre
<1>3. DOMAIN file.configs = Identities(from)
  BY DEF Assemble
<1>4. /\ \A x \in DOMAIN file.plain : again.plain[x] = Normal(x, file.plain[x])
      /\ again.env = file.env ++ to.conf.env
      /\ file.extra # <<>> => again.extra = file.extra
      /\ again.presets = file.presets ++ to.presets
  BY <1>1, SettingsSayAgain
<1>5. ASSUME Alike(from, to), NEW k \in Identities(to) \intersect Identities(from)
      PROVE  again.configs[k] = file.configs[k]
  BY <1>1, <1>5, ConfigSaysAgain
<1> HIDE DEF file
<1>6. Apply(r, file, Sections4) = r
  BY <1>2, ApplyTwice
<1>7. ASSUME NEW k \in DOMAIN r.pending, NEW new, new \notin DOMAIN r.models
      PROVE  LET late == Arrive(r, new, k, DefaultConfig(r))
             IN  /\ k \in DOMAIN file.configs =>
                      late = Apply(Arrive(to, new, k, DefaultConfig(r)), file, Sections4)
                 /\ k \notin DOMAIN late.pending
  <2>1. new \notin DOMAIN to.models /\ IsServer(r)
    BY <1>2, <1>7, ModelsKeepTheirKeys
  <2>2. k \notin Identities(to)
    <3>1. r.pending = WaitingAfter(to, file) ++ to.pending
      BY <1>2, ApplyIs DEF PendingAfter, Sections4
    <3>2. k \in DOMAIN to.pending \/ Installed(to, k) = {}
      BY <1>7, <3>1 DEF ++, WaitingAfter
    <3> QED BY <1>2, <3>2 DEF Identities, Installed
  <2>3. k \in DOMAIN file.configs =>
            Arrive(r, new, k, DefaultConfig(r)) = Apply(Arrive(to, new, k, DefaultConfig(r)), file, Sections4)
    BY <1>2, <2>1, <2>2, LateIsEarly DEF Sections4
  <2> HIDE DEF r
  <2>4. Arrive(r, new, k, DefaultConfig(r)).pending = Without(r.pending, k)
    <3>1. Arrive(r, new, k, DefaultConfig(r)) =
            [conf |-> r.conf, presets |-> r.presets,
             models |-> Put(r.models, new,
                            [key |-> k, cfg |-> IF k \in DOMAIN r.pending
                                                THEN ResolveConfigPaths(r.pending[k], r) ELSE DefaultConfig(r)]),
             pending |-> Without(r.pending, k), files |-> r.files, n |-> r.n, dir |-> r.dir]
      BY <2>1, ArriveIs
    <3> QED BY <3>1
  <2> QED BY <2>3, <2>4 DEF Without
<1>8. ASSUME Alike(from, to), NEW k \in Identities(r) \intersect DOMAIN file.configs
      PROVE  again.configs[k] = file.configs[k]
  <2>1. k \in Identities(to)
    BY <1>2, <1>8, ModelsKeepTheirKeys
  <2> QED BY <1>8, <1>3, <1>5, <2>1
<1> HIDE DEF r, again
<1> QED BY <1>6, <1>7, <1>4, <1>8 DEF BackupCarriesAll, r, file, again, from, to

(* A form of the settings page, posted.                                    *)
LEMMA WithPlainIs ==
    ASSUME NEW conf, IsConf(conf), NEW form, NEW S
    PROVE  LET w == WithPlain(conf, form, S)
           IN  /\ IsConf(w) /\ w.env = conf.env /\ w.extra = conf.extra
               /\ \A x \in Plain : w.plain[x] = IF x \in S THEN Normal(x, form.plain[x]) ELSE conf.plain[x]
               /\ S = {} => w = conf
<1> DEFINE P == [x \in Plain |-> IF x \in S THEN Normal(x, form.plain[x]) ELSE conf.plain[x]]
<1>1. DOMAIN conf.plain = Plain
  BY DEF IsConf
<1>2. WithPlain(conf, form, S) = [conf EXCEPT !.plain = P]
  BY <1>1 DEF WithPlain
<1>3. \A x \in Plain : P[x] = IF x \in S THEN Normal(x, form.plain[x]) ELSE conf.plain[x]
  OBVIOUS
<1>4. P = [x \in Plain |-> P[x]]
  OBVIOUS
<1>5. S = {} => P = conf.plain
  BY DEF IsConf
<1> HIDE DEF P
<1>6. [conf EXCEPT !.plain = P] = [plain |-> P, env |-> conf.env, extra |-> conf.extra]
  BY DEF IsConf
<1> QED BY <1>2, <1>3, <1>4, <1>5, <1>6 DEF IsConf

LEMMA EnvPosted ==
    ASSUME NEW old, IsConf(old), NEW form, ~form.json, form.touched, DOMAIN form.plain = {}, NEW dirs
    PROVE  UpdateSettings(old, form, dirs) =
            IF ValidEnv(FormEnv(old, form), form.extra)
            THEN [conf |-> [plain |-> old.plain, env |-> FormEnv(old, form), extra |-> form.extra], saved |-> TRUE]
            ELSE [conf |-> old, saved |-> FALSE]
<1> DEFINE second == [old EXCEPT !.env = FormEnv(old, form), !.extra = form.extra]
<1>1. \A conf : IsConf(conf) => WithPlain(conf, form, {}) = conf
  BY WithPlainIs
<1>2. Posted(form) = {} /\ \A S : DOMAIN form.plain \intersect S = {}
  BY DEF Posted
<1>3. second = [plain |-> old.plain, env |-> FormEnv(old, form), extra |-> form.extra]
  <2> DEFINE E == FormEnv(old, form)
             half == [plain |-> old.plain, env |-> E, extra |-> old.extra]
  <2> HIDE DEF E
  <2>1. [old EXCEPT !.env = E] = half
    BY DEF IsConf
  <2>2. second = [[old EXCEPT !.env = E] EXCEPT !.extra = form.extra]
    BY DEF IsConf, E
  <2>3. [half EXCEPT !.extra = form.extra] = [plain |-> old.plain, env |-> E, extra |-> form.extra]
    OBVIOUS
  <2> QED BY <2>1, <2>2, <2>3 DEF E
<1>4. IsConf(second)
  BY <1>3 DEF IsConf
<1> HIDE DEF second
<1>5. WithPlain(old, form, Posted(form)) = old /\ \A S : WithPlain(second, form, DOMAIN form.plain \intersect S) = second
  BY <1>1, <1>2, <1>4
<1>6. UpdateForm(old, form, dirs) =
        IF ~ValidEnv(second.env, second.extra) THEN [conf |-> old, saved |-> FALSE]
        ELSE [conf |-> second, saved |-> TRUE]
  BY <1>5 DEF UpdateForm, second
<1> QED BY <1>3, <1>6 DEF UpdateSettings

LEMMA PlainPosted ==
    ASSUME NEW old, IsConf(old), NEW form, ~form.json, ~form.touched, NEW dirs
    PROVE  LET r == UpdateSettings(old, form, dirs)
           IN  /\ IsConf(r.conf) /\ r.conf.env = old.env /\ r.conf.extra = old.extra
               /\ \A x \in Plain :
                    \/ r.conf.plain[x] = old.plain[x]
                    \/ /\ x \in DOMAIN form.plain /\ r.conf.plain[x] = Normal(x, form.plain[x])
                       /\ x \in Secrets => form.plain[x] # ""
               /\ ~r.saved => "models_dir" \in DOMAIN form.plain
               /\ ~r.saved /\ DOMAIN form.plain = {"models_dir"} => r.conf = old
               /\ r.saved => r.conf.plain["models_dir"] \in {old.plain["models_dir"]} \union dirs \union {""}
<1> DEFINE first == WithPlain(old, form, Posted(form))
           third == WithPlain(first, form, DOMAIN form.plain \intersect {"auto_start"})
           moved == "models_dir" \in DOMAIN form.plain /\ form.plain["models_dir"] # old.plain["models_dir"]
           last == WithPlain(third, form, DOMAIN form.plain \intersect {"models_dir"})
           r == UpdateSettings(old, form, dirs)
<1>1. r = IF moved /\ form.plain["models_dir"] \notin dirs \union {""}
          THEN [conf |-> third, saved |-> FALSE] ELSE [conf |-> last, saved |-> TRUE]
  BY DEF UpdateSettings, UpdateForm
<1> HIDE DEF r
<1>2. /\ IsConf(first) /\ first.env = old.env /\ first.extra = old.extra
      /\ \A x \in Plain : first.plain[x] = IF x \in Posted(form) THEN Normal(x, form.plain[x]) ELSE old.plain[x]
      /\ Posted(form) = {} => first = old
  BY WithPlainIs
<1> HIDE DEF first
<1>3. /\ IsConf(third) /\ third.env = old.env /\ third.extra = old.extra
      /\ \A x \in Plain : third.plain[x] = IF x \in DOMAIN form.plain \intersect {"auto_start"}
                                           THEN Normal(x, form.plain[x]) ELSE first.plain[x]
      /\ DOMAIN form.plain \intersect {"auto_start"} = {} => third = first
  BY <1>2, WithPlainIs
<1> HIDE DEF third
<1>4. /\ IsConf(last) /\ last.env = old.env /\ last.extra = old.extra
      /\ \A x \in Plain : last.plain[x] = IF x \in DOMAIN form.plain \intersect {"models_dir"}
                                          THEN Normal(x, form.plain[x]) ELSE third.plain[x]
  BY <1>3, WithPlainIs
<1> HIDE DEF last
<1>5. \A x \in Posted(form) : x \in DOMAIN form.plain /\ (x \in Secrets => form.plain[x] # "")
      /\ x \notin {"auto_start", "models_dir"}
  BY DEF Posted
<1>6. "auto_start" \notin Secrets /\ "models_dir" \notin Secrets /\ "models_dir" \in Plain
  BY DEF Secrets, Plain
<1>7. DOMAIN form.plain = {"models_dir"} => third = old
  BY <1>2, <1>3, <1>5
<1>8. /\ last.plain["models_dir"] = IF "models_dir" \in DOMAIN form.plain
                                    THEN form.plain["models_dir"] ELSE old.plain["models_dir"]
  BY <1>2, <1>3, <1>4, <1>5, <1>6 DEF Normal
<1>9. ASSUME NEW x \in Plain, NEW c \in {third, last}
      PROVE  \/ c.plain[x] = old.plain[x]
             \/ /\ x \in DOMAIN form.plain /\ c.plain[x] = Normal(x, form.plain[x])
                /\ x \in Secrets => form.plain[x] # ""
  BY <1>2, <1>3, <1>4, <1>5, <1>6
<1>10. r.conf \in {third, last}
  BY <1>1
<1>11. IsConf(r.conf) /\ r.conf.env = old.env /\ r.conf.extra = old.extra
  BY <1>3, <1>4, <1>10
<1>12. \A x \in Plain :
        \/ r.conf.plain[x] = old.plain[x]
        \/ /\ x \in DOMAIN form.plain /\ r.conf.plain[x] = Normal(x, form.plain[x])
           /\ x \in Secrets => form.plain[x] # ""
  BY <1>9, <1>10
<1>13. /\ ~r.saved => "models_dir" \in DOMAIN form.plain
       /\ ~r.saved /\ DOMAIN form.plain = {"models_dir"} => r.conf = old
       /\ r.saved => r.conf.plain["models_dir"] \in {old.plain["models_dir"]} \union dirs \union {""}
  BY <1>1, <1>7, <1>8
<1> QED BY <1>11, <1>12, <1>13 DEF r

(* The settings file that is found, once it is written, is found again.    *)
LEMMA PathStays ==
    ASSUME NEW place, NEW existing
    PROVE  LET path == DefaultConfigPath(place, existing)
           IN  DefaultConfigPath(place, existing \union {path}) = path
<1> DEFINE Dirs == {"Library", "LOCALAPPDATA", "XDG", ".config", "/etc", "/data"}
           paths == ConfigSearchPaths(place)
           there(S) == {i \in DOMAIN paths : paths[i] \in S}
           path == DefaultConfigPath(place, existing)
<1>1. \A S : DefaultConfigPath(place, S) =
        IF place.var THEN "LLAMA_TOOLCHEST_CONFIG" ELSE paths[IF there(S) = {} THEN 1 ELSE Min(there(S))]
  BY DEF DefaultConfigPath
<1>2. paths \in Seq(Dirs) /\ 1 \in DOMAIN paths
  <2> DEFINE D == PlatformAppDirs(place)
             X == IF place.xdg THEN <<"XDG">> ELSE <<>>
             H == IF place.home THEN <<".config">> ELSE <<>>
  <2>1. D \in Seq(Dirs)
    <3>1. X \in Seq(Dirs) /\ H \in Seq(Dirs)
      <4>1. <<"XDG">> \in Seq(Dirs) /\ <<".config">> \in Seq(Dirs) /\ <<>> \in Seq(Dirs)
        OBVIOUS
      <4>2. X \in {<<"XDG">>, <<>>}
        OBVIOUS
      <4>3. H \in {<<".config">>, <<>>}
        OBVIOUS
      <4> QED BY <4>1, <4>2, <4>3
    <3>2. X \o H \in Seq(Dirs)
      BY <3>1
    <3>3. <<"Library">> \in Seq(Dirs) /\ <<"LOCALAPPDATA">> \in Seq(Dirs) /\ <<>> \in Seq(Dirs)
      OBVIOUS
    <3> HIDE DEF X, H
    <3>4. D \in {<<"Library">>, <<"LOCALAPPDATA">>, <<>>, X \o H}
      BY DEF PlatformAppDirs, X, H
    <3> QED BY <3>2, <3>3, <3>4
  <2> HIDE DEF D
  <2>2. CASE place.os = "linux"
    <3>1. paths = Append(D, "/etc")
      BY <2>2 DEF ConfigSearchPaths, D
    <3>2. paths \in Seq(Dirs) /\ Len(paths) = Len(D) + 1 /\ Len(D) \in Nat
      BY <2>1, <3>1
    <3> HIDE DEF paths
    <3> QED BY <3>2
  <2>3. CASE place.os # "linux" /\ D = <<>>
    <3>1. paths = <<"/data">>
      BY <2>3 DEF ConfigSearchPaths, D
    <3> HIDE DEF paths
    <3> QED BY <3>1
  <2>4. CASE place.os # "linux" /\ D # <<>>
    <3>1. paths = D
      BY <2>4 DEF ConfigSearchPaths, D
    <3>2. Len(D) \in Nat /\ Len(D) # 0
      BY <2>1, <2>4
    <3> HIDE DEF paths
    <3> QED BY <2>1, <3>1, <3>2
  <2> QED BY <2>2, <2>3, <2>4
<1> HIDE DEF paths
<1>3. \A S : there(S) # {} => Min(there(S)) \in there(S)
  <2> SUFFICES ASSUME NEW S, there(S) # {} PROVE Min(there(S)) \in there(S)
    OBVIOUS
  <2>1. there(S) \in SUBSET Nat
    BY <1>2
  <2> HIDE DEF there
  <2>2. \E i \in there(S) : \A h \in there(S) : i <= h
    BY <2>1, Smallest
  <2> QED BY <2>2 DEF Min
<1>4. CASE place.var
  BY <1>1, <1>4
<1>5. CASE ~place.var /\ there(existing) # {}
  <2>1. path = paths[Min(there(existing))]
    BY <1>1, <1>5
  <2>2. path \in existing
    BY <1>3, <1>5, <2>1
  <2>3. existing \union {path} = existing
    BY <2>2
  <2> QED BY <2>3
<1>6. CASE ~place.var /\ there(existing) = {}
  <2> DEFINE S == existing \union {path}
  <2>1. path = paths[1]
    BY <1>1, <1>6
  <2>2. there(S) # {}
    BY <1>2, <2>1
  <2>3. Min(there(S)) \in there(S) /\ Min(there(S)) \notin there(existing)
    BY <1>3, <1>6, <2>2
  <2>4. paths[Min(there(S))] = path
    BY <2>3
  <2>5. DefaultConfigPath(place, S) = paths[Min(there(S))]
    BY <1>1, <1>6, <2>2
  <2> QED BY <2>4, <2>5
<1> QED BY <1>4, <1>5, <1>6

(* What a launch hears of a variable: its last line, or its field.         *)
Field(env, x) == IF x \in DOMAIN env THEN env[x] ELSE ""

LEMMA LaunchValueIs ==
    ASSUME NEW conf, NEW x
    PROVE  LaunchValue(conf, x) =
            IF x \in DOMAIN LinePairs(conf.extra) THEN LinePairs(conf.extra)[x] ELSE Field(conf.env, x)
BY DEF LaunchValue, Pairs, ++, Field

LEMMA FormEnvIs ==
    ASSUME NEW conf, NEW form, NEW x
    PROVE  Field(FormEnv(conf, form), x) =
            IF x \notin DOMAIN Curated THEN ""
            ELSE IF x \in DOMAIN form.env THEN form.env[x] ELSE Field(conf.env, x)
BY DEF FormEnv, ++, Field

LEMMA FormIs ==
    ASSUME NEW f, FormInput(f)
    PROVE  LET old == f.conf
               edit == f.edit
               form == Edited(PageForm(old, f.section, f.hidden), edit)
           IN  /\ form.json = FALSE /\ form.touched = (f.section = {"env"})
               /\ form.extra = IF edit.of = "extra" THEN edit.value ELSE old.extra
               /\ DOMAIN form.plain = f.section \ {"env"}
               /\ \A x \in DOMAIN form.plain \ {edit.name} :
                    form.plain[x] = IF x \in Secrets THEN "" ELSE Normal(x, old.plain[x])
               /\ \A x \in DOMAIN Curated : edit.of # "env" \/ x # edit.name =>
                    /\ x \in DOMAIN form.env <=> x \notin f.hidden
                    /\ x \in DOMAIN form.env => form.env[x] = Field(old.env, x)
               /\ edit.of = "env" => edit.name \in DOMAIN form.env /\ form.env[edit.name] = edit.value
<1> DEFINE old == f.conf
           edit == f.edit
           P == [x \in f.section \ {"env"} |-> IF x \in Secrets THEN "" ELSE Normal(x, old.plain[x])]
           E == [x \in DOMAIN Curated \ f.hidden |-> Field(old.env, x)]
           page == [json |-> FALSE, touched |-> f.section = {"env"}, extra |-> old.extra, plain |-> P, env |-> E]
           form == Edited(PageForm(old, f.section, f.hidden), edit)
<1>1. PageForm(old, f.section, f.hidden) = page
  BY DEF PageForm, Field
<1>2. /\ DOMAIN P = f.section \ {"env"}
      /\ \A x \in DOMAIN P : P[x] = IF x \in Secrets THEN "" ELSE Normal(x, old.plain[x])
  OBVIOUS
<1>3. DOMAIN E = DOMAIN Curated \ f.hidden /\ \A x \in DOMAIN E : E[x] = Field(old.env, x)
  OBVIOUS
<1> HIDE DEF old, edit, P, E
<1>4. CASE edit.of = "plain"
  <2>1. form = [page EXCEPT !.plain = Put(P, edit.name, edit.value)]
    BY <1>1, <1>4 DEF Edited
  <2>2. edit.name \in DOMAIN P
    BY <1>2, <1>4 DEF FormInput, edit
  <2>3. /\ DOMAIN Put(P, edit.name, edit.value) = DOMAIN P
        /\ \A x \in DOMAIN P \ {edit.name} : Put(P, edit.name, edit.value)[x] = P[x]
    BY <2>2 DEF Put
  <2>4. /\ form.json = FALSE /\ form.touched = (f.section = {"env"}) /\ form.extra = old.extra
        /\ form.plain = Put(P, edit.name, edit.value) /\ form.env = E
    BY <2>1
  <2> HIDE DEF form
  <2> QED BY <1>2, <1>3, <1>4, <2>3, <2>4 DEF form, old, edit
<1>5. CASE edit.of = "env"
  <2>1. form = [page EXCEPT !.env = Put(E, edit.name, edit.value)]
    BY <1>1, <1>5 DEF Edited
  <2>2. /\ DOMAIN Put(E, edit.name, edit.value) = DOMAIN E \union {edit.name}
        /\ \A x \in DOMAIN E \ {edit.name} : Put(E, edit.name, edit.value)[x] = E[x]
        /\ Put(E, edit.name, edit.value)[edit.name] = edit.value
    BY DEF Put
  <2>3. /\ form.json = FALSE /\ form.touched = (f.section = {"env"}) /\ form.extra = old.extra
        /\ form.plain = P /\ form.env = Put(E, edit.name, edit.value)
    BY <2>1
  <2> HIDE DEF form
  <2> QED BY <1>2, <1>3, <1>5, <2>2, <2>3 DEF form, old, edit
<1>6. CASE edit.of = "extra"
  <2>1. form = [page EXCEPT !.extra = edit.value]
    BY <1>1, <1>6 DEF Edited
  <2>2. /\ form.json = FALSE /\ form.touched = (f.section = {"env"}) /\ form.extra = edit.value
        /\ form.plain = P /\ form.env = E
    BY <2>1
  <2> HIDE DEF form
  <2> QED BY <1>2, <1>3, <1>6, <2>2 DEF form, old, edit
<1> QED BY <1>4, <1>5, <1>6 DEF FormInput, edit

(* What OnlyTheEdit says, of a form.                                       *)
EditOnly(f, r) ==
    LET old == f.conf
        edit == f.edit
        path == DefaultConfigPath(f.place, f.existing)
    IN  /\ ValidEnv(r.conf.env, r.conf.extra)
        /\ ~r.saved => r.conf = old
        /\ r.saved =>
            /\ DefaultConfigPath(f.place, f.existing \union {path}) = path
            /\ Loaded(r.conf.plain, "", f.dirs) = r.conf.plain
        /\ \A x \in Plain \ {edit.name} : r.conf.plain[x] \in {old.plain[x], Normal(x, old.plain[x])}
        /\ edit.of # "extra" =>
            \A x \in (DOMAIN Curated \union Risky) \ {edit.name} : LaunchValue(r.conf, x) = LaunchValue(old, x)
        /\ edit.of = "env" /\ r.saved =>
            LaunchValue(r.conf, edit.name) =
                IF edit.name \in DOMAIN LinePairs(old.extra) THEN LinePairs(old.extra)[edit.name]
                ELSE edit.value

LEMMA LoadedIs ==
    ASSUME NEW conf, IsConf(conf), NEW dirs, conf.plain["models_dir"] \in dirs \union {""}
    PROVE  Loaded(conf.plain, "", dirs) = conf.plain
<1>1. DOMAIN conf.plain = Plain /\ conf.plain = [x \in Plain |-> conf.plain[x]]
  BY DEF IsConf
<1> DEFINE P == conf.plain
           L == Loaded(P, "", dirs)
<1>2. L = [[P EXCEPT !["external_url"] = P["external_url"]] EXCEPT !["models_dir"] = P["models_dir"]]
  BY <1>1 DEF Loaded, Plain
<1> HIDE DEF L, P
<1>3. [P EXCEPT !["external_url"] = P["external_url"]] = P
  BY <1>1 DEF P
<1>4. [P EXCEPT !["models_dir"] = P["models_dir"]] = P
  BY <1>1 DEF P
<1> QED BY <1>2, <1>3, <1>4 DEF L, P

LEMMA EnvEdited ==
    ASSUME NEW f, FormInput(f), f.section = {"env"}
    PROVE  EditOnly(f, UpdateSettings(f.conf, Edited(PageForm(f.conf, f.section, f.hidden), f.edit), f.dirs))
<1> DEFINE old == f.conf
           edit == f.edit
           form == Edited(PageForm(old, f.section, f.hidden), edit)
           E == FormEnv(old, form)
           r == UpdateSettings(old, form, f.dirs)
<1>1. /\ form.json = FALSE /\ form.touched /\ DOMAIN form.plain = {}
      /\ form.extra = IF edit.of = "extra" THEN edit.value ELSE old.extra
      /\ \A x \in DOMAIN Curated : edit.of # "env" \/ x # edit.name =>
            /\ x \in DOMAIN form.env <=> x \notin f.hidden
            /\ x \in DOMAIN form.env => form.env[x] = Field(old.env, x)
      /\ edit.of = "env" => edit.name \in DOMAIN form.env /\ form.env[edit.name] = edit.value
  BY FormIs
<1>2. /\ SavedConf(old) /\ IsConf(old) /\ old.plain["models_dir"] \in f.dirs \union {""}
      /\ edit.of \in {"env", "extra"} /\ (edit.of = "env" => edit.name \in DOMAIN Curated)
  BY SavedIsConf DEF FormInput
<1> HIDE DEF form, old, edit
<1>3. r = IF ValidEnv(E, form.extra)
          THEN [conf |-> [plain |-> old.plain, env |-> E, extra |-> form.extra], saved |-> TRUE]
          ELSE [conf |-> old, saved |-> FALSE]
  <2>1. ~form.json /\ form.touched /\ DOMAIN form.plain = {} /\ IsConf(old)
    BY <1>1, <1>2
  <2> QED BY <2>1, EnvPosted
<1> HIDE DEF r
<1>4. ValidEnv(r.conf.env, r.conf.extra) /\ (~r.saved => r.conf = old) /\ r.conf.plain = old.plain
  BY <1>2, <1>3 DEF SavedConf
<1>5. IsConf(r.conf)
  BY <1>2, <1>3 DEF IsConf
<1>6. /\ DefaultConfigPath(f.place, f.existing \union {DefaultConfigPath(f.place, f.existing)})
            = DefaultConfigPath(f.place, f.existing)
      /\ Loaded(r.conf.plain, "", f.dirs) = r.conf.plain
  BY <1>2, <1>4, <1>5, LoadedIs, PathStays
<1>7. ASSUME edit.of # "extra", NEW x, edit.of = "env" => x # edit.name
      PROVE  LaunchValue(r.conf, x) = LaunchValue(old, x)
  <2>1. ASSUME r.saved PROVE Field(r.conf.env, x) = Field(old.env, x)
    <3>1. r.conf.env = E
      BY <1>3, <2>1
    <3>2. CASE x \in DOMAIN Curated
      <4>1. Field(E, x) = IF x \in DOMAIN form.env THEN form.env[x] ELSE Field(old.env, x)
        BY <3>2, FormEnvIs
      <4>2. x \in DOMAIN form.env => form.env[x] = Field(old.env, x)
        BY <1>1, <1>7, <3>2
      <4> QED BY <3>1, <4>1, <4>2
    <3>3. CASE x \notin DOMAIN Curated
      <4>1. x \notin DOMAIN old.env
        BY <1>2, <3>3 DEF SavedConf, ValidEnv
      <4>2. Field(E, x) = ""
        BY <3>3, FormEnvIs
      <4> QED BY <3>1, <4>1, <4>2 DEF Field
    <3> QED BY <3>2, <3>3
  <2>2. r.saved => r.conf.extra = old.extra
    BY <1>1, <1>3, <1>7
  <2>3. CASE r.saved
    BY <2>1, <2>2, <2>3, LaunchValueIs
  <2> QED BY <1>4, <2>3
<1>8. ASSUME edit.of = "env", r.saved
      PROVE  LaunchValue(r.conf, edit.name) =
                IF edit.name \in DOMAIN LinePairs(old.extra) THEN LinePairs(old.extra)[edit.name]
                ELSE edit.value
  <2>1. r.conf.env = E /\ r.conf.extra = old.extra
    BY <1>1, <1>3, <1>8
  <2>2. Field(E, edit.name) = edit.value
    BY <1>1, <1>2, <1>8, FormEnvIs
  <2> QED BY <2>1, <2>2, LaunchValueIs
<1> QED BY <1>2, <1>4, <1>6, <1>7, <1>8 DEF EditOnly, r, form, old, edit

LEMMA PlainEdited ==
    ASSUME NEW f, FormInput(f), f.section # {"env"}
    PROVE  EditOnly(f, UpdateSettings(f.conf, Edited(PageForm(f.conf, f.section, f.hidden), f.edit), f.dirs))
<1> DEFINE old == f.conf
           edit == f.edit
           form == Edited(PageForm(old, f.section, f.hidden), edit)
           r == UpdateSettings(old, form, f.dirs)
<1>1. /\ form.json = FALSE /\ ~form.touched /\ DOMAIN form.plain = f.section \ {"env"}
      /\ \A x \in DOMAIN form.plain \ {edit.name} :
            form.plain[x] = IF x \in Secrets THEN "" ELSE Normal(x, old.plain[x])
  BY FormIs
<1>2. /\ SavedConf(old) /\ IsConf(old) /\ old.plain["models_dir"] \in f.dirs \union {""}
      /\ edit.of = "plain"
  BY SavedIsConf DEF FormInput
<1>3. "models_dir" \in f.section => f.section \ {"env"} = {"models_dir"}
  BY DEF FormInput, Sections
<1> HIDE DEF form, old, edit
<1>4. /\ IsConf(r.conf) /\ r.conf.env = old.env /\ r.conf.extra = old.extra
      /\ \A x \in Plain :
            \/ r.conf.plain[x] = old.plain[x]
            \/ /\ x \in DOMAIN form.plain /\ r.conf.plain[x] = Normal(x, form.plain[x])
               /\ x \in Secrets => form.plain[x] # ""
      /\ ~r.saved => "models_dir" \in DOMAIN form.plain
      /\ ~r.saved /\ DOMAIN form.plain = {"models_dir"} => r.conf = old
      /\ r.saved => r.conf.plain["models_dir"] \in {old.plain["models_dir"]} \union f.dirs \union {""}
  BY <1>1, <1>2, PlainPosted
<1> HIDE DEF r
<1>5. ValidEnv(r.conf.env, r.conf.extra) /\ (~r.saved => r.conf = old)
  BY <1>1, <1>2, <1>3, <1>4 DEF SavedConf
<1>6. r.saved =>
        /\ DefaultConfigPath(f.place, f.existing \union {DefaultConfigPath(f.place, f.existing)})
              = DefaultConfigPath(f.place, f.existing)
        /\ Loaded(r.conf.plain, "", f.dirs) = r.conf.plain
  <2>1. r.saved => r.conf.plain["models_dir"] \in f.dirs \union {""}
    BY <1>2, <1>4
  <2>2. r.saved => Loaded(r.conf.plain, "", f.dirs) = r.conf.plain
    BY <1>4, <2>1, LoadedIs
  <2> QED BY <2>2, PathStays
<1>7. \A x \in Plain \ {edit.name} : r.conf.plain[x] \in {old.plain[x], Normal(x, old.plain[x])}
  <2> SUFFICES ASSUME NEW x \in Plain \ {edit.name}, r.conf.plain[x] # old.plain[x]
               PROVE  r.conf.plain[x] = Normal(x, old.plain[x])
    OBVIOUS
  <2>1. x \in DOMAIN form.plain /\ x \notin Secrets /\ r.conf.plain[x] = Normal(x, form.plain[x])
    BY <1>1, <1>4
  <2>2. form.plain[x] = Normal(x, old.plain[x])
    BY <1>1, <2>1
  <2> QED BY <2>1, <2>2 DEF Normal
<1>8. \A x : LaunchValue(r.conf, x) = LaunchValue(old, x)
  BY <1>4, LaunchValueIs
<1> QED BY <1>2, <1>5, <1>6, <1>7, <1>8 DEF EditOnly, r, form, old, edit

LEMMA EditsOnly ==
    ASSUME InputKnown PROVE OnlyTheEdit
<1> SUFFICES ASSUME input # None, input.kind = "form" PROVE OnlyTheEdit
  BY DEF OnlyTheEdit
<1> DEFINE r == UpdateSettings(input.conf, Edited(PageForm(input.conf, input.section, input.hidden), input.edit),
                               input.dirs)
<1>1. FormInput(input)
  BY InputsAssumption DEF InputKnown
<1>2. EditOnly(input, r)
  BY <1>1, EnvEdited, PlainEdited
<1> HIDE DEF r
<1> QED BY <1>2 DEF EditOnly, OnlyTheEdit, r

LEMMA InputsStayKnown == InputKnown /\ [SetupNext]_setupVars => InputKnown'
<1> SUFFICES ASSUME InputKnown, [SetupNext]_setupVars PROVE InputKnown'
  OBVIOUS
<1>1. CASE Recommend
  <2>1. PICK need \in Needs, used \in [GPUs(host.n) -> Loads] :
            input' = [kind |-> "page", need |-> need, used |-> used]
    BY <1>1 DEF Recommend
  <2> QED BY <2>1 DEF InputKnown
<1>2. CASE Estimated
  BY <1>2 DEF Estimated, InputKnown
<1>3. CASE OpenPage \/ Save \/ SaveCustom \/ Restore \/ UNCHANGED setupVars
  BY <1>3 DEF OpenPage, Save, SaveCustom, Restore, setupVars, InputKnown
<1> QED BY <1>1, <1>2, <1>3 DEF SetupNext

(* SettingsSurvive: a form changes what it edits and nothing else; a backup  *)
(* says again what it said after a restore; and a restore changes nothing    *)
(* but what the file gives: a blank in it blanks a variable, a free text in   *)
(* it replaces the old one.  Whatever settings, presets, models and configs  *)
(* the two servers have.                                                      *)
THEOREM SettingsKept == SetupSpec => []SettingsSurvive
<1>1. SetupInit => InputKnown
  BY DEF SetupInit, InputKnown
<1>2. InputKnown /\ [SetupNext]_setupVars => InputKnown'
  BY InputsStayKnown
<1>3. InputKnown => SettingsSurvive
  BY EditsOnly, BackupCarries, RestoreDeletesNone DEF SettingsSurvive
<1> QED BY <1>1, <1>2, <1>3, PTL DEF SetupSpec

-----------------------------------------------------------------------------
(* Names.  What the user chose for a model, and its id.                    *)
GivenTo(m) == ({m.id, m.public} \union m.aliases) \ {""}

LEMMA NamesAre ==
    ASSUME NEW ms, NEW m \in ms, NEW x \in Names(m, ms)
    PROVE  /\ x \in GivenTo(m) \/ (x = m.dir /\ {k \in EnabledIn(ms) : k.dir = x} = {m})
           /\ x # ""
<1> DEFINE own == {d \in {m.dir} : {k \in EnabledIn(ms) : k.dir = d} = {m}}
<1>1. x \in ({m.id, m.public} \union m.aliases \union own) \ {""}
  BY DEF Names
<1>2. x \in own => x = m.dir /\ {k \in EnabledIn(ms) : k.dir = x} = {m}
  <2>1. x \in own => x \in {m.dir} /\ {k \in EnabledIn(ms) : k.dir = x} = {m}
    OBVIOUS
  <2> QED BY <2>1
<1> HIDE DEF own
<1>3. x # "" /\ (x \in own \/ x \in GivenTo(m))
  BY <1>1 DEF GivenTo
<1> QED BY <1>2, <1>3

LEMMA NamesReach ==
    ASSUME NEW ms, \A m, k \in ms : m # k => GivenTo(m) \intersect (GivenTo(k) \union {k.dir}) = {}
    PROVE  /\ \A m, k \in EnabledIn(ms) : m # k => Names(m, ms) \intersect Names(k, ms) = {}
           /\ \A m \in EnabledIn(ms) : \A x \in Names(m, ms) :
                FindByAny(x, ms) \in SUBSET {m} /\ (x # m.dir => FindByAny(x, ms) = {m})
<1>1. EnabledIn(ms) \subseteq ms
  BY DEF EnabledIn
<1>2. ASSUME NEW m \in EnabledIn(ms), NEW k \in EnabledIn(ms), m # k,
             NEW x, x \in Names(m, ms), x \in Names(k, ms)
      PROVE  FALSE
  <2>1. m \in ms /\ k \in ms
    BY <1>1
  <2>2. /\ x \in GivenTo(m) \/ (x = m.dir /\ {j \in EnabledIn(ms) : j.dir = x} = {m})
        /\ x \in GivenTo(k) \/ (x = k.dir /\ {j \in EnabledIn(ms) : j.dir = x} = {k})
    BY <1>2, <2>1, NamesAre
  <2>3. GivenTo(m) \intersect (GivenTo(k) \union {k.dir}) = {} /\ GivenTo(k) \intersect (GivenTo(m) \union {m.dir}) = {}
    BY <1>2, <2>1
  <2> QED BY <1>2, <2>2, <2>3
<1>3. ASSUME NEW m \in EnabledIn(ms), NEW x \in Names(m, ms)
      PROVE  FindByAny(x, ms) \in SUBSET {m} /\ (x # m.dir => FindByAny(x, ms) = {m})
  <2>1. m \in ms /\ x # ""
    BY <1>1, NamesAre
  <2>2. x \in GivenTo(m) \/ x = m.dir
    BY <2>1, NamesAre
  <2>3. ASSUME NEW k \in ms, x \in GivenTo(k) PROVE k = m
    BY <2>1, <2>2, <2>3
  <2>4. \A k \in ms : k.id = x \/ x = k.public \/ x \in k.aliases <=> x \in GivenTo(k)
    BY <2>1 DEF GivenTo
  <2>5. FindByAny(x, ms) \subseteq {k \in ms : x \in GivenTo(k)}
    BY <2>4 DEF FindByAny
  <2>6. ASSUME x \in GivenTo(m) PROVE m \in FindByAny(x, ms)
    <3>1. CASE \E k \in ms : k.id = x
      <4>1. m.id = x
        BY <2>3, <2>4, <3>1
      <4> QED BY <2>1, <3>1, <4>1 DEF FindByAny
    <3>2. CASE ~\E k \in ms : k.id = x
      <4>1. x = m.public \/ x \in m.aliases
        BY <2>1, <2>4, <2>6, <3>2
      <4> QED BY <2>1, <3>2, <4>1 DEF FindByAny
    <3> QED BY <3>1, <3>2
  <2> QED BY <2>2, <2>3, <2>5, <2>6
<1> QED BY <1>2, <1>3

LEMMA NamesLead == NamesReachTheirModel
<1> SUFFICES ASSUME input # None, input.kind = "names" PROVE NamesReachTheirModel
  BY DEF NamesReachTheirModel
<1> DEFINE ms == input.models
<1>1. (\A m, k \in ms : m # k => GivenTo(m) \intersect (GivenTo(k) \union {k.dir}) = {}) =>
        /\ \A m, k \in EnabledIn(ms) : m # k => Names(m, ms) \intersect Names(k, ms) = {}
        /\ \A m \in EnabledIn(ms) : \A x \in Names(m, ms) :
            FindByAny(x, ms) \in SUBSET {m} /\ (x # m.dir => FindByAny(x, ms) = {m})
  BY NamesReach
<1> HIDE DEF ms
<1> QED BY <1>1 DEF NamesReachTheirModel, GivenTo, ms

(* NamesReachTheirModel: for any models and any aliases, no name is on two *)
(* sections of the preset, and each leads back to its model.               *)
THEOREM NamesAreReached == SetupSpec => []NamesReachTheirModel
BY NamesLead, PTL

-----------------------------------------------------------------------------
(* The launch of a config.  The flags that each part of a section may set. *)
SpecNames ==
    {"spec-type", "model-draft", "spec-draft-n-max", "spec-draft-n-min", "spec-draft-p-min",
     "spec-ngram-mod-n-max", "spec-ngram-mod-n-min", "spec-size-n", "spec-size-m"} \union Resources
ChatNames ==
    {"jinja", "cache-type-k", "cache-type-v", "direct-io", "tensor-read-lazy", "mmproj"} \union SpecNames
SizeNames == {"ctx-size", "batch-size", "ubatch-size", "parallel", "placement", "embeddings"}

LEMMA MergedIn ==
    ASSUME NEW f, NEW g, NEW S, DOMAIN f \subseteq S, DOMAIN g \subseteq S
    PROVE  DOMAIN (f ++ g) \subseteq S
BY DEF ++

LEMMA OnlyIs ==
    ASSUME NEW k, NEW v PROVE DOMAIN Only(k, v) = {k} /\ Only(k, v)[k] = v
BY DEF Only

LEMMA OptOnlyIn ==
    ASSUME NEW b, NEW k, NEW v, NEW S, k \in S PROVE DOMAIN Opt(b, Only(k, v)) \subseteq S
BY DEF Opt, Only

LEMMA NonZeroIn ==
    ASSUME NEW f, NEW S, DOMAIN f \subseteq S PROVE DOMAIN NonZero(f) \subseteq S
BY DEF NonZero

LEMMA SpecDomain ==
    ASSUME NEW c, DOMAIN c.resources \subseteq Resources
    PROVE  DOMAIN SpecDecodingParams(c) \subseteq SpecNames
<1>1. /\ "spec-type" \in SpecNames /\ "model-draft" \in SpecNames
      /\ {"spec-draft-n-max", "spec-draft-n-min", "spec-draft-p-min", "spec-ngram-mod-n-max",
          "spec-ngram-mod-n-min", "spec-size-n", "spec-size-m"} \subseteq SpecNames
      /\ Resources \subseteq SpecNames
  BY DEF SpecNames
<1>2. DOMAIN DraftSampling(c) \subseteq SpecNames
  <2> DEFINE f == [x \in {"spec-draft-n-max", "spec-draft-n-min", "spec-draft-p-min"} |->
            CASE x = "spec-draft-n-max" -> c.knobs["draft_max"]
              [] x = "spec-draft-n-min" -> c.knobs["draft_min"]
              [] OTHER -> c.knobs["draft_p_min"]]
  <2>1. DOMAIN f \subseteq SpecNames /\ DraftSampling(c) = NonZero(f)
    BY <1>1 DEF DraftSampling
  <2> HIDE DEF f
  <2> QED BY <2>1, NonZeroIn
<1>3. DOMAIN DraftResources(c) \subseteq SpecNames
  <2>1. DOMAIN c.resources \subseteq SpecNames
    BY <1>1
  <2> QED BY <2>1, NonZeroIn DEF DraftResources
<1>4. \A v : DOMAIN Only("spec-type", v) \subseteq SpecNames
  BY <1>1, OnlyIs
<1>5. CASE c.spec = "draft"
  <2> DEFINE o == Opt(Filled(c.draft), Only("model-draft", c.draft))
  <2>1. SpecDecodingParams(c) = Only("spec-type", "draft-simple") ++ o ++ DraftSampling(c) ++ DraftResources(c)
    BY <1>5 DEF SpecDecodingParams
  <2>2. DOMAIN o \subseteq SpecNames
    BY <1>1, OptOnlyIn
  <2> HIDE DEF o
  <2>3. DOMAIN (Only("spec-type", "draft-simple") ++ o) \subseteq SpecNames
    BY <1>4, <2>2, MergedIn
  <2>4. DOMAIN (Only("spec-type", "draft-simple") ++ o ++ DraftSampling(c)) \subseteq SpecNames
    BY <1>2, <2>3, MergedIn
  <2> QED BY <1>3, <2>1, <2>4, MergedIn
<1>6. CASE c.spec = "draft-mtp"
  <2> DEFINE m == Only("model-draft", c.mtp) ++ DraftResources(c)
             o == Opt(Filled(c.mtp) /\ ~c.mtpOff, m)
  <2>1. SpecDecodingParams(c) = Only("spec-type", "draft-mtp") ++ DraftSampling(c) ++ o
    BY <1>6 DEF SpecDecodingParams
  <2>2. DOMAIN Only("model-draft", c.mtp) \subseteq SpecNames
    BY <1>1, OnlyIs
  <2>3. DOMAIN m \subseteq SpecNames
    BY <1>3, <2>2, MergedIn
  <2> HIDE DEF m
  <2>4. DOMAIN o \subseteq SpecNames
    BY <2>3 DEF Opt
  <2> HIDE DEF o
  <2>5. DOMAIN (Only("spec-type", "draft-mtp") ++ DraftSampling(c)) \subseteq SpecNames
    BY <1>2, <1>4, MergedIn
  <2> QED BY <2>1, <2>4, <2>5, MergedIn
<1>7. CASE c.spec = "ngram-mod"
  <2> DEFINE f == [x \in {"spec-ngram-mod-n-max", "spec-ngram-mod-n-min"} |->
                    IF x = "spec-ngram-mod-n-max" THEN c.knobs["draft_max"] ELSE c.knobs["draft_min"]]
  <2>1. SpecDecodingParams(c) = Only("spec-type", c.spec) ++ NonZero(f)
    BY <1>7 DEF SpecDecodingParams
  <2>2. DOMAIN f \subseteq SpecNames
    BY <1>1
  <2> HIDE DEF f
  <2>3. DOMAIN NonZero(f) \subseteq SpecNames
    BY <2>2, NonZeroIn
  <2> QED BY <1>4, <2>1, <2>3, MergedIn
<1>8. CASE c.spec \in {"ngram-simple", "ngram-map-k", "ngram-map-k4v"}
  <2> DEFINE f == [x \in {"spec-size-n", "spec-size-m"} |->
                    IF x = "spec-size-n" THEN c.knobs["ngram_size_n"] ELSE c.knobs["ngram_size_m"]]
  <2>1. SpecDecodingParams(c) = Only("spec-type", c.spec) ++ NonZero(f)
    BY <1>8 DEF SpecDecodingParams
  <2>2. DOMAIN f \subseteq SpecNames
    BY <1>1
  <2> HIDE DEF f
  <2>3. DOMAIN NonZero(f) \subseteq SpecNames
    BY <2>2, NonZeroIn
  <2> QED BY <1>4, <2>1, <2>3, MergedIn
<1>9. CASE c.spec = "ngram-cache"
  <2>1. SpecDecodingParams(c) = Only("spec-type", c.spec)
    BY <1>9 DEF SpecDecodingParams
  <2> QED BY <1>4, <2>1
<1>10. CASE c.spec \notin {"draft", "draft-mtp", "ngram-mod", "ngram-simple", "ngram-map-k", "ngram-map-k4v",
                           "ngram-cache"}
  <2>1. SpecDecodingParams(c) = <<>>
    BY <1>10 DEF SpecDecodingParams
  <2>2. DOMAIN <<>> = {}
    OBVIOUS
  <2> QED BY <2>1, <2>2
<1> QED BY <1>5, <1>6, <1>7, <1>8, <1>9, <1>10

LEMMA ChatDomain ==
    ASSUME NEW c, DOMAIN c.resources \subseteq Resources
    PROVE  DOMAIN Chat(c) \subseteq ChatNames
<1> DEFINE a == Opt(c.jinja, Only("jinja", "true"))
           b == Opt(Filled(c.kv), [x \in {"cache-type-k", "cache-type-v"} |-> c.kv])
           d == Opt(c.directIO, Only("direct-io", "true"))
           e == Opt(c.ple \in {"on", "off"}, Only("tensor-read-lazy", c.ple))
           f == Opt(Filled(c.mmproj) /\ ~c.mmprojOff, Only("mmproj", c.mmproj))
<1>1. Chat(c) = a ++ b ++ d ++ e ++ f ++ SpecDecodingParams(c)
  BY DEF Chat
<1>2. {"jinja", "direct-io", "tensor-read-lazy", "mmproj", "cache-type-k", "cache-type-v"} \subseteq ChatNames
  BY DEF ChatNames
<1>3. DOMAIN a \subseteq ChatNames /\ DOMAIN d \subseteq ChatNames
  BY <1>2, OptOnlyIn
<1>4. DOMAIN e \subseteq ChatNames /\ DOMAIN f \subseteq ChatNames
  BY <1>2, OptOnlyIn
<1>5. DOMAIN b \subseteq ChatNames
  BY <1>2 DEF Opt
<1> HIDE DEF a, b, d, e, f
<1>6. DOMAIN (a ++ b) \subseteq ChatNames
  BY <1>3, <1>5, MergedIn
<1>7. DOMAIN (a ++ b ++ d) \subseteq ChatNames
  BY <1>3, <1>6, MergedIn
<1>8. DOMAIN (a ++ b ++ d ++ e) \subseteq ChatNames
  BY <1>4, <1>7, MergedIn
<1>9. DOMAIN (a ++ b ++ d ++ e ++ f) \subseteq ChatNames
  BY <1>4, <1>8, MergedIn
<1>10. DOMAIN SpecDecodingParams(c) \subseteq ChatNames
  BY SpecDomain DEF ChatNames
<1> QED BY <1>1, <1>9, <1>10, MergedIn

LEMMA SizesAre ==
    ASSUME NEW c
    PROVE  /\ DOMAIN Sizes(c) \subseteq SizeNames
           /\ "placement" \in DOMAIN Sizes(c)
           /\ Sizes(c)["placement"] = GPUPlacementParams(c.place, c.backend)
           /\ "ctx-size" \in DOMAIN Sizes(c) <=> ~c.embedding /\ c.ctx > 0
           /\ "batch-size" \in DOMAIN Sizes(c) <=> c.batch > 0
           /\ "ubatch-size" \in DOMAIN Sizes(c) <=> c.ubatch > 0
           /\ "parallel" \in DOMAIN Sizes(c) <=> c.parallel > 1
           /\ "ctx-size" \in DOMAIN Sizes(c) => Sizes(c)["ctx-size"] = c.ctx
           /\ "batch-size" \in DOMAIN Sizes(c) => Sizes(c)["batch-size"] = c.batch
           /\ "ubatch-size" \in DOMAIN Sizes(c) => Sizes(c)["ubatch-size"] = c.ubatch
           /\ "parallel" \in DOMAIN Sizes(c) => Sizes(c)["parallel"] = c.parallel
<1> DEFINE a == Opt(~c.embedding /\ c.ctx > 0, Only("ctx-size", c.ctx))
           b == Opt(c.batch > 0, Only("batch-size", c.batch))
           d == Opt(c.ubatch > 0, Only("ubatch-size", c.ubatch))
           e == Opt(c.parallel > 1, Only("parallel", c.parallel))
           f == Only("placement", GPUPlacementParams(c.place, c.backend))
           g == Opt(c.embedding, Only("embeddings", "true"))
<1>1. Sizes(c) = a ++ b ++ d ++ e ++ f ++ g
  BY DEF Sizes
<1>2. /\ DOMAIN a = IF ~c.embedding /\ c.ctx > 0 THEN {"ctx-size"} ELSE {}
      /\ "ctx-size" \in DOMAIN a => a["ctx-size"] = c.ctx
  BY DEF Opt, Only
<1>3. /\ DOMAIN b = IF c.batch > 0 THEN {"batch-size"} ELSE {}
      /\ "batch-size" \in DOMAIN b => b["batch-size"] = c.batch
  BY DEF Opt, Only
<1>4. /\ DOMAIN d = IF c.ubatch > 0 THEN {"ubatch-size"} ELSE {}
      /\ "ubatch-size" \in DOMAIN d => d["ubatch-size"] = c.ubatch
  BY DEF Opt, Only
<1>5. /\ DOMAIN e = IF c.parallel > 1 THEN {"parallel"} ELSE {}
      /\ "parallel" \in DOMAIN e => e["parallel"] = c.parallel
  BY DEF Opt, Only
<1>6. DOMAIN f = {"placement"} /\ f["placement"] = GPUPlacementParams(c.place, c.backend)
  BY OnlyIs
<1>7. DOMAIN g \subseteq {"embeddings"}
  BY DEF Opt, Only
<1> HIDE DEF a, b, d, e, f, g
<1>8. DOMAIN Sizes(c) = DOMAIN a \union DOMAIN b \union DOMAIN d \union DOMAIN e \union DOMAIN f \union DOMAIN g
  BY <1>1 DEF ++
<1>9. \A x \in DOMAIN Sizes(c) : Sizes(c)[x] =
        IF x \in DOMAIN a THEN a[x] ELSE IF x \in DOMAIN b THEN b[x] ELSE IF x \in DOMAIN d THEN d[x]
        ELSE IF x \in DOMAIN e THEN e[x] ELSE IF x \in DOMAIN f THEN f[x] ELSE g[x]
  BY <1>1, ZenonT(60) DEF ++
<1>10. DOMAIN Sizes(c) \subseteq SizeNames
  BY <1>2, <1>3, <1>4, <1>5, <1>6, <1>7, <1>8 DEF SizeNames
<1>11. /\ "placement" \in DOMAIN Sizes(c)
       /\ Sizes(c)["placement"] = GPUPlacementParams(c.place, c.backend)
  BY <1>2, <1>3, <1>4, <1>5, <1>6, <1>8, <1>9
<1>12. /\ "ctx-size" \in DOMAIN Sizes(c) <=> ~c.embedding /\ c.ctx > 0
       /\ "ctx-size" \in DOMAIN Sizes(c) => Sizes(c)["ctx-size"] = c.ctx
  BY <1>2, <1>3, <1>4, <1>5, <1>6, <1>7, <1>8, <1>9
<1>13. /\ "batch-size" \in DOMAIN Sizes(c) <=> c.batch > 0
       /\ "batch-size" \in DOMAIN Sizes(c) => Sizes(c)["batch-size"] = c.batch
  BY <1>2, <1>3, <1>4, <1>5, <1>6, <1>7, <1>8, <1>9
<1>14. /\ "ubatch-size" \in DOMAIN Sizes(c) <=> c.ubatch > 0
       /\ "ubatch-size" \in DOMAIN Sizes(c) => Sizes(c)["ubatch-size"] = c.ubatch
  BY <1>2, <1>3, <1>4, <1>5, <1>6, <1>7, <1>8, <1>9
<1>15. /\ "parallel" \in DOMAIN Sizes(c) <=> c.parallel > 1
       /\ "parallel" \in DOMAIN Sizes(c) => Sizes(c)["parallel"] = c.parallel
  BY <1>2, <1>3, <1>4, <1>5, <1>6, <1>7, <1>8, <1>9
<1> QED BY <1>10, <1>11, <1>12, <1>13, <1>14, <1>15

(* A section: what it says of each flag, and who says it.                  *)
SectionSays(c, p) ==
    /\ DOMAIN p = DOMAIN c.sampling
            \union (IF c.embedding THEN {} ELSE {"flash-attn"} \union DOMAIN Chat(c))
            \union (IF c.layers >= 0 THEN {"gpu-layers"} ELSE {})
            \union (IF c.threads >= 0 THEN {"threads"} ELSE {}) \union DOMAIN Sizes(c)
    /\ \A x \in DOMAIN c.sampling : p[x] = c.sampling[x]
    /\ ~c.embedding => /\ p["flash-attn"] = IF c.flash THEN "on" ELSE "off"
                       /\ \A x \in DOMAIN Chat(c) : p[x] = Chat(c)[x]
    /\ c.layers >= 0 => p["gpu-layers"] = c.layers
    /\ c.threads >= 0 => p["threads"] = c.threads
    /\ \A x \in DOMAIN Sizes(c) : p[x] = Sizes(c)[x]

LEMMA SectionIs ==
    ASSUME NEW c, DOMAIN c.sampling \subseteq Sampled, DOMAIN c.resources \subseteq Resources
    PROVE  SectionSays(c, Section(c))
<1> DEFINE h == Only("flash-attn", IF c.flash THEN "on" ELSE "off") ++ Chat(c)
           a == Opt(~c.embedding, h)
           l == Layers(c)
           t == Opt(c.threads >= 0, Only("threads", c.threads))
           p == Section(c)
<1>1. p = c.sampling ++ a ++ l ++ t ++ Sizes(c)
  BY DEF Section
<1>2. DOMAIN Chat(c) \subseteq ChatNames /\ DOMAIN Sizes(c) \subseteq SizeNames
  BY ChatDomain, SizesAre
<1>3. /\ DOMAIN h = {"flash-attn"} \union DOMAIN Chat(c)
      /\ h["flash-attn"] = IF c.flash THEN "on" ELSE "off"
      /\ \A x \in DOMAIN Chat(c) : x # "flash-attn" => h[x] = Chat(c)[x]
  BY DEF ++, Only
<1> HIDE DEF h
<1>4. /\ DOMAIN a = IF c.embedding THEN {} ELSE DOMAIN h
      /\ ~c.embedding => a = h
  BY DEF Opt
<1>5. DOMAIN l = (IF c.layers >= 0 THEN {"gpu-layers"} ELSE {}) /\ (c.layers >= 0 => l["gpu-layers"] = c.layers)
  BY DEF Layers, Opt, Only
<1>6. DOMAIN t = (IF c.threads >= 0 THEN {"threads"} ELSE {}) /\ (c.threads >= 0 => t["threads"] = c.threads)
  BY DEF Opt, Only
<1> HIDE DEF a, l, t, p
<1>7. DOMAIN p = DOMAIN c.sampling \union DOMAIN a \union DOMAIN l \union DOMAIN t \union DOMAIN Sizes(c)
  BY <1>1 DEF ++
<1>8. \A x \in DOMAIN p : p[x] =
        IF x \in DOMAIN c.sampling THEN c.sampling[x] ELSE IF x \in DOMAIN a THEN a[x]
        ELSE IF x \in DOMAIN l THEN l[x] ELSE IF x \in DOMAIN t THEN t[x] ELSE Sizes(c)[x]
  BY <1>1 DEF ++
<1>9. DOMAIN c.sampling \intersect (ChatNames \union SizeNames \union {"flash-attn", "gpu-layers", "threads"}) = {}
  BY DEF Sampled, ChatNames, SpecNames, SizeNames, Resources
<1>10. /\ ChatNames \intersect (SizeNames \union {"flash-attn", "gpu-layers", "threads"}) = {}
       /\ SizeNames \intersect {"flash-attn", "gpu-layers", "threads"} = {}
  BY DEF ChatNames, SpecNames, SizeNames, Resources
<1>11. DOMAIN a \subseteq {"flash-attn"} \union ChatNames
  BY <1>2, <1>3, <1>4
<1>12. \A x \in DOMAIN c.sampling : p[x] = c.sampling[x]
  BY <1>7, <1>8
<1>13. ASSUME ~c.embedding
       PROVE  /\ p["flash-attn"] = IF c.flash THEN "on" ELSE "off"
              /\ \A x \in DOMAIN Chat(c) : p[x] = Chat(c)[x]
  <2>1. \A x \in DOMAIN h : p[x] = h[x]
    BY <1>2, <1>3, <1>4, <1>7, <1>8, <1>9, <1>13
  <2> QED BY <1>2, <1>3, <1>10, <2>1
<1>14. c.layers >= 0 => p["gpu-layers"] = c.layers
  BY <1>5, <1>7, <1>8, <1>9, <1>10, <1>11
<1>15. c.threads >= 0 => p["threads"] = c.threads
  BY <1>5, <1>6, <1>7, <1>8, <1>9, <1>10, <1>11
<1>16. \A x \in DOMAIN Sizes(c) : p[x] = Sizes(c)[x]
  BY <1>2, <1>5, <1>6, <1>7, <1>8, <1>9, <1>10, <1>11
<1>17. DOMAIN p = DOMAIN c.sampling
            \union (IF c.embedding THEN {} ELSE {"flash-attn"} \union DOMAIN Chat(c))
            \union (IF c.layers >= 0 THEN {"gpu-layers"} ELSE {})
            \union (IF c.threads >= 0 THEN {"threads"} ELSE {}) \union DOMAIN Sizes(c)
  BY <1>3, <1>4, <1>5, <1>6, <1>7
<1> QED BY <1>12, <1>13, <1>14, <1>15, <1>16, <1>17 DEF SectionSays, p

LEMMA PageShows ==
    ASSUME NEW c, DOMAIN c.sampling \subseteq Sampled, DOMAIN c.resources \subseteq Resources,
           c.layers \in Int, c.threads \in Int
    PROVE  LET p == WriteConfigParams(c)
               listed == EffectiveFlagsFor(c)
           IN  /\ \A x \in DOMAIN listed :
                   IF x \in DOMAIN p THEN listed[x] = p[x]
                   ELSE x = "fit" \/ (x \in {"gpu-layers", "threads"} /\ listed[x] < 0)
               /\ \A x \in DOMAIN p \ (DOMAIN listed \union DOMAIN c.sampling) :
                   x = "flash-attn" /\ p[x] = "off"
<1> DEFINE P == ParseExtraFlags(c.extra)
           h == Opt(c.flash, Only("flash-attn", "on")) ++ Chat(c)
           a == Opt(~c.embedding, h)
           f == Opt(c.place.mode = "tensor", Only("fit", "off"))
           g == Only("gpu-layers", c.layers)
           t == Only("threads", c.threads)
           z == Sizes(c)
           s == Section(c)
           p == WriteConfigParams(c)
           listed == EffectiveFlagsFor(c)
<1>1. p = P ++ s /\ listed = P ++ a ++ f ++ g ++ t ++ z
  BY DEF WriteConfigParams, EffectiveFlagsFor
<1>2. SectionSays(c, s)
  BY SectionIs
<1>3. DOMAIN Chat(c) \subseteq ChatNames /\ DOMAIN z \subseteq SizeNames
  BY ChatDomain, SizesAre
<1>4. /\ DOMAIN h = (IF c.flash THEN {"flash-attn"} ELSE {}) \union DOMAIN Chat(c)
      /\ c.flash => h["flash-attn"] = "on"
      /\ \A x \in DOMAIN Chat(c) : x # "flash-attn" => h[x] = Chat(c)[x]
  BY DEF ++, Only, Opt
<1> HIDE DEF h
<1>5. DOMAIN a = (IF c.embedding THEN {} ELSE DOMAIN h) /\ (~c.embedding => a = h)
  BY DEF Opt
<1>6. DOMAIN f \subseteq {"fit"}
  BY DEF Opt, Only
<1>7. DOMAIN g = {"gpu-layers"} /\ g["gpu-layers"] = c.layers /\ DOMAIN t = {"threads"} /\ t["threads"] = c.threads
  BY OnlyIs
<1> HIDE DEF P, a, f, g, t, z, s, p, listed
<1>8. /\ DOMAIN p = DOMAIN P \union DOMAIN s
      /\ \A x \in DOMAIN p : p[x] = IF x \in DOMAIN P THEN P[x] ELSE s[x]
  BY <1>1 DEF ++
<1>9. /\ DOMAIN listed = DOMAIN P \union DOMAIN a \union DOMAIN f \union DOMAIN g \union DOMAIN t \union DOMAIN z
      /\ \A x \in DOMAIN listed : listed[x] =
            IF x \in DOMAIN P THEN P[x] ELSE IF x \in DOMAIN a THEN a[x] ELSE IF x \in DOMAIN f THEN f[x]
            ELSE IF x \in DOMAIN g THEN g[x] ELSE IF x \in DOMAIN t THEN t[x] ELSE z[x]
  BY <1>1 DEF ++
<1>10. DOMAIN c.sampling \intersect (ChatNames \union SizeNames \union {"flash-attn", "gpu-layers", "threads", "fit"}) = {}
  BY DEF Sampled, ChatNames, SpecNames, SizeNames, Resources
<1>11. /\ ChatNames \intersect (SizeNames \union {"flash-attn", "gpu-layers", "threads", "fit"}) = {}
       /\ SizeNames \intersect {"flash-attn", "gpu-layers", "threads", "fit"} = {}
  BY DEF ChatNames, SpecNames, SizeNames, Resources
<1>12. /\ DOMAIN s = DOMAIN c.sampling
            \union (IF c.embedding THEN {} ELSE {"flash-attn"} \union DOMAIN Chat(c))
            \union (IF c.layers >= 0 THEN {"gpu-layers"} ELSE {})
            \union (IF c.threads >= 0 THEN {"threads"} ELSE {}) \union DOMAIN z
       /\ ~c.embedding => s["flash-attn"] = IF c.flash THEN "on" ELSE "off"
       /\ ~c.embedding => \A x \in DOMAIN Chat(c) : s[x] = Chat(c)[x]
       /\ c.layers >= 0 => s["gpu-layers"] = c.layers
       /\ c.threads >= 0 => s["threads"] = c.threads
       /\ \A x \in DOMAIN z : s[x] = z[x]
  BY <1>2 DEF SectionSays, z
<1>13. ASSUME NEW x \in DOMAIN listed
       PROVE  IF x \in DOMAIN p THEN listed[x] = p[x]
              ELSE x = "fit" \/ (x \in {"gpu-layers", "threads"} /\ listed[x] < 0)
  <2>1. CASE x \in DOMAIN P
    BY <1>8, <1>9, <2>1
  <2>2. CASE x \notin DOMAIN P /\ x \in DOMAIN a
    <3>1. ~c.embedding /\ listed[x] = h[x] /\ x \in DOMAIN h
      BY <1>5, <1>9, <2>2
    <3>2. CASE x = "flash-attn"
      <4>1. c.flash
        BY <1>3, <1>4, <1>11, <3>1, <3>2
      <4> QED BY <1>4, <1>8, <1>12, <2>2, <3>1, <3>2, <4>1
    <3>3. CASE x # "flash-attn"
      <4>1. x \in DOMAIN Chat(c)
        BY <1>4, <3>1, <3>3
      <4> QED BY <1>4, <1>8, <1>12, <2>2, <3>1, <3>3, <4>1
    <3> QED BY <3>2, <3>3
  <2>3. CASE x \notin DOMAIN P /\ x \notin DOMAIN a /\ x \in DOMAIN f
    <3>1. x = "fit"
      BY <1>6, <2>3
    <3>2. x \notin DOMAIN s
      BY <1>3, <1>10, <1>11, <1>12, <3>1
    <3> QED BY <1>8, <2>3, <3>1, <3>2
  <2>4. CASE x \notin DOMAIN P /\ x \notin DOMAIN a /\ x \notin DOMAIN f /\ x \in DOMAIN g
    <3>1. x = "gpu-layers" /\ listed[x] = c.layers
      BY <1>7, <1>9, <2>4
    <3>2. CASE c.layers >= 0
      BY <1>8, <1>12, <2>4, <3>1, <3>2
    <3>3. CASE c.layers < 0
      <4>1. x \notin DOMAIN s
        BY <1>3, <1>10, <1>11, <1>12, <3>1, <3>3
      <4> QED BY <1>8, <2>4, <3>1, <3>3, <4>1
    <3> QED BY <3>2, <3>3
  <2>5. CASE x \notin DOMAIN P /\ x \notin DOMAIN a /\ x \notin DOMAIN f /\ x \notin DOMAIN g /\ x \in DOMAIN t
    <3>1. x = "threads" /\ listed[x] = c.threads
      BY <1>7, <1>9, <2>5
    <3>2. CASE c.threads >= 0
      BY <1>8, <1>12, <2>5, <3>1, <3>2
    <3>3. CASE c.threads < 0
      <4>1. x \notin DOMAIN s
        BY <1>3, <1>10, <1>11, <1>12, <3>1, <3>3
      <4> QED BY <1>8, <2>5, <3>1, <3>3, <4>1
    <3> QED BY <3>2, <3>3
  <2>6. CASE x \notin DOMAIN P /\ x \notin DOMAIN a /\ x \notin DOMAIN f /\ x \notin DOMAIN g /\ x \notin DOMAIN t
    <3>1. x \in DOMAIN z /\ listed[x] = z[x]
      BY <1>9, <2>6
    <3> QED BY <1>8, <1>12, <2>6, <3>1
  <2> QED BY <2>1, <2>2, <2>3, <2>4, <2>5, <2>6
<1>14. ASSUME NEW x \in DOMAIN p \ (DOMAIN listed \union DOMAIN c.sampling)
       PROVE  x = "flash-attn" /\ p[x] = "off"
  <2>1. x \notin DOMAIN P /\ x \in DOMAIN s /\ p[x] = s[x]
    BY <1>8, <1>9
  <2>2. x \notin DOMAIN z /\ x \notin {"gpu-layers", "threads"} /\ x \notin DOMAIN a
    BY <1>7, <1>9
  <2>3. ~c.embedding /\ x \in {"flash-attn"} \union DOMAIN Chat(c)
    BY <1>12, <2>1, <2>2
  <2>4. x = "flash-attn" /\ ~c.flash
    BY <1>4, <1>5, <2>2, <2>3
  <2> QED BY <1>12, <2>1, <2>3, <2>4
<1> QED BY <1>13, <1>14 DEF p, listed

(* The drafts that a section names, and the numbers that a mode hears.     *)
Drafts(c) ==
    {f \in {c.mtp} : Filled(f) /\ ~c.mtpOff} \union {f \in {c.draft} : Filled(f) /\ c.spec = "draft"}

LEMMA DraftDomain ==
    ASSUME NEW c
    PROVE  /\ DOMAIN DraftSampling(c) \subseteq {"spec-draft-n-max", "spec-draft-n-min", "spec-draft-p-min"}
           /\ c.knobs["draft_max"] # 0 => /\ "spec-draft-n-max" \in DOMAIN DraftSampling(c)
                                          /\ DraftSampling(c)["spec-draft-n-max"] = c.knobs["draft_max"]
           /\ c.knobs["draft_min"] # 0 => /\ "spec-draft-n-min" \in DOMAIN DraftSampling(c)
                                          /\ DraftSampling(c)["spec-draft-n-min"] = c.knobs["draft_min"]
           /\ c.knobs["draft_p_min"] # 0 => /\ "spec-draft-p-min" \in DOMAIN DraftSampling(c)
                                            /\ DraftSampling(c)["spec-draft-p-min"] = c.knobs["draft_p_min"]
<1> DEFINE f == [x \in {"spec-draft-n-max", "spec-draft-n-min", "spec-draft-p-min"} |->
            CASE x = "spec-draft-n-max" -> c.knobs["draft_max"]
              [] x = "spec-draft-n-min" -> c.knobs["draft_min"]
              [] OTHER -> c.knobs["draft_p_min"]]
<1>1. /\ DOMAIN f = {"spec-draft-n-max", "spec-draft-n-min", "spec-draft-p-min"}
      /\ f["spec-draft-n-max"] = c.knobs["draft_max"] /\ f["spec-draft-n-min"] = c.knobs["draft_min"]
      /\ f["spec-draft-p-min"] = c.knobs["draft_p_min"]
  OBVIOUS
<1>2. DraftSampling(c) = NonZero(f)
  BY DEF DraftSampling
<1> HIDE DEF f
<1> QED BY <1>1, <1>2 DEF NonZero

LEMMA DraftsAre ==
    ASSUME NEW c, DOMAIN c.resources \subseteq Resources
    PROVE  /\ "model-draft" \in DOMAIN SpecDecodingParams(c) => SpecDecodingParams(c)["model-draft"] \in Drafts(c)
           /\ c.spec \in {"draft", "draft-mtp"} =>
                \A x \in DOMAIN DraftSampling(c) :
                    x \in DOMAIN SpecDecodingParams(c) /\ SpecDecodingParams(c)[x] = DraftSampling(c)[x]
<1> DEFINE s == SpecDecodingParams(c)
           D == DraftSampling(c)
           R == DraftResources(c)
<1>1. DOMAIN D \subseteq {"spec-draft-n-max", "spec-draft-n-min", "spec-draft-p-min"}
  BY DraftDomain
<1>2. DOMAIN R \subseteq Resources
  BY NonZeroIn DEF DraftResources
<1>3. "model-draft" \notin DOMAIN D /\ "model-draft" \notin DOMAIN R /\ DOMAIN D \intersect DOMAIN R = {}
      /\ "spec-type" \notin DOMAIN D
  BY <1>1, <1>2 DEF Resources
<1>4. \A v : DOMAIN Only("spec-type", v) = {"spec-type"}
  BY OnlyIs
<1>5. DOMAIN Only("model-draft", c.mtp) = {"model-draft"} /\ Only("model-draft", c.mtp)["model-draft"] = c.mtp
  BY OnlyIs
<1>6. CASE c.spec = "draft"
  <2> DEFINE o == Opt(Filled(c.draft), Only("model-draft", c.draft))
             t == Only("spec-type", "draft-simple")
  <2>1. s = t ++ o ++ D ++ R
    BY <1>6 DEF SpecDecodingParams
  <2>2. DOMAIN o = (IF Filled(c.draft) THEN {"model-draft"} ELSE {}) /\ (Filled(c.draft) => o["model-draft"] = c.draft)
    BY DEF Opt, Only
  <2>3. DOMAIN t = {"spec-type"}
    BY <1>4
  <2> HIDE DEF o, t, D, R, s
  <2>4. /\ DOMAIN s = DOMAIN t \union DOMAIN o \union DOMAIN D \union DOMAIN R
        /\ \A x \in DOMAIN s : s[x] = IF x \in DOMAIN t THEN t[x] ELSE IF x \in DOMAIN o THEN o[x]
                                      ELSE IF x \in DOMAIN D THEN D[x] ELSE R[x]
    BY <2>1 DEF ++
  <2>5. "model-draft" \in DOMAIN s => s["model-draft"] = c.draft /\ Filled(c.draft)
    BY <1>3, <2>2, <2>3, <2>4
  <2>6. "model-draft" \in DOMAIN s => s["model-draft"] \in Drafts(c)
    BY <1>6, <2>5 DEF Drafts
  <2>7. \A x \in DOMAIN D : x \in DOMAIN s /\ s[x] = D[x]
    BY <1>3, <2>2, <2>3, <2>4
  <2> QED BY <2>6, <2>7 DEF s, D
<1>7. CASE c.spec = "draft-mtp"
  <2> DEFINE m == Only("model-draft", c.mtp) ++ R
             o == Opt(Filled(c.mtp) /\ ~c.mtpOff, m)
             t == Only("spec-type", "draft-mtp")
  <2>1. s = t ++ D ++ o
    BY <1>7 DEF SpecDecodingParams
  <2>2. "model-draft" \in DOMAIN m /\ m["model-draft"] = c.mtp
    BY <1>5 DEF ++
  <2> HIDE DEF m
  <2>3. DOMAIN o = (IF Filled(c.mtp) /\ ~c.mtpOff THEN DOMAIN m ELSE {}) /\ (Filled(c.mtp) /\ ~c.mtpOff => o = m)
    BY DEF Opt
  <2>4. DOMAIN t = {"spec-type"}
    BY <1>4
  <2> HIDE DEF o, t, D, R, s
  <2>5. /\ DOMAIN s = DOMAIN t \union DOMAIN D \union DOMAIN o
        /\ \A x \in DOMAIN s : s[x] = IF x \in DOMAIN t THEN t[x] ELSE IF x \in DOMAIN D THEN D[x] ELSE o[x]
    BY <2>1 DEF ++
  <2>6. "model-draft" \in DOMAIN s => s["model-draft"] = c.mtp /\ Filled(c.mtp) /\ ~c.mtpOff
    BY <1>3, <2>2, <2>3, <2>4, <2>5
  <2>7. "model-draft" \in DOMAIN s => s["model-draft"] \in Drafts(c)
    BY <2>6 DEF Drafts
  <2>8. \A x \in DOMAIN D : x \in DOMAIN s /\ s[x] = D[x]
    BY <1>3, <2>4, <2>5
  <2> QED BY <2>7, <2>8 DEF s, D
<1>8. CASE c.spec = "ngram-mod"
  <2> DEFINE f == [x \in {"spec-ngram-mod-n-max", "spec-ngram-mod-n-min"} |->
                    IF x = "spec-ngram-mod-n-max" THEN c.knobs["draft_max"] ELSE c.knobs["draft_min"]]
  <2>1. s = Only("spec-type", c.spec) ++ NonZero(f)
    BY <1>8 DEF SpecDecodingParams
  <2>2. DOMAIN NonZero(f) \subseteq {"spec-ngram-mod-n-max", "spec-ngram-mod-n-min"}
    BY DEF NonZero
  <2> HIDE DEF f, s
  <2>3. "model-draft" \notin DOMAIN s
    BY <1>4, <2>1, <2>2 DEF ++
  <2> QED BY <1>8, <2>3 DEF s
<1>9. CASE c.spec \in {"ngram-simple", "ngram-map-k", "ngram-map-k4v"}
  <2> DEFINE f == [x \in {"spec-size-n", "spec-size-m"} |->
                    IF x = "spec-size-n" THEN c.knobs["ngram_size_n"] ELSE c.knobs["ngram_size_m"]]
  <2>1. s = Only("spec-type", c.spec) ++ NonZero(f)
    BY <1>9 DEF SpecDecodingParams
  <2>2. DOMAIN NonZero(f) \subseteq {"spec-size-n", "spec-size-m"}
    BY DEF NonZero
  <2> HIDE DEF f, s
  <2>3. "model-draft" \notin DOMAIN s
    BY <1>4, <2>1, <2>2 DEF ++
  <2> QED BY <1>9, <2>3 DEF s
<1>10. CASE c.spec = "ngram-cache"
  <2>1. s = Only("spec-type", c.spec)
    BY <1>10 DEF SpecDecodingParams
  <2>2. "model-draft" \notin DOMAIN s
    BY <1>4, <2>1
  <2> QED BY <1>10, <2>2
<1>11. CASE c.spec \notin {"draft", "draft-mtp", "ngram-mod", "ngram-simple", "ngram-map-k", "ngram-map-k4v",
                           "ngram-cache"}
  <2>1. s = <<>>
    BY <1>11 DEF SpecDecodingParams
  <2>2. DOMAIN <<>> = {}
    OBVIOUS
  <2>3. "model-draft" \notin DOMAIN s
    BY <2>1, <2>2
  <2> QED BY <1>11, <2>3
<1> QED BY <1>6, <1>7, <1>8, <1>9, <1>10, <1>11

(* What a chat's flags say of the caches, the projector and the drafts.    *)
LEMMA ChatIs ==
    ASSUME NEW c, DOMAIN c.resources \subseteq Resources
    PROVE  /\ "cache-type-v" \in DOMAIN Chat(c) => Filled(c.kv)
           /\ "mmproj" \in DOMAIN Chat(c) => Chat(c)["mmproj"] = c.mmproj /\ Filled(c.mmproj) /\ ~c.mmprojOff
           /\ "model-draft" \in DOMAIN Chat(c) => Chat(c)["model-draft"] \in Drafts(c)
           /\ c.spec \in {"draft", "draft-mtp"} =>
                \A x \in DOMAIN DraftSampling(c) : x \in DOMAIN Chat(c) /\ Chat(c)[x] = DraftSampling(c)[x]
<1> DEFINE a == Opt(c.jinja, Only("jinja", "true"))
           b == Opt(Filled(c.kv), [x \in {"cache-type-k", "cache-type-v"} |-> c.kv])
           d == Opt(c.directIO, Only("direct-io", "true"))
           e == Opt(c.ple \in {"on", "off"}, Only("tensor-read-lazy", c.ple))
           f == Opt(Filled(c.mmproj) /\ ~c.mmprojOff, Only("mmproj", c.mmproj))
           s == SpecDecodingParams(c)
           h == Chat(c)
           D == DraftSampling(c)
<1>1. h = a ++ b ++ d ++ e ++ f ++ s
  BY DEF Chat
<1>2. /\ DOMAIN a \subseteq {"jinja"} /\ DOMAIN d \subseteq {"direct-io"}
      /\ DOMAIN e \subseteq {"tensor-read-lazy"} /\ DOMAIN b \subseteq {"cache-type-k", "cache-type-v"}
      /\ DOMAIN f \subseteq {"mmproj"}
  BY DEF Opt, Only
<1>3. "cache-type-v" \in DOMAIN b => Filled(c.kv)
  BY DEF Opt
<1>4. "mmproj" \in DOMAIN f => f["mmproj"] = c.mmproj /\ Filled(c.mmproj) /\ ~c.mmprojOff
  BY DEF Opt, Only
<1>5. DOMAIN s \intersect {"jinja", "direct-io", "tensor-read-lazy", "cache-type-k", "cache-type-v", "mmproj"} = {}
  BY SpecDomain DEF SpecNames, Resources
<1>6. /\ "model-draft" \in DOMAIN s => s["model-draft"] \in Drafts(c)
      /\ c.spec \in {"draft", "draft-mtp"} => \A x \in DOMAIN D : x \in DOMAIN s /\ s[x] = D[x]
  BY DraftsAre
<1> HIDE DEF a, b, d, e, f, s, h, D
<1>7. DOMAIN h = DOMAIN a \union DOMAIN b \union DOMAIN d \union DOMAIN e \union DOMAIN f \union DOMAIN s
  BY <1>1 DEF ++
<1>8. \A x \in DOMAIN h : h[x] =
        IF x \in DOMAIN a THEN a[x] ELSE IF x \in DOMAIN b THEN b[x] ELSE IF x \in DOMAIN d THEN d[x]
        ELSE IF x \in DOMAIN e THEN e[x] ELSE IF x \in DOMAIN f THEN f[x] ELSE s[x]
  BY <1>1, Zenon DEF ++
<1>9. "cache-type-v" \in DOMAIN h => Filled(c.kv)
  BY <1>2, <1>3, <1>5, <1>7
<1>10. "mmproj" \in DOMAIN h => h["mmproj"] = c.mmproj /\ Filled(c.mmproj) /\ ~c.mmprojOff
  BY <1>2, <1>4, <1>5, <1>7, <1>8
<1>11. \A x \in DOMAIN s : x \in DOMAIN h /\ h[x] = s[x]
  BY <1>2, <1>5, <1>7, <1>8
<1>12. "model-draft" \in DOMAIN h => "model-draft" \in DOMAIN s
  BY <1>2, <1>7
<1> QED BY <1>6, <1>9, <1>10, <1>11, <1>12 DEF h, D

LEMMA Largest ==
    ASSUME NEW k \in Int PROVE Max({1, k}) = IF k > 1 THEN k ELSE 1
<1> DEFINE m == IF k > 1 THEN k ELSE 1
<1>1. m \in {1, k} /\ m \in Int /\ \A y \in {1, k} : m >= y
  OBVIOUS
<1>2. \A x \in {1, k} : (\A y \in {1, k} : x >= y) => x = m
  BY <1>1
<1> HIDE DEF m
<1>3. (CHOOSE x \in {1, k} : \A y \in {1, k} : x >= y) = m
  BY <1>1, <1>2
<1> QED BY <1>3 DEF Max, m

(* What a section does not say is what llama-server takes of itself.       *)
LEMMA SectionRuns ==
    ASSUME NEW c, DOMAIN c.sampling \subseteq Sampled, DOMAIN c.resources \subseteq Resources,
           {c.layers, c.batch, c.ubatch, c.threads, c.parallel} \subseteq Int, Accepted(c)
    PROVE  /\ Running(Section(c)) = Wanted(c)
           /\ Running(Section(c)).ubatch = EffectiveUBatchSize(c)
           /\ Running(Section(c)).batch = EffectiveBatchSize(c)
           /\ Section(c)["placement"] = GPUPlacementParams(c.place, c.backend)
<1> DEFINE p == Section(c)
           z == Sizes(c)
<1>1. SectionSays(c, p) /\ DOMAIN Chat(c) \subseteq ChatNames /\ DOMAIN z \subseteq SizeNames
  BY SectionIs, ChatDomain, SizesAre
<1>2. /\ "placement" \in DOMAIN z
      /\ z["placement"] = GPUPlacementParams(c.place, c.backend)
      /\ "batch-size" \in DOMAIN z <=> c.batch > 0
      /\ "ubatch-size" \in DOMAIN z <=> c.ubatch > 0
      /\ "parallel" \in DOMAIN z <=> c.parallel > 1
      /\ "batch-size" \in DOMAIN z => z["batch-size"] = c.batch
      /\ "ubatch-size" \in DOMAIN z => z["ubatch-size"] = c.ubatch
      /\ "parallel" \in DOMAIN z => z["parallel"] = c.parallel
  BY SizesAre
<1> HIDE DEF p, z
<1>3. /\ DOMAIN p = DOMAIN c.sampling
            \union (IF c.embedding THEN {} ELSE {"flash-attn"} \union DOMAIN Chat(c))
            \union (IF c.layers >= 0 THEN {"gpu-layers"} ELSE {})
            \union (IF c.threads >= 0 THEN {"threads"} ELSE {}) \union DOMAIN z
      /\ c.layers >= 0 => p["gpu-layers"] = c.layers
      /\ c.threads >= 0 => p["threads"] = c.threads
      /\ \A x \in DOMAIN z : p[x] = z[x]
  BY <1>1 DEF SectionSays, z
<1>4. DOMAIN c.sampling \intersect (SizeNames \union {"gpu-layers", "threads"}) = {}
  BY DEF Sampled, SizeNames
<1>5. /\ ChatNames \intersect (SizeNames \union {"flash-attn", "gpu-layers", "threads"}) = {}
      /\ SizeNames \intersect {"flash-attn", "gpu-layers", "threads"} = {}
  BY DEF ChatNames, SpecNames, SizeNames, Resources
<1>6. {"batch-size", "ubatch-size", "parallel"} \subseteq SizeNames
  BY DEF SizeNames
<1>7. ("gpu-layers" \in DOMAIN p <=> c.layers >= 0) /\ ("threads" \in DOMAIN p <=> c.threads >= 0)
  BY <1>1, <1>3, <1>4, <1>5
<1>8. \A x \in {"batch-size", "ubatch-size", "parallel"} :
        /\ x \in DOMAIN p <=> x \in DOMAIN z
        /\ x \in DOMAIN p => p[x] = z[x]
  BY <1>1, <1>3, <1>4, <1>5, <1>6
<1>9. p["placement"] = GPUPlacementParams(c.place, c.backend)
  BY <1>2, <1>3
<1>10. Heard(p, "gpu-layers", -1) = IF c.layers >= 0 THEN c.layers ELSE -1
  BY <1>3, <1>7 DEF Heard
<1>11. Heard(p, "threads", -1) = IF c.threads >= 0 THEN c.threads ELSE -1
  BY <1>3, <1>7 DEF Heard
<1>12. c.batch \in Nat /\ c.ubatch \in Nat
  BY DEF Accepted
<1>13. Heard(p, "batch-size", 2048) = (IF c.batch > 0 THEN c.batch ELSE 2048)
  BY <1>2, <1>8, <1>12 DEF Heard
<1>14. Heard(p, "ubatch-size", 512) = (IF c.ubatch > 0 THEN c.ubatch ELSE 512)
  BY <1>2, <1>8, <1>12 DEF Heard
<1>15. Heard(p, "parallel", 1) = Max({1, c.parallel})
  <2>1. Max({1, c.parallel}) = IF c.parallel > 1 THEN c.parallel ELSE 1
    BY Largest
  <2> QED BY <1>2, <1>8, <2>1 DEF Heard
<1>16. /\ (IF c.batch = 0 THEN 2048 ELSE c.batch) = (IF c.batch > 0 THEN c.batch ELSE 2048)
       /\ (IF c.ubatch = 0 THEN 512 ELSE c.ubatch) = (IF c.ubatch > 0 THEN c.ubatch ELSE 512)
  BY <1>12
<1>17. Running(p) = Wanted(c)
  BY <1>9, <1>10, <1>11, <1>13, <1>14, <1>15, <1>16 DEF Running, Wanted
<1>18. Running(p).ubatch = EffectiveUBatchSize(c) /\ Running(p).batch = EffectiveBatchSize(c)
  BY <1>13, <1>14 DEF Running, EffectiveUBatchSize, EffectiveBatchSize
<1> QED BY <1>9, <1>17, <1>18 DEF p

LEMMA FlashIsSaid ==
    ASSUME NEW c, DOMAIN c.sampling \subseteq Sampled, DOMAIN c.resources \subseteq Resources, Accepted(c),
           c.embedding \in BOOLEAN, c.flash \in BOOLEAN
    PROVE  LET p == Section(c)
           IN  /\ Heard(p, "flash-attn", "on") = "off" =>
                    p["placement"].mode # "tensor" /\ "cache-type-v" \notin DOMAIN p
               /\ c.embedding => DOMAIN p \cap ChatFlags = {}
               /\ ~c.embedding => (Heard(p, "flash-attn", "auto") = "on") = c.flash
               /\ \A x \in DOMAIN c.sampling : x \in DOMAIN p /\ p[x] = c.sampling[x]
<1> DEFINE p == Section(c)
           z == Sizes(c)
<1>1. SectionSays(c, p) /\ DOMAIN Chat(c) \subseteq ChatNames /\ DOMAIN z \subseteq SizeNames
  BY SectionIs, ChatDomain, SizesAre
<1>2. /\ "placement" \in DOMAIN z /\ z["placement"] = GPUPlacementParams(c.place, c.backend)
      /\ "ctx-size" \in DOMAIN z <=> ~c.embedding /\ c.ctx > 0
  BY SizesAre
<1>3. GPUPlacementParams(c.place, c.backend).mode = c.place.mode
  BY DEF GPUPlacementParams
<1>4. "cache-type-v" \in DOMAIN Chat(c) => Filled(c.kv)
  BY ChatIs
<1> HIDE DEF p, z
<1>5. /\ DOMAIN p = DOMAIN c.sampling
            \union (IF c.embedding THEN {} ELSE {"flash-attn"} \union DOMAIN Chat(c))
            \union (IF c.layers >= 0 THEN {"gpu-layers"} ELSE {})
            \union (IF c.threads >= 0 THEN {"threads"} ELSE {}) \union DOMAIN z
      /\ \A x \in DOMAIN c.sampling : p[x] = c.sampling[x]
      /\ ~c.embedding => p["flash-attn"] = IF c.flash THEN "on" ELSE "off"
      /\ \A x \in DOMAIN z : p[x] = z[x]
  BY <1>1 DEF SectionSays, z
<1>6. DOMAIN c.sampling \intersect (ChatFlags \union {"cache-type-v", "flash-attn"}) = {}
  BY DEF Sampled, ChatFlags
<1>7. /\ SizeNames \intersect (ChatFlags \ {"ctx-size"}) = {}
      /\ SizeNames \intersect {"flash-attn", "cache-type-v"} = {}
      /\ {"gpu-layers", "threads"} \intersect (ChatFlags \union {"cache-type-v", "flash-attn"}) = {}
  BY DEF SizeNames, ChatFlags
<1>8. "flash-attn" \in DOMAIN p <=> ~c.embedding
  BY <1>1, <1>5, <1>6, <1>7
<1>9. ASSUME Heard(p, "flash-attn", "on") = "off"
      PROVE  p["placement"].mode # "tensor" /\ "cache-type-v" \notin DOMAIN p
  <2>1. ~c.embedding /\ ~c.flash
    BY <1>5, <1>8, <1>9 DEF Heard
  <2>2. c.place.mode # "tensor" /\ ~Filled(c.kv)
    BY <2>1 DEF Accepted
  <2>3. p["placement"].mode # "tensor"
    BY <1>2, <1>3, <1>5, <2>2
  <2>4. "cache-type-v" \notin DOMAIN p
    BY <1>1, <1>4, <1>5, <1>6, <1>7, <2>1, <2>2
  <2> QED BY <2>3, <2>4
<1>10. ASSUME c.embedding PROVE DOMAIN p \intersect ChatFlags = {}
  BY <1>1, <1>2, <1>5, <1>6, <1>7, <1>10
<1>11. ASSUME ~c.embedding PROVE (Heard(p, "flash-attn", "auto") = "on") = c.flash
  <2>1. Heard(p, "flash-attn", "auto") = IF c.flash THEN "on" ELSE "off"
    BY <1>5, <1>8, <1>11 DEF Heard
  <2>2. CASE c.flash
    BY <2>1, <2>2
  <2>3. CASE ~c.flash
    BY <2>1, <2>3
  <2> QED BY <2>2, <2>3
<1>12. \A x \in DOMAIN c.sampling : x \in DOMAIN p /\ p[x] = c.sampling[x]
  BY <1>5
<1> QED BY <1>9, <1>10, <1>11, <1>12 DEF p

\* A record of the fields of a config.
IsConfig(c) ==
    c = [embedding |-> c.embedding, layers |-> c.layers, ctx |-> c.ctx, batch |-> c.batch,
         ubatch |-> c.ubatch, threads |-> c.threads, parallel |-> c.parallel, flash |-> c.flash,
         jinja |-> c.jinja, kv |-> c.kv, directIO |-> c.directIO, ple |-> c.ple, mmproj |-> c.mmproj,
         mmprojOff |-> c.mmprojOff, mtp |-> c.mtp, mtpOff |-> c.mtpOff, spec |-> c.spec,
         draft |-> c.draft, knobs |-> c.knobs, resources |-> c.resources, sampling |-> c.sampling,
         extra |-> c.extra, place |-> c.place, backend |-> c.backend]

LEMMA DraftIsHeard ==
    ASSUME NEW c, IsConfig(c), DOMAIN c.sampling \subseteq Sampled, DOMAIN c.resources \subseteq Resources,
           c.spec \in {"draft", "draft-mtp"}, ~c.embedding
    PROVE  LET d == ApplySpecDefaults(c)
           IN  \A k \in DOMAIN SpecModeParams(c.spec) :
                    d.knobs[k] > 0 => d.knobs[k] \in {Section(d)[x] : x \in DOMAIN DraftSampling(d)}
<1> DEFINE d == ApplySpecDefaults(c)
           D == DraftSampling(d)
<1>1. /\ d.sampling = c.sampling /\ d.resources = c.resources /\ d.spec = c.spec /\ d.embedding = c.embedding
  BY DEF IsConfig, ApplySpecDefaults
<1>2. DOMAIN SpecModeParams(c.spec) = {"draft_max", "draft_min", "draft_p_min"}
  BY DEF SpecModeParams
<1> HIDE DEF d
<1>3. SectionSays(d, Section(d))
  BY <1>1, SectionIs
<1>4. \A x \in DOMAIN D : x \in DOMAIN Chat(d) /\ Chat(d)[x] = D[x]
  BY <1>1, ChatIs
<1>5. \A x \in DOMAIN D : Section(d)[x] = D[x]
  BY <1>1, <1>3, <1>4 DEF SectionSays
<1>6. /\ d.knobs["draft_max"] # 0 => \E x \in DOMAIN D : D[x] = d.knobs["draft_max"]
      /\ d.knobs["draft_min"] # 0 => \E x \in DOMAIN D : D[x] = d.knobs["draft_min"]
      /\ d.knobs["draft_p_min"] # 0 => \E x \in DOMAIN D : D[x] = d.knobs["draft_p_min"]
  BY DraftDomain
<1> HIDE DEF D
<1>7. ASSUME NEW k \in {"draft_max", "draft_min", "draft_p_min"}, d.knobs[k] > 0
      PROVE  \E x \in DOMAIN D : Section(d)[x] = d.knobs[k]
  <2>1. d.knobs[k] # 0
    BY <1>7
  <2> QED BY <1>5, <1>6, <2>1
<1> QED BY <1>2, <1>7 DEF d, D

LEMMA BodyIs ==
    ASSUME NEW c, NEW asked
    PROVE  InjectSamplingDefaults(asked, "m", {[id |-> "m", c |-> c]}) = asked ++ c.sampling
<1> DEFINE m == [id |-> "m", c |-> c]
           called == {k \in {m} : k.id = "m"}
           body == InjectSamplingDefaults(asked, "m", {m})
<1>1. called = {m} /\ m.c = c
  OBVIOUS
<1>2. body = IF called = {} THEN asked ELSE asked ++ (CHOOSE k \in called : TRUE).c.sampling
  BY DEF InjectSamplingDefaults
<1> HIDE DEF called, m
<1>3. (CHOOSE k \in {m} : TRUE) = m
  OBVIOUS
<1> HIDE DEF body
<1>4. body = asked ++ c.sampling
  BY <1>1, <1>2, <1>3
<1> QED BY <1>4 DEF body, m

LEMMA PresetSays ==
    (input # None /\ input.kind = "config" => ConfigInput(input)) => PresetSaysTheConfig
<1> SUFFICES ASSUME ConfigInput(input), Accepted(input.c), input # None, input.kind = "config"
             PROVE  PresetSaysTheConfig
  BY DEF PresetSaysTheConfig
<1> DEFINE c == input.c
           p == Section(c)
           d == ApplySpecDefaults(c)
<1>1. /\ IsConfig(c) /\ DOMAIN c.sampling \subseteq Sampled /\ DOMAIN c.resources \subseteq Resources
      /\ {c.layers, c.batch, c.ubatch, c.threads, c.parallel} \subseteq Int
      /\ c.embedding \in BOOLEAN /\ c.flash \in BOOLEAN
  BY DEF ConfigInput, IsConfig
<1>2. Running(p) = Wanted(c) /\ Running(p).ubatch <= Running(p).batch
  BY <1>1, SectionRuns DEF Accepted
<1>3. /\ Heard(p, "flash-attn", "on") = "off" =>
            p["placement"].mode # "tensor" /\ "cache-type-v" \notin DOMAIN p
      /\ c.embedding => DOMAIN p \cap ChatFlags = {}
      /\ ~c.embedding => (Heard(p, "flash-attn", "auto") = "on") = c.flash
      /\ \A x \in DOMAIN c.sampling : x \in DOMAIN p /\ p[x] = c.sampling[x]
  BY <1>1, FlashIsSaid
<1>4. (c.spec \in {"draft", "draft-mtp"} /\ ~c.embedding) =>
        \A k \in DOMAIN SpecModeParams(c.spec) :
            d.knobs[k] > 0 => d.knobs[k] \in {Section(d)[x] : x \in DOMAIN DraftSampling(d)}
  BY <1>1, DraftIsHeard
<1> DEFINE asked == [temp |-> 1]
           body == InjectSamplingDefaults(asked, "m", {[id |-> "m", c |-> c]})
<1> HIDE DEF c, p, d, asked
<1>5. body = asked ++ c.sampling
  BY BodyIs
<1> HIDE DEF body
<1>6. \A x \in DOMAIN asked \union DOMAIN c.sampling : body[x] = IF x \in DOMAIN asked THEN asked[x] ELSE p[x]
  BY <1>3, <1>5 DEF ++
<1> QED BY <1>2, <1>3, <1>4, <1>6 DEF PresetSaysTheConfig, c, p, d, asked, body

(* What the estimate charges: the cards of a choice for two GPUs, and the  *)
(* files and the context of the section.                                   *)
LEMMA CardsAre ==
    ASSUME NEW c, NEW o \in GPUAssignOptions(2, {}) \ {CustomOption}, c.place = ResolveGPUAssign(o.assign, 2)
    PROVE  Max({1, DeviceCountForConfig(c.place, 2)}) = Cardinality(Holding(GPUPlacementParams(c.place, c.backend), 2))
<1> DEFINE S == Chosen(o.assign, 2)
<1>1. Choice(o.assign, 2)
  BY OptionsAreFine DEF OptionFine
<1>2. c.place.assign = o.assign /\ Spread(c.place, S, 2)
  BY <1>1, ResolvedIsSpread
<1>3. Holding(GPUPlacementParams(c.place, c.backend), 2) = S /\ DeviceCountForConfig(c.place, 2) = Cardinality(S)
  BY <1>1, <1>2, SpreadRuns
<1>4. S # {} /\ S \subseteq GPUs(2)
  BY <1>1, ChosenIs
<1> HIDE DEF S
<1>5. Cardinality(S) \in Nat /\ Cardinality(S) > 0
  BY <1>4, GPUsAre
<1>6. Max({1, Cardinality(S)}) = Cardinality(S)
  BY <1>5, Largest
<1> QED BY <1>3, <1>6

LEMMA LoadsAre ==
    ASSUME NEW c, DOMAIN c.sampling \subseteq Sampled, DOMAIN c.resources \subseteq Resources, c.ctx \in Nat,
           c.embedding = FALSE
    PROVE  LET p == Section(c)
           IN  /\ {p[x] : x \in DOMAIN p \cap {"mmproj", "model-draft"}} \subseteq AuxFiles(c)
               /\ \A default : Heard(p, "ctx-size", default) = IF c.ctx = 0 THEN default ELSE c.ctx
<1> DEFINE p == Section(c)
           z == Sizes(c)
           h == Chat(c)
<1>1. SectionSays(c, p) /\ DOMAIN h \subseteq ChatNames /\ DOMAIN z \subseteq SizeNames
  BY SectionIs, ChatDomain, SizesAre
<1>2. ("ctx-size" \in DOMAIN z <=> c.ctx > 0) /\ ("ctx-size" \in DOMAIN z => z["ctx-size"] = c.ctx)
  BY SizesAre
<1>3. /\ "mmproj" \in DOMAIN h => h["mmproj"] = c.mmproj /\ Filled(c.mmproj) /\ ~c.mmprojOff
      /\ "model-draft" \in DOMAIN h => h["model-draft"] \in Drafts(c)
  BY ChatIs
<1> HIDE DEF p, z, h
<1>4. /\ DOMAIN p = DOMAIN c.sampling \union {"flash-attn"} \union DOMAIN h
            \union (IF c.layers >= 0 THEN {"gpu-layers"} ELSE {})
            \union (IF c.threads >= 0 THEN {"threads"} ELSE {}) \union DOMAIN z
      /\ \A x \in DOMAIN h : p[x] = h[x]
      /\ \A x \in DOMAIN z : p[x] = z[x]
  BY <1>1 DEF SectionSays, z, h
<1>5. /\ {"mmproj", "model-draft", "ctx-size"} \intersect (DOMAIN c.sampling \union {"flash-attn", "gpu-layers", "threads"}) = {}
      /\ {"mmproj", "model-draft"} \intersect SizeNames = {} /\ "ctx-size" \notin ChatNames
  BY DEF Sampled, SizeNames, ChatNames, SpecNames, Resources
<1>6. \A x \in DOMAIN p \intersect {"mmproj", "model-draft"} : x \in DOMAIN h /\ p[x] = h[x]
  BY <1>1, <1>4, <1>5
<1>7. ASSUME NEW x \in DOMAIN p \intersect {"mmproj", "model-draft"} PROVE p[x] \in AuxFiles(c)
  <2>1. CASE x = "mmproj"
    <3>1. p[x] = c.mmproj /\ Filled(c.mmproj) /\ ~c.mmprojOff
      BY <1>3, <1>6, <2>1
    <3> QED BY <3>1 DEF AuxFiles
  <2>2. CASE x = "model-draft"
    <3>1. p[x] \in Drafts(c)
      BY <1>3, <1>6, <2>2
    <3> QED BY <3>1 DEF AuxFiles, Drafts
  <2> QED BY <2>1, <2>2
<1>8. ("ctx-size" \in DOMAIN p <=> c.ctx > 0) /\ (c.ctx > 0 => p["ctx-size"] = c.ctx)
  BY <1>1, <1>2, <1>4, <1>5
<1>9. \A default : Heard(p, "ctx-size", default) = IF c.ctx = 0 THEN default ELSE c.ctx
  BY <1>8 DEF Heard
<1> QED BY <1>7, <1>9 DEF p

LEMMA EstimateCharges ==
    (input # None /\ input.kind = "config" => ConfigInput(input)) => ChargesWhatItLoads
<1> SUFFICES ASSUME ConfigInput(input), Accepted(input.c), ~input.c.embedding,
                    input # None, input.kind = "config"
             PROVE  ChargesWhatItLoads
  BY DEF ChargesWhatItLoads
<1> DEFINE c == input.c
           m == input.model
           p == Section(c)
           n == DeviceCountForConfig(c.place, 2)
           ub == EffectiveUBatchSize(c)
           b == Breakdown(m, c, ub, n)
           ctx == Heard(p, "ctx-size", m.ctx)
<1>1. /\ DOMAIN c.sampling \subseteq Sampled /\ DOMAIN c.resources \subseteq Resources
      /\ {c.layers, c.batch, c.ubatch, c.threads, c.parallel} \subseteq Int /\ c.ctx \in Nat
      /\ c.embedding = FALSE
      /\ {m.size, m.ple, m.embd} \subseteq Nat
      /\ \E o \in GPUAssignOptions(2, {}) \ {CustomOption} : c.place = ResolveGPUAssign(o.assign, 2)
  BY DEF ConfigInput
<1>2. p["placement"] = GPUPlacementParams(c.place, c.backend) /\ Heard(p, "ubatch-size", 512) = ub
  BY <1>1, SectionRuns DEF Running
<1>3. Max({1, n}) = Cardinality(Holding(p["placement"], 2))
  BY <1>1, <1>2, CardsAre
<1>4. /\ {p[x] : x \in DOMAIN p \cap {"mmproj", "model-draft"}} \subseteq AuxFiles(c)
      /\ ctx = IF c.ctx = 0 THEN m.ctx ELSE c.ctx
  BY <1>1, LoadsAre
<1>5. Resident(m) \in 0 .. m.size
  BY <1>1 DEF Resident
<1> HIDE DEF c, m, p, n, ub, ctx
<1>6. /\ b.weights = Resident(m) /\ b.aux = AuxFiles(c) /\ b.kv = KVCache(m.p, ctx)
      /\ b.compute = Max({1, n}) * (Scratch(ub, ctx) + IndexerScratch(m, ub, ctx))
  BY <1>4 DEF Breakdown
<1> HIDE DEF b
<1> QED BY <1>2, <1>3, <1>4, <1>5, <1>6 DEF ChargesWhatItLoads, c, m, p, n, ub, ctx, b

LEMMA PageShowsLaunch ==
    (input # None /\ input.kind = "config" => ConfigInput(input)) => ShownIsLaunched
<1> SUFFICES ASSUME ConfigInput(input), input # None, input.kind = "config" PROVE ShownIsLaunched
  BY DEF ShownIsLaunched
<1> DEFINE c == input.c
<1>1. /\ DOMAIN c.sampling \subseteq Sampled /\ DOMAIN c.resources \subseteq Resources
      /\ c.layers \in Int /\ c.threads \in Int
  BY DEF ConfigInput
<1> DEFINE p == WriteConfigParams(c)
           listed == EffectiveFlagsFor(c)
<1>2. /\ \A x \in DOMAIN listed :
            IF x \in DOMAIN p THEN listed[x] = p[x]
            ELSE x = "fit" \/ (x \in {"gpu-layers", "threads"} /\ listed[x] < 0)
      /\ \A x \in DOMAIN p \ (DOMAIN listed \union DOMAIN c.sampling) :
            x = "flash-attn" /\ p[x] = "off"
  BY <1>1, PageShows
<1> HIDE DEF c, p, listed
<1> QED BY <1>2 DEF ShownIsLaunched, c, p, listed

(* LaunchIsTheConfig: for any config that a page saves and any free text,  *)
(* the section says the config, the page shows what is launched, the       *)
(* estimate charges what is loaded, and names lead to their model.         *)
THEOREM LaunchesTheConfig == SetupSpec => []LaunchIsTheConfig
<1>1. SetupInit => InputKnown
  BY DEF SetupInit, InputKnown
<1>2. InputKnown /\ [SetupNext]_setupVars => InputKnown'
  BY InputsStayKnown
<1>3. InputKnown => LaunchIsTheConfig
  <2>1. InputKnown => (input # None /\ input.kind = "config" => ConfigInput(input))
    BY InputsAssumption DEF InputKnown
  <2> QED BY <2>1, PresetSays, PageShowsLaunch, EstimateCharges, NamesLead DEF LaunchIsTheConfig
<1> QED BY <1>1, <1>2, <1>3, PTL DEF SetupSpec

-----------------------------------------------------------------------------
(* The free text.  Where each of its flags begins.                         *)
Begun(tokens, pairs, at) ==
    /\ Len(tokens) \in Nat /\ DOMAIN tokens = 1 .. Len(tokens)
    /\ Len(pairs) \in Nat /\ DOMAIN pairs = 1 .. Len(pairs)
    /\ \A i \in 1 .. Len(pairs) + 1 : at[i] \in Nat
    /\ at[1] = 1 /\ at[Len(pairs) + 1] = Len(tokens) + 1

OneToken(tokens, pair, k) ==
    /\ LooksLikeFlag(tokens[k]) /\ tokens[k].name = pair.flag
    /\ pair.value = IF tokens[k].eq THEN tokens[k].value ELSE "true"

TwoTokens(tokens, pair, k) ==
    /\ LooksLikeFlag(tokens[k]) /\ tokens[k].name = pair.flag /\ ~tokens[k].eq
    /\ ~LooksLikeFlag(tokens[k + 1]) /\ pair.value = tokens[k + 1].name

TextAt(tokens, pairs, at) ==
    /\ Begun(tokens, pairs, at)
    /\ \A i \in 1 .. Len(pairs) :
        \/ at[i + 1] = at[i] + 1 /\ OneToken(tokens, pairs[i], at[i])
        \/ at[i + 1] = at[i] + 2 /\ TwoTokens(tokens, pairs[i], at[i])

LEMMA TextIsAt ==
    ASSUME NEW tokens, NEW pairs, TextInput(tokens, pairs)
    PROVE  \E at : TextAt(tokens, pairs, at)
<1> DEFINE n == Len(tokens)
           m == Len(pairs)
<1>1. /\ n \in Nat /\ DOMAIN tokens = 1 .. n
      /\ m \in Nat /\ DOMAIN pairs = 1 .. m
  BY DEF TextInput
<1>2. PICK at \in [1 .. m + 1 -> 1 .. n + 1] :
        /\ at[1] = 1 /\ at[m + 1] = n + 1
        /\ \A i \in DOMAIN pairs :
            /\ at[i + 1] = at[i] + Len(pairs[i].tokens)
            /\ \A k \in DOMAIN pairs[i].tokens : tokens[at[i] + k - 1] = pairs[i].tokens[k]
  BY DEF TextInput
<1>3. \A i \in 1 .. m + 1 : at[i] \in Nat
  BY <1>1
<1>4. ASSUME NEW i \in 1 .. m
      PROVE  \/ at[i + 1] = at[i] + 1 /\ OneToken(tokens, pairs[i], at[i])
             \/ at[i + 1] = at[i] + 2 /\ TwoTokens(tokens, pairs[i], at[i])
  <2> DEFINE t == pairs[i].tokens
             w == Len(t)
             a == at[i]
  <2>1. FlagInput(pairs[i])
    BY <1>1 DEF TextInput
  <2>2. w \in 1 .. 2 /\ DOMAIN t = 1 .. w
    BY <2>1 DEF FlagInput
  <2>3. at[i + 1] = a + w /\ \A k \in 1 .. w : tokens[a + k - 1] = t[k]
    BY <1>1, <1>2, <2>2
  <2>4. a \in Nat /\ a + 1 - 1 = a /\ a + 2 - 1 = a + 1
    BY <1>1, <1>3
  <2>5. tokens[a] = t[1]
    BY <2>2, <2>3, <2>4
  <2>6. w = 2 => tokens[a + 1] = t[2]
    BY <2>3, <2>4
  <2>7. /\ LooksLikeFlag(t[1]) /\ t[1].name = pairs[i].flag
        /\ w = 1 => pairs[i].value = IF t[1].eq THEN t[1].value ELSE "true"
        /\ w # 1 => ~t[1].eq /\ ~LooksLikeFlag(t[2]) /\ pairs[i].value = t[2].name
    BY <2>1 DEF FlagInput, LooksLikeFlag
  <2>8. w = 1 \/ w = 2
    BY <2>2
  <2> HIDE DEF t, w, a
  <2> QED BY <2>3, <2>5, <2>6, <2>7, <2>8 DEF OneToken, TwoTokens, a
<1>5. TextAt(tokens, pairs, at)
  BY <1>1, <1>2, <1>3, <1>4 DEF TextAt, Begun
<1> QED BY <1>5

(* The flags are one after the other, and every token is in one of them.   *)
LEMMA OneAfterTheOther ==
    ASSUME NEW tokens, NEW pairs, NEW at, TextAt(tokens, pairs, at)
    PROVE  /\ \A i \in 1 .. Len(pairs) : at[i + 1] \in {at[i] + 1, at[i] + 2}
           /\ \A i, j \in 1 .. Len(pairs) + 1 : i < j => at[i + 1] <= at[j]
           /\ \A k \in DOMAIN tokens : \E i \in 1 .. Len(pairs) : at[i] <= k /\ k < at[i + 1]
<1> DEFINE m == Len(pairs)
<1>1. /\ m \in Nat /\ \A i \in 1 .. m + 1 : at[i] \in Nat
      /\ \A i \in 1 .. m : at[i + 1] \in {at[i] + 1, at[i] + 2}
      /\ at[1] = 1 /\ at[m + 1] = Len(tokens) + 1
      /\ Len(tokens) \in Nat /\ DOMAIN tokens = 1 .. Len(tokens)
  BY DEF TextAt, Begun
<1> HIDE DEF m
<1>2. ASSUME NEW i \in 1 .. m + 1, NEW j \in 1 .. m + 1, i < j PROVE at[i + 1] <= at[j]
  <2> DEFINE late == {h \in 1 .. m + 1 : i < h /\ ~(at[i + 1] <= at[h])}
  <2> SUFFICES ASSUME late # {} PROVE FALSE
    BY <1>2
  <2>1. late \in SUBSET Nat
    BY <1>1
  <2>2. PICK h \in late : \A g \in late : h <= g
    BY <2>1, Smallest
  <2>3. i + 1 \in 1 .. m + 1 /\ h \in 1 .. m + 1 /\ i < h /\ ~(at[i + 1] <= at[h])
    BY <1>1, <1>2
  <2>4. h # i + 1
    BY <1>1, <2>3
  <2>5. h - 1 \in 1 .. m /\ i < h - 1 /\ (h - 1) + 1 = h
    BY <1>1, <2>3, <2>4
  <2>6. h - 1 \notin late
    BY <2>2, <2>5
  <2>7. at[i + 1] <= at[h - 1]
    BY <2>5, <2>6, <1>1
  <2>8. at[(h - 1) + 1] \in {at[h - 1] + 1, at[h - 1] + 2}
    BY <1>1, <2>5
  <2>9. at[h] = at[h - 1] + 1 \/ at[h] = at[h - 1] + 2
    BY <2>5, <2>8
  <2> HIDE DEF late
  <2>10. at[h - 1] \in Nat /\ at[i + 1] \in Nat
    BY <1>1, <2>3, <2>5
  <2> QED BY <2>3, <2>7, <2>9, <2>10
<1>3. ASSUME NEW k \in DOMAIN tokens PROVE \E i \in 1 .. m : at[i] <= k /\ k < at[i + 1]
  <2> DEFINE later == {h \in 1 .. m + 1 : k < at[h]}
  <2>1. later \in SUBSET Nat /\ m + 1 \in later
    BY <1>1
  <2>2. PICK h \in later : \A g \in later : h <= g
    BY <2>1, Smallest
  <2>3. h - 1 \in 1 .. m /\ (h - 1) + 1 = h
    BY <1>1
  <2>4. h - 1 \notin later
    BY <2>2, <2>3
  <2> QED BY <1>1, <2>3, <2>4
<1> QED BY <1>1, <1>2, <1>3 DEF m

(* Which tokens are taken for the value of the flag before them: the      *)
(* second ones of the flags.                                               *)
TakenIs(tokens, taken) ==
    taken = [i \in DOMAIN tokens |->
                /\ i > 1
                /\ ~LooksLikeFlag(tokens[i])
                /\ tokens[i - 1].dash /\ ~tokens[i - 1].eq
                /\ ~taken[i - 1]]

Seconds(pairs, at) == {at[i] + 1 : i \in {j \in 1 .. Len(pairs) : at[j + 1] = at[j] + 2}}

LEMMA FirstsAreNotSeconds ==
    ASSUME NEW tokens, NEW pairs, NEW at, TextAt(tokens, pairs, at), NEW i \in 1 .. Len(pairs)
    PROVE  at[i] \notin Seconds(pairs, at)
<1> SUFFICES ASSUME NEW j \in 1 .. Len(pairs), at[j + 1] = at[j] + 2, at[i] = at[j] + 1 PROVE FALSE
  BY DEF Seconds
<1>1. Len(pairs) \in Nat /\ \A k \in 1 .. Len(pairs) + 1 : at[k] \in Nat
  BY DEF TextAt, Begun
<1>2. i \in 1 .. Len(pairs) + 1 /\ j \in 1 .. Len(pairs) + 1
  BY <1>1
<1>3. i < j => at[i + 1] <= at[j]
  BY <1>2, OneAfterTheOther
<1>4. j < i => at[j + 1] <= at[i]
  BY <1>2, OneAfterTheOther
<1>5. at[i + 1] \in {at[i] + 1, at[i] + 2}
  BY OneAfterTheOther
<1>6. at[i] \in Nat /\ at[j] \in Nat
  BY <1>1, <1>2
<1> QED BY <1>2, <1>3, <1>4, <1>5, <1>6

LEMMA SecondsOrFirsts ==
    ASSUME NEW tokens, NEW pairs, NEW at, TextAt(tokens, pairs, at), NEW k \in DOMAIN tokens
    PROVE  \E i \in 1 .. Len(pairs) :
              \/ k = at[i]
              \/ k = at[i] + 1 /\ at[i + 1] = at[i] + 2 /\ TwoTokens(tokens, pairs[i], at[i])
<1>1. PICK i \in 1 .. Len(pairs) : at[i] <= k /\ k < at[i + 1]
  BY OneAfterTheOther
<1>2. /\ Len(pairs) \in Nat /\ (\A j \in 1 .. Len(pairs) + 1 : at[j] \in Nat)
      /\ Len(tokens) \in Nat /\ DOMAIN tokens = 1 .. Len(tokens)
  BY DEF TextAt, Begun
<1>3. \/ at[i + 1] = at[i] + 1
      \/ at[i + 1] = at[i] + 2 /\ TwoTokens(tokens, pairs[i], at[i])
  BY DEF TextAt
<1>4. at[i] \in Nat /\ k \in Nat
  BY <1>2
<1> QED BY <1>1, <1>3, <1>4

LEMMA SecondsAreTaken ==
    ASSUME NEW tokens, NEW pairs, NEW at, TextAt(tokens, pairs, at)
    PROVE  TakenIs(tokens, [i \in DOMAIN tokens |-> i \in Seconds(pairs, at)])
<1> DEFINE S == Seconds(pairs, at)
<1>1. /\ Len(pairs) \in Nat /\ \A j \in 1 .. Len(pairs) + 1 : at[j] \in Nat
      /\ Len(tokens) \in Nat /\ DOMAIN tokens = 1 .. Len(tokens)
      /\ at[1] = 1
  BY DEF TextAt, Begun
<1>2. ASSUME NEW k \in DOMAIN tokens
      PROVE  k \in S <=> (/\ k > 1
                         /\ ~LooksLikeFlag(tokens[k])
                         /\ tokens[k - 1].dash /\ ~tokens[k - 1].eq
                         /\ k - 1 \notin S)
  <2>1. PICK i \in 1 .. Len(pairs) :
              \/ k = at[i]
              \/ k = at[i] + 1 /\ at[i + 1] = at[i] + 2 /\ TwoTokens(tokens, pairs[i], at[i])
    BY SecondsOrFirsts
  <2>2. CASE k = at[i]
    <3>1. k \notin S
      BY <2>2, FirstsAreNotSeconds
    <3>2. LooksLikeFlag(tokens[k])
      BY <2>2 DEF TextAt, OneToken, TwoTokens
    <3> QED BY <3>1, <3>2, Zenon
  <2>3. CASE k = at[i] + 1 /\ at[i + 1] = at[i] + 2 /\ TwoTokens(tokens, pairs[i], at[i])
    <3>1. at[i] \in Nat /\ k \in Nat /\ k > 1 /\ k - 1 = at[i]
      <4>1. i \in 1 .. Len(pairs) + 1 /\ k >= 1 /\ k \in Nat
        BY <1>1
      <4>2. at[i] \in Nat /\ at[i] # 0
        <5>1. i = 1 => at[i] = 1
          BY <1>1
        <5>2. 1 < i => at[1 + 1] <= at[i]
          BY <1>1, <4>1, OneAfterTheOther, 1 \in 1 .. Len(pairs) + 1
        <5>3. 1 < i => at[1 + 1] \in {at[1] + 1, at[1] + 2}
          BY <1>1, <4>1, OneAfterTheOther, 1 \in 1 .. Len(pairs)
        <5> QED BY <1>1, <4>1, <5>1, <5>2, <5>3
      <4> QED BY <2>3, <4>1, <4>2
    <3>2. k \in S
      BY <2>3 DEF Seconds
    <3>3. k - 1 \notin S
      BY <3>1, FirstsAreNotSeconds
    <3>4. ~LooksLikeFlag(tokens[k]) /\ tokens[k - 1].dash /\ ~tokens[k - 1].eq
      BY <2>3, <3>1 DEF TwoTokens, LooksLikeFlag
    <3> QED BY <3>1, <3>2, <3>3, <3>4
  <2> QED BY <2>1, <2>2, <2>3
<1> DEFINE T == [k \in DOMAIN tokens |-> k \in S]
           U == [k \in DOMAIN tokens |->
                  /\ k > 1
                  /\ ~LooksLikeFlag(tokens[k])
                  /\ tokens[k - 1].dash /\ ~tokens[k - 1].eq
                  /\ ~T[k - 1]]
<1>3. ASSUME NEW k \in DOMAIN tokens, k > 1 PROVE T[k - 1] = (k - 1 \in S)
  <2>1. k - 1 \in DOMAIN tokens
    BY <1>1, <1>3
  <2> QED BY <2>1
<1>4. ASSUME NEW k \in DOMAIN tokens PROVE T[k] = U[k]
  <2>1. T[k] = (k \in S)
    OBVIOUS
  <2>2. U[k] = (/\ k > 1
                /\ ~LooksLikeFlag(tokens[k])
                /\ tokens[k - 1].dash /\ ~tokens[k - 1].eq
                /\ ~T[k - 1])
    OBVIOUS
  <2>3. T[k] \in BOOLEAN /\ U[k] \in BOOLEAN
    BY <2>1, <2>2
  <2> HIDE DEF T, U, S
  <2>4. T[k] <=> k \in S
    BY <2>1
  <2>5. U[k] <=> (/\ k > 1
                  /\ ~LooksLikeFlag(tokens[k])
                  /\ tokens[k - 1].dash /\ ~tokens[k - 1].eq
                  /\ ~T[k - 1])
    BY <2>2
  <2>6. CASE k > 1
    BY <1>2, <1>3, <2>3, <2>4, <2>5, <2>6
  <2>7. CASE ~(k > 1)
    BY <1>2, <2>3, <2>4, <2>5, <2>7
  <2> QED BY <2>6, <2>7
<1>5. T = U
  <2>1. T = [k \in DOMAIN tokens |-> T[k]] /\ U = [k \in DOMAIN tokens |-> U[k]]
    BY Zenon
  <2> HIDE DEF T, U
  <2> QED BY <1>4, <2>1, Zenon
<1> QED BY <1>5 DEF TakenIs

LEMMA OneTaken ==
    ASSUME NEW tokens, Len(tokens) \in Nat, DOMAIN tokens = 1 .. Len(tokens),
           NEW f, TakenIs(tokens, f), NEW g, TakenIs(tokens, g)
    PROVE  f = g
<1> DEFINE Next1(t, i) ==
              /\ i > 1
              /\ ~LooksLikeFlag(tokens[i])
              /\ tokens[i - 1].dash /\ ~tokens[i - 1].eq
              /\ ~t[i - 1]
           differ == {i \in DOMAIN tokens : f[i] # g[i]}
<1>1. f = [i \in DOMAIN tokens |-> Next1(f, i)] /\ g = [i \in DOMAIN tokens |-> Next1(g, i)]
  BY DEF TakenIs
<1>2. \A i \in DOMAIN tokens : f[i] = Next1(f, i) /\ g[i] = Next1(g, i)
  <2> HIDE DEF Next1
  <2> QED BY <1>1
<1>3. differ = {}
  <2> SUFFICES ASSUME differ # {} PROVE FALSE
    OBVIOUS
  <2>1. PICK i \in differ : \A j \in differ : i <= j
    <3>1. differ \in SUBSET Nat
      OBVIOUS
    <3> QED BY <3>1, Smallest
  <2>2. i > 1
    BY <1>2
  <2>3. i - 1 \in DOMAIN tokens /\ i - 1 \notin differ
    BY <2>1, <2>2
  <2>4. f[i - 1] = g[i - 1]
    BY <2>3
  <2>5. Next1(f, i) = Next1(g, i)
    BY <2>4
  <2> HIDE DEF Next1
  <2> QED BY <1>2, <2>5
<1>4. DOMAIN f = DOMAIN tokens /\ DOMAIN g = DOMAIN tokens
  <2> HIDE DEF Next1
  <2> QED BY <1>1
<1>5. f = [i \in DOMAIN tokens |-> f[i]] /\ g = [i \in DOMAIN tokens |-> g[i]]
  <2> HIDE DEF Next1
  <2>1. ASSUME NEW h, h = [i \in DOMAIN tokens |-> Next1(h, i)]
        PROVE  h = [i \in DOMAIN tokens |-> h[i]]
    BY <2>1
  <2> QED BY <1>1, <2>1
<1> QED BY <1>3, <1>5

(* What a text is parsed to: each flag's last value.                       *)
Taken(tokens) == CHOOSE taken : TakenIs(tokens, taken)
FlagsIn(tokens) == {i \in DOMAIN tokens : tokens[i].dash /\ ~Taken(tokens)[i]}
LastOf(tokens, x) == Max({i \in FlagsIn(tokens) : tokens[i].name = x})
ValueAt(tokens, i) ==
    IF tokens[i].eq THEN tokens[i].value
    ELSE IF i < Len(tokens) /\ Taken(tokens)[i + 1] THEN tokens[i + 1].name ELSE "true"

LEMMA ParsedIs ==
    ASSUME NEW tokens
    PROVE  ParseExtraFlags(tokens) =
              [x \in {tokens[i].name : i \in FlagsIn(tokens)} |-> ValueAt(tokens, LastOf(tokens, x))]
BY Zenon DEF ParseExtraFlags, FlagsIn, LastOf, ValueAt, Taken, TakenIs

LEMMA TakenAre ==
    ASSUME NEW tokens, NEW pairs, NEW at, TextAt(tokens, pairs, at)
    PROVE  Taken(tokens) = [i \in DOMAIN tokens |-> i \in Seconds(pairs, at)]
<1>1. TakenIs(tokens, [i \in DOMAIN tokens |-> i \in Seconds(pairs, at)])
  BY SecondsAreTaken
<1>2. TakenIs(tokens, Taken(tokens))
  BY <1>1, Zenon DEF Taken
<1>3. Len(tokens) \in Nat /\ DOMAIN tokens = 1 .. Len(tokens)
  BY DEF TextAt, Begun
<1> QED BY <1>1, <1>2, <1>3, OneTaken

LEMMA FlagsAre ==
    ASSUME NEW tokens, NEW pairs, NEW at, TextAt(tokens, pairs, at)
    PROVE  /\ FlagsIn(tokens) = {at[i] : i \in 1 .. Len(pairs)}
           /\ \A i \in 1 .. Len(pairs) :
                tokens[at[i]].name = pairs[i].flag /\ ValueAt(tokens, at[i]) = pairs[i].value
<1> DEFINE S == Seconds(pairs, at)
           n == Len(tokens)
           m == Len(pairs)
<1>1. /\ n \in Nat /\ DOMAIN tokens = 1 .. n /\ at[1] = 1 /\ at[m + 1] = n + 1
      /\ m \in Nat /\ \A j \in 1 .. m + 1 : at[j] \in Nat
  BY DEF TextAt, Begun
<1>2. \A k \in 1 .. n : Taken(tokens)[k] <=> k \in S
  <2>1. Taken(tokens) = [k \in DOMAIN tokens |-> k \in S]
    BY TakenAre
  <2> HIDE DEF S
  <2> QED BY <1>1, <2>1
<1>3. ASSUME NEW i \in 1 .. m
      PROVE  at[i] \in 1 .. n /\ at[i] \notin S /\ at[i + 1] <= n + 1
  <2>1. i \in 1 .. m + 1 /\ i + 1 \in 1 .. m + 1 /\ 1 \in 1 .. m + 1 /\ m + 1 \in 1 .. m + 1
    BY <1>1
  <2>2. at[i] \notin S
    BY FirstsAreNotSeconds
  <2>3. at[i + 1] <= n + 1
    <3>1. i < m + 1
      BY <1>1
    <3> QED BY <1>1, <2>1, <3>1, OneAfterTheOther
  <2>4. at[i + 1] = at[i] + 1 \/ at[i + 1] = at[i] + 2
    BY OneAfterTheOther
  <2>5. at[i] >= 1
    <3>1. CASE i = 1
      BY <1>1, <3>1
    <3>2. CASE i # 1
      <4>1. 1 < i /\ 1 \in 1 .. m
        BY <1>1, <3>2
      <4>2. at[1 + 1] <= at[i]
        BY <2>1, <4>1, OneAfterTheOther
      <4>3. at[1 + 1] = at[1] + 1 \/ at[1 + 1] = at[1] + 2
        BY <4>1, OneAfterTheOther
      <4> QED BY <1>1, <2>1, <4>2, <4>3
    <3> QED BY <3>1, <3>2
  <2>6. at[i] \in Nat /\ at[i + 1] \in Nat
    BY <1>1, <2>1
  <2> QED BY <1>1, <2>2, <2>3, <2>4, <2>5, <2>6
<1>4. ASSUME NEW i \in 1 .. m
      PROVE  /\ tokens[at[i]].dash /\ tokens[at[i]].name = pairs[i].flag
             /\ ValueAt(tokens, at[i]) = pairs[i].value
  <2> DEFINE a == at[i]
  <2>1. a \in 1 .. n /\ at[i + 1] <= n + 1
    BY <1>3
  <2>2. CASE at[i + 1] = a + 1 /\ OneToken(tokens, pairs[i], a)
    <3>1. CASE tokens[a].eq
      BY <2>2, <3>1 DEF OneToken, ValueAt, LooksLikeFlag
    <3>2. CASE ~tokens[a].eq
      <4>1. ASSUME a < n PROVE ~Taken(tokens)[a + 1]
        <5>1. a + 1 \in 1 .. n
          BY <1>1, <2>1, <4>1
        <5>2. i + 1 \in 1 .. m
          BY <1>1, <2>2, <4>1
        <5>3. a + 1 \notin S
          BY <2>2, <5>2, FirstsAreNotSeconds
        <5> QED BY <1>2, <5>1, <5>3
      <4> QED BY <2>2, <3>2, <4>1 DEF OneToken, ValueAt, LooksLikeFlag
    <3> QED BY <3>1, <3>2
  <2>3. CASE at[i + 1] = a + 2 /\ TwoTokens(tokens, pairs[i], a)
    <3>1. a < n /\ a + 1 \in 1 .. n
      BY <1>1, <2>1, <2>3
    <3>2. a + 1 \in S
      BY <2>3 DEF Seconds
    <3>3. Taken(tokens)[a + 1]
      BY <1>2, <3>1, <3>2
    <3> QED BY <2>3, <3>1, <3>3 DEF TwoTokens, ValueAt, LooksLikeFlag
  <2> QED BY <2>2, <2>3 DEF TextAt
<1>5. ASSUME NEW k \in FlagsIn(tokens) PROVE \E i \in 1 .. m : k = at[i]
  <2>1. k \in 1 .. n /\ k \notin S
    BY <1>1, <1>2 DEF FlagsIn
  <2>2. PICK i \in 1 .. m :
              \/ k = at[i]
              \/ k = at[i] + 1 /\ at[i + 1] = at[i] + 2 /\ TwoTokens(tokens, pairs[i], at[i])
    <3>1. k \in DOMAIN tokens
      BY <1>1, <2>1
    <3> QED BY <3>1, SecondsOrFirsts, Zenon
  <2> QED BY <2>1, <2>2 DEF Seconds
<1>6. ASSUME NEW i \in 1 .. m PROVE at[i] \in FlagsIn(tokens)
  BY <1>1, <1>2, <1>3, <1>4 DEF FlagsIn
<1> QED BY <1>4, <1>5, <1>6

(* The last flag of a name is the one that is parsed.                      *)
LEMMA LastIs ==
    ASSUME NEW tokens, NEW pairs, NEW at, TextAt(tokens, pairs, at), NEW i \in 1 .. Len(pairs),
           \A j \in 1 .. Len(pairs) : j > i => pairs[j].flag # pairs[i].flag
    PROVE  LastOf(tokens, pairs[i].flag) = at[i]
<1> DEFINE m == Len(pairs)
           T == {k \in FlagsIn(tokens) : tokens[k].name = pairs[i].flag}
<1>1. m \in Nat /\ \A j \in 1 .. m + 1 : at[j] \in Nat
  BY DEF TextAt, Begun
<1>2. at[i] \in T
  BY FlagsAre
<1>3. ASSUME NEW k \in T PROVE k <= at[i] /\ k \in Nat
  <2>1. PICK j \in 1 .. m : k = at[j]
    BY FlagsAre
  <2>2. pairs[j].flag = pairs[i].flag
    BY <2>1, FlagsAre
  <2>3. j = i \/ j < i
    BY <1>1, <2>2
  <2>4. j \in 1 .. m + 1 /\ i \in 1 .. m + 1
    BY <1>1
  <2>5. ASSUME j < i PROVE at[j] <= at[i]
    <3>1. at[j + 1] <= at[i]
      BY <2>4, <2>5, OneAfterTheOther
    <3>2. at[j + 1] = at[j] + 1 \/ at[j + 1] = at[j] + 2
      BY OneAfterTheOther
    <3> QED BY <1>1, <2>4, <3>1, <3>2
  <2> QED BY <1>1, <2>1, <2>3, <2>4, <2>5
<1>4. at[i] \in Nat
  BY <1>2, <1>3
<1> HIDE DEF T
<1>5. Max(T) \in T /\ \A y \in T : Max(T) >= y
  <2>1. \A y \in T : at[i] >= y
    BY <1>3, <1>4
  <2> QED BY <1>2, <2>1, Zenon DEF Max
<1>6. Max(T) = at[i]
  BY <1>2, <1>3, <1>4, <1>5
<1> QED BY <1>6 DEF LastOf, T

LEMMA TextHeard ==
    ASSUME NEW tokens, NEW pairs, TextInput(tokens, pairs), NEW said
    PROVE  LET p == ParseExtraFlags(tokens) ++ said
           IN  /\ \A i \in DOMAIN pairs :
                    (\A j \in DOMAIN pairs : j > i => pairs[j].flag # pairs[i].flag) =>
                        p[pairs[i].flag] = pairs[i].value
               /\ \A x \in DOMAIN p \ {pairs[i].flag : i \in DOMAIN pairs} : p[x] = said[x]
<1>1. PICK at : TextAt(tokens, pairs, at)
  BY TextIsAt
<1>2. Len(pairs) \in Nat /\ DOMAIN pairs = 1 .. Len(pairs)
  BY DEF TextInput
<1> DEFINE q == ParseExtraFlags(tokens)
<1>3. /\ DOMAIN q = {tokens[i].name : i \in FlagsIn(tokens)}
      /\ \A x \in DOMAIN q : q[x] = ValueAt(tokens, LastOf(tokens, x))
  BY ParsedIs
<1>4. DOMAIN q = {pairs[i].flag : i \in 1 .. Len(pairs)}
  BY <1>1, <1>3, FlagsAre
<1>5. ASSUME NEW i \in 1 .. Len(pairs),
             \A j \in 1 .. Len(pairs) : j > i => pairs[j].flag # pairs[i].flag
      PROVE  q[pairs[i].flag] = pairs[i].value
  <2>1. LastOf(tokens, pairs[i].flag) = at[i]
    BY <1>1, <1>5, LastIs
  <2>2. ValueAt(tokens, at[i]) = pairs[i].value
    BY <1>1, FlagsAre
  <2> QED BY <1>3, <1>4, <2>1, <2>2
<1> HIDE DEF q
<1> DEFINE p == q ++ said
<1>6. /\ DOMAIN p = DOMAIN q \union DOMAIN said
      /\ \A x \in DOMAIN q : p[x] = q[x]
      /\ \A x \in DOMAIN said \ DOMAIN q : p[x] = said[x]
  BY OverIs
<1> HIDE DEF p
<1>7. \A i \in DOMAIN pairs :
        (\A j \in DOMAIN pairs : j > i => pairs[j].flag # pairs[i].flag) =>
            p[pairs[i].flag] = pairs[i].value
  BY <1>2, <1>4, <1>5, <1>6
<1>8. \A x \in DOMAIN p \ {pairs[i].flag : i \in DOMAIN pairs} : p[x] = said[x]
  BY <1>2, <1>4, <1>6
<1> QED BY <1>7, <1>8 DEF p, q

LEMMA ConfigTextHeard ==
    (input # None /\ input.kind = "config" => ConfigInput(input)) => FreeTextIsHeard
<1> SUFFICES ASSUME ConfigInput(input), input # None, input.kind = "config" PROVE FreeTextIsHeard
  BY DEF FreeTextIsHeard
<1>1. TextInput(input.c.extra, input.pairs)
  BY DEF ConfigInput
<1> DEFINE said == Section(input.c)
<1>2. WriteConfigParams(input.c) = ParseExtraFlags(input.c.extra) ++ said
  BY DEF WriteConfigParams
<1> HIDE DEF said
<1>3. LET p == WriteConfigParams(input.c)
          pairs == input.pairs
      IN  /\ \A i \in DOMAIN pairs :
                (\A j \in DOMAIN pairs : j > i => pairs[j].flag # pairs[i].flag) =>
                    p[pairs[i].flag] = pairs[i].value
          /\ \A x \in DOMAIN p \ {pairs[i].flag : i \in DOMAIN pairs} : p[x] = said[x]
  BY <1>1, <1>2, TextHeard
<1> QED BY <1>3 DEF FreeTextIsHeard, said

(* FreeTextIsHeard: of any free text that is made of flags, however long,  *)
(* each flag's last value is the one that the start passes on, a negative  *)
(* number included, and what the text does not name stays the config's.    *)
(* The recursion of parseExtraFlags has one solution, which takes the      *)
(* second token of each flag that has two.                                 *)
THEOREM FreeTextHeard == SetupSpec => []FreeTextIsHeard
<1>1. SetupInit => InputKnown
  BY DEF SetupInit, InputKnown
<1>2. InputKnown /\ [SetupNext]_setupVars => InputKnown'
  BY InputsStayKnown
<1>3. InputKnown => FreeTextIsHeard
  <2>1. InputKnown => (input # None /\ input.kind = "config" => ConfigInput(input))
    BY InputsAssumption DEF InputKnown
  <2> QED BY <2>1, ConfigTextHeard
<1> QED BY <1>1, <1>2, <1>3, PTL DEF SetupSpec

-----------------------------------------------------------------------------
(* The sampling presets.  Three loops: over the tokens of a name, over the *)
(* presets of a source, and over the sources.                              *)
NoneHold(env, x) == FALSE
NoTerm(env, x) == 0

KeyStep(env, key, token) == AddToken(key, token)
KeyKeeps(env, i, key) == IsList(key)
KeyFold == INSTANCE Folding WITH
    Holds <- NoneHold, Step <- KeyStep, Keeps <- KeyKeeps, Term <- NoTerm

NamesIn(list) == {list[i].name : i \in DOMAIN list}
SaidBy(S, list, x, p) ==
    {list[i].fields[p] : i \in {j \in S : list[j].name = x /\ p \in DOMAIN list[j].fields}}
SaidIn(list, x, p) == SaidBy(DOMAIN list, list, x, p)
Or(A, B) == IF A = {} THEN B ELSE A

MergeStep(env, list, preset) == MergePreset(list, preset)
MergeKeeps(env, i, list) ==
    /\ PresetList(list)
    /\ NamesIn(list) = NamesIn(env.old) \union {env.new[j].name : j \in 1 .. i}
    /\ \A x, p : SaidIn(list, x, p) = Or(SaidIn(env.old, x, p), SaidBy(1 .. i, env.new, x, p))
MergeFold == INSTANCE Folding WITH
    Holds <- NoneHold, Step <- MergeStep, Keeps <- MergeKeeps, Term <- NoTerm

SourceStep(env, list, source) == MergePresets(list, source)
SourceKeeps(env, i, list) == TRUE
SourceFold == INSTANCE Folding WITH
    Holds <- NoneHold, Step <- SourceStep, Keeps <- SourceKeeps, Term <- NoTerm

LEMMA MergeIsFold ==
    ASSUME NEW old, NEW new, NEW env
    PROVE  MergePresets(old, new) = MergeFold!Folded(env, old, new)
BY DEF MergePresets, MergeStep, FoldLeft, MapThenFoldSet, Max,
       MergeFold!Folded, MergeFold!FoldLeft, MergeFold!MapThenFoldSet, MergeFold!Max

LEMMA KeyIsFold ==
    ASSUME NEW name, NEW env
    PROVE  FamilyKey(name) = KeyFold!Folded(env, <<>>, name)
BY DEF FamilyKey, KeyStep, FoldLeft, MapThenFoldSet, Max,
       KeyFold!Folded, KeyFold!FoldLeft, KeyFold!MapThenFoldSet, KeyFold!Max

LEMMA FetchIsFold ==
    ASSUME NEW m, NEW net, NEW env
    PROVE  Fetch(m, net) = SourceFold!Folded(env, m.presets, Sources(m, net))
BY DEF Fetch, SourceStep, FoldLeft, MapThenFoldSet, Max,
       SourceFold!Folded, SourceFold!FoldLeft, SourceFold!MapThenFoldSet, SourceFold!Max

LEMMA ListIs ==
    ASSUME NEW s, IsList(s)
    PROVE  /\ Len(s) \in Nat /\ DOMAIN s = 1 .. Len(s) /\ s = [i \in 1 .. Len(s) |-> s[i]]
           /\ s \in Seq({s[i] : i \in 1 .. Len(s)})
<1>1. Len(s) \in Nat /\ s = [i \in 1 .. Len(s) |-> s[i]]
  BY DEF IsList
<1>2. DOMAIN s = 1 .. Len(s)
  BY <1>1
<1>3. s \in [1 .. Len(s) -> {s[i] : i \in 1 .. Len(s)}]
  BY <1>1
<1> QED BY <1>1, <1>2, <1>3

LEMMA SeqIsList ==
    ASSUME NEW S, NEW s \in Seq(S) PROVE IsList(s)
BY DEF IsList

(* One preset is merged: what the list says stays, the rest is added.      *)
IsPreset(p) ==
    /\ p = Preset(p.name, p.source, p.fields)
    /\ \A q \in DOMAIN p.fields : InRange(q, p.fields[q])
SaidOf(p, x, q) == IF p.name = x /\ q \in DOMAIN p.fields THEN {p.fields[q]} ELSE {}

NowSays(list, p, new) ==
    /\ PresetList(new)
    /\ NamesIn(new) = NamesIn(list) \union {p.name}
    /\ \A x, q : SaidIn(new, x, q) = Or(SaidIn(list, x, q), SaidOf(p, x, q))

LEMMA PresetsAre ==
    ASSUME NEW list, PresetList(list)
    PROVE  /\ \A i \in DOMAIN list : IsPreset(list[i])
           /\ \A i, j \in DOMAIN list : list[j].name = list[i].name => j = i
BY DEF PresetList, IsPreset

Inserted(list, p, new, k, f) ==
    /\ IsList(new) /\ k \in DOMAIN new /\ new[k] = p
    /\ \A i \in DOMAIN new \ {k} : f[i] \in DOMAIN list /\ new[i] = list[f[i]]
    /\ \A i, j \in DOMAIN new \ {k} : f[i] = f[j] => i = j
    /\ \A j \in DOMAIN list : \E i \in DOMAIN new \ {k} : f[i] = j

LEMMA NewOne ==
    ASSUME NEW list, PresetList(list), NEW p, IsPreset(p), p.name \notin NamesIn(list),
           NEW new, NEW k, NEW f, Inserted(list, p, new, k, f)
    PROVE  NowSays(list, p, new)
<1>1. /\ IsList(new) /\ k \in DOMAIN new /\ new[k] = p
      /\ \A i \in DOMAIN new \ {k} : f[i] \in DOMAIN list /\ new[i] = list[f[i]]
      /\ \A i, j \in DOMAIN new \ {k} : f[i] = f[j] => i = j
      /\ \A j \in DOMAIN list : \E i \in DOMAIN new \ {k} : f[i] = j
  BY DEF Inserted
<1>2. /\ \A i \in DOMAIN list : IsPreset(list[i])
      /\ \A i, j \in DOMAIN list : list[j].name = list[i].name => j = i
  BY PresetsAre
<1>3. \A i \in DOMAIN list : list[i].name # p.name
  BY DEF NamesIn
<1>4. PresetList(new)
  <2>1. ASSUME NEW i \in DOMAIN new PROVE IsPreset(new[i])
    BY <1>1, <1>2
  <2>2. ASSUME NEW i \in DOMAIN new, NEW j \in DOMAIN new, new[j].name = new[i].name
        PROVE  j = i
    BY <1>1, <1>2, <1>3, <2>2
  <2> QED BY <1>1, <2>1, <2>2 DEF PresetList, IsPreset
<1>5. NamesIn(new) = NamesIn(list) \union {p.name}
  <2>1. ASSUME NEW x \in NamesIn(new) PROVE x \in NamesIn(list) \union {p.name}
    BY <1>1 DEF NamesIn
  <2>2. ASSUME NEW x \in NamesIn(list) PROVE x \in NamesIn(new)
    <3>1. PICK j \in DOMAIN list : x = list[j].name
      BY DEF NamesIn
    <3>2. PICK i \in DOMAIN new \ {k} : f[i] = j
      BY <1>1
    <3> QED BY <1>1, <3>1, <3>2 DEF NamesIn
  <2> QED BY <1>1, <2>1, <2>2 DEF NamesIn
<1>6. ASSUME NEW x, NEW q PROVE SaidIn(new, x, q) = Or(SaidIn(list, x, q), SaidOf(p, x, q))
  <2>1. CASE x = p.name
    <3>1. SaidIn(list, x, q) = {}
      BY <1>3, <2>1 DEF SaidIn, SaidBy
    <3>2. ASSUME NEW i \in DOMAIN new, new[i].name = x PROVE i = k
      BY <1>1, <1>3, <2>1, <3>2
    <3>3. SaidIn(new, x, q) = SaidOf(p, x, q)
      BY <1>1, <2>1, <3>2 DEF SaidIn, SaidBy, SaidOf
    <3> QED BY <3>1, <3>3 DEF Or
  <2>2. CASE x # p.name
    <3>1. SaidOf(p, x, q) = {}
      BY <2>2 DEF SaidOf
    <3>2. ASSUME NEW v \in SaidIn(new, x, q) PROVE v \in SaidIn(list, x, q)
      <4>1. PICK i \in DOMAIN new : new[i].name = x /\ q \in DOMAIN new[i].fields /\ v = new[i].fields[q]
        BY DEF SaidIn, SaidBy
      <4> QED BY <1>1, <2>2, <4>1 DEF SaidIn, SaidBy
    <3>3. ASSUME NEW v \in SaidIn(list, x, q) PROVE v \in SaidIn(new, x, q)
      <4>1. PICK j \in DOMAIN list : list[j].name = x /\ q \in DOMAIN list[j].fields /\ v = list[j].fields[q]
        BY DEF SaidIn, SaidBy
      <4>2. PICK i \in DOMAIN new \ {k} : f[i] = j
        BY <1>1
      <4> QED BY <1>1, <4>1, <4>2 DEF SaidIn, SaidBy
    <3> QED BY <3>1, <3>2, <3>3 DEF Or
  <2> QED BY <2>1, <2>2
<1> QED BY <1>4, <1>5, <1>6 DEF NowSays

LEMMA KnownOne ==
    ASSUME NEW list, PresetList(list), NEW p, IsPreset(p),
           NEW k \in DOMAIN list, list[k].name = p.name
    PROVE  NowSays(list, p, [list EXCEPT ![k].fields = @ ++ p.fields])
<1> DEFINE new == [list EXCEPT ![k].fields = @ ++ p.fields]
           old == list[k]
           fields == old.fields ++ p.fields
<1>1. /\ \A i \in DOMAIN list : IsPreset(list[i])
      /\ \A i, j \in DOMAIN list : list[j].name = list[i].name => j = i
  BY PresetsAre
<1>2. /\ Len(list) \in Nat /\ DOMAIN list = 1 .. Len(list) /\ list = [i \in 1 .. Len(list) |-> list[i]]
  BY ListIs DEF PresetList
<1>3. /\ DOMAIN new = DOMAIN list
      /\ \A i \in DOMAIN list : i # k => new[i] = list[i]
      /\ new[k] = [old EXCEPT !.fields = fields]
  BY <1>2
<1>4. old = Preset(old.name, old.source, old.fields) /\ old.name = p.name
  BY <1>1 DEF IsPreset
<1>5. new[k] = Preset(old.name, old.source, fields)
  BY <1>3, <1>4 DEF Preset
<1>6. new[k].name = p.name /\ new[k].fields = fields
  BY <1>4, <1>5 DEF Preset
<1>7. /\ DOMAIN fields = DOMAIN old.fields \union DOMAIN p.fields
      /\ \A q \in DOMAIN old.fields : fields[q] = old.fields[q]
      /\ \A q \in DOMAIN p.fields \ DOMAIN old.fields : fields[q] = p.fields[q]
  BY OverIs
<1>8. IsList(new)
  <2>1. new = [i \in 1 .. Len(list) |-> new[i]]
    BY <1>2
  <2>2. Len(new) = Len(list)
    BY <1>2
  <2> HIDE DEF new
  <2> QED BY <1>2, <2>1, <2>2 DEF IsList
<1>9. IsPreset(new[k])
  <2>1. \A q \in DOMAIN old.fields : InRange(q, old.fields[q])
    BY <1>1 DEF IsPreset
  <2>2. \A q \in DOMAIN p.fields : InRange(q, p.fields[q])
    BY DEF IsPreset
  <2>3. \A q \in DOMAIN fields : InRange(q, fields[q])
    <3> HIDE DEF fields, old
    <3> QED BY <1>7, <2>1, <2>2
  <2> HIDE DEF fields, new
  <2> QED BY <1>5, <1>6, <2>3 DEF IsPreset, Preset
<1> HIDE DEF new, fields
<1>10. \A i \in DOMAIN new : IsPreset(new[i]) /\ new[i].name = list[i].name
  BY <1>1, <1>3, <1>4, <1>6, <1>9
<1>11. PresetList(new)
  BY <1>1, <1>3, <1>8, <1>10 DEF PresetList, IsPreset
<1>12. NamesIn(new) = NamesIn(list) \union {p.name}
  <2>1. NamesIn(new) = NamesIn(list)
    BY <1>3, <1>10 DEF NamesIn
  <2>2. p.name \in NamesIn(list)
    BY DEF NamesIn
  <2> QED BY <2>1, <2>2
<1>13. ASSUME NEW x, NEW q PROVE SaidIn(new, x, q) = Or(SaidIn(list, x, q), SaidOf(p, x, q))
  <2>1. CASE x = p.name
    <3>1. \A i \in DOMAIN list : list[i].name = x => i = k
      BY <1>1, <2>1
    <3>2. SaidIn(list, x, q) = IF q \in DOMAIN old.fields THEN {old.fields[q]} ELSE {}
      BY <2>1, <3>1 DEF SaidIn, SaidBy
    <3>3. SaidIn(new, x, q) = IF q \in DOMAIN fields THEN {fields[q]} ELSE {}
      BY <1>3, <1>6, <1>10, <2>1, <3>1 DEF SaidIn, SaidBy
    <3>4. SaidOf(p, x, q) = IF q \in DOMAIN p.fields THEN {p.fields[q]} ELSE {}
      BY <2>1 DEF SaidOf
    <3> HIDE DEF old
    <3> QED BY <1>7, <3>2, <3>3, <3>4 DEF Or
  <2>2. CASE x # p.name
    <3>1. SaidOf(p, x, q) = {}
      BY <2>2 DEF SaidOf
    <3>2. SaidIn(new, x, q) = SaidIn(list, x, q)
      <4>1. \A i \in DOMAIN list : new[i].name = x <=> list[i].name = x
        BY <1>10, <1>3
      <4>2. \A i \in DOMAIN list : list[i].name = x => new[i] = list[i]
        BY <1>3, <2>2
      <4> QED BY <1>3, <4>1, <4>2 DEF SaidIn, SaidBy
    <3> QED BY <3>1, <3>2 DEF Or
  <2> QED BY <2>1, <2>2
<1> QED BY <1>11, <1>12, <1>13 DEF NowSays, new, fields

LEMMA MergeOne ==
    ASSUME NEW list, PresetList(list), NEW p, IsPreset(p)
    PROVE  NowSays(list, p, MergePreset(list, p))
<1> DEFINE n == Len(list)
           at == {i \in DOMAIN list : list[i].name = p.name}
<1>1. /\ n \in Nat /\ DOMAIN list = 1 .. n /\ list = [i \in 1 .. n |-> list[i]]
      /\ list \in Seq({list[i] : i \in 1 .. n})
  BY ListIs DEF PresetList
<1>2. CASE at # {}
  <2>1. PICK k \in at : \A h \in at : k <= h
    <3>1. at \in SUBSET Nat
      BY <1>1
    <3> QED BY <1>2, <3>1, Smallest
  <2>2. Min(at) \in at
    <3>1. \E x \in at : \A y \in at : x <= y
      BY <2>1
    <3> HIDE DEF at
    <3> QED BY <3>1, Zenon DEF Min
  <2>3. MergePreset(list, p) = [list EXCEPT ![Min(at)].fields = @ ++ p.fields]
    BY <1>2 DEF MergePreset
  <2>4. Min(at) \in DOMAIN list /\ list[Min(at)].name = p.name
    BY <2>2
  <2> HIDE DEF at
  <2>5. PICK m : m = Min(at)
    OBVIOUS
  <2>6. NowSays(list, p, [list EXCEPT ![m].fields = @ ++ p.fields])
    BY <2>4, <2>5, KnownOne, Zenon
  <2> QED BY <2>3, <2>5, <2>6
<1>3. CASE at = {}
  <2> DEFINE S == {list[i] : i \in 1 .. n} \union {p}
  <2>1. p.name \notin NamesIn(list)
    BY <1>3 DEF NamesIn
  <2>2. list \in Seq(S) /\ <<p>> \in Seq(S)
    <3>1. list \in [1 .. n -> S]
      BY <1>1
    <3> QED BY <1>1, <3>1
  <2>3. CASE p.name = Default
    <3> DEFINE new == <<p>> \o list
               f == [i \in 2 .. n + 1 |-> i - 1]
    <3>1. MergePreset(list, p) = new
      BY <1>3, <2>3 DEF MergePreset
    <3>2. new \in Seq(S) /\ Len(new) = n + 1 /\ new[1] = p /\ \A i \in 1 .. n : new[i + 1] = list[i]
      <4> HIDE DEF S
      <4> QED BY <1>1, <2>2
    <3>3. IsList(new) /\ DOMAIN new = 1 .. n + 1 /\ DOMAIN new \ {1} = 2 .. n + 1
      <4>1. DOMAIN new = 1 .. n + 1
        BY <1>1, <3>2
      <4>2. \A i : i \in (1 .. n + 1) \ {1} <=> i \in 2 .. n + 1
        BY <1>1
      <4> QED BY <3>2, <4>1, <4>2, SeqIsList
    <3> HIDE DEF new
    <3>4. Inserted(list, p, new, 1, f)
      <4>1. ASSUME NEW i \in 2 .. n + 1 PROVE f[i] \in DOMAIN list /\ new[i] = list[f[i]]
        <5>1. i - 1 \in 1 .. n /\ (i - 1) + 1 = i
          BY <1>1
        <5> QED BY <1>1, <3>2, <5>1
      <4>2. \A i, j \in 2 .. n + 1 : f[i] = f[j] => i = j
        BY <1>1
      <4>3. ASSUME NEW j \in 1 .. n PROVE \E i \in 2 .. n + 1 : f[i] = j
        <5>1. j + 1 \in 2 .. n + 1 /\ f[j + 1] = j
          BY <1>1
        <5> QED BY <5>1
      <4> HIDE DEF f
      <4>4. 1 \in DOMAIN new /\ new[1] = p
        BY <1>1, <3>2, <3>3
      <4> QED BY <1>1, <3>3, <4>1, <4>2, <4>3, <4>4 DEF Inserted
    <3> QED BY <2>1, <3>1, <3>4, NewOne
  <2>4. CASE p.name # Default
    <3> DEFINE new == Append(list, p)
               f == [i \in 1 .. n |-> i]
    <3>1. MergePreset(list, p) = new
      BY <1>3, <2>4 DEF MergePreset
    <3>2. new \in Seq(S) /\ Len(new) = n + 1 /\ new[n + 1] = p /\ \A i \in 1 .. n : new[i] = list[i]
      <4>1. p \in S
        OBVIOUS
      <4> HIDE DEF S
      <4> QED BY <1>1, <2>2, <4>1
    <3>3. IsList(new) /\ DOMAIN new = 1 .. n + 1 /\ DOMAIN new \ {n + 1} = 1 .. n
      <4>1. DOMAIN new = 1 .. n + 1
        BY <1>1, <3>2
      <4>2. \A i : i \in (1 .. n + 1) \ {n + 1} <=> i \in 1 .. n
        BY <1>1
      <4> QED BY <3>2, <4>1, <4>2, SeqIsList
    <3> HIDE DEF new
    <3>4. Inserted(list, p, new, n + 1, f)
      <4>1. \A i \in 1 .. n : f[i] = i
        OBVIOUS
      <4>2. n + 1 \in DOMAIN new
        BY <1>1, <3>3
      <4> HIDE DEF f
      <4> QED BY <1>1, <3>2, <3>3, <4>1, <4>2 DEF Inserted
    <3> QED BY <2>1, <3>1, <3>4, NewOne
  <2> QED BY <2>3, <2>4
<1> QED BY <1>2, <1>3

(* A whole source is merged.                                               *)
LEMMA MergeSource ==
    ASSUME NEW old, PresetList(old), NEW new, PresetList(new)
    PROVE  LET list == MergePresets(old, new)
           IN  /\ PresetList(list)
               /\ NamesIn(list) = NamesIn(old) \union NamesIn(new)
               /\ \A x, q : SaidIn(list, x, q) = Or(SaidIn(old, x, q), SaidIn(new, x, q))
<1> DEFINE env == [old |-> old, new |-> new]
           n == Len(new)
<1>1. n \in Nat /\ DOMAIN new = 1 .. n
  BY ListIs DEF PresetList
<1>2. /\ \A i \in 1 .. n : IsPreset(new[i])
      /\ \A i, j \in 1 .. n : new[j].name = new[i].name => j = i
  BY <1>1, PresetsAre
<1>3. env.old = old /\ env.new = new
  OBVIOUS
<1> HIDE DEF env
<1>4. MergeKeeps(env, 0, old)
  <2>1. 1 .. 0 = {}
    OBVIOUS
  <2>2. \A x, q : SaidBy({}, new, x, q) = {}
    BY DEF SaidBy
  <2>3. \A x, q : SaidIn(old, x, q) = Or(SaidIn(old, x, q), {})
    BY DEF Or
  <2> QED BY <1>3, <2>1, <2>2, <2>3 DEF MergeKeeps
<1>5. ASSUME NEW i \in 1 .. n, NEW list, MergeKeeps(env, i - 1, list)
      PROVE  MergeKeeps(env, i, MergeStep(env, list, new[i]))
  <2> DEFINE p == new[i]
             after == MergeStep(env, list, p)
  <2>1. NowSays(list, p, after)
    BY <1>2, <1>5, MergeOne DEF MergeKeeps, MergeStep
  <2>2. 1 .. i = (1 .. i - 1) \union {i} /\ i \notin 1 .. i - 1 /\ i \in Nat
    BY <1>1
  <2>3. NamesIn(after) = NamesIn(old) \union {new[j].name : j \in 1 .. i}
    <3>1. NamesIn(list) = NamesIn(old) \union {new[j].name : j \in 1 .. i - 1}
      BY <1>3, <1>5 DEF MergeKeeps
    <3>2. NamesIn(after) = NamesIn(list) \union {p.name}
      BY <2>1 DEF NowSays
    <3>3. {new[j].name : j \in 1 .. i} = {new[j].name : j \in 1 .. i - 1} \union {p.name}
      BY <2>2
    <3> HIDE DEF after
    <3> QED BY <3>1, <3>2, <3>3
  <2>4. ASSUME NEW x, NEW q
        PROVE  SaidIn(after, x, q) = Or(SaidIn(old, x, q), SaidBy(1 .. i, new, x, q))
    <3>1. SaidIn(list, x, q) = Or(SaidIn(old, x, q), SaidBy(1 .. i - 1, new, x, q))
      BY <1>3, <1>5 DEF MergeKeeps
    <3>2. SaidIn(after, x, q) = Or(SaidIn(list, x, q), SaidOf(p, x, q))
      BY <2>1 DEF NowSays
    <3>3. SaidBy(1 .. i, new, x, q) = Or(SaidBy(1 .. i - 1, new, x, q), SaidOf(p, x, q))
      <4>1. CASE x = p.name
        <5>1. \A j \in 1 .. i - 1 : new[j].name # x
          <6>1. \A j \in 1 .. i - 1 : j \in 1 .. n /\ j # i
            BY <1>1
          <6> QED BY <1>2, <4>1, <6>1
        <5>2. SaidBy(1 .. i - 1, new, x, q) = {}
          BY <5>1 DEF SaidBy
        <5>3. SaidBy(1 .. i, new, x, q) = IF q \in DOMAIN p.fields THEN {p.fields[q]} ELSE {}
          BY <2>2, <4>1, <5>1 DEF SaidBy
        <5> QED BY <4>1, <5>2, <5>3 DEF Or, SaidOf
      <4>2. CASE x # p.name
        <5>1. SaidBy(1 .. i, new, x, q) = SaidBy(1 .. i - 1, new, x, q)
          BY <2>2, <4>2 DEF SaidBy
        <5> QED BY <4>2, <5>1 DEF Or, SaidOf
      <4> QED BY <4>1, <4>2
    <3> QED BY <3>1, <3>2, <3>3 DEF Or
  <2>5. PresetList(after)
    BY <2>1 DEF NowSays
  <2> HIDE DEF after
  <2>6. MergeKeeps(env, i, after)
    BY <1>3, <2>3, <2>4, <2>5 DEF MergeKeeps
  <2> QED BY <2>6 DEF after
<1>6. MergeKeeps(env, n, MergeFold!Folded(env, old, new))
  <2>1. \A i \in 1 .. n : \A a : MergeKeeps(env, i - 1, a) => MergeKeeps(env, i, MergeStep(env, a, new[i]))
    BY <1>5
  <2> HIDE DEF n
  <2> QED BY <1>1, <1>4, <2>1, MergeFold!FoldInduction, Zenon
<1>7. MergeKeeps(env, n, MergePresets(old, new))
  BY <1>6, MergeIsFold
<1> DEFINE list == MergePresets(old, new)
<1> HIDE DEF list
<1>8. /\ PresetList(list)
      /\ NamesIn(list) = NamesIn(old) \union {new[j].name : j \in 1 .. n}
      /\ \A x, q : SaidIn(list, x, q) = Or(SaidIn(old, x, q), SaidBy(1 .. n, new, x, q))
  BY <1>3, <1>7 DEF MergeKeeps, list
<1>9. NamesIn(new) = {new[j].name : j \in 1 .. n} /\ \A x, q : SaidIn(new, x, q) = SaidBy(1 .. n, new, x, q)
  BY <1>1 DEF NamesIn, SaidIn
<1> QED BY <1>8, <1>9 DEF list

(* What a source says: a value that is kept was read.                      *)
LEMMA HasLast ==
    ASSUME NEW n \in Nat, NEW S \in SUBSET (1 .. n), S # {}
    PROVE  Max(S) \in S /\ \A i \in S : i <= Max(S)
<1> DEFINE T == {n - i : i \in S}
<1>1. T \in SUBSET Nat /\ T # {}
  OBVIOUS
<1>2. PICK t \in T : \A u \in T : t <= u
  BY <1>1, Smallest
<1>3. PICK m \in S : t = n - m
  BY <1>2
<1>4. \A i \in S : i <= m
  <2> SUFFICES ASSUME NEW i \in S PROVE i <= m
    OBVIOUS
  <2>1. t <= n - i
    BY <1>2
  <2> QED BY <1>3, <2>1
<1>5. \A i \in S : m >= i
  BY <1>4
<1> HIDE DEF T
<1>6. Max(S) \in S /\ \A i \in S : Max(S) >= i
  BY <1>3, <1>5, Zenon DEF Max
<1> QED BY <1>6

LEMMA HasFirst ==
    ASSUME NEW S \in SUBSET Nat, S # {}
    PROVE  Min(S) \in S /\ \A i \in S : Min(S) <= i
<1>1. \E x \in S : \A y \in S : x <= y
  BY Smallest
<1> QED BY <1>1, Zenon DEF Min

LEMMA AssignIs ==
    ASSUME NEW n \in Nat, NEW lines, DOMAIN lines \subseteq 1 .. n,
           NEW p \in DOMAIN AssignParam(lines)
    PROVE  \E i \in DOMAIN lines :
              /\ lines[i].param = p /\ AssignParam(lines)[p] = lines[i].value
              /\ InRange(p, lines[i].value)
<1> DEFINE good == {i \in DOMAIN lines : InRange(lines[i].param, lines[i].value)}
           T == {i \in good : lines[i].param = p}
<1>1. /\ DOMAIN AssignParam(lines) = {lines[i].param : i \in good}
      /\ AssignParam(lines)[p] = lines[Max(T)].value
  BY DEF AssignParam
<1>2. T # {} /\ T \in SUBSET (1 .. n)
  BY <1>1
<1> HIDE DEF T
<1>3. Max(T) \in T
  BY <1>2, HasLast
<1> QED BY <1>1, <1>3 DEF T

LEMMA OneIs ==
    ASSUME NEW n \in Nat, NEW lines, DOMAIN lines \subseteq 1 .. n, NEW source
    PROVE  /\ PresetList(One(source, lines))
           /\ \A i \in DOMAIN One(source, lines) :
                /\ One(source, lines)[i].name = Default
                /\ \A p \in DOMAIN One(source, lines)[i].fields :
                    \E j \in DOMAIN lines : lines[j].param = p /\ One(source, lines)[i].fields[p] = lines[j].value
<1> DEFINE fields == AssignParam(lines)
           preset == Preset(Default, source, fields)
           list == One(source, lines)
<1>1. \A p \in DOMAIN fields : \E i \in DOMAIN lines :
        lines[i].param = p /\ fields[p] = lines[i].value /\ InRange(p, fields[p])
  BY AssignIs
<1> HIDE DEF fields
<1>2. preset.name = Default /\ preset.fields = fields /\ preset = Preset(preset.name, preset.source, preset.fields)
  BY DEF Preset
<1>3. list = IF DOMAIN fields = {} THEN <<>> ELSE <<preset>>
  BY DEF One, fields
<1> HIDE DEF preset, list
<1>4. IsList(list) /\ \A i \in DOMAIN list : i = 1 /\ list[i] = preset
  <2>1. CASE list = <<>>
    BY <2>1 DEF IsList
  <2>2. CASE list = <<preset>>
    BY <2>2 DEF IsList
  <2> QED BY <1>3, <2>1, <2>2
<1>5. PresetList(list)
  BY <1>1, <1>2, <1>4 DEF PresetList
<1> QED BY <1>1, <1>2, <1>4, <1>5 DEF list

(* A table says what is in its cells, under the name of the column.        *)
LEMMA RankedAt ==
    ASSUME NEW n \in Nat, NEW S \in SUBSET (1 .. n), NEW k \in 1 .. Cardinality(S)
    PROVE  \E i \in S : Cardinality({j \in S : j <= i}) = k
<1> DEFINE Upto(i) == {j \in S : j <= i}
           T == {i \in 0 .. n : Cardinality(Upto(i)) >= k}
<1>1. IsFiniteSet(1 .. n)
  BY FS_Interval
<1>2. IsFiniteSet(S)
  BY <1>1, FS_Subset
<1>3. \A i : IsFiniteSet(Upto(i)) /\ Cardinality(Upto(i)) \in Nat
  <2>1. \A i : Upto(i) \in SUBSET S
    OBVIOUS
  <2> HIDE DEF Upto
  <2> QED BY <1>2, <2>1, FS_Subset, FS_CardinalityType
<1>4. Cardinality(S) \in Nat
  BY <1>2, FS_CardinalityType
<1>5. n \in T
  <2>1. Upto(n) = S
    <3>1. \A j \in S : j <= n
      OBVIOUS
    <3> QED BY <3>1
  <2>2. Cardinality(Upto(n)) >= k
    BY <1>4, <2>1
  <2> HIDE DEF Upto
  <2> QED BY <2>2
<1>6. Cardinality(Upto(0)) = 0
  <2>1. Upto(0) = {}
    <3>1. \A j \in S : ~(j <= 0)
      OBVIOUS
    <3> QED BY <3>1
  <2> QED BY <2>1, FS_EmptySet
<1>7. PICK i \in T : \A j \in T : i <= j
  <2>1. T \in SUBSET Nat
    OBVIOUS
  <2> HIDE DEF T
  <2> QED BY <1>5, <2>1, Smallest
<1>8. i \in 1 .. n /\ i - 1 \in 0 .. n
  <2> HIDE DEF Upto
  <2>1. i # 0
    BY <1>4, <1>6, <1>7
  <2> QED BY <1>7, <2>1
<1>9. i - 1 \notin T
  <2> HIDE DEF T
  <2> QED BY <1>7, <1>8
<1>10. Cardinality(Upto(i)) >= k /\ Cardinality(Upto(i - 1)) < k
  <2> HIDE DEF Upto
  <2>1. ~(Cardinality(Upto(i - 1)) >= k)
    BY <1>8, <1>9
  <2>2. k \in Nat
    BY <1>4
  <2> QED BY <1>3, <1>7, <2>1, <2>2
<1>11. CASE i \notin S
  <2>1. Upto(i) = Upto(i - 1)
    <3>1. \A j \in S : j <= i <=> j <= i - 1
      BY <1>8, <1>11
    <3> QED BY <3>1
  <2> HIDE DEF Upto
  <2> QED BY <1>3, <1>4, <1>10, <2>1
<1>12. CASE i \in S
  <2>1. Upto(i) = Upto(i - 1) \union {i} /\ i \notin Upto(i - 1)
    <3>1. \A j \in S : j <= i <=> (j <= i - 1 \/ j = i)
      BY <1>8
    <3>2. ~(i <= i - 1)
      BY <1>8
    <3> QED BY <1>12, <3>1, <3>2
  <2> HIDE DEF Upto
  <2>2. Cardinality(Upto(i - 1) \union {i}) = Cardinality(Upto(i - 1)) + 1
    BY <1>3, <2>1, FS_AddElement
  <2>3. Cardinality(Upto(i)) = k
    BY <1>3, <1>4, <1>10, <2>1, <2>2
  <2> QED BY <1>12, <2>3 DEF Upto
<1> QED BY <1>11, <1>12

InTable(lines, name, p, v) ==
    \E h, j \in DOMAIN lines :
        /\ h < j /\ lines[h].kind = "row" /\ lines[j].kind = "row" /\ lines[j].head = p
        /\ \E c \in DOMAIN lines[h].cells \cap DOMAIN lines[j].cells :
            lines[h].cells[c].name = name /\ lines[j].cells[c].number = <<v>>

LinesAre(lines) == IsList(lines) /\ \A i \in DOMAIN lines : LineInput(lines[i])

RowsOf(section, rows) == rows \subseteq DOMAIN section /\ \A r \in rows : section[r].kind = "row"
ReadIn(section, rows, c, p, v) ==
    /\ InRange(p, v)
    /\ \E r \in rows : /\ c \in DOMAIN section[r].cells /\ section[r].head = p
                       /\ section[r].cells[c].number = <<v>>

LEMMA ColumnIs ==
    ASSUME NEW section, LinesAre(section), NEW rows, RowsOf(section, rows), NEW c,
           NEW p \in DOMAIN Column(section, rows, c)
    PROVE  ReadIn(section, rows, c, p, Column(section, rows, c)[p])
<1> DEFINE R == {r \in rows : c \in DOMAIN section[r].cells /\ section[r].cells[c].number # <<>>}
           read == [r \in R |-> [param |-> section[r].head, value |-> section[r].cells[c].number[1]]]
           v == Column(section, rows, c)[p]
<1>1. Len(section) \in Nat /\ DOMAIN section = 1 .. Len(section)
  BY ListIs DEF LinesAre
<1>2. Column(section, rows, c) = AssignParam(read)
  BY DEF Column
<1>3. DOMAIN read = R /\ R \subseteq 1 .. Len(section)
  BY <1>1 DEF RowsOf
<1>4. \A r \in R : read[r].param = section[r].head /\ read[r].value = section[r].cells[c].number[1]
  OBVIOUS
<1> HIDE DEF read
<1>5. PICK r \in R : read[r].param = p /\ v = read[r].value /\ InRange(p, read[r].value)
  <2>1. p \in DOMAIN AssignParam(read)
    BY <1>2
  <2>2. \E i \in DOMAIN read :
              /\ read[i].param = p /\ AssignParam(read)[p] = read[i].value
              /\ InRange(p, read[i].value)
    BY <1>1, <1>3, <2>1, AssignIs
  <2> HIDE DEF R
  <2> QED BY <1>2, <1>3, <2>2
<1>6. LineInput(section[r]) /\ section[r].kind = "row" /\ c \in DOMAIN section[r].cells
  BY DEF LinesAre, RowsOf
<1>7. section[r].cells[c].number = <<section[r].cells[c].number[1]>>
  BY <1>6 DEF LineInput
<1> HIDE DEF v
<1>8. section[r].head = p /\ section[r].cells[c].number = <<v>> /\ InRange(p, v)
  BY <1>4, <1>5, <1>7
<1> QED BY <1>6, <1>8 DEF v, ReadIn

LEMMA TableIs ==
    ASSUME NEW section, LinesAre(section)
    PROVE  /\ PresetList(ParseSettingsTable(section))
           /\ \A k \in DOMAIN ParseSettingsTable(section) :
                \A p \in DOMAIN ParseSettingsTable(section)[k].fields :
                    InTable(section, ParseSettingsTable(section)[k].name, p,
                            ParseSettingsTable(section)[k].fields[p])
<1> DEFINE rows == {r \in DOMAIN section : section[r].kind = "row"}
           top == Min(rows)
           variants == section[top].cells
           column(i) == Column(section, rows \ {top}, i)
           filled == {i \in DOMAIN variants : DOMAIN column(i) # {}}
           kept == {i \in filled : \A j \in filled : j < i => variants[j].name # variants[i].name}
           upto(i) == Cardinality({j \in kept : j <= i})
           at(k) == CHOOSE i \in kept : upto(i) = k
           table == ParseSettingsTable(section)
<1>1. Len(section) \in Nat /\ DOMAIN section = 1 .. Len(section)
  BY ListIs DEF LinesAre
<1>2. CASE rows = {}
  <2>1. table = <<>>
    BY <1>2 DEF ParseSettingsTable
  <2> HIDE DEF table
  <2>2. PresetList(table)
    BY <2>1 DEF PresetList, IsList
  <2> QED BY <2>1, <2>2 DEF table
<1>3. CASE rows # {}
  <2>1. top \in rows /\ \A r \in rows : top <= r
    <3>1. rows \in SUBSET Nat
      BY <1>1
    <3> HIDE DEF rows
    <3> QED BY <1>3, <3>1, HasFirst
  <2>2. Len(variants) \in Nat /\ DOMAIN variants = 1 .. Len(variants)
    <3>1. IsList(variants)
      BY <2>1 DEF LinesAre, LineInput
    <3> HIDE DEF variants
    <3> QED BY <3>1, ListIs
  <2>3. table = [k \in 1 .. Cardinality(kept) |-> Preset(variants[at(k)].name, "unsloth-docs", column(at(k)))]
    BY <1>3, Zenon DEF ParseSettingsTable
  <2>4. Cardinality(kept) \in Nat
    <3>1. IsFiniteSet(1 .. Len(variants))
      BY <2>2, FS_Interval
    <3>2. kept \in SUBSET (1 .. Len(variants))
      BY <2>2
    <3> HIDE DEF kept
    <3> QED BY <3>1, <3>2, FS_Subset, FS_CardinalityType
  <2>5. ASSUME NEW k \in 1 .. Cardinality(kept) PROVE at(k) \in kept /\ upto(at(k)) = k
    <3>1. kept \in SUBSET (1 .. Len(variants))
      BY <2>2
    <3> HIDE DEF kept
    <3>2. \E i \in kept : upto(i) = k
      BY <2>2, <3>1, RankedAt
    <3> HIDE DEF upto
    <3> QED BY <3>2
  <2>6. ASSUME NEW i \in kept, NEW j \in kept, variants[i].name = variants[j].name PROVE i = j
    <3>1. ~(i < j) /\ ~(j < i)
      BY <2>6, Zenon
    <3>2. i \in Nat /\ j \in Nat
      BY <2>2
    <3> QED BY <3>1, <3>2
  <2>7. ASSUME NEW i \in kept, NEW p \in DOMAIN column(i)
        PROVE  InRange(p, column(i)[p]) /\ InTable(section, variants[i].name, p, column(i)[p])
    <3>1. i \in DOMAIN variants
      OBVIOUS
    <3> HIDE DEF kept
    <3> DEFINE others == rows \ {top}
    <3>2. others \in SUBSET DOMAIN section /\ \A r \in others : section[r].kind = "row"
      OBVIOUS
    <3> HIDE DEF others
    <3> DEFINE v == Column(section, others, i)[p]
    <3>3. ReadIn(section, others, i, p, v)
      <4>1. p \in DOMAIN Column(section, others, i)
        BY DEF others
      <4>2. RowsOf(section, others)
        BY <3>2 DEF RowsOf
      <4> QED BY <4>1, <4>2, ColumnIs
    <3> HIDE DEF v
    <3>4. PICK r \in others : /\ i \in DOMAIN section[r].cells /\ section[r].head = p
                              /\ section[r].cells[i].number = <<v>>
      BY <3>3 DEF ReadIn
    <3>5. top < r /\ top \in DOMAIN section /\ r \in DOMAIN section
      <4>1. r \in rows /\ r # top
        BY DEF others
      <4>2. top \in DOMAIN section /\ r \in DOMAIN section /\ top <= r
        BY <2>1, <4>1
      <4> HIDE DEF top, rows
      <4> QED BY <1>1, <4>1, <4>2
    <3>6. section[top].kind = "row" /\ section[r].kind = "row"
      BY <2>1, <3>2
    <3>7. InTable(section, variants[i].name, p, v)
      <4> HIDE DEF top
      <4> QED BY <3>1, <3>4, <3>5, <3>6 DEF InTable
    <3> QED BY <3>3, <3>7 DEF v, others, ReadIn
  <2> HIDE DEF kept, table, upto
  <2>8. ASSUME NEW k \in 1 .. Cardinality(kept)
        PROVE  /\ table[k] = Preset(variants[at(k)].name, "unsloth-docs", column(at(k)))
               /\ table[k].name = variants[at(k)].name /\ table[k].fields = column(at(k))
               /\ table[k].source = "unsloth-docs"
    <3>1. table[k] = Preset(variants[at(k)].name, "unsloth-docs", column(at(k)))
      BY <2>3
    <3> HIDE DEF at, column, variants
    <3> QED BY <3>1 DEF Preset
  <2>9. DOMAIN table = 1 .. Cardinality(kept) /\ IsList(table)
    <3>1. DOMAIN table = 1 .. Cardinality(kept)
      BY <2>3
    <3>2. table = [k \in 1 .. Cardinality(kept) |-> table[k]]
      BY <2>3
    <3>3. Len(table) = Cardinality(kept)
      BY <2>4, <3>2
    <3> QED BY <2>4, <3>1, <3>2, <3>3 DEF IsList
  <2> HIDE DEF at, column, variants
  <2>10. PresetList(table)
    <3>1. ASSUME NEW k \in DOMAIN table PROVE IsPreset(table[k])
      <4>1. table[k] = Preset(table[k].name, table[k].source, table[k].fields)
        BY <2>8, <2>9
      <4>2. \A p \in DOMAIN table[k].fields : InRange(p, table[k].fields[p])
        BY <2>5, <2>7, <2>8, <2>9
      <4> QED BY <4>1, <4>2 DEF IsPreset
    <3>2. ASSUME NEW k \in DOMAIN table, NEW l \in DOMAIN table, table[l].name = table[k].name PROVE l = k
      <4>1. at(k) = at(l)
        BY <2>5, <2>6, <2>8, <2>9, <3>2
      <4> QED BY <2>5, <2>9, <4>1
    <3> QED BY <2>9, <3>1, <3>2 DEF PresetList, IsPreset
  <2>11. ASSUME NEW k \in DOMAIN table, NEW p \in DOMAIN table[k].fields
         PROVE  InTable(section, table[k].name, p, table[k].fields[p])
    BY <2>5, <2>7, <2>8, <2>9
  <2> QED BY <2>10, <2>11 DEF table
<1> QED BY <1>2, <1>3

(* The section is the lines under the heading, to the next that is as high.*)
UnderHeading(lines, section, s) ==
    /\ s \in DOMAIN lines /\ lines[s].kind = "heading" /\ lines[s].wanted
    /\ \A k \in DOMAIN section :
        /\ s + k \in DOMAIN lines /\ section[k] = lines[s + k]
        /\ section[k].kind = "heading" => section[k].level > lines[s].level

IsPart(s, S, a, b) ==
    /\ SubSeq(s, a, b) \in Seq(S) /\ Len(SubSeq(s, a, b)) = b - a + 1
    /\ \A k \in 1 .. b - a + 1 : SubSeq(s, a, b)[k] = s[a + k - 1]

LEMMA PartIs ==
    ASSUME NEW S, NEW s \in Seq(S), NEW a \in Nat, NEW b \in Nat, a >= 1, b <= Len(s), b - a + 1 \in Nat
    PROVE  IsPart(s, S, a, b)
<1>1. SubSeq(s, a, b) \in Seq(S)
  OBVIOUS
<1>2. Len(SubSeq(s, a, b)) = b - a + 1
  OBVIOUS
<1>3. \A k \in 1 .. b - a + 1 : SubSeq(s, a, b)[k] = s[a + k - 1]
  OBVIOUS
<1> QED BY <1>1, <1>2, <1>3 DEF IsPart

LEMMA SettingsSection ==
    ASSUME NEW lines, LinesAre(lines)
    PROVE  /\ LinesAre(RecommendedSection(lines))
           /\ \/ RecommendedSection(lines) = <<>>
              \/ \E s : UnderHeading(lines, RecommendedSection(lines), s)
<1> DEFINE n == Len(lines)
           heads == {i \in DOMAIN lines : lines[i].kind = "heading"}
           starts == {i \in heads : lines[i].wanted}
           s == Min(starts)
           after == {j \in heads : j > s /\ lines[j].level <= lines[s].level}
           e == Min({n + 1} \union after)
           section == RecommendedSection(lines)
<1>1. /\ n \in Nat /\ DOMAIN lines = 1 .. n /\ lines \in Seq({lines[i] : i \in 1 .. n})
      /\ \A i \in 1 .. n : LineInput(lines[i])
  BY ListIs DEF LinesAre
<1>2. CASE starts = {}
  <2>1. section = <<>>
    BY <1>2 DEF RecommendedSection
  <2> HIDE DEF section
  <2>2. LinesAre(section)
    BY <2>1 DEF LinesAre, IsList
  <2> QED BY <2>1, <2>2 DEF section
<1>3. CASE starts # {}
  <2>1. s \in starts
    <3>1. starts \in SUBSET Nat
      BY <1>1
    <3> HIDE DEF starts
    <3> QED BY <1>3, <3>1, HasFirst
  <2>2. section = SubSeq(lines, s + 1, e - 1)
    BY <1>3 DEF RecommendedSection
  <2>3. s \in 1 .. n /\ lines[s].kind = "heading" /\ lines[s].wanted
    BY <1>1, <2>1
  <2> HIDE DEF s, section
  <2>4. /\ e \in {n + 1} \union after /\ \A j \in {n + 1} \union after : e <= j
    <3>1. {n + 1} \union after \in SUBSET Nat /\ {n + 1} \union after # {}
      BY <1>1
    <3> HIDE DEF after
    <3> QED BY <3>1, HasFirst
  <2>5. e \in s + 1 .. n + 1
    BY <1>1, <2>3, <2>4
  <2> DEFINE len == e - 1 - s
  <2>6. /\ section = [k \in 1 .. len |-> lines[s + k]] /\ len \in Nat /\ Len(section) = len
        /\ \A k \in 1 .. len : s + k \in 1 .. n /\ s + k < e
    <3>1. e - 1 \in Nat /\ s + 1 \in Nat /\ e - 1 <= n /\ s + 1 >= 1 /\ (e - 1) - (s + 1) + 1 = len /\ len \in Nat
      <4>1. n \in Nat /\ s \in Nat /\ s >= 1 /\ e \in Nat /\ e <= n + 1 /\ e >= s + 1
        BY <1>1, <2>3, <2>5
      <4> HIDE DEF n, e
      <4> QED BY <4>1
    <3>2. ASSUME NEW k \in 1 .. len
          PROVE  k + (s + 1) - 1 = s + k /\ s + k \in 1 .. n /\ s + k < e
      <4>1. n \in Nat /\ s \in Nat /\ s >= 1 /\ e \in Nat /\ e <= n + 1 /\ k \in Nat /\ k >= 1 /\ k <= e - 1 - s
        BY <1>1, <2>3, <2>5
      <4> HIDE DEF n, e, len
      <4> QED BY <4>1
    <3> HIDE DEF e
    <3>3. \A k \in s + 1 .. e - 1 : lines[k] \in {lines[i] : i \in 1 .. n}
      BY <1>1, <2>3, <3>1
    <3> DEFINE S == {lines[i] : i \in 1 .. n}
    <3> HIDE DEF S, len, n
    <3> DEFINE a == s + 1
               b == e - 1
    <3>a. a \in Int /\ b \in Int /\ \A k \in a .. b : lines[k] \in S
      BY <3>1, <3>3 DEF S
    <3> HIDE DEF a, b
    <3>b. lines \in Seq(S) /\ a \in Nat /\ b \in Nat /\ a >= 1 /\ b <= Len(lines) /\ b - a + 1 \in Nat
      BY <1>1, <3>1 DEF S, a, b, n, len
    <3>c. IsPart(lines, S, a, b)
      BY <3>b, PartIs
    <3>4. /\ section \in Seq(S) /\ Len(section) = (e - 1) - (s + 1) + 1
          /\ \A k \in 1 .. (e - 1) - (s + 1) + 1 : section[k] = lines[(s + 1) + k - 1]
      BY <2>2, <3>c, Zenon DEF a, b, IsPart
    <3>5. Len(section) = len
      BY <3>1, <3>4
    <3>6. \A k \in 1 .. len : section[k] = lines[s + k]
      <4>1. \A k \in 1 .. len : section[k] = lines[(s + 1) + k - 1] /\ (s + 1) + k - 1 = s + k
        BY <3>1, <3>4, <2>3
      <4> QED BY <4>1
    <3>7. section = [k \in 1 .. len |-> lines[s + k]]
      BY <3>4, <3>5, <3>6
    <3> QED BY <3>1, <3>2, <3>5, <3>7 DEF n
  <2> HIDE DEF len, e
  <2>7. DOMAIN section = 1 .. len /\ \A k \in 1 .. len : section[k] = lines[s + k]
    BY <2>6
  <2>8. LinesAre(section)
    BY <1>1, <2>6, <2>7 DEF LinesAre, IsList
  <2>9. ASSUME NEW k \in 1 .. len, section[k].kind = "heading" PROVE section[k].level > lines[s].level
    <3>1. s + k \in heads /\ s + k > s
      <4>1. s + k \in DOMAIN lines /\ lines[s + k] = section[k]
        BY <1>1, <2>6, <2>7
      <4>2. s + k > s
        BY <2>3, <2>6
      <4> QED BY <2>9, <4>1, <4>2
    <3>2. s + k \notin after
      <4>1. e <= s + k => ~(s + k < e)
        BY <1>1, <2>3, <2>5
      <4> HIDE DEF after
      <4> QED BY <2>4, <2>6, <4>1
    <3>3. ~(lines[s + k].level <= lines[s].level)
      BY <3>1, <3>2
    <3>4. lines[s + k].level \in Nat /\ lines[s].level \in Nat
      <4>1. LineInput(lines[s + k]) /\ LineInput(lines[s])
        BY <1>1, <2>3, <2>6
      <4>2. lines[s + k].kind = "heading" /\ lines[s].kind = "heading"
        BY <2>3, <2>7, <2>9
      <4> QED BY <4>1, <4>2 DEF LineInput
    <3> QED BY <2>7, <3>3, <3>4
  <2>10. UnderHeading(lines, section, s)
    BY <1>1, <2>3, <2>6, <2>7, <2>9 DEF UnderHeading
  <2> QED BY <2>8, <2>10 DEF section
<1> QED BY <1>2, <1>3

LEMMA PageIsRead ==
    ASSUME NEW lines, LinesAre(lines)
    PROVE  LET docs == ParseRecommendedSettings(lines)
           IN  /\ PresetList(docs)
               /\ \A d \in DOMAIN docs : \A p \in DOMAIN docs[d].fields :
                    RecommendedOnPage(lines, docs[d].name, p, docs[d].fields[p])
<1> DEFINE section == RecommendedSection(lines)
           table == ParseSettingsTable(section)
           inline == {i \in DOMAIN section : section[i].kind = "inline"}
           one == One("unsloth-docs", [i \in inline |-> section[i]])
           docs == ParseRecommendedSettings(lines)
<1>1. LinesAre(section) /\ (section = <<>> \/ \E s : UnderHeading(lines, section, s))
  BY SettingsSection
<1>2. docs = IF table # <<>> THEN table ELSE one
  BY DEF ParseRecommendedSettings
<1> HIDE DEF section
<1>3. Len(section) \in Nat /\ DOMAIN section = 1 .. Len(section) /\ Len(lines) \in Nat /\ DOMAIN lines = 1 .. Len(lines)
  BY <1>1, ListIs DEF LinesAre
<1>4. /\ PresetList(table)
      /\ \A k \in DOMAIN table : \A p \in DOMAIN table[k].fields :
            InTable(section, table[k].name, p, table[k].fields[p])
  BY <1>1, TableIs
<1>5. /\ PresetList(one)
      /\ \A i \in DOMAIN one : one[i].name = Default
            /\ \A p \in DOMAIN one[i].fields :
                \E j \in DOMAIN section : /\ section[j].kind = "inline" /\ section[j].param = p
                                          /\ one[i].fields[p] = section[j].value
  <2> DEFINE read == [i \in inline |-> section[i]]
  <2>1. DOMAIN read \subseteq 1 .. Len(section)
    BY <1>3
  <2>2. \A j \in DOMAIN read : j \in DOMAIN section /\ section[j].kind = "inline" /\ read[j] = section[j]
    OBVIOUS
  <2> HIDE DEF read
  <2>3. /\ PresetList(One("unsloth-docs", read))
        /\ \A i \in DOMAIN One("unsloth-docs", read) :
                /\ One("unsloth-docs", read)[i].name = Default
                /\ \A p \in DOMAIN One("unsloth-docs", read)[i].fields :
                    \E j \in DOMAIN read : read[j].param = p /\ One("unsloth-docs", read)[i].fields[p] = read[j].value
    BY <1>3, <2>1, OneIs
  <2>4. one = One("unsloth-docs", read)
    BY DEF read
  <2> HIDE DEF one
  <2> QED BY <2>2, <2>3, <2>4
<1> HIDE DEF table, one, docs
<1>6. ASSUME NEW name, NEW p, NEW v, InTable(section, name, p, v)
      PROVE  RecommendedOnPage(lines, name, p, v)
  <2>1. PICK h \in DOMAIN section, j \in DOMAIN section :
        /\ h < j /\ section[h].kind = "row" /\ section[j].kind = "row" /\ section[j].head = p
        /\ \E c \in DOMAIN section[h].cells \cap DOMAIN section[j].cells :
            section[h].cells[c].name = name /\ section[j].cells[c].number = <<v>>
    BY <1>6 DEF InTable
  <2>2. PICK s : UnderHeading(lines, section, s)
    BY <1>1, <2>1
  <2>3. /\ s \in DOMAIN lines /\ lines[s].kind = "heading" /\ lines[s].wanted
        /\ \A k \in DOMAIN section :
            /\ s + k \in DOMAIN lines /\ section[k] = lines[s + k]
            /\ section[k].kind = "heading" => section[k].level > lines[s].level
    BY <2>2 DEF UnderHeading
  <2>4. s < s + j /\ s + h \in s + 1 .. (s + j) - 1
    BY <1>3, <2>1, <2>3
  <2>5. ASSUME NEW k \in s + 1 .. (s + j) - 1, lines[k].kind = "heading" PROVE lines[k].level > lines[s].level
    <3>1. k - s \in DOMAIN section /\ s + (k - s) = k
      BY <1>3, <2>3
    <3> QED BY <2>3, <2>5, <3>1
  <2> DEFINE i == s
             l == s + j
             g == s + h
  <2>6. lines[l] = section[j] /\ lines[g] = section[h] /\ i \in DOMAIN lines /\ l \in DOMAIN lines
    BY <2>3
  <2>7. lines[g].kind = "row" /\ lines[l].kind = "row" /\ lines[l].head = p
    BY <2>1, <2>6
  <2>8. \E c \in DOMAIN lines[l].cells : lines[l].cells[c].number = <<v>> /\ \E a \in i + 1 .. l - 1 :
            lines[a].kind = "row" /\ c \in DOMAIN lines[a].cells /\ lines[a].cells[c].name = name
    <3>1. PICK c \in DOMAIN section[h].cells \cap DOMAIN section[j].cells :
            section[h].cells[c].name = name /\ section[j].cells[c].number = <<v>>
      BY <2>1
    <3>2. g \in i + 1 .. l - 1
      BY <2>4
    <3>3. c \in DOMAIN lines[l].cells /\ lines[l].cells[c].number = <<v>> /\ c \in DOMAIN lines[g].cells
          /\ lines[g].cells[c].name = name
      BY <2>6, <3>1
    <3> HIDE DEF g, l, i
    <3> QED BY <2>7, <3>2, <3>3
  <2>9. i < l /\ \A k \in i + 1 .. l - 1 : lines[k].kind = "heading" => lines[k].level > lines[i].level
    BY <2>4, <2>5
  <2>10. lines[i].kind = "heading" /\ lines[i].wanted
    BY <2>3
  <2> HIDE DEF g, l, i
  <2> QED BY <2>6, <2>7, <2>8, <2>9, <2>10 DEF RecommendedOnPage
<1>7. ASSUME NEW j \in DOMAIN section, section[j].kind = "inline"
      PROVE  RecommendedOnPage(lines, Default, section[j].param, section[j].value)
  <2>1. PICK s : UnderHeading(lines, section, s)
    BY <1>1
  <2>2. /\ s \in DOMAIN lines /\ lines[s].kind = "heading" /\ lines[s].wanted
        /\ \A k \in DOMAIN section :
            /\ s + k \in DOMAIN lines /\ section[k] = lines[s + k]
            /\ section[k].kind = "heading" => section[k].level > lines[s].level
    BY <2>1 DEF UnderHeading
  <2>3. s < s + j
    BY <1>3, <2>2
  <2>4. ASSUME NEW k \in s + 1 .. (s + j) - 1, lines[k].kind = "heading" PROVE lines[k].level > lines[s].level
    <3>1. k - s \in DOMAIN section /\ s + (k - s) = k
      BY <1>3, <2>2
    <3> QED BY <2>2, <2>4, <3>1
  <2>5. lines[s + j] = section[j] /\ s + j \in DOMAIN lines
    BY <2>2
  <2>6. lines[s + j].kind = "inline" /\ lines[s + j].param = section[j].param /\ lines[s + j].value = section[j].value
    BY <1>7, <2>5
  <2>7. PICK l \in DOMAIN lines : l = s + j
    BY <2>5
  <2>8. s < l /\ \A k \in s + 1 .. l - 1 : lines[k].kind = "heading" => lines[k].level > lines[s].level
    BY <2>3, <2>4, <2>7
  <2> QED BY <2>2, <2>6, <2>7, <2>8 DEF RecommendedOnPage
<1>8. PresetList(docs)
  BY <1>2, <1>4, <1>5
<1>9. ASSUME NEW d \in DOMAIN docs, NEW p \in DOMAIN docs[d].fields
      PROVE  RecommendedOnPage(lines, docs[d].name, p, docs[d].fields[p])
  <2>1. CASE docs = table
    BY <1>4, <1>6, <2>1
  <2>2. CASE docs = one
    <3>1. PICK j \in DOMAIN section : /\ section[j].kind = "inline" /\ section[j].param = p
                                      /\ one[d].fields[p] = section[j].value
      BY <1>5, <2>2
    <3> QED BY <1>5, <1>7, <2>2, <3>1
  <2> QED BY <1>2, <2>1, <2>2
<1> QED BY <1>8, <1>9 DEF docs

(* The page is of the same version, or says none.                          *)
LEMMA HasHighest ==
    ASSUME NEW n \in Nat, NEW S \in SUBSET (0 .. n), S # {}
    PROVE  Max(S) \in S
<1> DEFINE T == {n - i : i \in S}
<1>1. T \in SUBSET Nat /\ T # {}
  <2>1. ASSUME NEW i \in S PROVE n - i \in Nat
    <3>1. i \in 0 .. n
      OBVIOUS
    <3> QED BY <3>1
  <2> QED BY <2>1
<1>2. PICK t \in T : \A u \in T : t <= u
  BY <1>1, Smallest
<1>3. PICK m \in S : t = n - m
  BY <1>2
<1>4. ASSUME NEW i \in S PROVE m >= i
  <2>1. t <= n - i
    BY <1>2
  <2> QED BY <1>3, <2>1
<1> HIDE DEF T
<1> QED BY <1>3, <1>4, Zenon DEF Max

LEMMA FirstIs ==
    ASSUME NEW S \in SUBSET Nat, NEW m \in S, \A i \in S : m <= i
    PROVE  Min(S) = m
<1>1. Min(S) \in S /\ \A i \in S : Min(S) <= i
  BY HasFirst
<1>2. PICK f : f = Min(S)
  OBVIOUS
<1>3. f <= m /\ m <= f /\ f \in Nat /\ m \in Nat
  BY <1>1, <1>2
<1> QED BY <1>2, <1>3

LEMMA JoinedIsList ==
    ASSUME NEW s, IsList(s), NEW t, IsList(t)
    PROVE  IsList(s \o t)
<1> DEFINE S == {s[i] : i \in 1 .. Len(s)}
           T == {t[i] : i \in 1 .. Len(t)}
<1>1. s \in Seq(S) /\ t \in Seq(T)
  BY ListIs
<1> HIDE DEF S, T
<1>2. s \in Seq(S \union T) /\ t \in Seq(S \union T)
  BY <1>1
<1>3. s \o t \in Seq(S \union T)
  BY <1>2
<1> QED BY <1>3, SeqIsList

LEMMA FamilyIsList ==
    ASSUME NEW name, NameInput(name)
    PROVE  IsList(FamilyKey(name))
<1> DEFINE n == Len(name)
<1>1. n \in Nat /\ DOMAIN name = 1 .. n
  BY ListIs DEF NameInput
<1>2. KeyKeeps(0, 0, <<>>)
  BY DEF KeyKeeps, IsList
<1>3. ASSUME NEW i \in 1 .. n, NEW key, KeyKeeps(0, i - 1, key)
      PROVE  KeyKeeps(0, i, KeyStep(0, key, name[i]))
  <2>1. IsList(key) /\ IsList(name[i].text)
    BY <1>1, <1>3 DEF KeyKeeps, NameInput
  <2>2. IsList(key \o name[i].text)
    BY <2>1, JoinedIsList
  <2> QED BY <2>1, <2>2 DEF KeyKeeps, KeyStep, AddToken
<1>4. KeyKeeps(0, n, KeyFold!Folded(0, <<>>, name))
  <2>1. \A i \in 1 .. n : \A a : KeyKeeps(0, i - 1, a) => KeyKeeps(0, i, KeyStep(0, a, name[i]))
    BY <1>3
  <2> HIDE DEF n
  <2> QED BY <1>1, <1>2, <2>1, KeyFold!FoldInduction, Zenon
<1> QED BY <1>4, KeyIsFold DEF KeyKeeps

LEMMA SameNumber ==
    ASSUME NEW key, IsList(key), NEW family, IsList(family), Begins(key, family),
           NumberOf(key) # <<>>
    PROVE  NumberOf(key) = NumberOf(family)
<1> DEFINE n == Len(key)
           digits(x) == {i \in DOMAIN x : ~x[i].letter}
           after(x) == {i \in DOMAIN x \ digits(x) : i > Min(digits(x))}
           end(x) == Min({Len(x) + 1} \union after(x))
<1>1. /\ n \in Nat /\ DOMAIN key = 1 .. n /\ Len(family) \in Nat /\ DOMAIN family = 1 .. Len(family)
      /\ key = [i \in 1 .. n |-> key[i]]
      /\ family \in Seq({family[i] : i \in 1 .. Len(family)})
  BY ListIs
<1>2. n < Len(family) /\ SubSeq(family, 1, n) = key /\ family[n + 1].letter
  BY DEF Begins
<1>3. \A i \in 1 .. n : family[i] = key[i]
  <2> DEFINE S == {family[i] : i \in 1 .. Len(family)}
  <2> HIDE DEF S
  <2>1. IsPart(family, S, 1, n)
    <3>1. family \in Seq(S) /\ 1 \in Nat /\ n \in Nat /\ 1 >= 1 /\ n <= Len(family) /\ n - 1 + 1 \in Nat
      BY <1>1, <1>2 DEF S
    <3> HIDE DEF n
    <3> QED BY <3>1, PartIs
  <2> QED BY <1>1, <1>2, <2>1 DEF IsPart
<1>4. /\ digits(key) # {}
      /\ NumberOf(key) = SubSeq(key, Min(digits(key)), end(key) - 1)
  BY DEF NumberOf
<1>5. digits(key) = digits(family) \cap (1 .. n)
  BY <1>1, <1>2, <1>3
<1>6. NumberOf(family) = SubSeq(family, Min(digits(family)), end(family) - 1)
  BY <1>4, <1>5 DEF NumberOf
<1> DEFINE m == Min(digits(key))
           e == end(key)
<1>7. m \in digits(key) /\ \A i \in digits(key) : m <= i
  <2>1. digits(key) \in SUBSET Nat
    BY <1>1
  <2> HIDE DEF digits
  <2> QED BY <1>4, <2>1, HasFirst
<1> HIDE DEF m
<1>8. Min(digits(family)) = m
  <2>1. m \in digits(family) /\ digits(family) \in SUBSET Nat /\ m \in 1 .. n
    BY <1>1, <1>5, <1>7
  <2>2. ASSUME NEW i \in digits(family) PROVE m <= i
    <3>1. CASE i <= n
      BY <1>1, <1>5, <1>7, <3>1
    <3>2. CASE ~(i <= n)
      BY <1>1, <2>1, <3>2
    <3> QED BY <3>1, <3>2
  <2> HIDE DEF digits
  <2> QED BY <2>1, <2>2, FirstIs
<1>9. /\ after(key) = {i \in 1 .. n \ digits(key) : i > m}
      /\ after(family) = {i \in DOMAIN family \ digits(family) : i > m}
  BY <1>1, <1>8 DEF m
<1>10. after(key) = after(family) \cap (1 .. n) /\ n + 1 \in after(family)
  <2>1. n + 1 \notin digits(family) /\ n + 1 \in DOMAIN family
    BY <1>1, <1>2
  <2>2. n + 1 > m /\ m \in 1 .. n
    BY <1>1, <1>7
  <2>3. n + 1 \in after(family)
    BY <1>9, <2>1, <2>2
  <2>4. \A i \in 1 .. n : i \in DOMAIN family
    BY <1>1, <1>2
  <2> HIDE DEF digits, after
  <2> QED BY <1>5, <1>9, <2>3, <2>4
<1>11. e \in {n + 1} \union after(key) /\ \A i \in {n + 1} \union after(key) : e <= i
  <2>1. {n + 1} \union after(key) \in SUBSET Nat
    BY <1>1, <1>9
  <2> HIDE DEF after
  <2>2. Min({n + 1} \union after(key)) = e
    OBVIOUS
  <2> HIDE DEF e
  <2> QED BY <2>1, <2>2, HasFirst
<1> HIDE DEF e
<1>12. end(family) = e
  <2> DEFINE ends == {Len(family) + 1} \union after(family)
  <2>1. ends \in SUBSET Nat
    BY <1>1
  <2>2. e \in ends
    <3> HIDE DEF after
    <3> QED BY <1>10, <1>11
  <2>3. ASSUME NEW i \in ends PROVE e <= i
    <3>1. i \in Nat /\ e \in Nat /\ e <= n + 1
      BY <1>1, <1>11, <2>1, <2>2
    <3>2. CASE i <= n
      <4>1. i \in after(family) /\ i \in 1 .. n
        BY <1>1, <1>2, <3>1, <3>2
      <4> HIDE DEF after, ends
      <4> QED BY <1>10, <1>11, <4>1
    <3>3. CASE ~(i <= n)
      BY <1>1, <3>1, <3>3
    <3> QED BY <3>2, <3>3
  <2>4. end(family) = Min(ends)
    OBVIOUS
  <2> HIDE DEF ends, end
  <2> QED BY <2>1, <2>2, <2>3, <2>4, FirstIs
<1>13. m \in 1 .. n /\ e \in Nat /\ m < e /\ e <= n + 1
  <2>1. m \in 1 .. n
    BY <1>1, <1>7
  <2>2. \A i \in after(key) : m < i /\ i \in 1 .. n
    BY <1>1, <1>9, <2>1
  <2> HIDE DEF after
  <2> QED BY <1>1, <1>11, <2>1, <2>2
<1>14. NumberOf(key) = SubSeq(key, m, e - 1) /\ NumberOf(family) = SubSeq(family, m, e - 1)
  <2> HIDE DEF end, digits
  <2> QED BY <1>4, <1>6, <1>8, <1>12 DEF m, e
<1>15. SubSeq(key, m, e - 1) = SubSeq(family, m, e - 1)
  <2> DEFINE b == e - 1
             S == {key[i] : i \in 1 .. n}
             T == {family[i] : i \in 1 .. Len(family)}
  <2>1. b \in Nat /\ m \in Nat /\ m >= 1 /\ b <= n /\ b <= Len(family) /\ b - m + 1 \in Nat
    <3>1. n \in Nat /\ m \in 1 .. n /\ e \in Nat /\ m < e /\ e <= n + 1 /\ n < Len(family) /\ Len(family) \in Nat
      BY <1>1, <1>2, <1>13
    <3> HIDE DEF n
    <3> QED BY <3>1
  <2>2. key \in Seq(S) /\ family \in Seq(T)
    BY <1>1
  <2>3. \A k \in 1 .. b - m + 1 : m + k - 1 \in 1 .. n
    BY <1>1, <1>13
  <2> HIDE DEF b, S, T
  <2>4. IsPart(key, S, m, b) /\ IsPart(family, T, m, b)
    BY <2>1, <2>2, PartIs
  <2> DEFINE u == SubSeq(key, m, b)
             v == SubSeq(family, m, b)
             l == b - m + 1
  <2>5. u \in Seq(S) /\ v \in Seq(T) /\ Len(u) = l /\ Len(v) = l
    BY <2>4 DEF IsPart
  <2>6. \A k \in 1 .. l : u[k] = v[k]
    BY <1>3, <2>3, <2>4 DEF IsPart
  <2> HIDE DEF u, v, l
  <2>7. u = [k \in 1 .. l |-> u[k]] /\ v = [k \in 1 .. l |-> v[k]]
    BY <2>5
  <2>8. u = v
    BY <2>6, <2>7
  <2> QED BY <2>8 DEF u, v, b
<1> QED BY <1>14, <1>15

PagesAre(pages) ==
    IsList(pages) /\ \A i \in DOMAIN pages : NameInput(pages[i].slug) /\ NameInput(pages[i].title)

LEMMA PageIsTheirs ==
    ASSUME NEW pages, PagesAre(pages), NEW repo, NameInput(repo), MatchDocsPage(pages, repo) # 0
    PROVE  /\ MatchDocsPage(pages, repo) \in DOMAIN pages
           /\ ~OtherVersion(repo, pages[MatchDocsPage(pages, repo)])
<1> DEFINE family == FamilyKey(repo)
           page == MatchDocsPage(pages, repo)
           models == {i \in DOMAIN pages : pages[i].model}
           exact == {i \in models : family \in Keys(pages[i])}
           lengths(i) == {Len(k) : k \in {x \in Keys(pages[i]) : Begins(x, family)}}
           reach(i) == Max({0} \union lengths(i))
           best == Max({0} \union {reach(i) : i \in models})
           longest == {i \in models : reach(i) = best}
<1>1. models \in SUBSET Nat /\ models \in SUBSET DOMAIN pages
  <2>1. Len(pages) \in Nat /\ DOMAIN pages = 1 .. Len(pages)
    BY ListIs DEF PagesAre
  <2> QED BY <2>1
<1>2. IsList(family) /\ Len(family) \in Nat
  BY FamilyIsList, ListIs
<1>3. \A i \in DOMAIN pages : \A k \in Keys(pages[i]) : IsList(k) /\ Len(k) \in Nat
  BY FamilyIsList, ListIs DEF PagesAre, Keys
<1>4. page = IF family = <<>> THEN 0
             ELSE IF exact # {} THEN Min(exact)
             ELSE IF best = 0 THEN 0 ELSE Min(longest)
  BY DEF MatchDocsPage
<1>5. CASE page = Min(exact) /\ exact # {}
  <2>1. page \in exact
    <3>1. exact \in SUBSET Nat
      BY <1>1
    <3> HIDE DEF exact, page
    <3> QED BY <1>5, <3>1, HasFirst
  <2> QED BY <1>1, <2>1 DEF OtherVersion
<1>6. CASE page = Min(longest) /\ best # 0
  <2> DEFINE n == Len(family)
  <2>1. \A i \in models : \A k \in Keys(pages[i]) : Begins(k, family) => Len(k) \in 0 .. n
    BY <1>1, <1>2, <1>3 DEF Begins
  <2>2. ASSUME NEW i \in models PROVE reach(i) \in {0} \union lengths(i) /\ reach(i) \in 0 .. n
    <3>1. {0} \union lengths(i) \in SUBSET (0 .. n) /\ {0} \union lengths(i) # {}
      BY <1>2, <2>1
    <3>2. n \in Nat
      BY <1>2
    <3> HIDE DEF lengths, n
    <3> QED BY <3>1, <3>2, HasHighest
  <2> HIDE DEF reach
  <2>3. best \in {0} \union {reach(i) : i \in models}
    <3> DEFINE all == {0} \union {reach(i) : i \in models}
    <3>1. n \in Nat /\ all \in SUBSET (0 .. n) /\ all # {}
      BY <1>2, <2>2
    <3> HIDE DEF n, all
    <3>2. Max(all) \in all
      BY <3>1, HasHighest
    <3> QED BY <3>2 DEF all
  <2> HIDE DEF best
  <2>4. longest # {} /\ longest \in SUBSET Nat
    BY <1>1, <1>6, <2>3
  <2>5. page \in longest
    <3> HIDE DEF longest, page
    <3> QED BY <1>6, <2>4, HasFirst
  <2> HIDE DEF page
  <2>6. page \in models /\ reach(page) = best
    BY <2>5
  <2>7. PICK k \in Keys(pages[page]) : Begins(k, family)
    <3>1. reach(page) \in lengths(page)
      BY <1>6, <2>2, <2>6
    <3> QED BY <3>1
  <2>8. NumberOf(k) \in {<<>>, NumberOf(family)}
    BY <1>1, <1>2, <1>3, <2>6, <2>7, SameNumber
  <2> HIDE DEF family
  <2> QED BY <1>1, <2>6, <2>7, <2>8 DEF OtherVersion, page, family
<1> HIDE DEF page, exact, best, longest
<1> QED BY <1>4, <1>5, <1>6 DEF page

(* What the network answers is what is there, or nothing.                  *)
LEMMA AnswerIs ==
    ASSUME NEW s PROVE CachedGet(s) \in {s.body, s.cached, <<>>} /\ Get(s) \in {s.body, <<>>}
BY DEF CachedGet, Get

LEMMA EmptyIsList == IsList(<<>>) /\ DOMAIN <<>> = {}
BY DEF IsList

LEMMA DocsAre ==
    ASSUME NEW x, SamplingInput(x)
    PROVE  LET page == MatchDocsPage(CachedGet(x.net.index), x.m.repo)
               docs == FetchUnslothDocs(x.net, x.m.repo)
           IN  /\ PresetList(docs)
               /\ page # 0 =>
                    /\ ~OtherVersion(x.m.repo, CachedGet(x.net.index)[page])
                    /\ \A d \in DOMAIN docs : \A p \in DOMAIN docs[d].fields :
                        RecommendedOnPage(CachedGet(x.net.pages[page]), docs[d].name, p, docs[d].fields[p])
<1> DEFINE pages == CachedGet(x.net.index)
           page == MatchDocsPage(pages, x.m.repo)
           docs == FetchUnslothDocs(x.net, x.m.repo)
           lines == CachedGet(x.net.pages[page])
<1>1. pages \in {x.net.index.body, x.net.index.cached, <<>>}
  BY AnswerIs
<1>2. PagesAre(pages) /\ DOMAIN pages \subseteq DOMAIN x.net.pages
  <2> HIDE DEF pages
  <2>1. CASE pages = <<>>
    BY <2>1, EmptyIsList DEF PagesAre
  <2>2. CASE pages \in {x.net.index.body, x.net.index.cached}
    BY <2>2 DEF PagesAre, SamplingInput
  <2> QED BY <1>1, <2>1, <2>2
<1>3. NameInput(x.m.repo)
  BY DEF SamplingInput
<1>4. docs = IF page = 0 THEN <<>> ELSE ParseRecommendedSettings(lines)
  BY DEF FetchUnslothDocs
<1>5. CASE page = 0
  <2>1. docs = <<>>
    BY <1>4, <1>5
  <2> HIDE DEF docs
  <2>2. PresetList(docs)
    BY <2>1, EmptyIsList DEF PresetList
  <2> QED BY <1>5, <2>2 DEF docs
<1>6. CASE page # 0
  <2> HIDE DEF pages
  <2>1. page \in DOMAIN pages /\ ~OtherVersion(x.m.repo, pages[page])
    BY <1>2, <1>3, <1>6, PageIsTheirs
  <2>2. page \in DOMAIN x.net.pages
    BY <1>2, <2>1
  <2> HIDE DEF page
  <2>3. LinesAre(lines)
    <3>1. lines \in {x.net.pages[page].body, x.net.pages[page].cached, <<>>}
      BY AnswerIs
    <3> HIDE DEF lines
    <3>2. CASE lines = <<>>
      BY <3>2, EmptyIsList DEF LinesAre
    <3>3. CASE lines \in {x.net.pages[page].body, x.net.pages[page].cached}
      BY <2>2, <3>3 DEF LinesAre, SamplingInput
    <3> QED BY <3>1, <3>2, <3>3
  <2> HIDE DEF lines
  <2>4. PresetList(docs) /\ \A d \in DOMAIN docs : \A p \in DOMAIN docs[d].fields :
            RecommendedOnPage(lines, docs[d].name, p, docs[d].fields[p])
    <3>1. docs = ParseRecommendedSettings(lines)
      BY <1>4, <1>6
    <3> HIDE DEF docs
    <3> QED BY <2>3, <3>1, PageIsRead
  <2> QED BY <2>1, <2>4 DEF docs, page, pages, lines
<1> QED BY <1>5, <1>6

LEMMA FirstIsThere ==
    ASSUME NEW s, IsList(s), NEW S \in SUBSET DOMAIN s, S # {}
    PROVE  Min(S) \in DOMAIN s
<1>1. Len(s) \in Nat /\ DOMAIN s = 1 .. Len(s)
  BY ListIs
<1>2. S \in SUBSET Nat
  BY <1>1
<1> QED BY <1>2, HasFirst

LEMMA BaseIs ==
    ASSUME NEW x, SamplingInput(x), Base(x.m, x.net) # ""
    PROVE  Base(x.m, x.net) \in DOMAIN x.net.gen
<1> DEFINE tags == Get(x.net.tags)
           plain == {i \in DOMAIN tags : ~tags[i].quantized /\ tags[i].slashes = 1}
           quantized == {i \in DOMAIN tags : tags[i].quantized}
           named == {x.net.tags.body[i].repo : i \in DOMAIN x.net.tags.body}
<1>1. /\ IsList(x.net.tags.body) /\ x.m.base \in DOMAIN x.net.gen \union {""}
      /\ named \subseteq DOMAIN x.net.gen \union {""}
  BY DEF SamplingInput
<1>2. tags \in {x.net.tags.body, <<>>}
  BY AnswerIs
<1>3. IsList(tags) /\ \A i \in DOMAIN tags : tags[i].repo \in DOMAIN x.net.gen \union {""}
  <2> HIDE DEF tags
  <2>1. CASE tags = <<>>
    BY <2>1, EmptyIsList
  <2>2. CASE tags = x.net.tags.body
    BY <1>1, <2>2
  <2> QED BY <1>2, <2>1, <2>2
<1>4. Base(x.m, x.net) = IF x.m.base # "" THEN x.m.base
                         ELSE IF plain # {} THEN tags[Min(plain)].repo
                         ELSE IF quantized # {} THEN tags[Min(quantized)].repo ELSE ""
  BY Zenon DEF Base, ResolveBaseRepo
<1> HIDE DEF tags, named
<1>5. \A S \in SUBSET DOMAIN tags : S # {} => Min(S) \in DOMAIN tags
  BY <1>3, FirstIsThere, Zenon
<1>6. plain \in SUBSET DOMAIN tags /\ quantized \in SUBSET DOMAIN tags
  OBVIOUS
<1> HIDE DEF plain, quantized
<1> DEFINE none == ""
           base == Base(x.m, x.net)
<1>7. base \in DOMAIN x.net.gen \union {none} /\ base # none
  BY <1>1, <1>3, <1>4, <1>5, <1>6, Zenon
<1> HIDE DEF none, base
<1>8. base \in DOMAIN x.net.gen
  BY <1>7
<1> QED BY <1>8 DEF base

LEMMA ListGivesPresets ==
    ASSUME NEW source, NEW lines, IsList(lines)
    PROVE  PresetList(One(source, lines))
<1>1. Len(lines) \in Nat /\ DOMAIN lines = 1 .. Len(lines)
  BY ListIs
<1> QED BY <1>1, OneIs

LEMMA SourcesAre ==
    ASSUME NEW x, SamplingInput(x)
    PROVE  \E a, b, c : /\ Sources(x.m, x.net) = <<a, b, c>> /\ a = FetchUnslothDocs(x.net, x.m.repo)
                        /\ PresetList(a) /\ PresetList(b) /\ PresetList(c)
<1> DEFINE base == Base(x.m, x.net)
           a == FetchUnslothDocs(x.net, x.m.repo)
           b == IF base = "" THEN <<>> ELSE FetchGenerationConfig(x.net, base)
           c == One("params", Get(x.net.params))
<1>1. \A s : IsList(s.body) => IsList(Get(s))
  BY AnswerIs, EmptyIsList
<1>2. IsList(x.net.params.body) /\ IsList(x.net.mirror.body) /\ \A r \in DOMAIN x.net.gen : IsList(x.net.gen[r].body)
  BY DEF SamplingInput
<1>3. PresetList(a)
  BY DocsAre
<1>4. PresetList(b)
  <2>1. CASE base = ""
    <3>1. b = <<>>
      BY <2>1, Zenon
    <3> QED BY <3>1, EmptyIsList DEF PresetList
  <2>2. CASE base # ""
    <3>1. base \in DOMAIN x.net.gen
      BY <2>2, BaseIs
    <3>2. \E lines : IsList(lines) /\ FetchGenerationConfig(x.net, base) = One("generation_config.json", lines)
      <4> HIDE DEF base
      <4> QED BY <1>1, <1>2, <3>1 DEF FetchGenerationConfig
    <3>3. PresetList(FetchGenerationConfig(x.net, base))
      BY <3>2, ListGivesPresets
    <3>4. b = FetchGenerationConfig(x.net, base)
      BY <2>2
    <3> QED BY <3>3, <3>4
  <2> QED BY <2>1, <2>2
<1>5. PresetList(c)
  BY <1>1, <1>2, ListGivesPresets
<1>6. Sources(x.m, x.net) = <<a, b, c>>
  BY DEF Sources
<1> HIDE DEF a, b, c
<1> QED BY <1>3, <1>4, <1>5, <1>6 DEF a

LEMMA FetchMerges ==
    ASSUME NEW m, NEW net, NEW a, NEW b, NEW c, Sources(m, net) = <<a, b, c>>
    PROVE  Fetch(m, net) = MergePresets(MergePresets(MergePresets(m.presets, a), b), c)
<1> DEFINE env == 0
           all == <<a, b, c>>
<1>1. DOMAIN all = 1 .. 3 /\ 3 \in Nat
  OBVIOUS
<1>2. PICK s : SourceFold!States(env, m.presets, all, 3, s)
  BY <1>1, SourceFold!FoldStates, Zenon
<1>3. /\ s[0] = m.presets
      /\ \A i \in 1 .. 3 : s[i] = MergePresets(s[i - 1], all[i])
      /\ s[3] = SourceFold!Folded(env, m.presets, all)
  BY <1>2 DEF SourceFold!States, SourceStep
<1>4. s[1] = MergePresets(s[0], a) /\ s[2] = MergePresets(s[1], b) /\ s[3] = MergePresets(s[2], c)
  BY <1>3
<1>5. Fetch(m, net) = SourceFold!Folded(env, m.presets, all)
  BY FetchIsFold
<1> QED BY <1>3, <1>4, <1>5

LEMMA SaysIs ==
    ASSUME NEW list, NEW x, NEW p \in Params
    PROVE  Says(list, x)[p] = SaidIn(list, x, p)
BY DEF Says, SaidIn, SaidBy

LEMMA FirstSaidIs ==
    ASSUME NEW sources, NEW n \in Nat, DOMAIN sources = 1 .. n, NEW x, NEW p \in Params
    PROVE  /\ (\A i \in 1 .. n : SaidIn(sources[i], x, p) = {}) => FirstSaid(sources, x, p) = {}
           /\ \A i \in 1 .. n :
                SaidIn(sources[i], x, p) # {} /\ (\A j \in 1 .. i - 1 : SaidIn(sources[j], x, p) = {})
                    => FirstSaid(sources, x, p) = SaidIn(sources[i], x, p)
<1> DEFINE who == {i \in 1 .. n : SaidIn(sources[i], x, p) # {}}
<1>1. FirstSaid(sources, x, p) = IF who = {} THEN {} ELSE SaidIn(sources[Min(who)], x, p)
  <2> DEFINE asked == {i \in DOMAIN sources : Says(sources[i], x)[p] # {}}
  <2>1. \A list : Says(list, x)[p] = SaidIn(list, x, p)
    BY SaysIs
  <2>2. asked = who
    BY <2>1
  <2>3. FirstSaid(sources, x, p) = IF asked = {} THEN {} ELSE Says(sources[Min(asked)], x)[p]
    BY DEF FirstSaid
  <2> HIDE DEF asked, who
  <2> QED BY <2>1, <2>2, <2>3
<1>2. ASSUME NEW i \in 1 .. n, SaidIn(sources[i], x, p) # {},
             \A j \in 1 .. i - 1 : SaidIn(sources[j], x, p) = {}
      PROVE  FirstSaid(sources, x, p) = SaidIn(sources[i], x, p)
  <2>1. i \in who /\ who \in SUBSET Nat
    BY <1>2
  <2>2. \A j \in who : i <= j
    <3> SUFFICES ASSUME NEW j \in who, ~(i <= j) PROVE FALSE
      OBVIOUS
    <3>1. j \in 1 .. i - 1
      OBVIOUS
    <3> QED BY <1>2, <3>1
  <2> HIDE DEF who
  <2>3. Min(who) = i
    BY <2>1, <2>2, FirstIs
  <2> QED BY <1>1, <2>1, <2>3
<1>3. ASSUME \A i \in 1 .. n : SaidIn(sources[i], x, p) = {} PROVE FirstSaid(sources, x, p) = {}
  BY <1>1, <1>3
<1> QED BY <1>2, <1>3

LEMMA FirstOfFour ==
    ASSUME NEW s, NEW a, NEW b, NEW c, NEW x, NEW p \in Params
    PROVE  FirstSaid(<<s, a, b, c>>, x, p)
             = Or(Or(Or(SaidIn(s, x, p), SaidIn(a, x, p)), SaidIn(b, x, p)), SaidIn(c, x, p))
<1> DEFINE all == <<s, a, b, c>>
           said(list) == SaidIn(list, x, p)
           first == FirstSaid(all, x, p)
<1>1. DOMAIN all = 1 .. 4 /\ all[1] = s /\ all[2] = a /\ all[3] = b /\ all[4] = c
  OBVIOUS
<1> HIDE DEF all
<1>2. /\ (\A i \in 1 .. 4 : said(all[i]) = {}) => first = {}
      /\ \A i \in 1 .. 4 : said(all[i]) # {} /\ (\A j \in 1 .. i - 1 : said(all[j]) = {}) => first = said(all[i])
  BY <1>1, FirstSaidIs, ZenonT(60)
<1> HIDE DEF said, first
<1>3. CASE said(s) # {}
  <2>1. \A j \in 1 .. 1 - 1 : said(all[j]) = {}
    OBVIOUS
  <2>2. first = said(s)
    BY <1>1, <1>2, <1>3, <2>1
  <2> QED BY <1>3, <2>2 DEF Or, said, first, all
<1>4. CASE said(s) = {} /\ said(a) # {}
  <2>1. \A j \in 1 .. 2 - 1 : said(all[j]) = {}
    BY <1>1, <1>4
  <2>2. first = said(a)
    BY <1>1, <1>2, <1>4, <2>1
  <2> QED BY <1>4, <2>2 DEF Or, said, first, all
<1>5. CASE said(s) = {} /\ said(a) = {} /\ said(b) # {}
  <2>1. \A j \in 1 .. 3 - 1 : said(all[j]) = {}
    BY <1>1, <1>5
  <2>2. first = said(b)
    BY <1>1, <1>2, <1>5, <2>1
  <2> QED BY <1>5, <2>2 DEF Or, said, first, all
<1>6. CASE said(s) = {} /\ said(a) = {} /\ said(b) = {} /\ said(c) # {}
  <2>1. \A j \in 1 .. 4 - 1 : said(all[j]) = {}
    BY <1>1, <1>6
  <2>2. first = said(c)
    BY <1>1, <1>2, <1>6, <2>1
  <2> QED BY <1>6, <2>2 DEF Or, said, first, all
<1>7. CASE said(s) = {} /\ said(a) = {} /\ said(b) = {} /\ said(c) = {}
  <2>1. \A j \in 1 .. 4 : said(all[j]) = {}
    BY <1>1, <1>7
  <2>2. first = {}
    BY <1>2, <2>1
  <2> QED BY <1>7, <2>2 DEF Or, said, first, all
<1> QED BY <1>3, <1>4, <1>5, <1>6, <1>7

LEMMA FirstOfOne ==
    ASSUME NEW s, NEW x, NEW p \in Params
    PROVE  FirstSaid(<<s>>, x, p) = SaidIn(s, x, p)
<1> DEFINE all == <<s>>
<1>1. DOMAIN all = 1 .. 1 /\ all[1] = s
  OBVIOUS
<1> HIDE DEF all
<1>2. /\ (\A i \in 1 .. 1 : SaidIn(all[i], x, p) = {}) => FirstSaid(all, x, p) = {}
      /\ \A i \in 1 .. 1 : SaidIn(all[i], x, p) # {} /\ (\A j \in 1 .. i - 1 : SaidIn(all[j], x, p) = {})
            => FirstSaid(all, x, p) = SaidIn(all[i], x, p)
  BY <1>1, FirstSaidIs
<1>3. \A j \in 1 .. 1 - 1 : SaidIn(all[j], x, p) = {}
  OBVIOUS
<1>4. FirstSaid(all, x, p) = SaidIn(all[1], x, p)
  BY <1>2, <1>3
<1> QED BY <1>1, <1>4 DEF all

LEMMA EachThereOnce ==
    ASSUME NEW list, PresetList(list)
    PROVE  Cardinality({list[i].name : i \in DOMAIN list}) = Len(list)
<1> DEFINE n == Len(list)
           names == {list[i].name : i \in DOMAIN list}
           f == [i \in 1 .. n |-> list[i].name]
<1>1. n \in Nat /\ DOMAIN list = 1 .. n
  BY ListIs DEF PresetList
<1>2. \A i, j \in 1 .. n : f[i] = f[j] => i = j
  BY <1>1, PresetsAre
<1>3. f \in Bijection(1 .. n, names)
  <2>1. f \in [1 .. n -> names]
    BY <1>1
  <2>2. \A t \in names : \E i \in 1 .. n : f[i] = t
    BY <1>1
  <2> HIDE DEF f, names, n
  <2> QED BY <1>2, <2>1, <2>2 DEF Bijection, Injection, Surjection, IsInjective
<1>4. ExistsBijection(1 .. n, names)
  BY <1>3 DEF ExistsBijection
<1> HIDE DEF n, names
<1> QED BY <1>1, <1>4, FS_CountingElements DEF n, names

(* One merged list and its sources.                                        *)
Chained(S, u, v, w) ==
    /\ w \in Seq(S) /\ Len(w) = Len(u) + Len(v)
    /\ \A i \in 1 .. Len(u) : w[i] = u[i]
    /\ \A i \in 1 .. Len(v) : w[Len(u) + i] = v[i]

LEMMA ChainedIs ==
    ASSUME NEW S, NEW u \in Seq(S), NEW v \in Seq(S)
    PROVE  Chained(S, u, v, u \o v)
<1>1. u \o v \in Seq(S) /\ Len(u \o v) = Len(u) + Len(v)
  OBVIOUS
<1>2. \A i \in 1 .. Len(u) : (u \o v)[i] = u[i]
  OBVIOUS
<1>3. \A i \in 1 .. Len(v) : (u \o v)[Len(u) + i] = v[i]
  OBVIOUS
<1> QED BY <1>1, <1>2, <1>3 DEF Chained

LEMMA SeqIsFunction ==
    ASSUME NEW S, NEW s \in Seq(S)
    PROVE  s = [i \in 1 .. Len(s) |-> s[i]]
OBVIOUS

LEMMA OneAndThree ==
    ASSUME NEW s, NEW a, NEW b, NEW c
    PROVE  <<s>> \o <<a, b, c>> = <<s, a, b, c>>
<1> DEFINE S == {s, a, b, c}
           u == <<s>>
           v == <<a, b, c>>
           w == u \o v
<1>1. u \in Seq(S) /\ v \in Seq(S) /\ Len(u) = 1 /\ Len(v) = 3 /\ u[1] = s /\ v[1] = a /\ v[2] = b /\ v[3] = c
  OBVIOUS
<1> HIDE DEF S, u, v
<1>2. Chained(S, u, v, w)
  BY <1>1, ChainedIs, Zenon
<1> HIDE DEF w
<1>3. Len(w) = 4 /\ w[1] = s /\ w[2] = a /\ w[3] = b /\ w[4] = c
  <2>1. 1 + 1 = 2 /\ 1 + 2 = 3 /\ 1 + 3 = 4
    OBVIOUS
  <2>2. 1 \in 1 .. 1 /\ 1 \in 1 .. 3 /\ 2 \in 1 .. 3 /\ 3 \in 1 .. 3
    OBVIOUS
  <2> QED BY <1>1, <1>2, <2>1, <2>2 DEF Chained
<1>4. w = [i \in 1 .. 4 |-> w[i]]
  <2>1. w \in Seq(S) /\ Len(w) = 4
    BY <1>2, <1>3 DEF Chained
  <2> QED BY <2>1, SeqIsFunction
<1>5. <<s, a, b, c>> = [i \in 1 .. 4 |-> <<s, a, b, c>>[i]]
  OBVIOUS
<1>6. \A i \in 1 .. 4 : w[i] = <<s, a, b, c>>[i]
  BY <1>3
<1>7. w = <<s, a, b, c>>
  BY <1>4, <1>5, <1>6
<1> QED BY <1>7 DEF w, u, v

LEMMA MergedIs ==
    ASSUME NEW x, SamplingInput(x)
    PROVE  LET list == EnrichModelPresets(x.m, x.net)
               sources == <<x.m.presets>> \o (IF x.m.embedding THEN <<>> ELSE Sources(x.m, x.net))
               names == UNION {{s[i].name : i \in DOMAIN s} : s \in ToSet(sources)}
           IN  /\ PresetList(list)
               /\ NamesIn(list) = names
               /\ \A y, p : p \in Params => Says(list, y)[p] = FirstSaid(sources, y, p)
<1> DEFINE list == EnrichModelPresets(x.m, x.net)
           own == x.m.presets
           sources == <<own>> \o (IF x.m.embedding THEN <<>> ELSE Sources(x.m, x.net))
           names == UNION {{s[i].name : i \in DOMAIN s} : s \in ToSet(sources)}
<1>1. PresetList(own)
  BY DEF SamplingInput
<1>2. names = UNION {NamesIn(s) : s \in ToSet(sources)}
  BY DEF NamesIn
<1>3. CASE x.m.embedding
  <2>1. list = own
    BY <1>3 DEF EnrichModelPresets
  <2>2. sources = <<own>>
    BY <1>3
  <2> HIDE DEF list, sources, own, names
  <2>3. \A y, p : p \in Params => Says(list, y)[p] = FirstSaid(sources, y, p)
    BY <2>1, <2>2, FirstOfOne, SaysIs
  <2>4. names = NamesIn(list)
    <3>1. DOMAIN <<own>> = {1}
      OBVIOUS
    <3>2. ToSet(<<own>>) = {own}
      BY <3>1 DEF ToSet
    <3> QED BY <1>2, <2>1, <2>2, <3>2
  <2> QED BY <1>1, <2>1, <2>3, <2>4 DEF list, sources, own, names
<1>4. CASE ~x.m.embedding
  <2>1. PICK a, b, c : Sources(x.m, x.net) = <<a, b, c>> /\ PresetList(a) /\ PresetList(b) /\ PresetList(c)
    BY SourcesAre
  <2>2. list = MergePresets(MergePresets(MergePresets(own, a), b), c)
    BY <1>4, <2>1, FetchMerges DEF EnrichModelPresets
  <2>3. sources = <<own, a, b, c>>
    <3>1. sources = <<own>> \o <<a, b, c>>
      BY <1>4, <2>1
    <3> HIDE DEF sources, own
    <3> QED BY <3>1, OneAndThree
  <2> HIDE DEF list, sources, own, names
  <2> DEFINE l1 == MergePresets(own, a)
             l2 == MergePresets(l1, b)
             l3 == MergePresets(l2, c)
  <2>4. /\ PresetList(l1) /\ NamesIn(l1) = NamesIn(own) \union NamesIn(a)
        /\ \A y, q : SaidIn(l1, y, q) = Or(SaidIn(own, y, q), SaidIn(a, y, q))
    BY <1>1, <2>1, MergeSource
  <2> HIDE DEF l1
  <2>5. /\ PresetList(l2) /\ NamesIn(l2) = NamesIn(l1) \union NamesIn(b)
        /\ \A y, q : SaidIn(l2, y, q) = Or(SaidIn(l1, y, q), SaidIn(b, y, q))
    BY <2>1, <2>4, MergeSource
  <2> HIDE DEF l2
  <2>6. /\ PresetList(l3) /\ NamesIn(l3) = NamesIn(l2) \union NamesIn(c)
        /\ \A y, q : SaidIn(l3, y, q) = Or(SaidIn(l2, y, q), SaidIn(c, y, q))
    BY <2>1, <2>5, MergeSource
  <2> HIDE DEF l3
  <2>7. list = l3
    BY <2>2 DEF l1, l2, l3
  <2>8. ASSUME NEW y, NEW p \in Params PROVE Says(list, y)[p] = FirstSaid(sources, y, p)
    <3>1. FirstSaid(sources, y, p)
            = Or(Or(Or(SaidIn(own, y, p), SaidIn(a, y, p)), SaidIn(b, y, p)), SaidIn(c, y, p))
      BY <2>3, FirstOfFour
    <3>2. Says(list, y)[p] = SaidIn(l3, y, p)
      BY <2>7, SaysIs
    <3> QED BY <2>4, <2>5, <2>6, <3>1, <3>2
  <2>9. names = NamesIn(list)
    <3> DEFINE all == <<own, a, b, c>>
    <3>1. DOMAIN all = {1, 2, 3, 4} /\ all[1] = own /\ all[2] = a /\ all[3] = b /\ all[4] = c
      OBVIOUS
    <3> HIDE DEF all
    <3>2. ToSet(all) = {own, a, b, c}
      BY <3>1 DEF ToSet
    <3>3. names = NamesIn(own) \union NamesIn(a) \union NamesIn(b) \union NamesIn(c)
      BY <1>2, <2>3, <3>2 DEF all
    <3> QED BY <2>4, <2>5, <2>6, <2>7, <3>3
  <2> QED BY <2>6, <2>7, <2>8, <2>9 DEF list, sources, own, names
<1> QED BY <1>3, <1>4

LEMMA InputSamplingIsTheirs ==
    ASSUME input # None /\ input.kind = "presets" => SamplingInput(input)
    PROVE  RecommendationsAreTheirs
<1> SUFFICES ASSUME input # None, input.kind = "presets" PROVE RecommendationsAreTheirs
  BY DEF RecommendationsAreTheirs
<1> DEFINE m == input.m
           net == input.net
           list == EnrichModelPresets(m, net)
           sources == <<m.presets>> \o (IF m.embedding THEN <<>> ELSE Sources(m, net))
           names == UNION {{s[i].name : i \in DOMAIN s} : s \in ToSet(sources)}
           docs == FetchUnslothDocs(net, m.repo)
           page == MatchDocsPage(CachedGet(net.index), m.repo)
<1>1. SamplingInput(input)
  OBVIOUS
<1>2. /\ PresetList(list)
      /\ NamesIn(list) = names
      /\ \A y, p : p \in Params => Says(list, y)[p] = FirstSaid(sources, y, p)
  BY <1>1, MergedIs
<1>3. page # 0 =>
        /\ ~OtherVersion(m.repo, CachedGet(net.index)[page])
        /\ \A d \in DOMAIN docs : \A p \in DOMAIN docs[d].fields :
            RecommendedOnPage(CachedGet(net.pages[page]), docs[d].name, p, docs[d].fields[p])
  BY <1>1, DocsAre
<1> HIDE DEF list, sources, names, docs, page
<1>4. {list[i].name : i \in DOMAIN list} = names
  BY <1>2 DEF NamesIn
<1>5. Cardinality({list[i].name : i \in DOMAIN list}) = Len(list)
  BY <1>2, EachThereOnce
<1>6. \A y \in names, p \in Params : Says(list, y)[p] = FirstSaid(sources, y, p)
  BY <1>2
<1>7. \A i \in DOMAIN list : \A p \in DOMAIN list[i].fields : InRange(p, list[i].fields[p])
  BY <1>2 DEF PresetList
<1>8. page # 0 =>
        /\ ~OtherVersion(m.repo, CachedGet(net.index)[page])
        /\ \A d \in ToSet(docs) : \A p \in DOMAIN d.fields :
            RecommendedOnPage(CachedGet(net.pages[page]), d.name, p, d.fields[p])
  BY <1>3 DEF ToSet
<1>9. \A p \in DOMAIN m.chosen : BuildSampling(list, m.chosen)[p] = m.chosen[p]
  BY OverIs DEF BuildSampling
<1> QED BY <1>4, <1>5, <1>6, <1>7, <1>8, <1>9
        DEF RecommendationsAreTheirs, list, sources, names, docs, page

(* What is recommended for a model is, parameter by parameter, what the    *)
(* first of its sources says within the range; each variant is there once, *)
(* nothing the model had is lost, the page is never of another version,    *)
(* and the user's own values win: for any names, pages and tables.         *)
THEOREM SamplingIsTheirs == SetupSpec => []RecommendationsAreTheirs
<1>1. SetupInit => InputKnown
  BY DEF SetupInit, InputKnown
<1>2. InputKnown /\ [SetupNext]_setupVars => InputKnown'
  BY InputsStayKnown
<1>3. InputKnown => RecommendationsAreTheirs
  <2>1. InputKnown => (input # None /\ input.kind = "presets" => SamplingInput(input))
    BY InputsAssumption DEF InputKnown
  <2> QED BY <2>1, InputSamplingIsTheirs
<1> QED BY <1>1, <1>2, <1>3, PTL DEF SetupSpec
=============================================================================
