--------------------------- MODULE RouterManager ---------------------------
(***************************************************************************)
(* internal/process/manager.go: the lifecycle of the llama-server router   *)
(* child process.  A Manager is one mutex-protected record that is touched *)
(* by four kinds of goroutine:                                             *)
(*   - the callers of Start, Stop, Restart and CheckHealth (HTTP handlers, *)
(*     the benchmark job, server shutdown),                                *)
(*   - one monitorProcess per launched process,                            *)
(*   - one pollHealth per launched process,                                *)
(*   - the processes themselves, which boot, serve the port and exit.      *)
(* Every action below is one critical section of the mutex, or one step    *)
(* the goroutine takes between two of them.                                *)
(***************************************************************************)
EXTENDS Naturals, FiniteSets

CONSTANTS
    Callers,        \* goroutines that call the Manager's methods
    MaxProcs,       \* bound: how many processes may ever be launched
    Scenarios       \* what a behaviour may meet: calls that "overlap", and a
                    \* router too "slow" for the 5 minutes of a poller

ASSUME MaxProcsAssumption == MaxProcs \in Nat \ {0}
ASSUME ScenariosAssumption == Scenarios \subseteq SUBSET {"overlap", "slow"}

Procs == 1 .. MaxProcs
NoCmd == 0           \* a nil *exec.Cmd

VARIABLES
    state,     \* m.status.State
    healthOK,  \* m.status.HealthOK
    cmd,       \* m.cmd; m.config and m.cancel are set and cleared with it
    spawned,   \* processes launched so far; process p is the p-th
    proc,      \* what the operating system knows of each process
    done,      \* the channel monitorProcess closes: TRUE once closed
    monitor,   \* where each monitorProcess goroutine is
    poller,    \* where each pollHealth goroutine is
    expired,   \* has the poller's 5 minute deadline passed?
    pc,        \* where each caller is
    target,    \* the process a caller's Stop captured under the lock
    relaunch,  \* is the caller's Stop the first half of Restart?
    ops        \* the scenario: chosen at the start, then constant

statusVars == <<state, healthOK>>
procVars == <<spawned, proc, done, monitor, poller, expired>>
callerVars == <<pc, target, relaunch>>
vars == <<state, healthOK, cmd, spawned, proc, done, monitor, poller, expired,
          pc, target, relaunch>>

States == {"stopped", "starting", "running", "failed"}
ProcStates == {"unused", "booting", "serving", "exitedOK", "exitedErr"}
PollerPCs == {"none", "sleep", "get", "got", "end"}
MonitorPCs == {"none", "wait", "lock", "end"}
CallerPCs == {"idle", "wait", "final", "restop", "relaunch",
              "healthy", "unhealthy"}

Alive(p) == proc[p] \in {"booting", "serving"}
Exited(p) == proc[p] \in {"exitedOK", "exitedErr"}
Serving == \E p \in Procs : proc[p] = "serving"

TypeOK ==
    /\ state \in States
    /\ healthOK \in BOOLEAN
    /\ cmd \in Procs \cup {NoCmd}
    /\ spawned \in 0 .. MaxProcs
    /\ proc \in [Procs -> ProcStates]
    /\ done \in [Procs -> BOOLEAN]
    /\ monitor \in [Procs -> MonitorPCs]
    /\ poller \in [Procs -> PollerPCs]
    /\ expired \in [Procs -> BOOLEAN]
    /\ pc \in [Callers -> CallerPCs]
    /\ target \in [Callers -> Procs \cup {NoCmd}]
    /\ relaunch \in [Callers -> BOOLEAN]

Init ==
    /\ state = "stopped"
    /\ healthOK = FALSE
    /\ cmd = NoCmd
    /\ spawned = 0
    /\ proc = [p \in Procs |-> "unused"]
    /\ done = [p \in Procs |-> FALSE]
    /\ monitor = [p \in Procs |-> "none"]
    /\ poller = [p \in Procs |-> "none"]
    /\ expired = [p \in Procs |-> FALSE]
    /\ pc = [c \in Callers |-> "idle"]
    /\ target = [c \in Callers |-> NoCmd]
    /\ relaunch = [c \in Callers |-> FALSE]
    /\ ops \in Scenarios

----------------------------------------------------------------------------
(* Start: one critical section from the state check to the two go          *)
(* statements.  It refuses while a router is starting or running, and an   *)
(* exec failure leaves the Manager as it was: both return an error and     *)
(* change nothing, so only the launch changes state.                       *)

(* A caller makes one call at a time; without overlap, so do all of them.  *)
MayCall(c) ==
    /\ pc[c] = "idle"
    /\ "overlap" \in ops \/ \A d \in Callers : pc[d] = "idle"

(* mutant: forgets that a router may still be starting *)
MayStartWhileStarting == state # "running"

MayStart == state \notin {"running", "starting"}

Launch ==
    LET p == spawned + 1
    IN  /\ spawned < MaxProcs
        /\ spawned' = p
        /\ cmd' = p
        /\ state' = "starting"
        /\ healthOK' = FALSE
        /\ proc' = [proc EXCEPT ![p] = "booting"]
        /\ monitor' = [monitor EXCEPT ![p] = "wait"]
        /\ poller' = [poller EXCEPT ![p] = "sleep"]
        /\ UNCHANGED <<done, expired>>

Start(c) ==
    /\ MayCall(c)
    /\ MayStart
    /\ Launch
    /\ UNCHANGED callerVars

(* Stop, first section: capture cmd and done, unlock, send SIGTERM.  The   *)
(* signal only lets the process exit, which Exit allows at any time.       *)
CaptureForStop(c, again) ==
    /\ cmd # NoCmd
    /\ target' = [target EXCEPT ![c] = cmd]
    /\ pc' = [pc EXCEPT ![c] = "wait"]
    /\ relaunch' = [relaunch EXCEPT ![c] = again]
    /\ UNCHANGED <<statusVars, cmd, procVars>>

StopBegin(c) ==
    /\ MayCall(c)
    /\ CaptureForStop(c, FALSE)

(* mutant: returns on SIGTERM without waiting for done *)
StopWithoutDone(c) ==
    /\ pc[c] = "wait"
    /\ pc' = [pc EXCEPT ![c] = "final"]
    /\ UNCHANGED <<statusVars, cmd, procVars, target, relaunch>>

(* <-done: the captured process was reaped, then cancel().                 *)
StopWait(c) ==
    /\ pc[c] = "wait"
    /\ done[target[c]]
    /\ pc' = [pc EXCEPT ![c] = "final"]
    /\ UNCHANGED <<statusVars, cmd, procVars, target, relaunch>>

(* mutant: logs the 30 second timeout but never kills *)
StopKillForgotten(c) ==
    /\ pc[c] = "wait"
    /\ Alive(target[c])
    /\ UNCHANGED vars

(* 30 seconds passed without done: SIGKILL, and keep waiting.              *)
StopKill(c) ==
    /\ pc[c] = "wait"
    /\ Alive(target[c])
    /\ proc' = [proc EXCEPT ![target[c]] = "exitedErr"]
    /\ UNCHANGED <<statusVars, cmd, spawned, done, monitor, poller, expired,
                   callerVars>>

(* Stop, last section: it does not look at what m.cmd is by now.           *)
StopFinal(c) ==
    /\ pc[c] = "final"
    /\ state' = "stopped"
    /\ healthOK' = FALSE
    /\ cmd' = NoCmd
    /\ pc' = [pc EXCEPT ![c] = IF relaunch[c] THEN "relaunch" ELSE "idle"]
    /\ relaunch' = [relaunch EXCEPT ![c] = FALSE]
    /\ target' = [target EXCEPT ![c] = NoCmd]
    /\ UNCHANGED procVars

(* Restart: read the config (nil exactly when cmd is), Stop with its error *)
(* ignored, sleep half a second, Start.                                    *)
RestartRead(c) ==
    /\ MayCall(c)
    /\ cmd # NoCmd
    /\ pc' = [pc EXCEPT ![c] = "restop"]
    /\ UNCHANGED <<statusVars, cmd, procVars, target, relaunch>>

RestartStop(c) ==
    /\ pc[c] = "restop"
    /\ CaptureForStop(c, TRUE)

RestartStopRefused(c) ==
    /\ pc[c] = "restop"
    /\ cmd = NoCmd
    /\ pc' = [pc EXCEPT ![c] = "relaunch"]
    /\ UNCHANGED <<statusVars, cmd, procVars, target, relaunch>>

RestartStart(c) ==
    /\ pc[c] = "relaunch"
    /\ pc' = [pc EXCEPT ![c] = "idle"]
    /\ UNCHANGED <<target, relaunch>>
    /\ \/ MayStart /\ Launch
       \/ UNCHANGED <<statusVars, cmd, procVars>>    \* refused, or exec failed

(* CheckHealth: GET /health without the lock, then store the answer under  *)
(* it.  A refused connection returns without storing anything.             *)
CheckHealthGet(c) ==
    /\ MayCall(c)
    /\ \E p \in Procs :
          /\ Alive(p)
          /\ pc' = [pc EXCEPT ![c] = IF Serving THEN "healthy" ELSE "unhealthy"]
    /\ UNCHANGED <<statusVars, cmd, procVars, target, relaunch>>

CheckHealthSet(c) ==
    /\ pc[c] \in {"healthy", "unhealthy"}
    /\ healthOK' = (pc[c] = "healthy")
    /\ pc' = [pc EXCEPT ![c] = "idle"]
    /\ UNCHANGED <<state, cmd, procVars, target, relaunch>>

----------------------------------------------------------------------------
(* monitorProcess *)

MonitorWait(p) ==
    /\ monitor[p] = "wait"
    /\ Exited(p)
    /\ done' = [done EXCEPT ![p] = TRUE]
    /\ monitor' = [monitor EXCEPT ![p] = "lock"]
    /\ UNCHANGED <<statusVars, cmd, spawned, proc, poller, expired, callerVars>>

(* An exit is reported only by the monitor of the current command.         *)
MonitorReport(p) ==
    /\ monitor[p] = "lock"
    /\ monitor' = [monitor EXCEPT ![p] = "end"]
    /\ IF cmd = p
       THEN /\ state' = IF proc[p] = "exitedErr" THEN "failed" ELSE "stopped"
            /\ healthOK' = FALSE
       ELSE UNCHANGED statusVars
    /\ UNCHANGED <<cmd, spawned, proc, done, poller, expired, callerVars>>

----------------------------------------------------------------------------
(* pollHealth.  Nothing ties a poller to the process it was started for:   *)
(* it reads the shared status, and its GET is answered by whatever         *)
(* process serves the port.                                                *)

PollCheck(p) ==
    /\ poller[p] = "sleep"
    /\ ~expired[p]
    /\ poller' = [poller EXCEPT ![p] =
                     IF state \in {"starting", "running"} THEN "get" ELSE "end"]
    /\ UNCHANGED <<statusVars, cmd, spawned, proc, done, monitor, expired,
                   callerVars>>

PollGet(p) ==
    /\ poller[p] = "get"
    /\ poller' = [poller EXCEPT ![p] = IF Serving THEN "got" ELSE "sleep"]
    /\ UNCHANGED <<statusVars, cmd, spawned, proc, done, monitor, expired,
                   callerVars>>

(* mutant: records the health but not the state *)
PollSetHealthOnly(p) ==
    /\ poller[p] = "got"
    /\ healthOK' = TRUE
    /\ poller' = [poller EXCEPT ![p] = "end"]
    /\ UNCHANGED <<state, cmd, spawned, proc, done, monitor, expired, callerVars>>

PollSet(p) ==
    /\ poller[p] = "got"
    /\ state' = "running"
    /\ healthOK' = TRUE
    /\ poller' = [poller EXCEPT ![p] = "end"]
    /\ UNCHANGED <<cmd, spawned, proc, done, monitor, expired, callerVars>>

(* mutant: stops polling at the deadline without failing the start *)
PollGiveUpSilently(p) ==
    /\ poller[p] = "sleep"
    /\ expired[p]
    /\ poller' = [poller EXCEPT ![p] = "end"]
    /\ UNCHANGED <<statusVars, cmd, spawned, proc, done, monitor, expired,
                   callerVars>>

PollGiveUp(p) ==
    /\ poller[p] = "sleep"
    /\ expired[p]
    /\ state' = IF state = "starting" THEN "failed" ELSE state
    /\ poller' = [poller EXCEPT ![p] = "end"]
    /\ UNCHANGED <<healthOK, cmd, spawned, proc, done, monitor, expired,
                   callerVars>>

(* Five minutes pass.                                                      *)
PollDeadline(p) ==
    /\ "slow" \in ops
    /\ poller[p] \in {"sleep", "get"}
    /\ ~expired[p]
    /\ expired' = [expired EXCEPT ![p] = TRUE]
    /\ UNCHANGED <<statusVars, cmd, spawned, proc, done, monitor, poller,
                   callerVars>>

----------------------------------------------------------------------------
(* The child process: llama-server binds the port and answers /health      *)
(* with 200, which only one process can do at a time, and may exit on its  *)
(* own, crash, or obey a signal at any moment.                             *)

Serve(p) ==
    /\ proc[p] = "booting"
    /\ ~Serving
    /\ proc' = [proc EXCEPT ![p] = "serving"]
    /\ UNCHANGED <<statusVars, cmd, spawned, done, monitor, poller, expired,
                   callerVars>>

Exit(p) ==
    /\ Alive(p)
    /\ \E how \in {"exitedOK", "exitedErr"} : proc' = [proc EXCEPT ![p] = how]
    /\ UNCHANGED <<statusVars, cmd, spawned, done, monitor, poller, expired,
                   callerVars>>

----------------------------------------------------------------------------
CallerNext(c) ==
    \/ Start(c) \/ StopBegin(c) \/ StopWait(c) \/ StopKill(c) \/ StopFinal(c)
    \/ RestartRead(c) \/ RestartStop(c) \/ RestartStopRefused(c)
    \/ RestartStart(c) \/ CheckHealthGet(c) \/ CheckHealthSet(c)

ProcNext(p) ==
    \/ MonitorWait(p) \/ MonitorReport(p)
    \/ PollCheck(p) \/ PollGet(p) \/ PollSet(p) \/ PollGiveUp(p)
    \/ PollDeadline(p) \/ Serve(p) \/ Exit(p)

Step ==
    \/ \E c \in Callers : CallerNext(c)
    \/ \E p \in Procs : ProcNext(p)

Next == Step /\ UNCHANGED ops

(* Goroutines are scheduled and timers fire.  Nothing forces a caller to   *)
(* call, nor the child to boot or to exit by itself.                       *)
Fairness ==
    /\ \A c \in Callers : WF_vars(StopWait(c)) /\ WF_vars(StopKill(c))
                          /\ WF_vars(StopFinal(c)) /\ WF_vars(RestartStart(c))
    /\ \A p \in Procs : WF_vars(MonitorWait(p)) /\ WF_vars(MonitorReport(p))
                        /\ WF_vars(PollCheck(p)) /\ WF_vars(PollGet(p))
                        /\ WF_vars(PollSet(p)) /\ WF_vars(PollGiveUp(p))
                        /\ WF_vars(PollDeadline(p))

Spec == Init /\ [][Next]_<<vars, ops>>
FairSpec == Spec /\ Fairness

----------------------------------------------------------------------------
(* Safety *)

(* Stop reports success only after the very process it captured is gone,   *)
(* whatever the other callers did meanwhile (Stop waits on the captured    *)
(* done channel, not on shared state): a caller about to finish its Stop   *)
(* holds a dead process, so the memory it held is free.                    *)
StopSawExit == \A c \in Callers : pc[c] = "final" => Exited(target[c])

(* A router shown as starting always has a poller that will still resolve  *)
(* it: pollers of older processes, late monitors and stops from several    *)
(* callers never leave "starting" with nobody to end it (pollHealth exits  *)
(* on a status it does not like, and Start creates the next one).          *)
StartingIsWatched ==
    state = "starting" => /\ spawned > 0
                          /\ poller[spawned] \in {"sleep", "get", "got"}

(* manager.go:66 "Manager manages a single llama-server router process".   *)
SingleProcess == Cardinality({p \in Procs : Alive(p)}) <= 1

(* With calls one after the other and routers that answer or exit within   *)
(* five minutes the promise holds: Start, Stop, Restart, exits and late    *)
(* monitors and pollers never leave a process behind.                      *)
SingleWhenOrderly == ops = {} => SingleProcess

(* A live current process is not shown as stopped or failed, unless it was *)
(* too slow for its poller: the exit of a process that was replaced is not *)
(* reported against its successor (monitorProcess compares m.cmd with the  *)
(* command it waited for).                                                 *)
LiveIsShownLive ==
    ops = {} /\ cmd # NoCmd /\ Alive(cmd) => state \in {"starting", "running"}

(* Liveness: every Stop returns, even when the child ignores SIGTERM.      *)
StopReturns == \A c \in Callers : pc[c] = "wait" ~> pc[c] \notin {"wait", "final"}

(* Liveness: a router does not stay in "starting" for ever, even one that  *)
(* never answers and never exits.                                          *)
StartingResolves == state = "starting" /\ "slow" \in ops ~> state # "starting"

(* Liveness: what is under way ends, a Stop and a start alike.             *)
RouterSettles == StopReturns /\ StartingResolves

(* With calls one after the other and routers that answer or exit in time, *)
(* there is one process, and it is shown as what it is.                    *)
OrderlyUseIsSound == SingleWhenOrderly /\ LiveIsShownLive
============================================================================
