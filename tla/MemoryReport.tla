---------------------------- MODULE MemoryReport ----------------------------
(***************************************************************************)
(* What a model load really took (internal/memreport/collector.go and      *)
(* internal/api/memory_measured.go).  One goroutine reads the router's     *)
(* combined log: a spawn line opens a record for a port, the buffer lines  *)
(* that carry the port go to it, and a ready line closes it.  The record's *)
(* note holds the configuration of the load and what the cards reported    *)
(* before it and after it, the second read by a goroutine that waits for   *)
(* what the monitor delivers next.  The monitor reads the cards without    *)
(* its lock and delivers later: a reading may be older than the wait.      *)
(*                                                                         *)
(* The router, its instances and the cards are external.  A load is a      *)
(* number, in the order of the spawns; a buffer report and a card reading  *)
(* are sets of loads: whose memory they count.                             *)
(*                                                                         *)
(* The steps between the exec of the router and the snapshot of the        *)
(* launched configs are one step: llama-server takes longer to come up     *)
(* than they do.  So are the recorder's read and write of a note.          *)
(***************************************************************************)
EXTENDS Naturals, Sequences, FiniteSets

CONSTANTS
    Served,
    Ports,
    Launchable,    \* launch configs, as far as they change the memory taken
    Nothing,
    MaxLoads,   \* bound: loads in a behaviour
    MaxTurns,   \* bound: starts of the router, edits of a config and models sent to sleep
    LogCap      \* lines a slow subscriber may be behind before it loses some

Loads == 1 .. MaxLoads
Load == [model : Served, port : Ports, cfg : Launchable,
         stage : {"spawned", "filled", "ready", "asleep", "gone"}, slept : BOOLEAN]
Note == [model : Served \union {Nothing}, cfg : Launchable \union {Nothing},
         loaded : (SUBSET Loads) \union {Nothing}, contended : BOOLEAN]
Measured == [ready : BOOLEAN, note : Note, buffers : SUBSET Loads]

ASSUME MemoryAssumption ==
    /\ IsFiniteSet(Ports)
    /\ MaxLoads \in Nat /\ MaxTurns \in Nat /\ LogCap \in Nat \ {0}
ASSUME NothingAssumption ==
    /\ Nothing \notin Served \union Launchable \union [Served -> Launchable] \union Measured
    /\ \A S \in SUBSET Loads : S # Nothing

\* Launchable a job starts the router on, or the user has saved at the start.
Uniform == {[m \in Served |-> c] : c \in Launchable}

VARIABLES
    saved,      \* the registry's configs
    running,    \* runningConfigs: what the router was launched on, or Nothing
    turns,      \* starts, edits and sleeps
    load,       \* the instances, a sequence
    used,       \* the loads whose memory the cards hold
    log,        \* lines published and not yet read by watchRouterMemory
    lost,       \* history: loads whose spawn line was dropped
    rec,        \* the collector's Measurements, by load
    byPort, byModel,
    spawned,    \* the load whose note the watcher is about to write, or 0
    recorders,  \* goroutines of recordCardCounters
    sample,     \* the reading the monitor is about to deliver, or Nothing
    midway      \* history: loads whose recorder came upon a reading from before them

routerVars    == <<saved, running, turns, load, used>>
logVars       == <<log, lost>>
collectorVars == <<rec, byPort, byModel>>
watchVars     == <<spawned, recorders, sample, midway>>
reportVars == <<routerVars, logVars, collectorVars, watchVars>>

NoNote == [model |-> Nothing, cfg |-> Nothing, loaded |-> Nothing, contended |-> FALSE]

ReportInit ==
    /\ saved \in Uniform /\ running = Nothing /\ turns = 0
    /\ load = <<>> /\ used = {}
    /\ log = <<>> /\ lost = {}
    /\ rec = [l \in Loads |-> Nothing]
    /\ byPort = [p \in Ports |-> 0] /\ byModel = [m \in Served |-> 0]
    /\ spawned = 0 /\ recorders = {} /\ sample = Nothing /\ midway = {}

-----------------------------------------------------------------------------
\* The router and its instances.
Spawned == 1 .. Len(load)
Live(l) == load[l].stage # "gone"

\* The broadcaster drops a line for a subscriber whose buffer is full.
Publish(kind, l) ==
    IF Len(log) < LogCap
    THEN log' = Append(log, [kind |-> kind, load |-> l]) /\ UNCHANGED lost
    ELSE log' = log /\ lost' = IF kind = "spawn" THEN lost \union {l} ELSE lost

\* A job's start substitutes configs of its own; the user's uses what is saved.
\* The mapping of ports is dropped before the router runs.
Reset == byPort' = [p \in Ports |-> 0]

StartRouter ==
    /\ running = Nothing /\ turns < MaxTurns /\ turns' = turns + 1
    /\ \E s \in {saved} \union Uniform : running' = s
    /\ Reset
    /\ UNCHANGED <<saved, load, used, logVars, rec, byModel, watchVars>>

StopRouter ==
    /\ running # Nothing /\ running' = Nothing
    /\ load' = [l \in Spawned |-> [load[l] EXCEPT !.stage = "gone"]]
    /\ used' = {}
    /\ UNCHANGED <<saved, turns, logVars, collectorVars, watchVars>>

\* An edit is saved and reaches the router only with its next start.
Edit(m) ==
    /\ turns < MaxTurns /\ turns' = turns + 1
    /\ \E c \in Launchable \ {saved[m]} : saved' = [saved EXCEPT ![m] = c]
    /\ UNCHANGED <<running, load, used, logVars, collectorVars, watchVars>>

Spawn(m, p) ==
    /\ running # Nothing /\ Len(load) < MaxLoads
    /\ \A l \in Spawned : Live(l) => load[l].model # m /\ load[l].port # p
    /\ load' = Append(load, [model |-> m, port |-> p, cfg |-> running[m],
                             stage |-> "spawned", slept |-> FALSE])
    /\ Publish("spawn", Len(load) + 1)
    /\ UNCHANGED <<saved, running, turns, used, collectorVars, watchVars>>

\* llama-server claims the memory and prints what it claimed.
Fill(l) ==
    /\ load[l].stage = "spawned"
    /\ load' = [load EXCEPT ![l].stage = "filled"] /\ used' = used \union {l}
    /\ Publish("buffers", l)
    /\ UNCHANGED <<saved, running, turns, collectorVars, watchVars>>

BeReady(l) ==
    /\ load[l].stage = "filled"
    /\ load' = [load EXCEPT ![l].stage = "ready"]
    /\ Publish("ready", l)
    /\ UNCHANGED <<saved, running, turns, used, collectorVars, watchVars>>

\* An idle model gives its memory back, and is ready again without a spawn.
Sleep(l) ==
    /\ load[l].stage = "ready" /\ ~load[l].slept
    /\ turns < MaxTurns /\ turns' = turns + 1
    /\ load' = [load EXCEPT ![l].stage = "asleep", ![l].slept = TRUE]
    /\ used' = used \ {l}
    /\ UNCHANGED <<saved, running, logVars, collectorVars, watchVars>>

Wake(l) ==
    /\ load[l].stage = "asleep"
    /\ load' = [load EXCEPT ![l].stage = "ready"] /\ used' = used \union {l}
    /\ Publish("ready", l)
    /\ UNCHANGED <<saved, running, turns, collectorVars, watchVars>>

Exit(l) ==
    /\ Live(l)
    /\ load' = [load EXCEPT ![l].stage = "gone"] /\ used' = used \ {l}
    /\ UNCHANGED <<saved, running, turns, logVars, collectorVars, watchVars>>

-----------------------------------------------------------------------------
\* watchRouterMemory: one line at a time.
Line == Head(log)
Reading(kind) == log # <<>> /\ spawned = 0 /\ Line.kind = kind /\ log' = Tail(log)

\* Collector.InFlight
InFlight == {p \in Ports : byPort[p] # 0 /\ ~rec[byPort[p]].ready}

\* Add of a spawn line: a fresh record, for the port and for the model.
Attributed(p, l) == [byPort EXCEPT ![p] = l]

\* A bug: the recorder is started with the load.
AddSpawnRecords ==
    /\ Reading("spawn")
    /\ LET l == Line.load
       IN  /\ rec' = [rec EXCEPT ![l] = [ready |-> FALSE, note |-> NoNote, buffers |-> {}]]
           /\ byPort' = Attributed(load[l].port, l)
           /\ byModel' = [byModel EXCEPT ![load[l].model] = l]
           /\ spawned' = l
           /\ recorders' = recorders \union {[model |-> load[l].model, port |-> load[l].port,
                                              pc |-> "wait", seen |-> {}]}
    /\ UNCHANGED <<routerVars, lost, sample, midway>>

AddSpawn ==
    /\ Reading("spawn")
    /\ LET l == Line.load
       IN  /\ rec' = [rec EXCEPT ![l] = [ready |-> FALSE, note |-> NoNote, buffers |-> {}]]
           /\ byPort' = Attributed(load[l].port, l)
           /\ byModel' = [byModel EXCEPT ![load[l].model] = l]
           /\ spawned' = l
    /\ UNCHANGED <<routerVars, lost, recorders, sample, midway>>

\* loadNoteFor: the snapshot of the start, or what is saved when there is none.
\* A bug: the note is made of what is saved now.
LaunchConfigSaved(m) == saved[m]
LaunchConfig(m) == IF running # Nothing THEN running[m] ELSE saved[m]

Contended == Cardinality(InFlight) > 1

\* A note goes to the load that holds the port, if one does.
Annotate(p, note) ==
    IF byPort[p] = 0 THEN UNCHANGED rec
    ELSE rec' = [rec EXCEPT ![byPort[p]].note = note]

NoteSpawn ==
    /\ spawned # 0 /\ spawned' = 0
    /\ LET m == load[spawned].model
       IN  Annotate(load[spawned].port,
                    [model |-> m, cfg |-> LaunchConfig(m), loaded |-> Nothing, contended |-> Contended])
    /\ UNCHANGED <<routerVars, logVars, byPort, byModel, recorders, sample, midway>>

\* A buffer line goes to whatever record its port has.
AddBuffers ==
    /\ Reading("buffers")
    /\ LET r == byPort[load[Line.load].port]
       IN  rec' = IF r = 0 THEN rec ELSE [rec EXCEPT ![r].buffers = @ \union {Line.load}]
    /\ UNCHANGED <<routerVars, lost, byPort, byModel, watchVars>>

\* The first ready line stands; each one starts a recorder, which subscribes to
\* the monitor.
AddReady ==
    /\ Reading("ready")
    /\ LET p == load[Line.load].port r == byPort[p]
       IN  IF r = 0 THEN UNCHANGED <<rec, recorders, midway>>
           ELSE /\ rec' = [rec EXCEPT ![r].ready = TRUE]
                /\ recorders' = recorders \union
                     {[model |-> load[r].model, port |-> p, pc |-> "wait", seen |-> {}]}
                /\ midway' = midway \union {l \in {r} : sample # Nothing /\ l \notin sample}
    /\ UNCHANGED <<routerVars, lost, byPort, byModel, spawned, sample>>

-----------------------------------------------------------------------------
\* Monitor.collect reads the cards without the lock, which takes a while ...
Collect ==
    /\ sample = Nothing /\ sample' = used
    /\ UNCHANGED <<routerVars, logVars, collectorVars, spawned, recorders, midway>>

\* ... and then, under it, gives the reading to everyone who waits by now.
Delivered(g) == [g EXCEPT !.pc = "got", !.seen = sample]

Deliver ==
    /\ sample # Nothing /\ sample' = Nothing
    /\ recorders' = {IF g.pc = "wait" THEN Delivered(g) ELSE g : g \in recorders}
    /\ UNCHANGED <<routerVars, logVars, collectorVars, spawned, midway>>

\* recordCardCounters: for the load the model has now, if it is on this port.
RecordCounters(g) ==
    /\ g.pc = "got" /\ recorders' = recorders \ {g}
    /\ LET r == byModel[g.model]
       IN  IF r = 0 \/ load[r].port # g.port THEN UNCHANGED rec
           ELSE Annotate(g.port, [rec[r].note EXCEPT !.loaded = g.seen,
                                                     !.contended = @ \/ InFlight # {}])
    /\ UNCHANGED <<routerVars, logVars, byPort, byModel, spawned, sample, midway>>

\* No sample within monitorSampleWait.
GiveUp(g) ==
    /\ g.pc = "wait" /\ recorders' = recorders \ {g}
    /\ UNCHANGED <<routerVars, logVars, collectorVars, spawned, sample, midway>>

ReportNext ==
    \/ StartRouter \/ StopRouter
    \/ \E m \in Served : Edit(m)
    \/ \E m \in Served, p \in Ports : Spawn(m, p)
    \/ \E l \in Spawned : Fill(l) \/ BeReady(l) \/ Sleep(l) \/ Wake(l) \/ Exit(l)
    \/ AddSpawn \/ NoteSpawn \/ AddBuffers \/ AddReady
    \/ Collect \/ Deliver
    \/ \E g \in recorders : RecordCounters(g) \/ GiveUp(g)

ReportSpec == ReportInit /\ [][ReportNext]_reportVars

-----------------------------------------------------------------------------
\* measurementFor: the last load of the model, unless its note is another's.
HasNote(l) == rec[l] # Nothing /\ rec[l].note.model # Nothing
Measurement(m) ==
    IF byModel[m] = 0 \/ rec[byModel[m]].note.model \notin {Nothing, m} THEN 0 ELSE byModel[m]

\* memoryTooltip: nothing measured, measured, or measured under other settings.
Tooltip(m) ==
    LET l == Measurement(m)
    IN  IF l = 0 \/ rec[l].buffers = {} THEN "unmeasured"
        ELSE IF rec[l].note.cfg \in {Nothing, saved[m]} THEN "measured" ELSE "outdated"

FirstOnPort(l) == \A k \in 1 .. l - 1 : load[k].port # load[l].port

\* The memory a page reports for a load is that load's own: buffer lines carry
\* nothing but a port, and ports are reused.  Only a load whose spawn line the
\* watcher lost can have its buffers put on another.
BuffersAreTheirOwn ==
    \A l \in Loads : rec[l] # Nothing => rec[l].buffers \ lost \subseteq {l}

\* A page says that a figure is of the settings that are saved exactly when the
\* instance was launched with them, through edits, a job's substitutes and
\* restarts.  (On a port that had another load, that load's recorder may write
\* its note here.)
TooltipIsOfTheLaunch ==
    \A m \in Served :
        LET l == Measurement(m)
        IN  l # 0 /\ Live(l) /\ FirstOnPort(l) /\ Tooltip(m) # "unmeasured" =>
            (Tooltip(m) = "measured" <=> load[l].cfg = saved[m])

\* The reading after a load is one that includes it: the monitor's last one may
\* be from the middle of it, so the recorder waits for the next.  The exception
\* is a recorder that came while the monitor was delivering a reading it had
\* begun before the load took its memory.
Includes(l) ==
    load[l].stage = "ready" /\ ~load[l].slept /\ FirstOnPort(l) /\ HasNote(l) =>
    rec[l].note.loaded = Nothing \/ l \in rec[l].note.loaded
ReadingIncludesLoad == \A l \in Spawned \ midway : Includes(l)

\* A load that starts while another record is open is marked: its card
\* difference counts both.
LateSpawnIsMarked ==
    \A l, k \in Loads :
        /\ HasNote(l) /\ rec[k] # Nothing /\ k < l /\ spawned = 0
        /\ byPort[load[l].port] = l /\ byPort[load[k].port] = k
        /\ ~rec[k].ready
        => rec[l].note.contended

\* What a page says of the memory of a model is said of the load it shows.
ReportIsOfTheLoad == BuffersAreTheirOwn /\ TooltipIsOfTheLaunch

\* The difference on the card is of this load: the reading after it includes it,
\* if the monitor was not in the middle of one, and a second load in between is
\* not passed over.
CardReadingIsOfTheLoad == ReadingIncludesLoad /\ LateSpawnIsMarked
=============================================================================
