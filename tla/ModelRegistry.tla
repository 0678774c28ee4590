--------------------------- MODULE ModelRegistry ---------------------------
(***************************************************************************)
(* The registry of local models (internal/models/registry.go, pending.go)  *)
(* and the handlers that change it: edits and toggles of a launch config,  *)
(* scans, finished downloads, deletions, and the model section of a        *)
(* restore; with the preset the router is started on and the "needs        *)
(* reload" marks (internal/api/service.go).                                *)
(*                                                                         *)
(* The registry's lock covers one call.  A handler makes several: it       *)
(* changes the registry, renders the preset from a copy, writes the file,  *)
(* marks the model, and others run in between.  GetConfig hands out the    *)
(* registry's own struct, so a handler that writes into it has changed the *)
(* registry before anything is validated or saved, and a page that shows   *)
(* an old GPU assignment migrates it there without any save.  When the     *)
(* struct is replaced meanwhile (a restore, a claim, a removal), the       *)
(* handler is left with the old one, and SetConfig puts it back.           *)
(*                                                                         *)
(* A config is its value (v), whether it is enabled (on) and whether it    *)
(* names the vision projector (mm).  A crash may tear models.json, which   *)
(* is written in place.                                                    *)
(***************************************************************************)
EXTENDS Naturals, FiniteSets, Functions

CONSTANTS
    Ids,        \* registry ids; two of an old version may share a file
    Files,      \* model files (a first shard) under the models directory
    Idents,     \* (model id, quant) pairs: what a backup identifies by
    PathOf,     \* [Ids -> Files]
    IdOf,       \* [Files -> Ids]: the id a download or a scan gives a file
    IdentOf,    \* [Ids -> Idents]
    Actors,     \* requests and callbacks in flight at once
    MaxOps      \* bound: operations begun in a behaviour

ASSUME RegistryAssumption ==
    /\ PathOf \in [Ids -> Files]
    /\ IdOf \in [Files -> Ids]
    /\ \A f \in Files : PathOf[IdOf[f]] = f
    /\ IdentOf \in [Ids -> Idents]

VARIABLES
    up,         \* the toolchest is running
    config,     \* Models and Configs: registered id -> launch config
    pending,    \* PendingConfigs: identity -> config
    file,       \* models.json as a start reads it: [config, pending]
    disk,       \* the model files present
    projector,  \* an mmproj file lies beside them
    held,       \* handler -> the struct it got of GetConfig, once that is replaced
    preset,     \* preset.ini: id of an enabled model -> config
    launched,   \* what llama-server was launched on and whether it is running, or Off
    dirty,      \* dirtyModels
    act,        \* act[a]: what a is in the middle of
    ops,        \* operations begun
    rejected,   \* history: ids holding an edit that was answered 400
    unseen,     \* history: ids changed where the reload mark is not set or is cleared
    owed,       \* history: identity -> config restored and not yet attached
    detached    \* history: ids whose projector a form or a restore took away

regVars == <<config, pending, file, held>>
launchVars == <<preset, launched, dirty>>
diskVars == <<disk, projector>>
histVars == <<rejected, unseen, owed, detached>>
registryVars == <<up, regVars, launchVars, diskVars, act, ops, histVars>>

Values == {"default", "legacy", "migrated", "edited", "restored"}
Config == [v : Values, on : BOOLEAN, mm : BOOLEAN]
IsPartial(f, S) == DOMAIN f \subseteq S /\ f \in [DOMAIN f -> Config]
Off  == [on |-> FALSE, ready |-> FALSE, cfg |-> <<>>]
None == <<>>
Idle == [pc |-> "idle"]
Default == [v |-> "default", on |-> TRUE, mm |-> FALSE]

\* migrateGPUAssign: an assignment of an older version, in today's words.
Migrated(c) == IF c.v = "legacy" THEN [c EXCEPT !.v = "migrated"] ELSE c

Registered == DOMAIN config
Without(f, S) == Restrict(f, DOMAIN f \ S)
With(f, k, c) == [x \in DOMAIN f \union {k} |-> IF x = k THEN c ELSE f[x]]

\* load ignores a file it cannot decode: a torn models.json reads as empty.
Torn == [config |-> None, pending |-> None]

\* save, called under the lock by every method that changes the registry: all
\* of it is written, an edit that was rejected included.
Save == file' = [config |-> config', pending |-> pending']
SaveAll == Save /\ rejected' = {}

\* ResolveConfigPaths: a path whose file is not here is blanked.
ResolveConfigPaths(c) == [c EXCEPT !.mm = @ /\ projector]

\* AutoDetectMMProj: configs with no projector get the one that is there.
Detected(c) == [id \in DOMAIN c |-> [c[id] EXCEPT !.mm = @ \/ projector]]
\* A bug: what is detected is not saved.
DetectUnsaved == config' = Detected(config) /\ UNCHANGED <<pending, file, rejected>>

AutoDetectMMProj ==
    /\ config' = Detected(config) /\ pending' = pending
    /\ IF config' # config THEN SaveAll ELSE UNCHANGED <<file, rejected>>

\* claimPendingLocked: a config held for this identity becomes the model's.
Claims(id) == IdentOf[id] \in DOMAIN pending
Claimed(id) == ResolveConfigPaths(pending[IdentOf[id]])

\* A bug: the claim drops every waiting config.
AddClearsPending(id) ==
    /\ config' = With(config, id, IF Claims(id) THEN Claimed(id)
                                 ELSE IF id \in Registered THEN config[id] ELSE Default)
    /\ pending' = IF Claims(id) THEN None ELSE pending
    /\ owed' = Without(owed, {IdentOf[id]} \cap DOMAIN pending)
    /\ unseen' = unseen \union {id}
    /\ SaveAll

\* Add: a claim first, then the default for a model that has no config.
Add(id) ==
    /\ config' = With(config, id, IF Claims(id) THEN Claimed(id)
                                 ELSE IF id \in Registered THEN config[id] ELSE Default)
    /\ pending' = Without(pending, {IdentOf[id]})
    /\ owed' = Without(owed, {IdentOf[id]} \cap DOMAIN pending)
    /\ unseen' = unseen \union {id}
    /\ SaveAll

Begin(a, what) == act[a] = Idle /\ up /\ up' = up /\ ops < MaxOps /\ ops' = ops + 1
                  /\ act' = [act EXCEPT ![a] = what]
Go(a, what)    == act' = [act EXCEPT ![a] = what] /\ UNCHANGED <<up, ops>>
At(a, pc)      == act[a].pc = pc

\* Who still uses the struct that GetConfig gave it, and that struct.
Marking(a) == At(a, "mark") \/ (act[a].pc \in {"read", "write"} /\ act[a].mark)
Using(a)   == At(a, "save") \/ Marking(a)
Stored(a)  == IF a \in DOMAIN held THEN held[a] ELSE config[act[a].id]

\* The registry replaces or drops its structs of S: the others that use one
\* keep it (a copy each); a itself is done with its own.
Replace(a, S) ==
    held' = [b \in (DOMAIN held \union
                      {x \in Actors : Using(x) /\ act[x].id \in S \cap Registered}) \ {a} |->
                 Stored(b)]

\* id's config names a projector from now on, or no longer.
Projects(id, mm) ==
    detached' = IF mm THEN detached \ {id}
                ELSE IF config[id].mm THEN detached \union {id} ELSE detached

Starting == \E a \in Actors : act[a].pc \in {"startRead", "startWrite", "launch", "snapshot"}

RegistryInit ==
    /\ up = FALSE
    /\ disk \in SUBSET Files /\ projector = FALSE
    /\ \E S \in SUBSET {id \in Ids : PathOf[id] \in disk} :
         \E old \in SUBSET S :
           file = [config |-> [id \in S |-> IF id \in old THEN [Default EXCEPT !.v = "legacy"]
                                                          ELSE Default],
                   pending |-> None]
    /\ config = None /\ pending = None /\ held = None
    /\ preset = None /\ launched = Off /\ dirty = {}
    /\ act = [a \in Actors |-> Idle] /\ ops = 0
    /\ rejected = {} /\ unseen = {} /\ owed = None /\ detached = {}

\* DeduplicateModels: one id of those that name the same file is kept.
Deduplicated(S) ==
    {K \in SUBSET S : /\ \A i, j \in K : PathOf[i] = PathOf[j] => i = j
                      /\ {PathOf[i] : i \in K} = {PathOf[i] : i \in S}}

\* NewServer: load, deduplicate, scan what is on disk, detect projectors.
Boot ==
    /\ ~up /\ up' = TRUE
    /\ \E K \in Deduplicated(DOMAIN file.config) :
         LET found == {IdOf[f] : f \in disk \ {PathOf[i] : i \in K}}
             claim(id) == IdentOf[id] \in DOMAIN file.pending
             fresh == [id \in found |-> IF claim(id)
                                        THEN ResolveConfigPaths(file.pending[IdentOf[id]])
                                        ELSE Default]
             kept == Restrict(file.config, K)
         IN /\ config' = Detected([id \in K \union found |->
                            IF id \in found THEN fresh[id] ELSE kept[id]])
            /\ pending' = Without(file.pending, {IdentOf[id] : id \in found})
            /\ owed' = Without(owed, {IdentOf[id] : id \in {x \in found : claim(x)}})
    /\ IF <<config', pending'>> # <<file.config, file.pending>> THEN Save ELSE file' = file
    /\ UNCHANGED <<held, launchVars, diskVars, act, ops, rejected, unseen, detached>>

\* The process dies: memory is gone, llama-server with it, and a write of
\* models.json that was under way leaves half a file.
Crash ==
    /\ up /\ up' = FALSE
    /\ ops < MaxOps /\ ops' = ops + 1
    /\ config' = None /\ pending' = None /\ held' = None /\ launched' = Off
    /\ dirty' = {} /\ rejected' = {} /\ unseen' = {} /\ detached' = {}
    /\ \/ UNCHANGED <<file, owed>>
       \/ file' = Torn /\ owed' = None
    /\ act' = [a \in Actors |-> Idle]
    /\ UNCHANGED <<preset, diskVars>>

\* handleGetModelConfig, a page that shows id, after an edit too: an old GPU
\* assignment is migrated in the registry's struct; nothing is saved.
Migrate(id) ==
    /\ id \in Registered /\ config[id].v = "legacy"
    /\ config' = [config EXCEPT ![id] = Migrated(@)]
    /\ unseen' = unseen \union {id}
    /\ UNCHANGED <<up, pending, file, held, launchVars, diskVars, act, ops, rejected, owed,
                   detached>>

\* handleUpdateModelConfig decodes the form or the JSON into the registry's
\* struct.  It names the projector or leaves it blank; without the field it
\* stays as it is.
Edit(a, id, mm) ==
    /\ id \in Registered
    /\ Begin(a, [pc |-> "save", id |-> id, by |-> "edit"])
    /\ config' = [config EXCEPT ![id].v = "edited", ![id].mm = mm]
    /\ Projects(id, mm)
    /\ UNCHANGED <<pending, file, held, launchVars, diskVars, rejected, unseen, owed>>

\* handleModelEnable.
Enable(a, id, on) ==
    /\ id \in Registered
    /\ Begin(a, [pc |-> "save", id |-> id, by |-> "toggle"])
    /\ config' = [config EXCEPT ![id].on = on]
    /\ UNCHANGED <<pending, file, held, launchVars, diskVars, histVars>>

\* SetConfig: the handler's struct is the registry's from now on, and saved.
SetConfig(a) ==
    /\ At(a, "save")
    /\ LET id == act[a].id
           edit == act[a].by = "edit"
           old == a \in DOMAIN held IN
       /\ id \in Registered
       /\ config' = [config EXCEPT ![id] = Stored(a)]
       /\ pending' = pending /\ SaveAll
       /\ Replace(a, IF old THEN {id} ELSE {})
       /\ Projects(id, Stored(a).mm)
       /\ unseen' = IF old /\ ~edit THEN unseen \union {id} ELSE unseen
       /\ Go(a, IF act[a].by = "attach" THEN Idle
                ELSE [pc |-> "read", id |-> id, mark |-> edit])
    /\ UNCHANGED <<launchVars, diskVars, owed>>

\* An edit that does not decode or is not valid (which ones is left open) is
\* answered 400 and stays in the struct, unsaved; a model that is gone has no
\* config to set.
Refuse(a) ==
    /\ At(a, "save")
    /\ LET id == act[a].id
           changed == IF a \in DOMAIN held THEN {} ELSE {id} IN
       /\ act[a].by = "edit" \/ id \notin Registered
       /\ rejected' = rejected \union changed
       /\ unseen' = unseen \union changed
    /\ Replace(a, {})
    /\ Go(a, Idle)
    /\ UNCHANGED <<config, pending, file, launchVars, diskVars, owed, detached>>

\* handleDeleteModel: Registry.Remove keeps the files, Delete removes them.
Unregister(a, id) ==
    /\ id \in Registered
    /\ Begin(a, [pc |-> "read", id |-> id, mark |-> FALSE])
    /\ config' = Without(config, {id})
    /\ pending' = pending /\ SaveAll
    /\ Replace(a, {id})
    /\ UNCHANGED <<launchVars, projector, unseen, owed, detached>>

Remove(a, id) == Unregister(a, id) /\ UNCHANGED disk
Delete(a, id) == Unregister(a, id) /\ disk' = disk \ {PathOf[id]}

\* WritePresetINI: a copy taken under the lock, written without it.
Enabled(c) == Restrict(c, {id \in DOMAIN c : c[id].on})

PresetRead(a) ==
    /\ At(a, "read")
    /\ Go(a, [pc |-> "write", id |-> act[a].id, mark |-> act[a].mark, text |-> Enabled(config)])
    /\ UNCHANGED <<regVars, launchVars, diskVars, histVars>>

PresetWrite(a) ==
    /\ At(a, "write")
    /\ preset' = act[a].text
    /\ Go(a, IF act[a].mark THEN [pc |-> "mark", id |-> act[a].id] ELSE Idle)
    /\ UNCHANGED <<regVars, launched, dirty, diskVars, histVars>>

\* A bug: one model is remembered, the last.
MarkLast(a) ==
    /\ At(a, "mark")
    /\ LET id == act[a].id
           marks == Stored(a).on /\ launched.ready IN
       /\ dirty' = IF marks THEN {id} ELSE dirty
       /\ unseen' = IF marks THEN unseen ELSE unseen \union {id}
    /\ Replace(a, {})
    /\ Go(a, Idle)
    /\ UNCHANGED <<config, pending, file, preset, launched, diskVars, rejected, owed,
                   detached>>

\* The end of handleUpdateModelConfig: an enabled model, of a router that is
\* running; one that is still starting has read its preset all the same.
Mark(a) ==
    /\ At(a, "mark")
    /\ LET id == act[a].id
           marks == Stored(a).on /\ launched.ready IN
       /\ dirty' = IF marks THEN dirty \union {id} ELSE dirty
       /\ unseen' = IF marks THEN unseen ELSE unseen \union {id}
    /\ Replace(a, {})
    /\ Go(a, Idle)
    /\ UNCHANGED <<config, pending, file, preset, launched, diskVars, rejected, owed,
                   detached>>

\* The models that get a projector: the preset they run on has none.
Projected == {id \in Registered : config'[id].mm # config[id].mm}

\* ScanModels: the walk keeps the files no entry names, then adds each.
ScanWalk(a) ==
    /\ Begin(a, [pc |-> "scan", found |-> disk \ {PathOf[id] : id \in Registered},
                 any |-> FALSE])
    /\ UNCHANGED <<regVars, launchVars, diskVars, histVars>>

ScanAdd(a) ==
    /\ At(a, "scan")
    /\ \E f \in act[a].found :
           /\ Add(IdOf[f])
           /\ Replace(a, {id \in {IdOf[f]} : Claims(id)})
           /\ Go(a, [act[a] EXCEPT !.found = @ \ {f}, !.any = TRUE])
    /\ UNCHANGED <<launchVars, diskVars, detached>>

ScanDone(a) ==
    /\ At(a, "scan") /\ act[a].found = {}
    /\ Go(a, Idle)
    /\ IF act[a].any THEN AutoDetectMMProj ELSE UNCHANGED <<config, pending, file, rejected>>
    /\ unseen' = unseen \union Projected
    /\ UNCHANGED <<held, launchVars, diskVars, owed, detached>>

\* A download has put its last file in place; onDownloadComplete follows.
Arrive(a, f) ==
    /\ Begin(a, [pc |-> "register", f |-> f])
    /\ disk' = disk \union {f}
    /\ UNCHANGED <<regVars, launchVars, projector, histVars>>

Register(a) ==
    /\ At(a, "register")
    /\ Add(IdOf[act[a].f])
    /\ Replace(a, {id \in {IdOf[act[a].f]} : Claims(id)})
    /\ Go(a, [pc |-> "attach", f |-> act[a].f])
    /\ UNCHANGED <<launchVars, diskVars, detached>>

\* A bug: a model looks for a projector only when it is already configured.
AttachNever(a) ==
    /\ At(a, "attach")
    /\ Go(a, Idle)
    /\ UNCHANGED <<regVars, launchVars, diskVars, histVars>>

\* FindMMProj beside the new model, set when its config names none; SetConfig
\* follows.
Attach(a) ==
    /\ At(a, "attach")
    /\ LET id == IdOf[act[a].f] IN
       IF projector /\ id \in Registered /\ ~config[id].mm
       THEN /\ config' = [config EXCEPT ![id].mm = TRUE]
            /\ unseen' = unseen \union {id}
            /\ Go(a, [pc |-> "save", id |-> id, by |-> "attach"])
       ELSE UNCHANGED <<config, unseen>> /\ Go(a, Idle)
    /\ UNCHANGED <<pending, file, held, launchVars, diskVars, rejected, owed, detached>>

ArriveProjector(a) ==
    /\ ~projector /\ projector' = TRUE
    /\ Begin(a, [pc |-> "detect"])
    /\ UNCHANGED <<regVars, launchVars, disk, histVars>>

\* onDownloadComplete of a projector: AutoDetectMMProj over every model.
AutoDetect(a) ==
    /\ At(a, "detect")
    /\ Go(a, Idle)
    /\ AutoDetectMMProj
    /\ unseen' = unseen \union Projected
    /\ UNCHANGED <<held, launchVars, diskVars, owed, detached>>

\* backup.Apply, one model config: matched by identity, then applied or held.
\* The projector it names is found on this machine or is not.
RestoreMatch(a, i, mm) ==
    LET ids == {id \in Registered : IdentOf[id] = i} IN
    /\ Begin(a, IF ids = {} THEN [pc |-> "hold", i |-> i, mm |-> mm]
                            ELSE [pc |-> "apply", i |-> i, ids |-> ids, mm |-> mm])
    /\ UNCHANGED <<regVars, launchVars, diskVars, histVars>>

Backup(mm) == [v |-> "restored", on |-> TRUE, mm |-> mm]

RestoreHold(a) ==
    /\ At(a, "hold")
    /\ pending' = With(pending, act[a].i, Backup(act[a].mm))
    /\ owed' = With(owed, act[a].i, Backup(act[a].mm))
    /\ config' = config /\ SaveAll
    /\ Go(a, Idle)
    /\ UNCHANGED <<held, launchVars, diskVars, unseen, detached>>

RestoreApply(a) ==
    /\ At(a, "apply")
    /\ LET id == CHOOSE x \in act[a].ids : TRUE
           rest == act[a].ids \ {id}
           new == ResolveConfigPaths(Backup(act[a].mm)) IN
       /\ IF id \in Registered
          THEN /\ config' = [config EXCEPT ![id] = new]
               /\ pending' = pending /\ SaveAll
               /\ dirty' = dirty \union {id}
               /\ Replace(a, {id}) /\ Projects(id, new.mm)
          ELSE UNCHANGED <<regVars, rejected, dirty, detached>>
       /\ Go(a, IF rest = {} THEN [pc |-> "read", id |-> id, mark |-> FALSE]
                             ELSE [act[a] EXCEPT !.ids = rest])
    /\ UNCHANGED <<preset, launched, diskVars, unseen, owed>>

\* DiscardPendingConfig.
Discard(a, i) ==
    /\ i \in DOMAIN pending
    /\ Begin(a, Idle)
    /\ pending' = Without(pending, {i}) /\ owed' = Without(owed, {i})
    /\ config' = config /\ SaveAll
    /\ UNCHANGED <<held, launchVars, diskVars, unseen, detached>>

\* startRouterWith without overrides: preset, process, snapshot, marks.
StartRead(a) ==
    /\ ~Starting
    /\ Begin(a, [pc |-> "startWrite", text |-> Enabled(config)])
    /\ UNCHANGED <<regVars, launchVars, diskVars, histVars>>

StartWrite(a) ==
    /\ At(a, "startWrite")
    /\ preset' = act[a].text
    /\ Go(a, [pc |-> "launch"])
    /\ UNCHANGED <<regVars, launched, dirty, diskVars, histVars>>

\* process.Start: refused while one runs; the router reads the preset once.
StartLaunch(a) ==
    /\ At(a, "launch")
    /\ IF ~launched.on THEN /\ launched' = [on |-> TRUE, ready |-> FALSE, cfg |-> preset]
                            /\ Go(a, [pc |-> "snapshot"])
                       ELSE UNCHANGED launched /\ Go(a, Idle)
    /\ UNCHANGED <<regVars, preset, dirty, diskVars, histVars>>

\* The launch config or the projector is no longer the one it runs on.
Differs(c, d) == c.v # d.v \/ c.mm # d.mm
Stale == {id \in DOMAIN launched.cfg \cap Registered : Differs(launched.cfg[id], config[id])}

StartSnapshot(a) ==
    /\ At(a, "snapshot")
    /\ dirty' = {}
    /\ unseen' = Stale
    /\ Go(a, Idle)
    /\ UNCHANGED <<regVars, preset, launched, diskVars, rejected, owed, detached>>

\* The health poller has an answer: the state is running.
BecomeReady ==
    /\ launched.on /\ ~launched.ready
    /\ launched' = [on |-> TRUE, ready |-> TRUE, cfg |-> launched.cfg]
    /\ UNCHANGED <<up, regVars, preset, dirty, diskVars, act, ops, histVars>>

Stop ==
    /\ launched.on /\ ~Starting
    /\ launched' = Off
    /\ UNCHANGED <<up, regVars, preset, dirty, diskVars, act, ops, histVars>>

Handler(a) ==
    \/ \E id \in Ids : \E mm \in {FALSE, projector} : Edit(a, id, mm)
    \/ SetConfig(a) \/ Refuse(a)
    \/ \E id \in Ids : \E b \in BOOLEAN : Enable(a, id, b)
    \/ \E id \in Ids : Remove(a, id) \/ Delete(a, id)
    \/ \E f \in Files : Arrive(a, f)
    \/ \E i \in Idents : Discard(a, i) \/ \E mm \in BOOLEAN : RestoreMatch(a, i, mm)
    \/ ScanWalk(a) \/ ArriveProjector(a) \/ StartRead(a)
    \/ PresetRead(a) \/ PresetWrite(a) \/ Mark(a)
    \/ ScanAdd(a) \/ ScanDone(a) \/ Register(a) \/ Attach(a) \/ AutoDetect(a)
    \/ RestoreHold(a) \/ RestoreApply(a)
    \/ StartWrite(a) \/ StartLaunch(a) \/ StartSnapshot(a)

RegistryNext ==
    \/ Boot \/ Crash \/ BecomeReady \/ Stop
    \/ \E id \in Ids : Migrate(id)
    \/ \E a \in Actors : Handler(a)

RegistrySpec == RegistryInit /\ [][RegistryNext]_registryVars

----------------------------------------------------------------------------
RegistryTypeOK ==
    /\ up \in BOOLEAN /\ projector \in BOOLEAN /\ disk \in SUBSET Files
    /\ IsPartial(config, Ids) /\ IsPartial(pending, Idents) /\ IsPartial(held, Actors)
    /\ IsPartial(file.config, Ids) /\ IsPartial(file.pending, Idents)
    /\ IsPartial(preset, Ids) /\ IsPartial(launched.cfg, Ids)
    /\ launched.on \in BOOLEAN /\ launched.ready \in BOOLEAN
    /\ dirty \in SUBSET Ids /\ detached \in SUBSET Ids
    /\ rejected \in SUBSET Ids /\ unseen \in SUBSET Ids /\ IsPartial(owed, Idents)

\* What a handler or a callback changes is on disk when it is done: models.json
\* is what memory holds, apart from the models whose last edit was rejected,
\* the ones somebody has written into and is about to save, and a migrated GPU
\* assignment, which is on disk in its old words.  A restart finds the user's
\* configs.
Writing(id) == \E a \in Actors : At(a, "save") /\ act[a].id = id /\ a \notin DOMAIN held
SavedUnlessRejected ==
    up => /\ file.pending = pending
          /\ DOMAIN file.config = Registered
          /\ \A id \in Registered : \/ config[id] \in {file.config[id], Migrated(file.config[id])}
                                    \/ id \in rejected \/ Writing(id)

\* A projector and its model arrive in either order, from two downloads that
\* finish together: a registered model without it has a callback or a scan
\* still to come that looks for it, or lost it to a form that left it blank, a
\* restore that did not find it, or the save of a struct that was replaced.
Settling(id) == \E a \in Actors :
    \/ At(a, "detect")
    \/ At(a, "scan") /\ act[a].any
    \/ At(a, "attach") /\ IdOf[act[a].f] = id
ProjectorIsAttached ==
    \A id \in Registered \ detached : up /\ projector => config[id].mm \/ Settling(id)

\* A config restored for a model that is not installed is held until a model
\* of its identity registers, by whatever path, or the user discards it.
RestoredIsHeld == up => \A i \in DOMAIN owed : i \in DOMAIN pending /\ pending[i] = owed[i]

\* A running model whose config or projector is no longer the one it was
\* launched on carries the reload mark, once the edit's handler is done, when
\* an accepted edit of an enabled model of a running router or a restore
\* changed it.  The other changes are not marked: an edit that was refused, or
\* made while the model was disabled or the router still starting, a removal
\* and a new registration, a projector that a scan or a download attached, the
\* migration by a page, a toggle or an attachment that puts back a struct that
\* was replaced, and what changed before a start cleared the marks.
ToBeMarked(id) == \E a \in Actors :
    /\ Marking(a) \/ (At(a, "save") /\ act[a].by = "edit" /\ a \notin DOMAIN held)
    /\ act[a].id = id
StaleIsMarked ==
    up /\ launched.on /\ ~Starting =>
        \A id \in Stale : id \in dirty \union unseen \/ ToBeMarked(id)

\* models.json is what memory holds, the exceptions above apart.
RegistryIsSaved == RegistryTypeOK /\ SavedUnlessRejected
=============================================================================
