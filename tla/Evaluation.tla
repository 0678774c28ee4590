----------------------------- MODULE Evaluation -----------------------------
(***************************************************************************)
(* Capability cells: internal/evaluate (datasets, the cache of reference   *)
(* logits, the llama-perplexity command), its use by jobEnv and by         *)
(* runCapabilityCell, and the evaluation-data card.                        *)
(*                                                                         *)
(* One job runs at a time and its cells one after the other.  Beside it    *)
(* run the ticker that reports a generation's progress, the requests of    *)
(* the card, edits and downloads of models, and crashes.  What llama-      *)
(* perplexity does with the router stopped is BenchRouter's subject.       *)
(***************************************************************************)
EXTENDS Naturals, FiniteSets

CONSTANTS
    Models,      \* registry IDs
    Info,        \* of each: [repo, quant, size, base, vocab, arch]
    Configs,     \* settings a saved model config may have
    Requests,    \* job requests: [models, mode, asked, ov, chunks], where ov
                 \* are the settings asked for and a cap of 0 is a full run
    Installed,   \* models there at the start
    Scenarios,   \* sets of what may happen beside the job
    MaxOps,      \* bound: edits, arrivals, deletions, replaced files
    MaxJobs,     \* bound: jobs created
    Readers,     \* card requests in progress together
    None

Modes == {"perplexity", "kl-divergence"}
Fields == {"layers", "batch", "ubatch", "kv", "flash"}
F16 == 0                               \* the cache type that is not passed
Unset == "unset"                       \* a field of Info the file does not say
Attempts == 3                          \* downloadAttempts

ASSUME ConstantsAssumption ==
    /\ IsFiniteSet(Models) /\ Installed \subseteq Models
    /\ \A m \in Models : Info[m].size \in Nat
    /\ \A c \in Configs : DOMAIN c = Fields
    /\ \A r \in Requests : /\ r.models \subseteq Models /\ r.asked \in Models \cup {None}
                           /\ r.mode \in Modes /\ DOMAIN r.ov \subseteq Fields /\ r.chunks \in Nat
    /\ \A s \in Scenarios : s \subseteq {"crash", "cancel", "edit", "arrive", "depart", "copy", "delete"}
    /\ MaxOps \in Nat /\ MaxJobs \in Nat

Job == [todo : SUBSET Models, mode : Modes, asked : Models \cup {None},
        ov : {r.ov : r \in Requests}, chunks : Nat, refs : SUBSET Models]
Dataset == [content : {"whole", "damaged", "other"}, mtime : Nat]
ASSUME NoneAssumption == None \notin Job \cup Dataset \cup {"running", "completed"}

----------------------------------------------------------------------------
(* Settings and the flags they become.                                     *)

(* The overrides a job asks for, and f16 unless it asked for a cache type. *)
Overridden(base, ov) == [f \in Fields |-> IF f \in DOMAIN ov THEN ov[f] ELSE base[f]]

EvalConfigSnapshot(base, ov) ==
    [Overridden(base, ov) EXCEPT !["kv"] = IF "kv" \in DOMAIN ov THEN @ ELSE F16]

Arithmetic == {"kv", "flash", "batch", "ubatch"}

EvalReferenceConfig(ref, underTest) ==
    [f \in Fields |-> IF f \in Arithmetic THEN underTest[f] ELSE ref[f]]

ApplySnapshot(base, snap) == [f \in Fields |-> snap[f]]

(* The default sizes of llama.cpp are 2 and 1 here. *)
EffectiveBatch(cfg) == IF cfg["batch"] = 0 THEN 2 ELSE cfg["batch"]
EffectiveUBatch(cfg) == IF cfg["ubatch"] = 0 THEN 1 ELSE cfg["ubatch"]
ValidBatch(cfg) == EffectiveUBatch(cfg) <= EffectiveBatch(cfg)

(* The flags of the command line: a zero batch and the f16 cache are not   *)
(* passed.                                                                 *)
Emitted(cfg) == {f \in Fields : f \notin {"batch", "ubatch", "kv"} \/ cfg[f] # 0}
MapConfigFlags(cfg) == [f \in Emitted(cfg) |-> cfg[f]]

(* A bug: the fingerprint leaves the micro-batch out. *)
FingerprintNoUBatch(flags) == [f \in DOMAIN flags \cap {"kv", "flash", "batch"} |-> flags[f]]

KLFlagFingerprint(flags) == [f \in DOMAIN flags \cap Arithmetic |-> flags[f]]

(* KLBaseKey: the repository and quant stand for the model, and the dataset*)
(* and the context are always the same.                                    *)
KLBaseKey(ref, chunks, flags) ==
    [model |-> Info[ref].repo, quant |-> Info[ref].quant, chunks |-> chunks,
     fingerprint |-> KLFlagFingerprint(flags)]

----------------------------------------------------------------------------
VARIABLES
    installed, config,  \* the registry
    job,                \* the running job, or None
    jobs,               \* jobs created so far
    cancelled,          \* the context of the job
    pc, cell,           \* runCapabilityCell and its locals
    run,                \* the run of the cell as stored
    ticker,             \* the goroutine that reports a generation's size
    base, partial,      \* <key>.kld and <key>.kld.partial
    dataset, stamp,     \* the dataset file, [content, mtime], and the next mtime
    temps,              \* temporary files left in datasets/
    verdicts,           \* verifyCache
    reader,             \* card requests
    ops, act            \* changes made so far, the scenario (constant)

regVars == <<installed, config>>
cellVars == <<pc, cell, run>>
fileVars == <<base, partial>>
dataVars == <<dataset, stamp, temps>>
cardVars == <<verdicts, reader>>
vars == <<regVars, job, jobs, cancelled, cellVars, ticker, fileVars, dataVars,
          cardVars, ops, act>>

Busy == job # None                     \* routerBusyWithJob
NoCell == [model |-> None, cfg |-> None, ref |-> None, refcfg |-> None, key |-> None,
           flags |-> None, tries |-> 0]
NoRun == [status |-> None, score |-> None]
Request(at, file, saw) == [at |-> at, file |-> file, saw |-> saw]
IdleReader == Request("idle", None, None)

Init ==
    /\ installed = Installed
    /\ \E c \in Configs : config = [m \in Models |-> c]
    /\ job = None /\ jobs = 0 /\ cancelled = FALSE
    /\ pc = "idle" /\ cell = NoCell /\ run = NoRun
    /\ ticker = "off"
    /\ base = <<>> /\ partial = <<>>
    /\ dataset = None /\ stamp = 1 /\ temps = {}
    /\ verdicts = None /\ reader = [r \in Readers |-> IdleReader]
    /\ ops = 0 /\ act \in Scenarios

----------------------------------------------------------------------------
(* The KL reference of a model: the job's, or one of the largest installed *)
(* files of its repository, in an order that is not fixed among equals.    *)

SameRepo(m) == {x \in installed : Info[x].repo = Info[m].repo}

Largest(m) == {x \in SameRepo(m) : \A y \in SameRepo(m) : Info[y].size <= Info[x].size}

References(m, asked) ==
    IF asked # None THEN {asked} \cap installed
    ELSE IF m \notin installed THEN {}
    ELSE {x \in Largest(m) : x # m \/ SameRepo(m) # {m}}

(* checkKLReferenceIsSameModel: refused only on evidence.                  *)
Differ(m, r) == \E f \in {"base", "vocab", "arch"} :
    Unset \notin {Info[m][f], Info[r][f]} /\ Info[m][f] # Info[r][f]
ProvablyOther(m, r) == Info[m].repo # Info[r].repo /\ Differ(m, r)

(* handleCreateJob with validateKLJob, then the queue starts the job.      *)
CreateJob(req) ==
    /\ ~Busy /\ jobs < MaxJobs
    /\ req.models \subseteq installed
    /\ req.mode = "kl-divergence" =>
           /\ req.asked # None =>
                  req.asked \in installed /\ \A m \in req.models : ~ProvablyOther(m, req.asked)
           /\ \E m \in req.models : \E r \in References(m, req.asked) : r # m
    /\ job' = [todo |-> req.models, mode |-> req.mode, asked |-> req.asked, ov |-> req.ov,
               chunks |-> req.chunks, refs |-> {}]
    /\ jobs' = jobs + 1
    /\ cancelled' = FALSE
    /\ UNCHANGED <<regVars, cellVars, ticker, fileVars, dataVars, cardVars, ops>>

Cancel ==
    /\ "cancel" \in act /\ Busy /\ ~cancelled
    /\ cancelled' = TRUE
    /\ UNCHANGED <<regVars, job, jobs, cellVars, ticker, fileVars, dataVars, cardVars, ops>>

EndJob ==
    /\ Busy /\ pc = "idle" /\ (job.todo = {} \/ cancelled)
    /\ job' = None
    /\ UNCHANGED <<regVars, jobs, cancelled, cellVars, ticker, fileVars, dataVars, cardVars, ops>>

----------------------------------------------------------------------------
(* runCapabilityCell: a run is stored first, and every exit settles it.    *)

Goto(p) == pc' = p /\ UNCHANGED <<cell, run>>
CellDone == pc' = "idle" /\ cell' = NoCell

Fail == CellDone /\ run' = [NoRun EXCEPT !.status = "failed"]

BeginCell(m) ==
    /\ Busy /\ ~cancelled /\ pc = "idle" /\ m \in job.todo
    /\ job' = [job EXCEPT !.todo = @ \ {m}]
    /\ IF m \in installed
       THEN /\ run' = [NoRun EXCEPT !.status = "running"]
            /\ cell' = [NoCell EXCEPT !.model = m,
                                      !.cfg = EvalConfigSnapshot(config[m], job.ov)]
            /\ pc' = "prepare"
       ELSE UNCHANGED cellVars           \* no run was created
    /\ UNCHANGED <<regVars, jobs, cancelled, ticker, fileVars, dataVars, cardVars, ops>>

(* EvalBinary, then StopRouterForEval.                                     *)
Prepare ==
    /\ pc = "prepare"
    /\ Goto("dataset") \/ Fail
    /\ UNCHANGED <<regVars, job, jobs, cancelled, ticker, fileVars, dataVars, cardVars, ops>>

(* EnsureDataset, for the cell (next "resolve" or "flags") and again for a *)
(* generation: a file that is there is taken as it is.                     *)
AfterData == IF pc = "refdata" THEN "generate"
             ELSE IF job.mode = "kl-divergence" THEN "resolve" ELSE "flags"

DataPresent ==
    /\ pc \in {"dataset", "refdata"} /\ dataset # None
    /\ Goto(AfterData)
    /\ UNCHANGED <<regVars, job, jobs, cancelled, ticker, fileVars, dataVars, cardVars, ops>>

(* fetchOnce: a broken transfer is tried again up to three times, a body   *)
(* that ended is checked.                                                  *)
FetchBroken ==
    /\ pc \in {"dataset", "refdata"} /\ dataset = None
    /\ IF cancelled \/ cell.tries + 1 = Attempts THEN Fail
       ELSE cell' = [cell EXCEPT !.tries = @ + 1] /\ UNCHANGED <<pc, run>>
    /\ UNCHANGED <<regVars, job, jobs, cancelled, ticker, fileVars, dataVars, cardVars, ops>>

Fetch ==
    /\ pc \in {"dataset", "refdata"} /\ dataset = None /\ ~cancelled
    /\ \E body \in {"whole", "damaged"} : temps' = temps \cup {<<pc, body>>}
    /\ pc' = "fetched" /\ UNCHANGED <<cell, run>>
    /\ UNCHANGED <<regVars, job, jobs, cancelled, ticker, fileVars, dataset, stamp, cardVars, ops>>

Accept(body) == body = "whole"

(* The hash, the extraction and the rename: any failure removes the files. *)
InstallDataset ==
    /\ pc = "fetched"
    /\ \E t \in temps :
        /\ t[1] # "left"
        /\ temps' = temps \ {t}
        /\ \/ /\ Accept(t[2])
              /\ dataset' = [content |-> t[2], mtime |-> stamp] /\ stamp' = stamp + 1
              /\ pc' = t[1] /\ UNCHANGED <<cell, run>>
           \/ Fail /\ UNCHANGED <<dataset, stamp>>
    /\ UNCHANGED <<regVars, job, jobs, cancelled, ticker, fileVars, cardVars, ops>>

(* The reference's own cell is skipped: its run is deleted again.          *)
ResolveKLReference ==
    /\ pc = "resolve"
    /\ LET refs == References(cell.model, job.asked) IN
       \/ refs = {} /\ Fail /\ UNCHANGED job
       \/ \E r \in refs :
            /\ job' = [job EXCEPT !.refs = @ \cup {r}]
            /\ IF r = cell.model
               THEN CellDone /\ run' = NoRun
               ELSE /\ cell' = [cell EXCEPT !.ref = r, !.refcfg = config[r]]
                    /\ pc' = "key" /\ UNCHANGED run
    /\ UNCHANGED <<regVars, jobs, cancelled, ticker, fileVars, dataVars, cardVars, ops>>

(* EvalFlags reads the saved config again and lays the snapshot over it.   *)
EvalFlags(m, snap) == MapConfigFlags(ApplySnapshot(config[m], snap))
ReferenceSnapshot == EvalReferenceConfig(cell.refcfg, cell.cfg)

(* EnsureKLBase: a base of this key is served, else the disk must have     *)
(* room for the estimate, and the build the tool.                          *)
LookUpBase ==
    /\ pc = "key"
    /\ LET flags == EvalFlags(cell.ref, ReferenceSnapshot)
           key == KLBaseKey(cell.ref, job.chunks, flags)
       IN
       IF cell.ref \notin installed \/ ~ValidBatch(ReferenceSnapshot)
       THEN Fail
       ELSE \/ /\ cell' = [cell EXCEPT !.key = key, !.flags = flags, !.tries = 0]
               /\ pc' = IF key \in DOMAIN base THEN "flags" ELSE "refdata"
               /\ UNCHANGED run
            \/ key \notin DOMAIN base /\ Fail
    /\ UNCHANGED <<regVars, job, jobs, cancelled, ticker, fileVars, dataVars, cardVars, ops>>

Made(whole) ==
    [model |-> cell.ref, flags |-> cell.flags, chunks |-> job.chunks, whole |-> whole]
Put(f, k, v) == [x \in DOMAIN f \cup {k} |-> IF x = k THEN v ELSE f[x]]
Drop(f, k) == [x \in DOMAIN f \ {k} |-> f[x]]

(* The tool runs: it writes its file as it goes, and the ticker starts.    *)

(* A bug: the tool writes the final name. *)
WriteInPlace == base' = Put(base, cell.key, Made(FALSE)) /\ partial' = Put(partial, cell.key, Made(FALSE))

WritePartial == partial' = Put(partial, cell.key, Made(FALSE)) /\ UNCHANGED base

Generate ==
    /\ pc = "generate"
    /\ WritePartial
    /\ ticker' = "on"
    /\ Goto("generating")
    /\ UNCHANGED <<regVars, job, jobs, cancelled, dataVars, cardVars, ops>>

Generated ==
    /\ pc = "generating"
    /\ partial' = Put(partial, cell.key, Made(TRUE))
    /\ Goto("generated")
    /\ UNCHANGED <<regVars, job, jobs, cancelled, ticker, base, dataVars, cardVars, ops>>

NotGenerated ==
    /\ pc = "generating"
    /\ Goto("cut")
    /\ UNCHANGED <<regVars, job, jobs, cancelled, ticker, fileVars, dataVars, cardVars, ops>>

(* The ticker saves the run as it found it, until done is closed.          *)
Tick ==
    /\ ticker = "on" /\ pc = "generating"
    /\ ticker' = "saving"
    /\ UNCHANGED <<regVars, job, jobs, cancelled, cellVars, fileVars, dataVars, cardVars, ops>>

TickSave ==
    /\ ticker = "saving"
    /\ run' = [NoRun EXCEPT !.status = "running"]
    /\ ticker' = "on"
    /\ UNCHANGED <<regVars, job, jobs, cancelled, pc, cell, fileVars, dataVars, cardVars, ops>>

TickEnd ==
    /\ ticker = "on" /\ pc # "generating"
    /\ ticker' = "off"
    /\ UNCHANGED <<regVars, job, jobs, cancelled, cellVars, fileVars, dataVars, cardVars, ops>>

AwaitTicker == ticker = "off"

InstallBase ==
    /\ pc = "generated" /\ AwaitTicker
    /\ partial' = Drop(partial, cell.key)
    /\ \/ base' = Put(base, cell.key, partial[cell.key]) /\ Goto("flags")
       \/ UNCHANGED base /\ Fail
    /\ UNCHANGED <<regVars, job, jobs, cancelled, ticker, dataVars, cardVars, ops>>

DiscardPartial ==
    /\ pc = "cut" /\ AwaitTicker
    /\ partial' = Drop(partial, cell.key)
    /\ Fail
    /\ UNCHANGED <<regVars, job, jobs, cancelled, ticker, base, dataVars, cardVars, ops>>

CellFlags ==
    /\ pc = "flags"
    /\ IF cell.model \in installed /\ ValidBatch(cell.cfg)
       THEN /\ cell' = [cell EXCEPT !.flags = EvalFlags(cell.model, cell.cfg)]
            /\ pc' = "eval" /\ UNCHANGED run
       ELSE Fail
    /\ UNCHANGED <<regVars, job, jobs, cancelled, ticker, fileVars, dataVars, cardVars, ops>>

(* RunEval: the scores are kept with what they were measured with, or the  *)
(* tool fails; it has no reference to read when the file is gone.          *)
Score == [mode |-> job.mode, ref |-> cell.ref, flags |-> cell.flags, cfg |-> cell.cfg,
          chunks |-> job.chunks, asked |-> DOMAIN job.ov, dataset |-> dataset,
          base |-> IF job.mode = "kl-divergence" THEN base[cell.key] ELSE None]
Evaluated ==
    /\ pc = "eval" /\ dataset # None
    /\ job.mode = "kl-divergence" => cell.key \in DOMAIN base
    /\ CellDone /\ run' = [status |-> "completed", score |-> Score]
    /\ UNCHANGED <<regVars, job, jobs, cancelled, ticker, fileVars, dataVars, cardVars, ops>>

EvalFailed ==
    /\ pc = "eval" /\ Fail
    /\ UNCHANGED <<regVars, job, jobs, cancelled, ticker, fileVars, dataVars, cardVars, ops>>

----------------------------------------------------------------------------
(* What happens beside the job.                                            *)

Change(kind) == kind \in act /\ ops < MaxOps /\ ops' = ops + 1

EditConfig(m, c) ==
    /\ Change("edit") /\ config' = [config EXCEPT ![m] = c]
    /\ UNCHANGED <<installed, job, jobs, cancelled, cellVars, ticker, fileVars, dataVars, cardVars>>

Arrive(m) ==
    /\ Change("arrive") /\ m \notin installed /\ installed' = installed \cup {m}
    /\ UNCHANGED <<config, job, jobs, cancelled, cellVars, ticker, fileVars, dataVars, cardVars>>

Depart(m) ==
    /\ Change("depart") /\ m \in installed /\ installed' = installed \ {m}
    /\ UNCHANGED <<config, job, jobs, cancelled, cellVars, ticker, fileVars, dataVars, cardVars>>

(* The user puts a copy of a dataset in place.                             *)
CopyDataset ==
    /\ Change("copy")
    /\ \E content \in {"whole", "other"} : dataset' = [content |-> content, mtime |-> stamp]
    /\ stamp' = stamp + 1
    /\ UNCHANGED <<regVars, job, jobs, cancelled, cellVars, ticker, fileVars, temps, cardVars>>

(* handleEvalData: Verify looks at the file, and hashes it unless it knows *)
(* the verdict on a file of this size and time.                            *)

Known(file) == verdicts # None /\ verdicts.mtime = file.mtime

Look(r) ==
    /\ "copy" \in act /\ reader[r].at = "idle" /\ dataset # None
    /\ IF Known(dataset)
       THEN UNCHANGED reader
       ELSE reader' = [reader EXCEPT ![r] = Request("hash", dataset, None)]
    /\ UNCHANGED <<regVars, job, jobs, cancelled, cellVars, ticker, fileVars, dataVars, verdicts, ops>>

Hash(r) ==
    /\ reader[r].at = "hash"
    /\ reader' = [reader EXCEPT ![r] = Request("store", @.file, dataset.content)]
    /\ UNCHANGED <<regVars, job, jobs, cancelled, cellVars, ticker, fileVars, dataVars, verdicts, ops>>

Remember(r) ==
    /\ reader[r].at = "store"
    /\ verdicts' = [mtime |-> reader[r].file.mtime, ok |-> reader[r].saw = "whole"]
    /\ reader' = [reader EXCEPT ![r] = IdleReader]
    /\ UNCHANGED <<regVars, job, jobs, cancelled, cellVars, ticker, fileVars, dataVars, ops>>

(* handleDeleteKLLogits: the busy check, then the removal.                 *)
DeleteCheck(r, key) ==
    /\ "delete" \in act /\ ~Busy /\ reader[r].at = "idle" /\ key \in DOMAIN base
    /\ reader' = [reader EXCEPT ![r] = Request("delete", key, None)]
    /\ UNCHANGED <<regVars, job, jobs, cancelled, cellVars, ticker, fileVars, dataVars, verdicts, ops>>

DeleteKLBaseFile(r) ==
    /\ reader[r].at = "delete"
    /\ base' = Drop(base, reader[r].file)
    /\ reader' = [reader EXCEPT ![r] = IdleReader]
    /\ UNCHANGED <<regVars, job, jobs, cancelled, cellVars, ticker, partial, dataVars, verdicts, ops>>

CleanStalePartials == partial' = <<>>

(* The server dies and starts again; the run it was at is JobQueue's.      *)
Crash ==
    /\ Change("crash")
    /\ job' = None /\ cancelled' = FALSE /\ CellDone /\ run' = NoRun /\ ticker' = "off"
    /\ temps' = {<<"left", t[2]>> : t \in temps}
    /\ verdicts' = None /\ reader' = [r \in Readers |-> IdleReader]
    /\ CleanStalePartials
    /\ UNCHANGED <<regVars, jobs, base, dataset, stamp>>

----------------------------------------------------------------------------
(* Steps the code takes by itself; a tool or a transfer that runs must end *)
(* only when the context it was started with is cancelled.                 *)

(* A bug: started without the context. *)
KilledNever == FALSE

Killed == cancelled

Code ==
    \/ EndJob \/ \E m \in Models : BeginCell(m)
    \/ Prepare \/ DataPresent \/ (Killed /\ FetchBroken) \/ InstallDataset
    \/ ResolveKLReference \/ LookUpBase \/ Generate \/ (Killed /\ NotGenerated)
    \/ InstallBase \/ DiscardPartial \/ CellFlags \/ (Killed /\ EvalFailed)

Ticker == TickSave \/ TickEnd

World ==
    \/ \E req \in Requests : CreateJob(req)
    \/ Cancel \/ Fetch \/ FetchBroken \/ Generated \/ NotGenerated \/ Tick
    \/ Evaluated \/ EvalFailed
    \/ \E m \in Models : Arrive(m) \/ Depart(m) \/ \E c \in Configs : EditConfig(m, c)
    \/ CopyDataset \/ Crash
    \/ \E r \in Readers : \/ Look(r) \/ Hash(r) \/ Remember(r) \/ DeleteKLBaseFile(r)
                          \/ \E key \in DOMAIN base : DeleteCheck(r, key)

Next == (Code \/ Ticker \/ World) /\ UNCHANGED act
Spec == Init /\ [][Next]_vars
FairSpec == Spec /\ WF_vars(Code /\ UNCHANGED act) /\ WF_vars(Ticker /\ UNCHANGED act)

----------------------------------------------------------------------------
TypeOK ==
    /\ installed \subseteq Models /\ config \in [Models -> Configs]
    /\ jobs \in 0 .. MaxJobs /\ ops \in 0 .. MaxOps
    /\ pc \in {"idle", "prepare", "dataset", "fetched", "resolve", "key", "refdata",
               "generate", "generating", "generated", "cut", "flags", "eval"}
    /\ run.status \in {None, "running", "completed", "failed"}
    /\ ticker \in {"off", "on", "saving"}
    /\ (pc # "idle") => job # None

(* What the cache serves is a file a generation finished, and a file being *)
(* generated is there only while one is, whatever is cut short.            *)
CacheIsSound ==
    /\ \A k \in DOMAIN base : base[k].whole
    /\ partial # <<>> => pc \in {"generating", "generated", "cut"}

(* A dataset is the pinned one unless the user put another in its place,   *)
(* and no verdict is shown for a file it was not computed for.             *)
DatasetIsVerified ==
    dataset # None =>
        /\ dataset.content # "damaged"
        /\ Known(dataset) => verdicts.ok = (dataset.content = "whole")

Computes(flags) == {<<f, flags[f]>> : f \in DOMAIN flags \cap Arithmetic}

(* A completed run was measured with the settings it records, and its      *)
(* reference with the same arithmetic over as many chunks.                 *)
BothSidesAgree ==
    run.status = "completed" =>
        /\ run.score.flags = MapConfigFlags(run.score.cfg)
        /\ run.score.base # None =>
             /\ Computes(run.score.base.flags) = Computes(run.score.flags)
             /\ run.score.base.chunks = run.score.chunks
             /\ run.score.base.whole

(* A score is measured through a compressed cache only when asked for.     *)
F16UnlessAsked ==
    run.status = "completed" /\ run.score.cfg["kv"] # F16 => "kv" \in run.score.asked

(* No exit of a cell leaves its run running.                               *)
RunIsSettled == pc = "idle" => run.status # "running"

(* The cells of a job that no model joined or left share their reference,  *)
(* one for each repository; the code picks any of those that are equally   *)
(* large.                                                                  *)
ReferenceIsShared ==
    Busy /\ act \cap {"arrive", "depart"} = {} =>
        \A x, y \in job.refs :
            Info[x].repo = Info[y].repo => x = y \/ (job.asked = None /\ Info[x].size = Info[y].size)

(* A comparison is with the model it names.                                *)
ComparedWithItsReference ==
    run.status = "completed" /\ run.score.base # None => run.score.base.model = run.score.ref

(* A cancelled job ends.                                                   *)
CancelEndsJob == (Busy /\ cancelled) ~> ~Busy

(* Whatever is cancelled, fails or is cut short by a crash, no unfinished  *)
(* file is ever taken for a finished one, and no run is left running.      *)
NothingIsHalfDone == TypeOK /\ CacheIsSound /\ DatasetIsVerified /\ RunIsSettled

(* Two scores that are shown side by side were measured alike, against the *)
(* reference they name, whatever was edited meanwhile.                     *)
ScoresAreComparable ==
    BothSidesAgree /\ F16UnlessAsked /\ ReferenceIsShared /\ ComparedWithItsReference
=============================================================================
