------------------------------ MODULE JobMatrix ------------------------------
(***************************************************************************)
(* From a benchmark job's definition to its cells, and back from a cell to *)
(* what was measured: the parameter registry, SplitParams, the validation  *)
(* and CellOverrides of internal/benchmark/sweep.go, ExpandCellsWithSweeps *)
(* in job_runner.go, UpdateJobDefinition in benchmark.go, and the create   *)
(* and edit handlers of internal/api/bench_jobs.go.                        *)
(*                                                                         *)
(* One job, whose requests come one at a time and only between two runs of *)
(* it: JobQueue is about what else may happen, and about the KL reference. *)
(*                                                                         *)
(* A raw value is a record: text is what was typed, without the spaces     *)
(* around it; parts are the mode and settings of a speculative decoding    *)
(* value as they are spelled; sets are the ConfigOverrides fields that the *)
(* parser writes, none when it refuses the text.  Overrides are functions  *)
(* from the fields that are not nil, so the empty one is nil.              *)
(***************************************************************************)
EXTENDS Integers, Sequences, FiniteSets, SequencesExt

CONSTANTS
    Requests,      \* the bodies that a create or an edit may have
    PresetSource,  \* the source of each preset: internal, benchy or capability
    Saved,         \* batch_size and ubatch_size in each model's saved config
    MaxJobCells,   \* the limit of the matrix size, 500 in the code
    NumGPUs,       \* GPUs the monitor reports
    MaxEdits       \* bound: edits of the job

ASSUME SourcesAssumption ==
    \A p \in DOMAIN PresetSource :
        PresetSource[p] \in {"internal", "benchy", "capability"}
ASSUME BoundsAssumption == MaxJobCells \in Nat /\ NumGPUs \in Nat /\ MaxEdits \in Nat

VARIABLES
    job,       \* the stored definition, as resolved
    cells,     \* its cells, each with what was measured for it
    pos,       \* the cell run() is at, 0 while the job is not running
    canceled,  \* whether the running job's context is cancelled
    edits

matrixVars == <<job, cells, pos, canceled, edits>>

----------------------------------------------------------------------------
(* sweepFields, in the order of sort.Strings.                              *)
FieldOrder ==
    <<"batch_size", "context_size", "direct_io", "extra_flags",
      "flash_attention", "gpu_assign", "gpu_layers", "kv_cache_quant", "min_p",
      "ple_mode", "repeat_penalty", "spec_type", "temperature", "tensor_split",
      "threads", "top_k", "top_p", "ubatch_size">>
Fields == ToSet(FieldOrder)

SamplingFields == {"temperature", "top_p", "min_p", "repeat_penalty", "top_k"}
RestartsRouter == Fields \ SamplingFields
AffectsEval ==
    {"gpu_layers", "ubatch_size", "batch_size", "threads", "flash_attention",
     "direct_io", "kv_cache_quant", "gpu_assign", "tensor_split"}
TextFields ==
    {"extra_flags", "gpu_assign", "kv_cache_quant", "ple_mode", "tensor_split"}

(* ConfigOverrides fields that only a spec_type value can set, and the one *)
(* that no parameter can.                                                  *)
SpecParams == {"draft_max", "draft_min", "draft_p_min", "ngram_size_n", "ngram_size_m"}
OverrideFields == Fields \cup SpecParams \cup {"draft_model_path"}

Nil == <<>>
Has(o, f) == f \in DOMAIN o
IsSet(o) == DOMAIN o # {}
Parses(v) == IsSet(v.sets)

(* canonical: numbers and booleans by value, a speculative mode by its     *)
(* parts (whose settings stay text), anything else as it was typed.        *)
Canonical(f, v) ==
    IF ~Parses(v) \/ f \in TextFields THEN [v EXCEPT !.parts = Nil]
    ELSE IF f = "spec_type" THEN [v EXCEPT !.text = "", !.sets = Nil]
    ELSE [v EXCEPT !.text = ""]

----------------------------------------------------------------------------
(* SplitParams: blanks and repeated values go; one value left is fixed for *)
(* every cell, two or more are swept.                                      *)
Deduped(f, values) ==
    FoldLeft(LAMBDA kept, v :
               IF v.text = "" \/ \E i \in DOMAIN kept : Canonical(f, kept[i]) = Canonical(f, v)
               THEN kept ELSE Append(kept, v),
             <<>>, values)

Chosen(params) == [f \in DOMAIN params |-> Deduped(f, params[f])]

SplitOK(params) ==
    /\ DOMAIN params \subseteq Fields
    /\ \A f \in DOMAIN params : \A i \in DOMAIN Chosen(params)[f] : Parses(Chosen(params)[f][i])

Sorted(fields) == SelectSeq(FieldOrder, LAMBDA f : f \in fields)

(* set, for each field in turn: a later one writes over an earlier one.    *)
SetEach(base, values, fields) ==
    FoldLeft(LAMBDA o, f : values[f].sets @@ o, base, fields)

SplitOverrides(params) ==
    LET chosen == Chosen(params)
        fixed == Sorted({f \in DOMAIN params : Len(chosen[f]) = 1})
    IN  SetEach(Nil, [f \in ToSet(fixed) |-> chosen[f][1]], fixed)

SplitSweeps(params) ==
    LET chosen == Chosen(params)
        swept == Sorted({f \in DOMAIN params : Len(chosen[f]) > 1})
    IN  [i \in DOMAIN swept |-> [field |-> swept[i], values |-> chosen[swept[i]]]]

KeepUnsweepable(o) == Restrict(o, DOMAIN o \ (Fields \cup SpecParams))
MergeOverrides(base, derived) == derived @@ base

(* resolveSweeps: params, when there are any, replace the sweeps and every *)
(* override that they can express.                                         *)
Resolve(req) ==
    IF ~IsSet(req.params) THEN req
    ELSE [req EXCEPT
            !.overrides = MergeOverrides(KeepUnsweepable(@), SplitOverrides(req.params)),
            !.sweeps = SplitSweeps(req.params)]

----------------------------------------------------------------------------
(* validateJobRequest, on the resolved request.                            *)
Swept(req) == {req.sweeps[i].field : i \in DOMAIN req.sweeps}
IsCapability(p) == PresetSource[p] = "capability"

SweepsValid(sweeps) ==
    /\ \A i \in DOMAIN sweeps :
         /\ sweeps[i].field \in Fields
         /\ sweeps[i].values # <<>>
         /\ \A v \in ToSet(sweeps[i].values) : Parses(v)
         /\ \A m, n \in DOMAIN sweeps[i].values :
              m # n => Canonical(sweeps[i].field, sweeps[i].values[m])
                         # Canonical(sweeps[i].field, sweeps[i].values[n])
    /\ \A i, j \in DOMAIN sweeps : sweeps[i].field = sweeps[j].field => i = j

(* ValidateSamplingSupport: llama-benchy never sees the sampling settings. *)
SamplingSupported(req) ==
    (\E p \in ToSet(req.presets) : PresetSource[p] = "benchy")
        => (Swept(req) \cup DOMAIN req.overrides) \cap SamplingFields = {}

PresetCount(req, p) ==
    FoldLeft(LAMBDA n, s : IF IsCapability(p) /\ s.field \notin AffectsEval
                           THEN n ELSE n * Len(s.values),
             Len(req.models) * Len(req.builds), req.sweeps)

MatrixSize(req) == FoldLeft(LAMBDA n, p : n + PresetCount(req, p), 0, req.presets)

(* validateCapabilitySweeps: something must vary between the cells.        *)
CapabilityVaries(req) ==
    \/ \E p \in ToSet(req.presets) : ~IsCapability(p)
    \/ req.sweeps = <<>>
    \/ Len(req.models) * Len(req.builds) # 1
    \/ Swept(req) \cap AffectsEval # {}

JobRequestValid(req) ==
    /\ req.models # <<>> /\ req.builds # <<>> /\ req.presets # <<>>
    /\ SweepsValid(req.sweeps)
    /\ SamplingSupported(req)
    /\ MatrixSize(req) <= MaxJobCells
    /\ CapabilityVaries(req)

----------------------------------------------------------------------------
(* ValidateBatchSizes, with llama.cpp's defaults for what is left blank.   *)
DefaultBatchSize == 2048
DefaultUBatchSize == 512

BatchSizesValid(b, ub) ==
    /\ b >= 0 /\ ub >= 0
    /\ (IF ub > 0 THEN ub ELSE DefaultUBatchSize)
         <= (IF b > 0 THEN b ELSE DefaultBatchSize)

(* candidates: what the job gives a field, nothing when it leaves it alone *)
Candidates(req, f) ==
    IF f \in Swept(req)
    THEN UNION {{v.sets[f] : v \in ToSet(s.values)} :
                  s \in {t \in ToSet(req.sweeps) : t.field = f}}
    ELSE IF Has(req.overrides, f) THEN {req.overrides[f]} ELSE {}

Viable(bs, ubs) == \E b \in bs, ub \in ubs : BatchSizesValid(b, ub)

(* validateBatchMatrix: only a job none of whose combinations can run is   *)
(* refused, first on the values of the job and then for each model.        *)
BatchMatrixValid(req) ==
    LET bs == Candidates(req, "batch_size")
        ubs == Candidates(req, "ubatch_size")
        OrSaved(vs, m, f) == IF vs = {} THEN {Saved[m][f]} ELSE vs
    IN  bs \cup ubs # {} =>
          /\ bs # {} /\ ubs # {} => Viable(bs, ubs)
          /\ \A m \in ToSet(req.models) :
               Viable(OrSaved(bs, m, "batch_size"), OrSaved(ubs, m, "ubatch_size"))

(* validateGPUAssignment: an assignment is resolved into a split.          *)
GPUAssignmentValid(req) ==
    LET Uses(f) == \/ f \in Swept(req)
                   \/ Has(req.overrides, f) /\ req.overrides[f] # ""
    IN  Uses("gpu_assign") => ~Uses("tensor_split") /\ NumGPUs > 0

Accepted(req) ==
    /\ IsSet(req.params) => SplitOK(req.params)
    /\ JobRequestValid(Resolve(req))
    /\ BatchMatrixValid(Resolve(req))
    /\ GPUAssignmentValid(Resolve(req))

----------------------------------------------------------------------------
(* sweepCombinations: axes that reload the router first, then by name; the *)
(* first one varies slowest.                                               *)
FieldPos(f) == CHOOSE i \in DOMAIN FieldOrder : FieldOrder[i] = f

(* mutant: by name only *)
AxisBeforeByName(s, t) == FieldPos(s.field) < FieldPos(t.field)

AxisBefore(s, t) ==
    IF (s.field \in RestartsRouter) # (t.field \in RestartsRouter)
    THEN s.field \in RestartsRouter
    ELSE FieldPos(s.field) < FieldPos(t.field)

Combinations(sweeps) ==
    FoldLeft(LAMBDA combos, s :
               FlattenSeq([i \in DOMAIN combos |->
                 [n \in DOMAIN s.values |-> combos[i] @@ (s.field :> s.values[n])]]),
             <<Nil>>, SortSeq(sweeps, AxisBefore))

NoResult == [model |-> "", build |-> "", preset |-> "", config |-> Nil]

Point(m, b, p, combo) == [model |-> m, build |-> b, preset |-> p, sweep |-> combo]
PendingCell(point) ==
    [model |-> point.model, build |-> point.build, preset |-> point.preset,
     sweep |-> point.sweep, status |-> "pending", result |-> NoResult]

WithoutRepeats(s) ==
    FoldLeft(LAMBDA kept, x : IF Contains(kept, x) THEN kept ELSE Append(kept, x), <<>>, s)

PerformancePoints(m, b, combos, presets) ==
    FlattenSeq([i \in DOMAIN combos |->
      [n \in DOMAIN presets |-> Point(m, b, presets[n], combos[i])]])

(* One capability cell for each setting that reaches the evaluation.       *)
CapabilityPoints(m, b, combos, presets) ==
    WithoutRepeats(
      FlattenSeq([i \in DOMAIN combos |->
        [n \in DOMAIN presets |->
           Point(m, b, presets[n], Restrict(combos[i], DOMAIN combos[i] \cap AffectsEval))]]))

(* ExpandCellsWithSweeps: builds, models, combinations, presets, with the  *)
(* capability cells at the end of each model.                              *)
Points(req) ==
    LET combos == Combinations(req.sweeps)
        measured == SelectSeq(req.presets, LAMBDA p : ~IsCapability(p))
        evaluated == SelectSeq(req.presets, IsCapability)
    IN  FlattenSeq([i \in DOMAIN req.builds |->
          FlattenSeq([k \in DOMAIN req.models |->
            PerformancePoints(req.models[k], req.builds[i], combos, measured)
            \o CapabilityPoints(req.models[k], req.builds[i], combos, evaluated)])])

ExpandCells(req) ==
    LET points == Points(req) IN [i \in DOMAIN points |-> PendingCell(points[i])]

----------------------------------------------------------------------------
(* CellOverrides, and what of them reaches the measurement: llama-benchy   *)
(* gets no sampling settings, an evaluation only what MapConfigFlags and   *)
(* the placement let through (EvalConfigSnapshot: with no kv_cache_quant   *)
(* of the job's, none at all).                                             *)
CellOverrides(o, sweep) ==
    SetEach(o, sweep, Sorted(DOMAIN sweep))

Reaches(p) ==
    CASE PresetSource[p] = "internal" -> OverrideFields
      [] PresetSource[p] = "benchy" -> OverrideFields \ SamplingFields
      [] PresetSource[p] = "capability" -> AffectsEval

Asked(o, c) ==
    LET all == CellOverrides(o, c.sweep)
    IN  [model |-> c.model, build |-> c.build, preset |-> c.preset,
         config |-> Restrict(all, DOMAIN all \cap Reaches(c.preset))]

(* What runCell and runCapabilityCell check before they load the model.    *)
CanLoad(o, c) ==
    LET all == CellOverrides(o, c.sweep)
        Size(f) == IF Has(all, f) THEN all[f] ELSE Saved[c.model][f]
    IN  BatchSizesValid(Size("batch_size"), Size("ubatch_size"))

----------------------------------------------------------------------------
NoDefinition == [models |-> <<>>, builds |-> <<>>, presets |-> <<>>,
          overrides |-> Nil, sweeps |-> <<>>, params |-> Nil]
Definition(req) == [Resolve(req) EXCEPT !.params = Nil]

(* identifyIn: the point as its sweep values were typed, and the parsed    *)
(* overrides of the whole job.                                             *)
(* mutant: without the overrides *)
IdentityOfPoint(o, c) ==
    [model |-> c.model, build |-> c.build, preset |-> c.preset,
     sweep |-> [f \in DOMAIN c.sweep |-> c.sweep[f].text],
     overrides |-> Nil]

Identity(o, c) ==
    [model |-> c.model, build |-> c.build, preset |-> c.preset,
     sweep |-> [f \in DOMAIN c.sweep |-> c.sweep[f].text],
     overrides |-> o]

(* mutant: matched by its place in the list *)
CarriedByPlace(old, o, fresh, p) ==
    [i \in DOMAIN fresh |->
       IF i \in DOMAIN old /\ old[i].status = "completed"
          /\ Identity(o, old[i]) = Identity(p, fresh[i])
       THEN old[i] ELSE fresh[i]]

(* UpdateJobDefinition's match: the last cell of an identity stands for    *)
(* the new cell of the same identity, with its result, if it is completed. *)
IsPrevious(n, old, o, c, p) ==
    /\ old[n].status = "completed"
    /\ Identity(o, old[n]) = Identity(p, c)
    /\ \A m \in DOMAIN old : Identity(o, old[m]) = Identity(p, c) => m <= n

Carried(old, o, fresh, p) ==
    [i \in DOMAIN fresh |->
       IF \E n \in DOMAIN old : IsPrevious(n, old, o, fresh[i], p)
       THEN old[CHOOSE n \in DOMAIN old : IsPrevious(n, old, o, fresh[i], p)]
       ELSE fresh[i]]

MatrixInit ==
    /\ job = NoDefinition
    /\ cells = <<>>
    /\ pos = 0
    /\ canceled = FALSE
    /\ edits = 0

(* handleCreateJob: nothing is stored unless the queue takes the job.      *)
CreateJob(req) ==
    /\ job = NoDefinition
    /\ Accepted(req)
    /\ job' = Definition(req)
    /\ cells' = ExpandCells(Definition(req))
    /\ pos' = 1
    /\ UNCHANGED <<canceled, edits>>

(* handleUpdateJob: the definition is stored first, and then the queue may *)
(* refuse the job because another one is in flight.                        *)
Edit(req) ==
    /\ job # NoDefinition
    /\ pos = 0
    /\ edits < MaxEdits
    /\ Accepted(req)
    /\ job' = Definition(req)
    /\ cells' = Carried(cells, job.overrides, ExpandCells(Definition(req)),
                        Definition(req).overrides)
    /\ pos' \in {0, 1}
    /\ edits' = edits + 1
    /\ UNCHANGED canceled

Marked == [i \in DOMAIN cells |->
             IF cells[i].status = "failed" THEN [cells[i] EXCEPT !.status = "pending"]
             ELSE cells[i]]

(* RetryFailed: the same, with the failed cells put back.                  *)
Retry ==
    /\ pos = 0
    /\ \E i \in DOMAIN cells : cells[i].status = "failed"
    /\ cells' = Marked
    /\ pos' \in {0, 1}
    /\ UNCHANGED <<job, canceled, edits>>

(* run(): the cells in their order, completed ones passed over.            *)
AtCell == pos \in DOMAIN cells

PassCompletedCell ==
    /\ AtCell
    /\ cells[pos].status = "completed"
    /\ pos' = pos + 1
    /\ UNCHANGED <<job, cells, canceled, edits>>

SkipCell ==
    /\ AtCell
    /\ canceled
    /\ cells[pos].status # "completed"
    /\ cells' = [cells EXCEPT ![pos].status = "skipped"]
    /\ pos' = pos + 1
    /\ UNCHANGED <<job, canceled, edits>>

MeasureCell ==
    /\ AtCell
    /\ ~canceled
    /\ cells[pos].status # "completed"
    /\ CanLoad(job.overrides, cells[pos])
    /\ cells' = [cells EXCEPT ![pos].status = "completed",
                              ![pos].result = Asked(job.overrides, cells[pos])]
    /\ pos' = pos + 1
    /\ UNCHANGED <<job, canceled, edits>>

(* Any cell may fail; one whose batch sizes do not fit does.               *)
FailCell ==
    /\ AtCell
    /\ ~canceled
    /\ cells[pos].status # "completed"
    /\ cells' = [cells EXCEPT ![pos].status = "failed"]
    /\ pos' = pos + 1
    /\ UNCHANGED <<job, canceled, edits>>

CancelJob ==
    /\ pos # 0
    /\ ~canceled
    /\ canceled' = TRUE
    /\ UNCHANGED <<job, cells, pos, edits>>

FinishJob ==
    /\ pos # 0
    /\ ~AtCell
    /\ pos' = 0
    /\ canceled' = FALSE
    /\ UNCHANGED <<job, cells, edits>>

MatrixNext ==
    \/ \E req \in Requests : CreateJob(req) \/ Edit(req)
    \/ Retry
    \/ PassCompletedCell
    \/ SkipCell
    \/ MeasureCell
    \/ FailCell
    \/ CancelJob
    \/ FinishJob

MatrixSpec == MatrixInit /\ [][MatrixNext]_matrixVars

----------------------------------------------------------------------------
(* The stored definition is one the handlers resolved, and a cell of it    *)
(* has a result exactly while it counts as completed.                      *)
MatrixTypeOK ==
    /\ job = NoDefinition \/ job \in {Definition(req) : req \in Requests}
    /\ \A i \in DOMAIN cells :
         /\ cells[i].model \in ToSet(job.models)
         /\ cells[i].build \in ToSet(job.builds)
         /\ cells[i].preset \in ToSet(job.presets)
         /\ DOMAIN cells[i].sweep \subseteq Swept(job)
         /\ cells[i].status \in {"pending", "completed", "failed", "skipped"}
         /\ (cells[i].status = "completed") = (cells[i].result # NoResult)
    /\ pos \in 0 .. Len(cells) + 1
    /\ canceled \in BOOLEAN
    /\ edits \in 0 .. MaxEdits

(* A completed cell was measured at what the job, as it stands now, says   *)
(* of that cell: no edit of a value, fixed or swept, re-attributes an      *)
(* older result (cellIdentity, overrideKey).                               *)
CompletedIsAsLabelled ==
    \A i \in DOMAIN cells :
      cells[i].status = "completed" => cells[i].result = Asked(job.overrides, cells[i])

(* Two cells never ask for the same measurement, so no result appears as   *)
(* two data points (ValidateSweeps, ValidateSamplingSupport and the        *)
(* capability collapse).  The one exception the code leaves is a setting   *)
(* of a speculative mode spelled in two ways: canonicalSpecValue compares  *)
(* those as text.                                                          *)
PointsAreDistinct ==
    \A i, j \in DOMAIN cells :
      i # j /\ Asked(job.overrides, cells[i]) = Asked(job.overrides, cells[j])
        => /\ "spec_type" \in DOMAIN cells[i].sweep \cap DOMAIN cells[j].sweep
           /\ cells[i].sweep["spec_type"].parts # cells[j].sweep["spec_type"].parts

(* The order pays for each change once: the cells of a build, of a model,  *)
(* of its performance half, and of each configuration that needs a router  *)
(* reload there, follow each other (ExpandCellsWithSweeps's comment).      *)
ReloadGroup(c) ==
    LET o == CellOverrides(job.overrides, c.sweep)
    IN  IF IsCapability(c.preset) THEN Nil ELSE Restrict(o, DOMAIN o \ SamplingFields)

GroupedBy(Key(_)) ==
    \A i, j, k \in DOMAIN cells :
      i < j /\ j < k /\ Key(cells[i]) = Key(cells[k]) => Key(cells[j]) = Key(cells[i])

ReloadsAreMinimal ==
    /\ GroupedBy(LAMBDA c : c.build)
    /\ GroupedBy(LAMBDA c : <<c.build, c.model>>)
    /\ GroupedBy(LAMBDA c : <<c.build, c.model, IsCapability(c.preset)>>)
    /\ GroupedBy(LAMBDA c : <<c.build, c.model, IsCapability(c.preset), ReloadGroup(c)>>)

(* The size the limit is checked against is the size of the matrix that is *)
(* then built, collapse and repeated values included (validateJobRequest). *)
CountIsExact == job # NoDefinition => Len(cells) = MatrixSize(job)

(* An accepted job can measure something on every model it names: some     *)
(* cell of it passes the batch check that runs when the cell is reached    *)
(* (validateBatchMatrix against ValidateBatchSizes).                       *)
EveryModelCanRun ==
    \A m \in ToSet(job.models) :
      \E i \in DOMAIN cells : cells[i].model = m /\ CanLoad(job.overrides, cells[i])

(* A completed cell whose point is still in the job, under the same fixed  *)
(* values, keeps its result whatever else an edit, a retry or the run      *)
(* changes, the order of the matrix included (handleUpdateJob's comment).  *)
SamePoint(c, d) ==
    /\ c.model = d.model /\ c.build = d.build /\ c.preset = d.preset
    /\ c.sweep = d.sweep

CompletedSurvives ==
    [][\A i \in DOMAIN cells : \A j \in DOMAIN cells' :
         /\ cells[i].status = "completed"
         /\ SamePoint(cells[i], cells'[j])
         /\ job.overrides = job'.overrides
         => cells'[j] = cells[i]]_matrixVars

(* The matrix that a job is made or edited into: no measurement twice, the *)
(* fewest reloads, the size the limit was checked on, and every model can  *)
(* run some of it.                                                         *)
MatrixIsSound ==
    /\ MatrixTypeOK
    /\ PointsAreDistinct
    /\ ReloadsAreMinimal
    /\ CountIsExact
    /\ EveryModelCanRun
=============================================================================
