------------------------------ MODULE Estimate ------------------------------
(***************************************************************************)
(* What a model takes of a GPU: the reader of GGUF headers                 *)
(* (internal/models/gguf.go), the estimate made of what it found           *)
(* (internal/models/vram.go), and the totals of what llama.cpp reports of  *)
(* a load (internal/memreport/memreport.go).                               *)
(*                                                                         *)
(* A file is a sequence of entries; an entry has a key, the type its value *)
(* is written with, and the value.  The reader walks the bytes in order,   *)
(* so a value it fails to consume leaves it in the middle of an entry:     *)
(* lost is that, and nothing read after it is the file's.  A key is its    *)
(* name, and the architecture it is prefixed with, or "".                  *)
(***************************************************************************)
EXTENDS Maps, Integers, Sequences, FiniteSets, FiniteSetsExt, SequencesExt

CONSTANTS
    Limit,      \* the longest string, and array of numbers, that is read
    None        \* no such key

Widths == [uint8 |-> 8, bool |-> 8, uint16 |-> 16]
IntTypes == {"uint8", "bool", "uint16", "uint32"}
FixedTypes == IntTypes \union {"float32"}

\* readGGUFScalarInt: whatever its sign is in the file, it is read as signed.
ReadScalarInt(type, v) ==
    IF type \in DOMAIN Widths /\ v >= 2 ^ (Widths[type] - 1) THEN v - 2 ^ Widths[type] ELSE v

\* An array's elements, as readGGUFArrayInts takes them: none of a long array
\* or of another type, and all of a numeric one is consumed.
ReadArrayInts(e) ==
    IF e.elem \notin IntTypes \/ Len(e.value) > Limit THEN <<>>
    ELSE [i \in DOMAIN e.value |-> ReadScalarInt(e.elem, e.value[i])]
ArrayConsumed(e) == Len(e.value) <= Limit /\ e.elem \in FixedTypes

\* skipGGUFValue: strings are stepped over, and the arrays of them; an array of
\* arrays is taken for one of strings.
Skippable(e) == e.type = "array" => e.elem # "array"

-----------------------------------------------------------------------------
ArchScalars == {"block_count", "embedding_length", "attention.head_count",
                "attention.head_count_kv", "context_length", "attention.key_length",
                "attention.value_length", "attention.key_length_swa",
                "attention.value_length_swa", "attention.sliding_window",
                "attention.indexer.key_length", "full_attention_interval"}
ArchArrays == {"attention.head_count_kv", "attention.sliding_window_pattern",
               "attention.recurrent_layers"}

\* The bounds of general.sampling.*; a value outside them is read and dropped.
SamplingMax == [temp |-> 4, top_p |-> 1, min_p |-> 1, penalty_repeat |-> 3, top_k |-> 1000]
SamplingMin == [temp |-> 0, top_p |-> 0, min_p |-> 0, penalty_repeat |-> 1, top_k |-> 1]
SamplingTypes(name) == IF name = "top_k" THEN IntTypes ELSE FixedTypes

NoMeta == [arch |-> "", found |-> <<>>, lost |-> FALSE]
Set(m, name, v) ==
    [m EXCEPT !.found = [x \in DOMAIN @ \union {name} |-> IF x = name THEN v ELSE @[x]]]

\* A value that no case takes, or whose type is not the one expected.
Skip(m, e) == [m EXCEPT !.lost = ~Skippable(e)]

\* readGGUFString: of a longer string only the length is consumed.
ReadString(m, e, name) ==
    IF e.value > Limit THEN [m EXCEPT !.lost = TRUE] ELSE Set(m, name, e.value)

ReadArchScalar(m, e) ==
    IF e.type \in IntTypes THEN Set(m, e.name, ReadScalarInt(e.type, e.value)) ELSE Skip(m, e)

ReadArchArray(m, e) ==
    [Set(m, e.name, ReadArrayInts(e)) EXCEPT !.lost = ~ArrayConsumed(e)]

ReadSampling(m, e) ==
    IF e.type \notin SamplingTypes(e.name) THEN Skip(m, e)
    ELSE IF e.value < SamplingMin[e.name] \/ e.value > SamplingMax[e.name] THEN m
    ELSE Set(m, e.name, e.value)

\* The vocabulary is counted by the array's header; its strings are stepped over.
ReadTokens(m, e) == [Set(m, "tokens", Len(e.value)) EXCEPT !.lost = ~Skippable(e)]

\* The alignment of the data is the one key whose value is not stepped over
\* when it is not a number.
ReadAlignment(m, e) ==
    IF e.type \notin IntTypes THEN [m EXCEPT !.lost = TRUE]
    ELSE IF e.value > 0 THEN Set(m, "alignment", ReadScalarInt(e.type, e.value)) ELSE m

\* One key of the scan.  An architecture's keys count once the architecture has
\* been read, and only under its name.
ReadEntry(m, e) ==
    IF m.lost THEN m
    ELSE CASE e.name = "alignment" -> ReadAlignment(m, e)
           [] e.name = "architecture" /\ e.type = "string" -> [m EXCEPT !.arch = e.value]
           [] e.name = "chat_template" /\ e.type = "string" -> ReadString(m, e, "chat_template")
           [] e.name = "tokens" /\ e.type = "array" -> ReadTokens(m, e)
           [] e.name \in DOMAIN SamplingMax -> ReadSampling(m, e)
           [] Filled(e.arch) /\ e.arch = m.arch /\ e.name \in ArchArrays /\ e.type = "array" ->
                ReadArchArray(m, e)
           [] Filled(e.arch) /\ e.arch = m.arch /\ e.name \in ArchScalars /\ e.type # "array" ->
                ReadArchScalar(m, e)
           [] OTHER -> Skip(m, e)

ParseGGUFMeta(file) == FoldLeft(ReadEntry, NoMeta, file)

-----------------------------------------------------------------------------
\* computeKVScaling: [layers, heads, kvHead, kvHeads, embd, keyLen, valLen,
\* keySWA, valSWA, window, pattern, interval, recurrent], 0 or <<>> where a key
\* is absent.
At(seq, i, default) == IF i \in DOMAIN seq THEN seq[i] ELSE default

IsRecurrentLayer(p, i) ==
    IF i \in DOMAIN p.recurrent THEN p.recurrent[i] # 0
    ELSE p.interval > 0 /\ i % p.interval # 0

HeadDim(p) == IF p.heads > 0 THEN p.embd \div p.heads ELSE 0
KeyDim(p) == IF p.keyLen = 0 THEN HeadDim(p) ELSE p.keyLen
ValueDim(p) == IF p.valLen = 0 THEN HeadDim(p) ELSE p.valLen
LocalDims(p) ==
    (IF p.keySWA = 0 THEN KeyDim(p) ELSE p.keySWA) + (IF p.valSWA = 0 THEN ValueDim(p) ELSE p.valSWA)
KVHeads(p, i) == At(p.kvHeads, i, IF p.kvHead = 0 THEN p.heads ELSE p.kvHead)

\* A bug: every layer is taken to hold a cache.
AllLayers(p) == 1 .. p.layers

AttentionLayers(p) == {i \in 1 .. p.layers : ~IsRecurrentLayer(p, i)}
LocalLayers(p) == {i \in AttentionLayers(p) : p.window > 0 /\ At(p.pattern, i, 0) # 0}
PerToken(p, S, dims) == MapThenSumSet(LAMBDA i : KVHeads(p, i) * dims, S)

ComputeKVScaling(p) ==
    LET swa == PerToken(p, LocalLayers(p), LocalDims(p))
        full == PerToken(p, AttentionLayers(p) \ LocalLayers(p), KeyDim(p) + ValueDim(p))
    IN  IF p.layers = 0 \/ KeyDim(p) + ValueDim(p) = 0
        THEN [full |-> 0, swa |-> 0, window |-> 0]
        ELSE [full |-> full, swa |-> swa, window |-> IF swa > 0 THEN p.window ELSE 0]

\* KVCacheGB, in elements, of a known context; without the factors, full
\* attention on every layer (EstimateKVCacheGB).

EstimateKVCache(p, ctx) ==
    LET kv == IF p.kvHead = 0 THEN p.heads ELSE p.kvHead
    IN  IF p.embd = 0 THEN 0
        ELSE 2 * p.layers * kv * (IF p.heads > 0 THEN p.embd \div p.heads ELSE p.embd) * ctx

KVCache(p, ctx) ==
    LET k == ComputeKVScaling(p)
        cached == IF k.window > 0 /\ k.window < ctx THEN k.window ELSE ctx
    IN  IF k.full > 0 \/ k.swa > 0 THEN ctx * k.full + cached * k.swa
        ELSE EstimateKVCache(p, ctx)

-----------------------------------------------------------------------------
\* scanPLETensorBytes: the table is bounded by the next offset there is, or by
\* the end of the file.  Offsets are relative to the aligned start of the data.
DataStart(infoEnd, alignment) == ((infoEnd + alignment - 1) \div alignment) * alignment

SizeAt(offsets, off, size) ==
    LET next == Min({size} \union {o \in ToSet(offsets) : o > off})
    IN  IF next <= off THEN 0 ELSE next - off

TableBytes(offsets, off, infoEnd, alignment, fileSize) ==
    IF fileSize <= DataStart(infoEnd, alignment) THEN 0
    ELSE SizeAt(offsets, off, fileSize - DataStart(infoEnd, alignment))

\* scanShardsForTensors: the first shard is the one the registry names; of the
\* others, those on disk are looked at in order until the table is found.
ShardTable(tables, present) ==
    LET with == {i \in DOMAIN tables : i = 1 \/ i \in present}
        found == {i \in with : tables[i] > 0}
    IN  IF found = {} THEN 0 ELSE tables[Min(found)]

-----------------------------------------------------------------------------
\* VRAMBreakdownForConfigOn, of a model [p, size, ple, embd, ctx, indexer] and the
\* config of a Preset: the terms that depend on how it is launched.  The
\* coefficients are scaled to whole numbers.
Resident(m) == IF m.size - m.ple - m.embd < 0 THEN m.size ELSE m.size - m.ple - m.embd

\* AuxFilesVRAMGB: the files charged besides the model's own.
AuxFiles(c) ==
    {f \in {c.mmproj} : Filled(f) /\ ~c.mmprojOff}
        \union {f \in {c.mtp} : Filled(f) /\ ~c.mtpOff}
        \union {f \in {c.draft} : Filled(f) /\ c.spec = "draft"}

Scratch(ubatch, ctx) == 2911 * ubatch + 9 * ctx
IndexerScratch(m, ubatch, ctx) == IF m.indexer > 0 THEN 569 * ctx * ubatch ELSE 0
IndexerCache(m, ctx) ==
    LET attn == Cardinality(AttentionLayers(m.p))
    IN  (IF attn = 0 THEN m.p.layers ELSE attn) * ctx * m.indexer

Breakdown(m, c, ubatch, cards) ==
    LET ctx == IF c.ctx = 0 THEN m.ctx ELSE c.ctx
    IN  [weights |-> Resident(m), aux |-> AuxFiles(c), kv |-> KVCache(m.p, ctx),
         indexerCache |-> IndexerCache(m, ctx),
         compute |-> Max({1, cards}) * (Scratch(ubatch, ctx) + IndexerScratch(m, ubatch, ctx))]

-----------------------------------------------------------------------------
\* VRAMFitLabel: how many GPUs of a size an estimate needs; None is no label.
VRAMFitLabel(estimate, perGPU, numGPUs) ==
    IF perGPU <= 0 \/ numGPUs <= 0 THEN None
    ELSE IF estimate > perGPU * numGPUs THEN "too_large"
    ELSE Max({1, (estimate + perGPU - 1) \div perGPU})

-----------------------------------------------------------------------------
\* A buffer line: [device, kind, mib].  "Meta()" stands for all the cards of a
\* tensor-parallel load, and what is reported of it is the share of one.
HostDevices == {"CPU", "CPU_Mapped", "ROCm_Host"}
OnGPU(e) == e.device \notin HostDevices
IsAggregate(e) == e.device = "Meta()"

ScaleAggregates(report, cards) ==
    IF cards <= 1 THEN report
    ELSE [i \in DOMAIN report |->
            IF IsAggregate(report[i]) THEN [report[i] EXCEPT !.mib = @ * cards] ELSE report[i]]

SumMiB(report, S) == MapThenSumSet(LAMBDA i : report[i].mib, S)
GPUMiB(report) == SumMiB(report, {i \in DOMAIN report : OnGPU(report[i])})
HostMiB(report) == SumMiB(report, {i \in DOMAIN report : ~OnGPU(report[i])})
GPUOf(report, kind) ==
    SumMiB(report, {i \in DOMAIN report : OnGPU(report[i]) /\ report[i].kind = kind})

\* The terms of the tooltip and of a benchmark's memory column.
Weights(report) == GPUOf(report, "model")
Cache(report) == GPUOf(report, "kv") + GPUOf(report, "recurrent")
Working(report) == GPUOf(report, "compute") + GPUOf(report, "output")
=============================================================================
