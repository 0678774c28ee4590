----------------------------- MODULE Placement -----------------------------
(***************************************************************************)
(* Which GPUs a model runs on (internal/models/gpu_assign.go): the choices *)
(* of the dropdown, what a choice is saved as, what a start tells          *)
(* llama-server, and what the GPU map, the estimate and the recommendation *)
(* make of the saved config; with the two paths on which a config changes  *)
(* machines or ages (internal/backup/restore.go, internal/api/gpu_view.go).*)
(*                                                                         *)
(* An assignment is the text of a dropdown value, by its form.  A          *)
(* zero-padded tensor-split is its length and the positions that are not   *)
(* zero.  Sizes are whole GB.                                              *)
(***************************************************************************)
EXTENDS Integers, FiniteSets, FiniteSetsExt

GPUs(n) == 0 .. n - 1

Unset == [form |-> "unset"]
All == [form |-> "all"]
Custom == [form |-> "custom"]
Single(g) == [form |-> "single", gpu |-> g]         \* "2"
Span(lo, hi) == [form |-> "range", lo |-> lo, hi |-> hi]   \* "0-2"
Listed(S) == [form |-> "set", gpus |-> S]           \* "0,2"
TensorFirst(n) == [form |-> "tensorN", n |-> n]     \* "tensor-2"
TensorOf(S) == [form |-> "tensorSet", gpus |-> S]   \* "tensor:0,2"
Tensors == {"tensorN", "tensorSet"}

\* joinInts: one index alone is written as a single GPU is.
Joined(S) == IF Cardinality(S) = 1 THEN Single(CHOOSE g \in S : TRUE) ELSE Listed(S)

-----------------------------------------------------------------------------
\* parseGPURange: a text of one digit is a GPU, and of two digits is nothing.
ParseGPURange(a) ==
    CASE a.form = "single" -> IF a.gpu < 10 THEN {a.gpu} ELSE {}
      [] a.form = "set" -> a.gpus
      [] a.form = "range" -> a.lo .. a.hi
      [] OTHER -> {}

\* parseIntList: of a range it reads the first number.
ParseIntList(a) ==
    CASE a.form = "single" -> {a.gpu}
      [] a.form \in {"set", "tensorSet"} -> a.gpus
      [] a.form = "range" -> {a.lo}
      [] OTHER -> {}

\* tensorAssignGPUs: the first N there are, or the set.
TensorAssignGPUs(a, n) ==
    IF a.form = "tensorSet" THEN a.gpus ELSE GPUs(IF a.n > n THEN n ELSE a.n)

\* GPUAssignOptions: the spanning choices leave integrated GPUs out, unless
\* there is nothing else.
Option(a, S, igpu) == [assign |-> a, gpus |-> S, igpu |-> S \cap igpu # {}]
Discrete(n, igpu) == IF GPUs(n) \subseteq igpu THEN GPUs(n) ELSE GPUs(n) \ igpu
Warned(n, igpu) == IF GPUs(n) \subseteq igpu THEN {} ELSE igpu
First(S, k) == {g \in S : Cardinality({h \in S : h < g}) < k}

SpanAll(n, igpu) ==
    IF Discrete(n, igpu) = GPUs(n) THEN Option(All, GPUs(n), {})
    ELSE Option(Joined(Discrete(n, igpu)), Discrete(n, igpu), {})

TensorOption(n, igpu, k) ==
    LET S == First(Discrete(n, igpu), k)
    IN  Option(IF S = GPUs(k) THEN TensorFirst(k) ELSE TensorOf(S), S, {})

CustomOption == Option(Custom, {}, {})

GPUAssignOptions(n, igpu) ==
    LET D == Discrete(n, igpu)
        Runs(k) == {Option(Span(i, i + k), i .. i + k, Warned(n, igpu)) : i \in 0 .. n - 1 - k}
    IN  {Option(Single(g), {g}, Warned(n, igpu)) : g \in GPUs(n)}
        \union (IF n >= 2 THEN Runs(1) ELSE {})
        \union (IF n >= 4 THEN Runs(2) ELSE {})
        \union {SpanAll(n, igpu)}
        \union {TensorOption(n, igpu, k) : k \in 2 .. Cardinality(D)}
        \union {CustomOption}

-----------------------------------------------------------------------------
\* A config, as far as placement goes.
NoSplit == [len |-> 0, on |-> {}]
Placed(a, split, mode) == [assign |-> a, split |-> split, mode |-> mode]
Padded(S, n) == [len |-> n, on |-> S \cap GPUs(n)]

\* ResolveGPUAssign: n is what the monitor last saw, none when it saw nothing.
ResolveGPUAssign(a, n) ==
    IF a.form \in {"unset", "custom"} \/ n <= 0 THEN Placed(a, NoSplit, "")
    ELSE IF a.form = "all" THEN Placed(a, NoSplit, "layer")
    ELSE IF a.form \in Tensors
         THEN LET S == TensorAssignGPUs(a, n)
              IN  Placed(a, IF Cardinality(S) >= n THEN NoSplit ELSE Padded(S, n), "tensor")
    ELSE IF ParseGPURange(a) = {} THEN Placed(a, NoSplit, "")
    ELSE Placed(a, Padded(ParseGPURange(a), n), "layer")

\* AssignGPUsOutOfRange: the legacy tensor form is not clamped here.
AssignGPUsOutOfRange(a, n) ==
    /\ n > 0
    /\ IF a.form = "tensorN" THEN a.n > n
       ELSE \E g \in (IF a.form = "tensorSet" THEN a.gpus ELSE ParseGPURange(a)) : g >= n

\* Apply, of a restored config: out of range is all, and the rest is resolved
\* for this machine.
Restored(c, n) ==
    IF c.assign.form \in {"unset", "custom"} \/ n = 0 THEN c
    ELSE ResolveGPUAssign(IF AssignGPUsOutOfRange(c.assign, n) THEN All ELSE c.assign, n)

\* migrateGPUAssign, when the config's page is opened.
Legacy(c, n) ==
    IF c.assign.form \notin {"unset", "tensor"} THEN c
    ELSE IF c.mode = "tensor"
         THEN LET k == Cardinality(c.split.on)
              IN  [c EXCEPT !.assign = TensorFirst(IF k >= 2 /\ k < n THEN k ELSE n)]
    ELSE IF c.split # NoSplit THEN [c EXCEPT !.assign = Custom] ELSE c

MigrateGPUAssign(c, n, igpu) ==
    LET m == Legacy(c, n) s == SpanAll(n, igpu)
    IN  IF m.assign = All /\ s.assign # All THEN ResolveGPUAssign(s.assign, n) ELSE m

-----------------------------------------------------------------------------
\* What a start tells llama-server: the devices it may see, or a split over all.
Addressable == {"rocm", "cuda", "vulkan", "sycl"}

SplitDeviceIndices(split) == IF split.on = GPUs(split.len) THEN {} ELSE split.on

\* A bug: the padded split is left as it is beside the device list.
ParamsUntrimmed(c, backend) ==
    LET S == SplitDeviceIndices(c.split)
    IN  IF c.assign.form \notin {"unset", "custom"} /\ S # {} /\ backend \in Addressable
        THEN [device |-> S, split |-> c.split, mode |-> c.mode]
        ELSE [device |-> {}, split |-> c.split, mode |-> c.mode]

GPUPlacementParams(c, backend) ==
    LET S == SplitDeviceIndices(c.split)
    IN  IF c.assign.form \notin {"unset", "custom"} /\ S # {} /\ backend \in Addressable
        THEN [device |-> S, split |-> [len |-> Cardinality(S), on |-> GPUs(Cardinality(S))], mode |-> c.mode]
        ELSE [device |-> {}, split |-> c.split, mode |-> c.mode]

\* llama-server numbers the devices it may see from zero, and puts weights on
\* those the split gives a share; it opens a context on every one it sees.
Visible(p, n) == IF p.device = {} THEN GPUs(n) ELSE p.device
Holding(p, n) ==
    {g \in Visible(p, n) :
        p.split.len = 0 \/ Cardinality({h \in Visible(p, n) : h < g}) \in p.split.on}

\* resolveModelGPUs: what the GPU map draws and the iGPU warning checks.
ResolveModelGPUs(c, n) ==
    IF c.assign.form \in Tensors THEN TensorAssignGPUs(c.assign, n)
    ELSE IF c.assign.form # "all" /\ ParseGPURange(c.assign) # {} THEN ParseGPURange(c.assign)
    ELSE GPUs(n)

\* DeviceCountForConfig: how many GPUs the estimate charges.
DeviceCountForConfig(c, n) ==
    LET host == IF n < 1 THEN 1 ELSE n
    IN  IF c.split.on # {} THEN Cardinality(c.split.on)
        ELSE IF c.assign.form \in Tensors THEN Cardinality(TensorAssignGPUs(c.assign, host))
        ELSE IF c.assign.form \notin {"unset", "all", "custom"} /\ ParseIntList(c.assign) # {}
             THEN Cardinality(ParseIntList(c.assign))
        ELSE host

-----------------------------------------------------------------------------
\* MarkRecommended.  used is what the other enabled models take of each GPU
\* (ComputeAllocations).
Fits(o, need, perGPU, used) ==
    \A g \in o.gpus : (perGPU - used[g]) * Cardinality(o.gpus) >= need

ScoreByRoom(o, perGPU, used) == MapThenSumSet(LAMBDA g : perGPU - used[g], o.gpus)
Score(o, perGPU, used) ==
    MapThenSumSet(LAMBDA g : perGPU - used[g], o.gpus) - Cardinality(o.gpus) * 100

Candidates(opts, need, perGPU, used) ==
    {o \in opts : ~o.igpu /\ o.gpus # {} /\ Fits(o, need, perGPU, used)}

\* The first of the best, in the order of the list: any of them.
Recommended(opts, need, perGPU, used) ==
    LET C == Candidates(opts, need, perGPU, used)
    IN  {o \in C : \A p \in C : Score(o, perGPU, used) >= Score(p, perGPU, used)}
=============================================================================
