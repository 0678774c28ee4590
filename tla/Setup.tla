------------------------------- MODULE Setup -------------------------------
(***************************************************************************)
(* How a server is set up.  A model's placement through its life: the      *)
(* config page (api/service.go, api/gpu_view.go) saves a choice of         *)
(* Placement's, a backup carries it to another machine, and the next start *)
(* runs it.  The rest takes one input each: what the sizes shown for a     *)
(* model are made of (Estimate), a config and what a start makes of it     *)
(* (Preset), the sampling found for a model (SamplingPresets), a settings  *)
(* form posted, and a whole backup restored (Settings).                    *)
(***************************************************************************)
EXTENDS Placement, Estimate, Settings, Preset, SamplingPresets

CONSTANTS
    Machines,   \* [n, igpu]: the GPUs of a machine, and those in its processor
    OldConfigs, \* placements of configs written before the dropdown there is now
    PerGPU,     \* GB of a GPU
    Needs,      \* GB that a model needs
    Loads,      \* GB that other models take of a GPU
    Inputs      \* [kind |-> "header", "model", "tensors", "report", "config",
                \* "names", "presets", "form" or "backup", ...]

ASSUME SizesAssumption ==
    Limit \in Nat /\ PerGPU \in Nat \ {0} /\ Needs \subseteq Nat \ {0} /\ Loads \subseteq Nat

ASSUME MachinesAssumption ==
    \A m \in Machines : m.n \in Nat \ {0} /\ m.igpu \subseteq GPUs(m.n)

(* Before the dropdown, what was split by tensors was over the first GPUs. *)
ASSUME OldConfigsAssumption ==
    \A c \in OldConfigs :
        /\ c = Placed(Unset, c.split, c.mode)
        /\ c.split = [len |-> c.split.len, on |-> c.split.on] /\ c.split.len \in Nat
        /\ c.mode = "tensor" =>
             c.split = NoSplit \/ \E k \in 2 .. c.split.len : c.split.on = GPUs(k)

(* Settings that a server wrote: numbers and switches have a text, a       *)
(* source is one of two or none, and the environment passed the checks.    *)
SavedConf(conf) ==
    /\ conf = [plain |-> conf.plain, env |-> conf.env, extra |-> conf.extra]
    /\ conf.plain \in [Plain -> STRING]
    /\ conf.plain["default_model_source"] \in {"", "huggingface", "modelscope"}
    /\ \A x \in Carried : conf.plain[x] # ""
    /\ ValidEnv(conf.env, conf.extra)

\* A form of the settings page as it is shown, with the rows that the backend
\* filter hides left out: tokens are never shown.
Sections ==
    {{"env"}, {"default_model_source", "hf_token", "ms_token"}, {"api_key"}, {"auto_start"},
     {"external_url"}, {"models_dir"}, {"active_build", "models_max"}}

FormInput(f) ==
    /\ SavedConf(f.conf)
    /\ f.conf.plain["models_dir"] \in f.dirs \union {""}
    /\ f.section \in Sections
    /\ \/ f.edit.of = "plain" /\ f.edit.name \in f.section \ {"env"}
       \/ f.edit.of = "env" /\ f.section = {"env"} /\ f.edit.name \in DOMAIN Curated
       \/ f.edit.of = "extra" /\ f.section = {"env"}

\* A config waits only for a model that is not there.
ServerInput(s) ==
    /\ s = [conf |-> s.conf, presets |-> s.presets, models |-> s.models, pending |-> s.pending,
            files |-> s.files, n |-> s.n, dir |-> s.dir]
    /\ SavedConf(s.conf)
    /\ DOMAIN s.models \subseteq Nat
    /\ \A id \in DOMAIN s.models :
        LET m == s.models[id]
        IN  /\ m = [key |-> m.key, cfg |-> [place |-> m.cfg.place, paths |-> m.cfg.paths]]
            /\ \A x \in DOMAIN m.cfg.paths : m.cfg.paths[x] \in [abs : BOOLEAN, parts : Seq(STRING)]
    /\ DOMAIN s.pending \cap Identities(s) = {}
    /\ s.dir \in Seq(STRING)

(* A free text is the flags that were written one after the other, a flag  *)
(* with its value after an equals sign, or with a word or a negative number*)
(* after it, or alone.                                                     *)
Tokens == [dash : BOOLEAN, digit : BOOLEAN, eq : BOOLEAN, name : STRING, value : STRING]

FlagInput(pair) ==
    LET t == pair.tokens
    IN  /\ t \in Seq(Tokens) /\ Len(t) \in 1 .. 2
        /\ t[1].dash /\ ~t[1].digit /\ t[1].name = pair.flag
        /\ IF Len(t) = 1
           THEN pair.value = IF t[1].eq THEN t[1].value ELSE "true"
           ELSE ~t[1].eq /\ (t[2].dash => t[2].digit) /\ pair.value = t[2].name

TextInput(tokens, pairs) ==
    /\ tokens \in Seq(Tokens)
    /\ Len(pairs) \in Nat /\ DOMAIN pairs = 1 .. Len(pairs)
    /\ \A i \in DOMAIN pairs : FlagInput(pairs[i])
    /\ \E at \in [1 .. Len(pairs) + 1 -> 1 .. Len(tokens) + 1] :
        /\ at[1] = 1 /\ at[Len(pairs) + 1] = Len(tokens) + 1
        /\ \A i \in DOMAIN pairs :
            /\ at[i + 1] = at[i] + Len(pairs[i].tokens)
            /\ \A k \in DOMAIN pairs[i].tokens : tokens[at[i] + k - 1] = pairs[i].tokens[k]

(* A config as the page saves it: counts and sizes are numbers, a context  *)
(* is not below 0, and the placement is one of the dropdown's for two GPUs.*)
ConfigInput(x) ==
    LET c == x.c
    IN  /\ c = [embedding |-> c.embedding, layers |-> c.layers, ctx |-> c.ctx, batch |-> c.batch,
                ubatch |-> c.ubatch, threads |-> c.threads, parallel |-> c.parallel, flash |-> c.flash,
                jinja |-> c.jinja, kv |-> c.kv, directIO |-> c.directIO, ple |-> c.ple, mmproj |-> c.mmproj,
                mmprojOff |-> c.mmprojOff, mtp |-> c.mtp, mtpOff |-> c.mtpOff, spec |-> c.spec,
                draft |-> c.draft, knobs |-> c.knobs, resources |-> c.resources, sampling |-> c.sampling,
                extra |-> c.extra, place |-> c.place, backend |-> c.backend]
        /\ {c.layers, c.batch, c.ubatch, c.threads, c.parallel} \subseteq Int /\ c.ctx \in Nat
        /\ {c.embedding, c.flash} \subseteq BOOLEAN
        /\ DOMAIN c.sampling \subseteq Sampled /\ DOMAIN c.resources \subseteq Resources
        /\ \E o \in GPUAssignOptions(2, {}) \ {CustomOption} : c.place = ResolveGPUAssign(o.assign, 2)
        /\ {x.model.size, x.model.ple, x.model.embd} \subseteq Nat
        /\ TextInput(c.extra, x.pairs)

(* The presets a model has are as the registry keeps them, and pages and   *)
(* files are lists: of names made of tokens, and of headings, rows of      *)
(* cells, and values given inline.  Any repository that is named can be    *)
(* asked, whatever it answers.                                             *)
IsList(s) == Len(s) \in Nat /\ s = [i \in 1 .. Len(s) |-> s[i]]

PresetList(list) ==
    /\ IsList(list)
    /\ \A i \in DOMAIN list :
        /\ list[i] = Preset(list[i].name, list[i].source, list[i].fields)
        /\ \A p \in DOMAIN list[i].fields : InRange(p, list[i].fields[p])
        /\ \A j \in DOMAIN list : list[j].name = list[i].name => j = i

NameInput(name) == IsList(name) /\ \A i \in DOMAIN name : name[i].drop \in BOOLEAN /\ IsList(name[i].text)

LineInput(line) ==
    /\ line.kind \in {"heading", "row", "inline"}
    /\ line.kind = "heading" => line.level \in Nat /\ line.wanted \in BOOLEAN
    /\ line.kind = "row" => IsList(line.cells) /\ \A c \in DOMAIN line.cells :
            LET number == line.cells[c].number IN number = <<>> \/ number = <<number[1]>>

SamplingInput(x) ==
    /\ PresetList(x.m.presets) /\ NameInput(x.m.repo)
    /\ \A pages \in {x.net.index.body, x.net.index.cached} :
        IsList(pages) /\ \A i \in DOMAIN pages : NameInput(pages[i].slug) /\ NameInput(pages[i].title)
    /\ DOMAIN x.net.index.body \union DOMAIN x.net.index.cached \subseteq DOMAIN x.net.pages
    /\ \A i \in DOMAIN x.net.pages : \A lines \in {x.net.pages[i].body, x.net.pages[i].cached} :
        IsList(lines) /\ \A k \in DOMAIN lines : LineInput(lines[k])
    /\ \A s \in {x.net.params, x.net.mirror} \union {x.net.gen[r] : r \in DOMAIN x.net.gen} : IsList(s.body)
    /\ IsList(x.net.tags.body)
    /\ {x.m.base} \union {x.net.tags.body[i].repo : i \in DOMAIN x.net.tags.body} \subseteq DOMAIN x.net.gen \union {""}

(* A header names its architecture first, no key twice, and the keys that  *)
(* every architecture has without a prefix; its texts, lists and numbers   *)
(* are within the limits, and no list is one of lists.                     *)
Generals == {"architecture", "alignment", "chat_template", "tokens"} \union DOMAIN SamplingMax
Unsigned(type, v) == v \in Nat /\ ~(type \in DOMAIN Widths /\ v >= 2 ^ (Widths[type] - 1))

EntryInput(e) ==
    /\ e.name \in Generals => ~Filled(e.arch)
    /\ e.type \in IntTypes => Unsigned(e.type, e.value)
    /\ e.type = "float32" => e.value \in Int
    /\ e.type = "array" => IsList(e.value) /\ e.elem # "array"
    /\ e.name = "alignment" => e.type \in IntTypes
    /\ e.name = "chat_template" /\ e.type = "string" => e.value \in 0 .. Limit
    /\ e.name \in ArchArrays /\ e.type = "array" =>
        Len(e.value) <= Limit /\ e.elem \in IntTypes /\ \A i \in DOMAIN e.value : Unsigned(e.elem, e.value[i])

HeaderInput(file) ==
    /\ IsList(file) /\ Len(file) > 0
    /\ file[1].name = "architecture" /\ file[1].type = "string" /\ Filled(file[1].value)
    /\ \A i \in DOMAIN file : EntryInput(file[i])
    /\ \A i, j \in DOMAIN file : file[i].arch = file[j].arch /\ file[i].name = file[j].name => i = j

(* What a file says of its layers is counts and sizes, and its heads have  *)
(* a width; a file lays its tensors out one after the other, each at the   *)
(* next aligned offset, and lists them in any order; and every line of a   *)
(* report is of a known kind, of all the cards, of one of them, or of none.*)
ModelInput(x) ==
    LET p == x.p
    IN  /\ {x.ctx, p.layers, p.heads, p.kvHead, p.embd, p.keyLen, p.valLen, p.keySWA, p.valSWA, p.window} \subseteq Nat
        /\ \A i \in DOMAIN p.kvHeads : p.kvHeads[i] \in Nat
        /\ KeyDim(p) + ValueDim(p) > 0

TensorInput(f) ==
    LET n == Len(f.sizes)
        end(i) == f.offsets[i] + f.sizes[i]
    IN  /\ n \in Nat \ {0} /\ f.sizes \in [1 .. n -> Nat \ {0}] /\ f.offsets \in [1 .. n -> Nat]
        /\ f.alignment \in Nat \ {0} /\ f.infoEnd \in Nat /\ f.table \in 0 .. n
        /\ \A i, j \in 1 .. n : i < j => end(i) <= f.offsets[j]
        /\ \A i \in 1 .. n - 1 : f.offsets[i + 1] < end(i) + f.alignment
        /\ f.fileSize = DataStart(f.infoEnd, f.alignment) + end(n)
        /\ ToSet(f.listed) = 1 .. n

BufferKinds == {"model", "kv", "recurrent", "compute", "output"}
ReportInput(x) ==
    /\ IsList(x.report) /\ x.cards \in Nat \ {0}
    /\ \A i \in DOMAIN x.report :
        LET e == x.report[i]
        IN  /\ e = [device |-> e.device, kind |-> e.kind, card |-> e.card, mib |-> e.mib]
            /\ e.kind \in BufferKinds /\ e.mib \in Nat
            /\ OnGPU(e) /\ ~IsAggregate(e) => e.card \in 1 .. x.cards

ASSUME InputsAssumption ==
    \A x \in Inputs :
        /\ x.kind # "page"
        /\ x.kind = "header" => HeaderInput(x.file)
        /\ x.kind = "model" => ModelInput(x)
        /\ x.kind = "tensors" => IsList(x.shards) /\ \A i \in DOMAIN x.shards : TensorInput(x.shards[i])
        /\ x.kind = "report" => ReportInput(x)
        /\ x.kind = "config" => ConfigInput(x)
        /\ x.kind = "form" => FormInput(x)
        /\ x.kind = "presets" => SamplingInput(x)
        /\ x.kind = "backup" => ServerInput(x.from) /\ ServerInput(x.to)

VARIABLES
    host,   \* the machine
    cfg,    \* the placement in the registry's config
    shown,  \* the choice the page last showed as the config's, or None
    input   \* what an estimate was last made of, or None

setupVars == <<host, cfg, shown, input>>

\* A split lists the GPUs of the machine that it was written on.
OfThisMachine(c) == c.split = NoSplit \/ c.split.len = host.n

SetupInit ==
    /\ host \in Machines
    /\ cfg \in {Placed(All, NoSplit, "layer")} \union {c \in OldConfigs : OfThisMachine(c)}
    /\ shown = None
    /\ input = None

Offered == GPUAssignOptions(host.n, host.igpu)

\* The page: the migration writes into the registry's own config.
OpenPage ==
    /\ input = None
    /\ cfg' = MigrateGPUAssign(cfg, host.n, host.igpu)
    /\ shown' = IF \E o \in Offered : o.assign = cfg'.assign
                THEN CHOOSE o \in Offered : o.assign = cfg'.assign ELSE None
    /\ UNCHANGED <<host, input>>

\* The form: "custom" keeps the split that came with it.
Save ==
    /\ shown # None
    /\ \E o \in Offered :
        /\ o.assign # Custom
        /\ cfg' = ResolveGPUAssign(o.assign, host.n)
        /\ shown' = o
    /\ UNCHANGED <<host, input>>

SaveCustom ==
    /\ shown # None
    /\ \E S \in SUBSET GPUs(host.n) :
        /\ cfg' = Placed(Custom, Padded(S, host.n), "")
        /\ shown' = CustomOption
    /\ UNCHANGED <<host, input>>

\* A backup of this config is restored on another machine, where no page has
\* shown it.
Restore ==
    /\ input = None
    /\ \E m \in Machines :
        /\ host' = m
        /\ cfg' = Restored(cfg, m.n)
    /\ shown' = None
    /\ UNCHANGED input

\* The page marks a choice, whatever the config is now.
Recommend ==
    /\ cfg.assign = All
    /\ shown = None
    /\ input = None
    /\ \E need \in Needs, used \in [GPUs(host.n) -> Loads] :
        input' = [kind |-> "page", need |-> need, used |-> used]
    /\ UNCHANGED <<host, cfg, shown>>

\* Whichever the machine is.
Estimated ==
    /\ host = CHOOSE m \in Machines : TRUE
    /\ cfg.assign = All
    /\ shown = None
    /\ input = None
    /\ input' \in Inputs
    /\ UNCHANGED <<host, cfg, shown>>

SetupNext == OpenPage \/ Save \/ SaveCustom \/ Restore \/ Recommend \/ Estimated

SetupSpec == SetupInit /\ [][SetupNext]_setupVars

-----------------------------------------------------------------------------
Passed(backend) == GPUPlacementParams(cfg, backend)
Runs(backend) == Holding(Passed(backend), host.n)
ByDropdown == cfg.assign.form \notin {"unset", "custom"}

(* A choice of the dropdown, seen through its text, the split it is saved  *)
(* as, the device list that renumbers the GPUs and the split trimmed to    *)
(* that numbering, ends with weights on the GPUs the choice names, and,    *)
(* where devices have names, with no other GPU opened; a choice that does  *)
(* not warn of an integrated GPU runs on none beside a discrete one.  The  *)
(* exception is the split of an old config restored on another machine.    *)
LaunchedWhereChosen ==
    (shown # None /\ shown # CustomOption /\ OfThisMachine(cfg)) =>
        \A b \in {"rocm", "metal"} :
            /\ Runs(b) = shown.gpus
            /\ b \in Addressable => Visible(Passed(b), host.n) = shown.gpus
            /\ ~shown.igpu => Runs(b) \cap Warned(host.n, host.igpu) = {}

(* Wherever a config comes from, this machine's dropdown or a backup of    *)
(* another's, the GPU map draws it on GPUs that exist and that the start   *)
(* uses, and the estimate charges as many: three readers of the same text  *)
(* (parseGPURange, parseIntList, the split) that have to agree, but for    *)
(* the same exception.                                                     *)
MapIsWhereItRuns ==
    ByDropdown /\ OfThisMachine(cfg) =>
        LET S == ResolveModelGPUs(cfg, host.n)
        IN  /\ S # {} /\ S \subseteq GPUs(host.n)
            /\ Runs("rocm") = S
            /\ DeviceCountForConfig(cfg, host.n) = Cardinality(S)

(* MarkRecommended marks "the best GPU option: fewest GPUs where the model *)
(* weights fit".  It weighs a GPU more as 100 GB of free memory less, so   *)
(* the choice it marks never touches an integrated GPU, and is no larger   *)
(* than another that fits: any other, where a GPU holds up to 42 GB; and   *)
(* below 100 GB, one GPU where one is enough, a part of itself, and any    *)
(* where every GPU holds the same.                                         *)
SurelyFewer(o, p) ==
    \/ PerGPU <= 42
    \/ /\ PerGPU < 100
       /\ \/ Cardinality(p.gpus) = 1
          \/ p.gpus \subseteq o.gpus
          \/ \A g, h \in GPUs(host.n) : input.used[g] = input.used[h]

RecommendedIsFewest ==
    (input # None /\ input.kind = "page") =>
        \A o \in Recommended(Offered, input.need, PerGPU, input.used) :
            /\ o.gpus \cap Warned(host.n, host.igpu) = {}
            /\ \A p \in Offered :
                (~p.igpu /\ p.gpus # {} /\ Fits(p, input.need, PerGPU, input.used)
                    /\ SurelyFewer(o, p)) => Cardinality(o.gpus) <= Cardinality(p.gpus)

(* With nothing else on the GPUs, none of them integrated and none of 100  *)
(* GB or more, the label the model list gives a size ("2 GPU", "too        *)
(* large") and the choice the config page recommends for that size say the *)
(* same number of GPUs.                                                    *)
LabelIsRecommendation ==
    (input # None /\ input.kind = "page" /\ host.igpu = {} /\ PerGPU < 100
        /\ \A g \in GPUs(host.n) : input.used[g] = 0) =>
            LET best == Recommended(Offered, input.need, PerGPU, input.used)
                label == VRAMFitLabel(input.need, PerGPU, host.n)
            IN  IF best = {} THEN label = "too_large"
                ELSE \A o \in best : label = Cardinality(o.gpus)

-----------------------------------------------------------------------------
(* A header whose architecture comes first, with no text or list past the  *)
(* limits and no list of lists, is read to its end, whatever it holds      *)
(* between the keys that are wanted: every wanted key whose value has a    *)
(* usable type and is within its bounds is found with its value, and no    *)
(* other is.  A value of an unexpected type must be stepped over exactly.  *)
Usable(e, arch) ==
    CASE e.name = "alignment" -> e.value > 0
      [] e.name = "chat_template" -> e.type = "string"
      [] e.name = "tokens" -> e.type = "array"
      [] e.name \in DOMAIN SamplingMax ->
            /\ e.type \in SamplingTypes(e.name)
            /\ e.value \in SamplingMin[e.name] .. SamplingMax[e.name]
      [] OTHER ->
            /\ e.arch = arch
            /\ \/ e.name \in ArchScalars /\ e.type \in IntTypes
               \/ e.name \in ArchArrays /\ e.type = "array"
Worth(e) == IF e.name = "tokens" THEN Len(e.value) ELSE e.value

ReadsWhatIsThere ==
    (input # None /\ input.kind = "header") =>
        LET file == input.file
            arch == file[1].value
            meta == ParseGGUFMeta(file)
            wanted == {e \in ToSet(Tail(file)) : Usable(e, arch)}
        IN  /\ ~meta.lost /\ meta.arch = arch
            /\ DOMAIN meta.found = {e.name : e \in wanted}
            /\ \A e \in wanted : meta.found[e.name] = Worth(e)

(* The cache of a context, computed from two sums kept per model and one   *)
(* window, is what the layers take one by one: none in a recurrent layer,  *)
(* the window at most in a local one, each with its own number of heads.   *)
LayerCache(p, ctx, i) ==
    IF IsRecurrentLayer(p, i) THEN 0
    ELSE IF p.window > 0 /\ At(p.pattern, i, 0) # 0
         THEN KVHeads(p, i) * LocalDims(p) * Min({ctx, p.window})
    ELSE KVHeads(p, i) * (KeyDim(p) + ValueDim(p)) * ctx

KVCacheIsPerLayer ==
    (input # None /\ input.kind = "model") =>
        LET sum == MapThenSumSet(LAMBDA i : LayerCache(input.p, input.ctx, i), 1 .. input.p.layers)
        IN  sum > 0 => KVCache(input.p, input.ctx) = sum

(* The embedding table that stays in system memory is measured by the      *)
(* offsets around it: never less than it is, and "at most alignment-1      *)
(* bytes" more, in whatever order the tensors are listed and whichever     *)
(* shard on disk holds them.                                               *)
TrueTable(f) == IF f.table = 0 THEN 0 ELSE f.sizes[f.table]
Measured(f) ==
    IF f.table = 0 THEN 0
    ELSE TableBytes([i \in DOMAIN f.listed |-> f.offsets[f.listed[i]]], f.offsets[f.table],
                    f.infoEnd, f.alignment, f.fileSize)

TableIsMeasured ==
    (input # None /\ input.kind = "tensors") =>
        LET shards == input.shards
            got == ShardTable([i \in DOMAIN shards |-> Measured(shards[i])], input.present)
            here == {i \in DOMAIN shards : shards[i].table # 0 /\ (i = 1 \/ i \in input.present)}
        IN  IF here = {} THEN got = 0
            ELSE \E i \in here :
                    got \in TrueTable(shards[i]) .. TrueTable(shards[i]) + shards[i].alignment - 1

(* "The three terms are every kind llama.cpp reports, so they add up to    *)
(* the total", and the total is what the cards hold together: a line about *)
(* all the cards counts once for each, and system memory never does.       *)
TermsAddUp ==
    (input # None /\ input.kind = "report") =>
        LET cards == input.cards
            report == ScaleAggregates(input.report, cards)
            onCard(c) == MapThenSumSet(LAMBDA i : input.report[i].mib,
                            {i \in DOMAIN report : OnGPU(report[i])
                                /\ (IsAggregate(report[i]) \/ report[i].card = c)})
        IN  /\ Weights(report) + Cache(report) + Working(report) = GPUMiB(report)
            /\ GPUMiB(report) = MapThenSumSet(onCard, 1 .. cards)
            /\ HostMiB(report) = HostMiB(input.report)

-----------------------------------------------------------------------------
\* What llama-server runs of a section that does not say; -1 is its own choice.
Heard(p, flag, default) == IF flag \in DOMAIN p THEN p[flag] ELSE default

Wanted(c) ==
    [layers |-> IF c.layers >= 0 THEN c.layers ELSE -1,
     threads |-> IF c.threads >= 0 THEN c.threads ELSE -1,
     batch |-> IF c.batch = 0 THEN 2048 ELSE c.batch,
     ubatch |-> IF c.ubatch = 0 THEN 512 ELSE c.ubatch,
     slots |-> Max({1, c.parallel}), place |-> GPUPlacementParams(c.place, c.backend)]
Running(p) ==
    [layers |-> Heard(p, "gpu-layers", -1), threads |-> Heard(p, "threads", -1),
     batch |-> Heard(p, "batch-size", 2048), ubatch |-> Heard(p, "ubatch-size", 512),
     slots |-> Heard(p, "parallel", 1), place |-> p["placement"]]
ChatFlags ==
    {"ctx-size", "flash-attn", "jinja", "cache-type-k", "cache-type-v", "direct-io",
     "tensor-read-lazy", "mmproj", "spec-type", "model-draft"}

(* A config that a save accepts is what llama-server runs, its own         *)
(* defaults included wherever the section is silent: 0 layers is a value   *)
(* and not an unset one, flash attention is off when it is off, and never  *)
(* beside a tensor split or a quantized cache, which cannot be loaded; a   *)
(* draft mode hears each number that the page offers for it; a request     *)
(* that names the model by its id samples as the config says, and as it    *)
(* asks itself where it does; an embedding model gets no flag of a chat.   *)
PresetSaysTheConfig ==
    (input # None /\ input.kind = "config" /\ Accepted(input.c)) =>
        LET c == input.c
            p == Section(c)
            d == ApplySpecDefaults(c)
            asked == [temp |-> 1]
            body == InjectSamplingDefaults(asked, "m", {[id |-> "m", c |-> c]})
        IN  /\ Running(p) = Wanted(c)
            /\ Running(p).ubatch <= Running(p).batch
            /\ Heard(p, "flash-attn", "on") = "off" =>
                p["placement"].mode # "tensor" /\ "cache-type-v" \notin DOMAIN p
            /\ c.embedding => DOMAIN p \cap ChatFlags = {}
            /\ ~c.embedding => (Heard(p, "flash-attn", "auto") = "on") = c.flash
            /\ (c.spec \in {"draft", "draft-mtp"} /\ ~c.embedding) =>
                \A k \in DOMAIN SpecModeParams(c.spec) :
                    d.knobs[k] > 0 => d.knobs[k] \in {Section(d)[x] : x \in DOMAIN DraftSampling(d)}
            /\ \A x \in DOMAIN asked \union DOMAIN c.sampling :
                body[x] = IF x \in DOMAIN asked THEN asked[x] ELSE p[x]

(* Every flag of the free text is heard as it was meant, last, negative    *)
(* numbers included, and of what the config says itself only those flags   *)
(* are replaced that the text names.                                       *)
FreeTextIsHeard ==
    (input # None /\ input.kind = "config") =>
        LET p == WriteConfigParams(input.c)
            pairs == input.pairs
        IN  /\ \A i \in DOMAIN pairs :
                (\A j \in DOMAIN pairs : j > i => pairs[j].flag # pairs[i].flag) =>
                    p[pairs[i].flag] = pairs[i].value
            /\ \A x \in DOMAIN p \ {pairs[i].flag : i \in DOMAIN pairs} : p[x] = Section(input.c)[x]

(* The estimate and the preset read the same config, each in its own code: *)
(* every file that a launch loads beside the model is charged, for the     *)
(* context and the micro-batch that the launch runs with, and the weights  *)
(* on the cards are never less than nothing nor more than the file.        *)
ChargesWhatItLoads ==
    (input # None /\ input.kind = "config" /\ Accepted(input.c) /\ ~input.c.embedding) =>
        LET c == input.c
            p == Section(c)
            b == Breakdown(input.model, c, EffectiveUBatchSize(c), DeviceCountForConfig(c.place, 2))
            ctx == Heard(p, "ctx-size", input.model.ctx)
            ub == Heard(p, "ubatch-size", 512)
        IN  /\ {p[x] : x \in DOMAIN p \cap {"mmproj", "model-draft"}} \subseteq b.aux
            /\ b.weights \in 0 .. input.model.size
            /\ b.kv = KVCache(input.model.p, ctx)
            /\ b.compute = Cardinality(Holding(p["placement"], 2))
                             * (Scratch(ub, ctx) + IndexerScratch(input.model, ub, ctx))

(* "EffectiveFlagsFor returns the flags that will be used at launch": what *)
(* the page shows for a config, without the sampling, is what the start    *)
(* passes, a count below 0 being llama-server's own choice.  Two flags are *)
(* exceptions: the fit that is shown off beside a tensor split is not in   *)
(* the preset, and the flash attention that is off is not shown.           *)
ShownIsLaunched ==
    (input # None /\ input.kind = "config" /\ Accepted(input.c)) =>
        LET p == WriteConfigParams(input.c)
            listed == EffectiveFlagsFor(input.c)
        IN  /\ \A x \in DOMAIN listed :
                IF x \in DOMAIN p THEN listed[x] = p[x]
                ELSE x = "fit" \/ (x \in {"gpu-layers", "threads"} /\ listed[x] < 0)
            /\ \A x \in DOMAIN p \ (DOMAIN listed \union DOMAIN input.c.sampling) :
                x = "flash-attn" /\ p[x] = "off"

(* However models share directories and aliases are given, no name is on   *)
(* two sections of the preset, at which the router refuses to load one of  *)
(* them, as long as the names the user chose and the public ones are each  *)
(* one model's; and a name that a section lists leads the pages and the    *)
(* proxy to that model, or to none for the name of its directory.          *)
NamesReachTheirModel ==
    (input # None /\ input.kind = "names") =>
        LET ms == input.models
            given(m) == ({m.id, m.public} \union m.aliases) \ {""}
            clear == \A m, k \in ms : m # k => given(m) \cap (given(k) \union {k.dir}) = {}
        IN  clear =>
                /\ \A m, k \in EnabledIn(ms) : m # k => Names(m, ms) \cap Names(k, ms) = {}
                /\ \A m \in EnabledIn(ms) : \A x \in Names(m, ms) :
                    FindByAny(x, ms) \in SUBSET {m} /\ (x # m.dir => FindByAny(x, ms) = {m})

-----------------------------------------------------------------------------
(* What is recommended for a variant of a model is, parameter by           *)
(* parameter, what the first source says that names it within its range:   *)
(* the file, the family's page, the base model, the repository; whichever  *)
(* of them fail, nothing the model had is lost, each variant is there      *)
(* once, and the page is never that of another version of the family       *)
(* ("wrong-family numbers are worse than no preset").  A client is told    *)
(* the user's own values where there are some.                             *)
Says(list, name) == [p \in Params |->
    LET known == {i \in DOMAIN list : list[i].name = name /\ p \in DOMAIN list[i].fields}
    IN  {list[i].fields[p] : i \in known}]

FirstSaid(sources, name, p) ==
    LET who == {i \in DOMAIN sources : Says(sources[i], name)[p] # {}}
    IN  IF who = {} THEN {} ELSE Says(sources[Min(who)], name)[p]

\* The first number in a family's name.
NumberOf(x) ==
    LET digits == {i \in DOMAIN x : ~x[i].letter}
        after == {i \in DOMAIN x \ digits : i > Min(digits)}
    IN  IF digits = {} THEN <<>> ELSE SubSeq(x, Min(digits), Min({Len(x) + 1} \union after) - 1)

OtherVersion(repo, page) ==
    \A k \in Keys(page) : NumberOf(k) \notin {<<>>, NumberOf(FamilyKey(repo))}

RecommendedOnPage(lines, name, p, v) ==
    \E i, j \in DOMAIN lines :
        /\ i < j /\ lines[i].kind = "heading" /\ lines[i].wanted
        /\ \A k \in i + 1 .. j - 1 : lines[k].kind = "heading" => lines[k].level > lines[i].level
        /\ \/ lines[j].kind = "inline" /\ lines[j].param = p /\ lines[j].value = v /\ name = Default
           \/ lines[j].kind = "row" /\ lines[j].head = p /\ \E c \in DOMAIN lines[j].cells :
                lines[j].cells[c].number = <<v>> /\ \E h \in i + 1 .. j - 1 :
                    lines[h].kind = "row" /\ c \in DOMAIN lines[h].cells /\ lines[h].cells[c].name = name

RecommendationsAreTheirs ==
    (input # None /\ input.kind = "presets") =>
        LET m == input.m
            net == input.net
            list == EnrichModelPresets(m, net)
            sources == <<m.presets>> \o (IF m.embedding THEN <<>> ELSE Sources(m, net))
            names == UNION {{s[i].name : i \in DOMAIN s} : s \in ToSet(sources)}
            page == MatchDocsPage(CachedGet(net.index), m.repo)
        IN  /\ Cardinality({list[i].name : i \in DOMAIN list}) = Len(list)
            /\ {list[i].name : i \in DOMAIN list} = names
            /\ \A x \in names, p \in Params : Says(list, x)[p] = FirstSaid(sources, x, p)
            /\ \A i \in DOMAIN list : \A p \in DOMAIN list[i].fields : InRange(p, list[i].fields[p])
            /\ page # 0 =>
                /\ ~OtherVersion(m.repo, CachedGet(net.index)[page])
                /\ \A d \in ToSet(FetchUnslothDocs(net, m.repo)) : \A p \in DOMAIN d.fields :
                    RecommendedOnPage(CachedGet(net.pages[page]), d.name, p, d.fields[p])
            /\ \A p \in DOMAIN m.chosen : BuildSampling(list, m.chosen)[p] = m.chosen[p]

-----------------------------------------------------------------------------
PageForm(conf, section, hidden) ==
    [json |-> FALSE, touched |-> section = {"env"}, extra |-> conf.extra,
     plain |-> [x \in section \ {"env"} |-> IF x \in Secrets THEN "" ELSE Normal(x, conf.plain[x])],
     env |-> [x \in DOMAIN Curated \ hidden |-> IF x \in DOMAIN conf.env THEN conf.env[x] ELSE ""]]

Edited(form, edit) ==
    CASE edit.of = "plain" -> [form EXCEPT !.plain = Put(@, edit.name, edit.value)]
      [] edit.of = "env" -> [form EXCEPT !.env = Put(@, edit.name, edit.value)]
      [] edit.of = "extra" -> [form EXCEPT !.extra = edit.value]

(* Posting a form of the settings page with one field changed changes that *)
(* field and nothing else of what the router is launched with, whichever   *)
(* rows were hidden and although every token was posted blank; the line of *)
(* the free text wins over the field; a refusal changes nothing, and what  *)
(* was accepted is what the next start of the server reads, of all the     *)
(* places where a settings file may be.                                    *)
LaunchValue(conf, x) ==
    LET pairs == Pairs(conf.env, conf.extra) IN IF x \in DOMAIN pairs THEN pairs[x] ELSE ""

OnlyTheEdit ==
    (input # None /\ input.kind = "form") =>
        LET old == input.conf
            edit == input.edit
            r == UpdateSettings(old, Edited(PageForm(old, input.section, input.hidden), edit), input.dirs)
            names == DOMAIN Curated \union Risky
        IN  /\ ValidEnv(r.conf.env, r.conf.extra)
            /\ ~r.saved => r.conf = old
            /\ r.saved =>
                LET path == DefaultConfigPath(input.place, input.existing)
                IN  /\ DefaultConfigPath(input.place, input.existing \union {path}) = path
                    /\ Loaded(r.conf.plain, "", input.dirs) = r.conf.plain
            /\ \A x \in Plain \ {edit.name} :
                r.conf.plain[x] \in {old.plain[x], Normal(x, old.plain[x])}
            /\ edit.of # "extra" =>
                \A x \in names \ {edit.name} : LaunchValue(r.conf, x) = LaunchValue(old, x)
            /\ edit.of = "env" /\ r.saved =>
                LaunchValue(r.conf, edit.name) =
                    IF edit.name \in DOMAIN LinePairs(old.extra) THEN LinePairs(old.extra)[edit.name]
                    ELSE edit.value

-----------------------------------------------------------------------------
Sections4 == {"settings", "env", "presets", "configs"}
\* Of as many GPUs, with every file that a config names.
Alike(from, to) ==
    /\ from.n = to.n
    /\ \A id \in DOMAIN from.models :
        LET c == from.models[id].cfg
        IN  /\ Restored(c.place, from.n) = c.place
            /\ \A x \in DOMAIN c.paths :
                LET p == Relativized(c.paths[x], from.dir)
                IN  \/ p = NoPath
                    \/ p.abs /\ p.parts \in to.files /\ ~IsPrefix(to.dir, p.parts)
                    \/ ~p.abs /\ to.dir \o p.parts \in to.files

DefaultConfig(s) == [place |-> Placed(All, NoSplit, "layer"), paths |-> [mmproj |-> NoPath]]

(* A restored backup is all there: restoring it again changes nothing; a   *)
(* model that arrives after the restore ends with the config it would have *)
(* had by arriving before it, and the waiting entry is gone; and a backup  *)
(* of the restored server says again what this one said: its settings, its *)
(* variables and presets with those the server had besides, its free text  *)
(* if it had one, and on a machine that has as many GPUs and the files its *)
(* models' configs, with the paths under its own models directory.         *)
BackupCarriesAll ==
    (input # None /\ input.kind = "backup") =>
        LET file == Assemble(input.from, TRUE)
            r == Apply(input.to, file, Sections4)
            again == Assemble(r, TRUE)
            free == (1 .. Cardinality(DOMAIN r.models) + 1) \ DOMAIN r.models
        IN  /\ Apply(r, file, Sections4) = r
            /\ \A k \in DOMAIN r.pending, new \in free :
                LET late == Arrive(r, new, k, DefaultConfig(r))
                IN  /\ k \in DOMAIN file.configs =>
                        late = Apply(Arrive(input.to, new, k, DefaultConfig(r)), file, Sections4)
                    /\ k \notin DOMAIN late.pending
            /\ \A x \in DOMAIN file.plain : again.plain[x] = Normal(x, file.plain[x])
            /\ again.env = file.env ++ input.to.conf.env
            /\ file.extra # <<>> => again.extra = file.extra
            /\ again.presets = file.presets ++ input.to.presets
            /\ Alike(input.from, input.to) =>
                \A k \in Identities(r) \cap DOMAIN file.configs : again.configs[k] = file.configs[k]

(* What was there is there, with the value it had or with the one given.   *)
Kept(old, given, new) ==
    \A x \in DOMAIN old :
        x \in DOMAIN new /\ (new[x] = old[x] \/ (x \in DOMAIN given /\ new[x] = given[x]))

(* "It never deletes: settings merge field-wise, env merges per key,       *)
(* presets and configs upsert" (internal/backup/restore.go:116).  Whatever *)
(* file is restored, one written by hand with a blank token, a blank or an *)
(* unknown variable included, and whichever sections are selected, what    *)
(* the server has stays as it is unless the file gives the like of it.     *)
(* Given, a setting is never blanked, but a variable is, where the file    *)
(* has it blank; and a free text replaces the whole of the old one, so     *)
(* that a variable that was only in it is gone.  So a server is launched   *)
(* with another value of a variable, or without it, only when the file     *)
(* names it, or when the old free text named it and the file has one.  The *)
(* environment can still be launched.                                      *)
RestoreNeverDeletes ==
    (input # None /\ input.kind = "backup") =>
        LET old == input.to
            plain == Assemble(input.from, FALSE)
            files == {Assemble(input.from, TRUE), plain,
                      [plain EXCEPT !.plain = Put(@, "hf_token", "")],
                      [plain EXCEPT !.env = Put(@, "verbosity", "")],
                      [plain EXCEPT !.env = Put(@, "bogus", "1")]}
        IN  \A file \in files, sel \in SUBSET Sections4 :
                LET r == Apply(old, file, sel)
                    given(section, part) == IF section \in sel THEN part ELSE <<>>
                    before == LinePairs(old.conf.extra)
                    text == given("env", file.extra)
                IN  /\ ValidEnv(r.conf.env, r.conf.extra)
                    /\ \A x \in Plain :
                        \/ r.conf.plain[x] = old.conf.plain[x]
                        \/ /\ x \in DOMAIN given("settings", file.plain)
                           /\ r.conf.plain[x] = Normal(x, file.plain[x]) /\ r.conf.plain[x] # ""
                    /\ Kept(old.conf.env, given("env", file.env), r.conf.env)
                    /\ r.conf.extra \in {old.conf.extra, file.extra}
                    /\ text = <<>> => r.conf.extra = old.conf.extra
                    /\ \A x \in DOMAIN Pairs(old.conf.env, old.conf.extra) :
                        \/ LaunchValue(r.conf, x) = LaunchValue(old.conf, x)
                        \/ x \in DOMAIN given("env", file.env) \union DOMAIN LinePairs(text)
                        \/ text # <<>> /\ x \in DOMAIN before
                    /\ Kept(old.presets, given("presets", file.presets), r.presets)
                    /\ DOMAIN old.models = DOMAIN r.models
                    /\ DOMAIN old.pending \subseteq DOMAIN r.pending
                    /\ \A id \in DOMAIN old.models :
                        old.models[id].key \notin DOMAIN given("configs", file.configs)
                            => r.models[id] = old.models[id]
                    /\ \A k \in DOMAIN old.pending :
                        k \notin DOMAIN given("configs", file.configs) => r.pending[k] = old.pending[k]

(* Where a model runs is where the dropdown, its map and its estimate say. *)
PlacementIsHonoured == LaunchedWhereChosen /\ MapIsWhereItRuns

(* The sizes shown for a model are those of what its file holds and of     *)
(* what a launch of it reports, and the GPUs recommended for a size are    *)
(* the fewest that hold it, where the score surely puts fewer first.       *)
SizesAreRight ==
    /\ RecommendedIsFewest
    /\ LabelIsRecommendation
    /\ ReadsWhatIsThere
    /\ KVCacheIsPerLayer
    /\ TableIsMeasured
    /\ TermsAddUp

(* A start runs the config that was saved, under the names it was given,   *)
(* the page shows it, and the estimate charges it.                         *)
LaunchIsTheConfig ==
    PresetSaysTheConfig /\ ShownIsLaunched /\ ChargesWhatItLoads /\ NamesReachTheirModel

(* Settings outlive an edit of one of them and, where the backup has none  *)
(* of the kind, a restore on a server that has others.                     *)
SettingsSurvive == OnlyTheEdit /\ BackupCarriesAll /\ RestoreNeverDeletes
=============================================================================
