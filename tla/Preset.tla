------------------------------- MODULE Preset -------------------------------
(***************************************************************************)
(* What the router is told of a model's config: the section of the preset  *)
(* file (internal/models/preset.go, specflags.go), the flags that the      *)
(* model's page shows for it (EffectiveFlagsFor), the defaults of a        *)
(* speculative mode (specparams.go, api/service.go) and the names under    *)
(* which a model is asked for.                                             *)
(*                                                                         *)
(* A launch is a function from flags to values.  A config holds 0 or ""    *)
(* for what is unset, except layers and threads, where 0 is a value; its   *)
(* sampling maps the parameters that are set; its extra flags are tokens   *)
(* [dash, digit, eq, name, value].  Probabilities are in hundredths.       *)
(***************************************************************************)
EXTENDS Placement, Maps, Sequences

Opt(condition, flags) == IF condition THEN flags ELSE <<>>
NonZero(f) == [x \in {y \in DOMAIN f : f[y] # 0} |-> f[x]]

-----------------------------------------------------------------------------
\* What a config's sampling and its draft's resources may set.
Sampled == {"temp", "top_p", "top_k", "min_p", "presence_penalty", "repeat_penalty"}
Resources == {"ctx-size-draft", "gpu-layers-draft", "device-draft", "n-cpu-moe-draft",
              "cache-type-k-draft", "cache-type-v-draft"}

\* SpecModeParams: the parameters a mode offers, with their defaults.
Knobs == {"draft_max", "draft_min", "draft_p_min", "ngram_size_n", "ngram_size_m"}
SpecModeParams(mode) ==
    CASE mode = "draft" -> [draft_max |-> 16, draft_min |-> 0, draft_p_min |-> 75]
      [] mode = "draft-mtp" -> [draft_max |-> 6, draft_min |-> 0, draft_p_min |-> 0]
      [] mode \in {"ngram-simple", "ngram-cache", "ngram-map-k", "ngram-map-k4v"} ->
            [draft_max |-> 16, ngram_size_n |-> 12, ngram_size_m |-> 48]
      [] mode = "ngram-mod" ->
            [draft_max |-> 64, draft_min |-> 48, ngram_size_n |-> 24, ngram_size_m |-> 48]
      [] OTHER -> <<>>

\* applySpecDefaults, when a save changes the mode.
ApplySpecDefaults(c) == [c EXCEPT !.knobs = SpecModeParams(c.spec) ++ [k \in Knobs |-> 0]]

DraftSampling(c) ==
    NonZero([x \in {"spec-draft-n-max", "spec-draft-n-min", "spec-draft-p-min"} |->
            CASE x = "spec-draft-n-max" -> c.knobs["draft_max"]
              [] x = "spec-draft-n-min" -> c.knobs["draft_min"]
              [] OTHER -> c.knobs["draft_p_min"]])

DraftResources(c) == NonZero(c.resources)

\* The n-gram flags have their mode in their names too; there is one mode.
SpecDecodingParams(c) ==
    CASE c.spec = "draft" ->
            Only("spec-type", "draft-simple") ++ Opt(Filled(c.draft), Only("model-draft", c.draft))
                ++ DraftSampling(c) ++ DraftResources(c)
      [] c.spec = "draft-mtp" ->
            Only("spec-type", "draft-mtp") ++ DraftSampling(c)
                ++ Opt(Filled(c.mtp) /\ ~c.mtpOff, Only("model-draft", c.mtp) ++ DraftResources(c))
      [] c.spec = "ngram-mod" ->
            Only("spec-type", c.spec) ++ NonZero([x \in {"spec-ngram-mod-n-max", "spec-ngram-mod-n-min"} |->
                IF x = "spec-ngram-mod-n-max" THEN c.knobs["draft_max"] ELSE c.knobs["draft_min"]])
      [] c.spec \in {"ngram-simple", "ngram-map-k", "ngram-map-k4v"} ->
            Only("spec-type", c.spec) ++ NonZero([x \in {"spec-size-n", "spec-size-m"} |->
                IF x = "spec-size-n" THEN c.knobs["ngram_size_n"] ELSE c.knobs["ngram_size_m"]])
      [] c.spec = "ngram-cache" -> Only("spec-type", c.spec)
      [] OTHER -> <<>>

-----------------------------------------------------------------------------
\* A bug: a negative number is taken for a flag.
AnyDash(t) == t.dash

\* parseExtraFlags: a token that follows a flag without a value is its value,
\* unless it looks like a flag; a negative number does not, and one that no flag
\* takes is a flag of its own.
LooksLikeFlag(t) == t.dash /\ ~t.digit
ParseExtraFlags(tokens) ==
    LET taken[i \in DOMAIN tokens] ==
            /\ i > 1
            /\ ~LooksLikeFlag(tokens[i])
            /\ tokens[i - 1].dash /\ ~tokens[i - 1].eq
            /\ ~taken[i - 1]
        flags == {i \in DOMAIN tokens : tokens[i].dash /\ ~taken[i]}
        last(x) == Max({i \in flags : tokens[i].name = x})
        value(i) == IF tokens[i].eq THEN tokens[i].value
                    ELSE IF i < Len(tokens) /\ taken[i + 1] THEN tokens[i + 1].name ELSE "true"
    IN  [x \in {tokens[i].name : i \in flags} |-> value(last(x))]

\* A bug: a layer count of 0 is taken for an unset one.
LayersIfAny(c) == Opt(c.layers > 0, Only("gpu-layers", c.layers))
Layers(c) == Opt(c.layers >= 0, Only("gpu-layers", c.layers))

Chat(c) ==
    Opt(c.jinja, Only("jinja", "true"))
        ++ Opt(Filled(c.kv), [x \in {"cache-type-k", "cache-type-v"} |-> c.kv])
        ++ Opt(c.directIO, Only("direct-io", "true"))
        ++ Opt(c.ple \in {"on", "off"}, Only("tensor-read-lazy", c.ple))
        ++ Opt(Filled(c.mmproj) /\ ~c.mmprojOff, Only("mmproj", c.mmproj))
        ++ SpecDecodingParams(c)

Sizes(c) ==
    Opt(~c.embedding /\ c.ctx > 0, Only("ctx-size", c.ctx))
        ++ Opt(c.batch > 0, Only("batch-size", c.batch))
        ++ Opt(c.ubatch > 0, Only("ubatch-size", c.ubatch))
        ++ Opt(c.parallel > 1, Only("parallel", c.parallel))
        ++ Only("placement", GPUPlacementParams(c.place, c.backend))
        ++ Opt(c.embedding, Only("embeddings", "true"))

\* writeConfigParams: later lines win, the free text last.
Section(c) ==
    c.sampling
        ++ Opt(~c.embedding, Only("flash-attn", IF c.flash THEN "on" ELSE "off") ++ Chat(c))
        ++ Layers(c) ++ Opt(c.threads >= 0, Only("threads", c.threads)) ++ Sizes(c)

WriteConfigParams(c) == ParseExtraFlags(c.extra) ++ Section(c)

\* The proxy: what a request does not set, it takes from the config of the id.
InjectSamplingDefaults(body, name, ms) ==
    LET called == {m \in ms : m.id = name}
    IN  IF called = {} THEN body ELSE body ++ (CHOOSE m \in called : TRUE).c.sampling

\* EffectiveFlagsFor, by the names of the preset: the sampling has a panel of
\* its own.
EffectiveFlagsFor(c) ==
    ParseExtraFlags(c.extra)
        ++ Opt(~c.embedding, Opt(c.flash, Only("flash-attn", "on")) ++ Chat(c))
        ++ Opt(c.place.mode = "tensor", Only("fit", "off"))
        ++ Only("gpu-layers", c.layers) ++ Only("threads", c.threads) ++ Sizes(c)

\* ValidateBatchSizes, ValidateFlashAttention: what a save accepts.
EffectiveBatchSize(c) == IF c.batch > 0 THEN c.batch ELSE 2048
EffectiveUBatchSize(c) == IF c.ubatch > 0 THEN c.ubatch ELSE 512
Accepted(c) ==
    /\ c.batch >= 0 /\ c.ubatch >= 0
    /\ EffectiveUBatchSize(c) <= EffectiveBatchSize(c)
    /\ ~c.flash => c.place.mode # "tensor" /\ ~Filled(c.kv)

-----------------------------------------------------------------------------
\* GeneratePresetINI, of models [id, dir, public, aliases, enabled]: a directory
\* that holds several enabled models names none of them.
EnabledIn(ms) == {m \in ms : m.enabled}

Names(m, ms) ==
    ({m.id, m.public} \union m.aliases
        \union {d \in {m.dir} : {k \in EnabledIn(ms) : k.dir = d} = {m}}) \ {""}

\* FindByAny: an id first, then any model that goes by the name.
FindByAny(x, ms) ==
    IF \E m \in ms : m.id = x THEN {m \in ms : m.id = x}
    ELSE {m \in ms : x = m.public \/ x \in m.aliases}
=============================================================================
