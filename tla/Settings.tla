------------------------------ MODULE Settings ------------------------------
(***************************************************************************)
(* The server's settings and its runtime environment (internal/config,     *)
(* internal/api/settings.go), and the backup that carries them with the    *)
(* flag presets and the models' configs (internal/backup, the dependencies *)
(* that internal/api/backup.go hands to it).                               *)
(*                                                                         *)
(* conf is [plain, env, extra]: a value for every setting, "" for none; a  *)
(* value for each curated variable that is set; and the lines of the free  *)
(* text, which are [name, value], and malformed when name is "".  A server *)
(* is [conf, presets, models, pending, files, n, dir]: presets by name,    *)
(* models by registry id, each [key, cfg] with the identity it is known by *)
(* elsewhere, pending configs by identity, the files there are, the GPUs,  *)
(* and the models directory.  A config is [place, paths].                  *)
(***************************************************************************)
EXTENDS Placement, Maps, Sequences, SequencesExt

Secrets == {"hf_token", "ms_token", "api_key"}
Plain == Secrets \union {"default_model_source", "external_url", "active_build", "models_max",
                         "auto_start", "log_level", "models_dir"}

\* RuntimeEnvOptions: one option of each shape, with the values it may have,
\* none for free text.
Curated == [verbosity |-> {"3", "4", "5"}, p2p |-> {"1"}, vkmax |-> {}]
Risky == {"CUDA_VISIBLE_DEVICES", "CUDA_DEVICE_ORDER"}

-----------------------------------------------------------------------------
\* parseExtraEnv, Pairs, Validate, Warnings: the free text overrides a curated
\* value, and of two lines of one name the later counts.
Malformed(extra) == \E i \in DOMAIN extra : extra[i].name = ""

LinePairs(extra) ==
    LET named == {i \in DOMAIN extra : extra[i].name # ""}
        last(x) == Max({i \in named : extra[i].name = x})
    IN  [x \in {extra[i].name : i \in named} |-> extra[last(x)].value]

Pairs(env, extra) ==
    LinePairs(extra) ++ [x \in {y \in DOMAIN env : env[y] # ""} |-> env[x]]

ValidEnv(env, extra) ==
    /\ \A x \in DOMAIN env :
        /\ x \in DOMAIN Curated
        /\ env[x] = "" \/ Curated[x] = {} \/ env[x] \in Curated[x]
    /\ ~Malformed(extra)

-----------------------------------------------------------------------------
\* handleUpdateSettings.  A form is [json, plain, env, extra, touched], with the
\* fields that were posted.  A refusal leaves what was set before it in memory
\* and the file as it was.
Normal(x, v) ==
    IF x = "default_model_source" /\ v # "modelscope" THEN "huggingface" ELSE v

Posted(form) ==
    {x \in DOMAIN form.plain \ {"auto_start", "models_dir"} :
        /\ x \in Secrets => form.plain[x] # ""
        /\ x = "models_max" => form.plain[x] \in {"1", "2"}}   \* a number

WithPlain(conf, form, S) ==
    [conf EXCEPT !.plain = [x \in DOMAIN @ |-> IF x \in S THEN Normal(x, form.plain[x]) ELSE @[x]]]

FormEnv(conf, form) ==
    LET value == form.env ++ conf.env
    IN  [x \in {y \in DOMAIN value \cap DOMAIN Curated : value[y] # ""} |-> value[x]]

UpdateForm(conf, form, dirs) ==
    LET first == WithPlain(conf, form, Posted(form))
        second == IF form.touched THEN [first EXCEPT !.env = FormEnv(conf, form), !.extra = form.extra]
                  ELSE first
        third == WithPlain(second, form, DOMAIN form.plain \cap {"auto_start"})
        moved == "models_dir" \in DOMAIN form.plain /\ form.plain["models_dir"] # conf.plain["models_dir"]
    IN  IF form.touched /\ ~ValidEnv(second.env, second.extra) THEN [conf |-> first, saved |-> FALSE]
        ELSE IF moved /\ form.plain["models_dir"] \notin dirs \union {""}
             THEN [conf |-> third, saved |-> FALSE]
        ELSE [conf |-> WithPlain(third, form, DOMAIN form.plain \cap {"models_dir"}), saved |-> TRUE]

\* A script may blank a token; a form may not.
UpdateSettings(conf, form, dirs) ==
    IF form.json
    THEN [conf |-> WithPlain(conf, form, DOMAIN form.plain \cap (Secrets \union {"default_model_source"})),
          saved |-> TRUE]
    ELSE UpdateForm(conf, form, dirs)

\* Load: the variables of a deployment override the file, and a models
\* directory that is not there is dropped.
Loaded(plain, override, dirs) ==
    [plain EXCEPT !["external_url"] = IF override = "" THEN @ ELSE override,
                  !["models_dir"] = IF @ \in dirs THEN @ ELSE ""]

\* Where the settings file is: a place is [os, xdg, home, local, var], whether the
\* variables and the home directory are there; a path is named by what it is under.
PlatformAppDirs(place) ==
    CASE place.os = "darwin" -> IF place.home THEN <<"Library">> ELSE <<>>
      [] place.os = "windows" -> IF place.local THEN <<"LOCALAPPDATA">> ELSE <<>>
      [] OTHER -> (IF place.xdg THEN <<"XDG">> ELSE <<>>) \o (IF place.home THEN <<".config">> ELSE <<>>)

ConfigSearchPaths(place) ==
    IF place.os = "linux" THEN Append(PlatformAppDirs(place), "/etc")
    ELSE IF PlatformAppDirs(place) = <<>> THEN <<"/data">> ELSE PlatformAppDirs(place)

DefaultConfigPath(place, existing) ==
    LET paths == ConfigSearchPaths(place)
        there == {i \in DOMAIN paths : paths[i] \in existing}
    IN  IF place.var THEN "LLAMA_TOOLCHEST_CONFIG"
        ELSE paths[IF there = {} THEN 1 ELSE Min(there)]

-----------------------------------------------------------------------------
\* The paths of a config: sequences of names, from the root or from the models
\* directory.
NoPath == [abs |-> FALSE, parts |-> <<>>]
AbsolutePath(s) == [abs |-> TRUE, parts |-> s]

Relativized(p, dir) ==
    IF p.abs /\ IsPrefix(dir, p.parts)
    THEN [abs |-> FALSE, parts |-> SubSeq(p.parts, Len(dir) + 1, Len(p.parts))] ELSE p

RelativizePaths(cfg, dir) ==
    [cfg EXCEPT !.paths = [x \in DOMAIN @ |-> Relativized(@[x], dir)]]

ResolvedPath(p, dir, files) ==
    LET full == IF p.abs THEN p.parts ELSE dir \o p.parts
    IN  IF p = NoPath \/ full \notin files THEN NoPath ELSE AbsolutePath(full)

ResolveConfigPaths(cfg, s) ==
    [cfg EXCEPT !.paths = [x \in DOMAIN @ |-> ResolvedPath(@[x], s.dir, s.files)]]

-----------------------------------------------------------------------------
\* Assemble: of the registrations of one identity, the smallest id's config.
Carried == {"models_max", "auto_start", "log_level"}
Exported(conf, secrets) ==
    Carried \union {x \in {"default_model_source"} \union (IF secrets THEN Secrets ELSE {}) :
                        conf.plain[x] # ""}
Identities(s) == {s.models[id].key : id \in DOMAIN s.models}
Installed(s, k) == {id \in DOMAIN s.models : s.models[id].key = k}

Assemble(s, secrets) ==
    [plain |-> [x \in Exported(s.conf, secrets) |-> s.conf.plain[x]],
     env |-> s.conf.env, extra |-> s.conf.extra, presets |-> s.presets,
     configs |-> [k \in Identities(s) |->
                    RelativizePaths(s.models[Min(Installed(s, k))].cfg, s.dir)]]

\* Apply, a section at a time, of those selected.
Given(x, v) == x \in Secrets \union {"log_level"} => v # ""
ApplySettings(conf, file) ==
    [conf EXCEPT !.plain =
        [x \in DOMAIN @ |-> IF x \in DOMAIN file.plain /\ Given(x, file.plain[x]) /\ file.plain[x] # @[x]
                            THEN Normal(x, file.plain[x]) ELSE @[x]]]

MergedEnv(conf, file) ==
    [conf EXCEPT !.env = file.env ++ @, !.extra = IF file.extra = <<>> THEN @ ELSE file.extra]

ApplyEnv(conf, file) ==
    LET merged == MergedEnv(conf, file)
    IN  IF ValidEnv(merged.env, merged.extra) THEN merged ELSE conf

ApplyConfigs(s, file) ==
    LET local(k) == [file.configs[k] EXCEPT !.place = Restored(@, s.n)]
        waiting == {k \in DOMAIN file.configs : Installed(s, k) = {}}
    IN  [s EXCEPT !.models = [id \in DOMAIN @ |->
                                IF @[id].key \in DOMAIN file.configs
                                THEN [@[id] EXCEPT !.cfg = ResolveConfigPaths(local(s.models[id].key), s)]
                                ELSE @[id]],
                  !.pending = [k \in waiting |-> local(k)] ++ @]

Apply(s, file, sel) ==
    LET a == IF "settings" \in sel THEN [s EXCEPT !.conf = ApplySettings(@, file)] ELSE s
        b == IF "env" \in sel THEN [a EXCEPT !.conf = ApplyEnv(@, file)] ELSE a
        c == IF "presets" \in sel THEN [b EXCEPT !.presets = file.presets ++ @] ELSE b
    IN  IF "configs" \in sel THEN ApplyConfigs(c, file) ELSE c

\* A bug: the claimed config keeps the paths of the backup.
ArriveAsExported(s, id, k, default) ==
    [s EXCEPT !.models = Put(@, id, [key |-> k, cfg |-> IF k \in DOMAIN s.pending THEN s.pending[k] ELSE default]),
              !.pending = Without(@, k)]

\* claimPendingLocked, when a model registers.
Arrive(s, id, k, default) ==
    [s EXCEPT !.models = Put(@, id, [key |-> k, cfg |-> IF k \in DOMAIN s.pending
                                                        THEN ResolveConfigPaths(s.pending[k], s) ELSE default]),
              !.pending = Without(@, k)]
=============================================================================
