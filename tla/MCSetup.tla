------------------------------ MODULE MCSetup ------------------------------
(* The instance of Setup for TLC.                                           *)
EXTENDS Setup

MCMachines ==
    {[n |-> k, igpu |-> {}] : k \in 1 .. 4}
    \union {[n |-> 2, igpu |-> {1}], [n |-> 3, igpu |-> {1}], [n |-> 3, igpu |-> {0}],
            [n |-> 4, igpu |-> {0, 2}], [n |-> 1, igpu |-> {0}], [n |-> 5, igpu |-> {4}]}

\* Written before the dropdown: a split over the first GPUs, or none.
MCOldConfigs ==
    {Placed(Unset, NoSplit, ""), Placed(Unset, NoSplit, "tensor"),
     Placed(Unset, [len |-> 2, on |-> {0}], "layer")}
    \union {Placed(Unset, [len |-> n, on |-> GPUs(k)], "tensor") : n \in 3 .. 4, k \in 2 .. 3}

-----------------------------------------------------------------------------
Entry(arch, name, type, value) == [arch |-> arch, name |-> name, type |-> type, value |-> value]
Array(arch, name, elem, value) ==
    [arch |-> arch, name |-> name, type |-> "array", elem |-> elem, value |-> value]

Pool ==
    {Entry("", "alignment", "uint32", 64),
     Entry("", "chat_template", "string", 3),
     Array("", "tokens", "string", <<1, 2, 3, 4, 5, 6>>),
     Entry("", "temp", "float32", 1), Entry("", "temp", "float32", 9), Entry("", "temp", "string", 2),
     Entry("", "top_k", "uint32", 40), Entry("", "top_k", "float32", 40),
     Entry("", "quantized_by", "string", 6),
     Array("", "scores", "float32", <<1, 2>>),
     Entry("gemma", "block_count", "uint32", 4), Entry("gemma", "block_count", "string", 4),
     Entry("llama", "block_count", "uint32", 7),
     Entry("gemma", "attention.head_count_kv", "uint8", 127),
     Array("gemma", "attention.head_count_kv", "uint16", <<1, 2>>),
     Array("gemma", "attention.sliding_window_pattern", "bool", <<1, 0>>),
     Entry("gemma", "attention.sliding_window_pattern", "uint32", 6)}

Headers ==
    {[kind |-> "header", file |-> <<Entry("", "architecture", "string", "gemma"), a, b, c>>] :
        a \in Pool, b \in Pool, c \in Pool}
DistinctKeys(h) ==
    \A i, j \in 1 .. 4 : i # j =>
        <<h.file[i].arch, h.file[i].name>> # <<h.file[j].arch, h.file[j].name>>

Models ==
    {[kind |-> "model", ctx |-> ctx,
      p |-> [layers |-> 4, heads |-> 4, kvHead |-> kv, kvHeads |-> kvs, embd |-> 8, keyLen |-> kl,
             valLen |-> 0, keySWA |-> ks, valSWA |-> 0, window |-> w, pattern |-> pat,
             interval |-> int, recurrent |-> rec]] :
        ctx \in {5, 20}, kv \in {0, 2}, kvs \in {<<>>, <<1, 2>>}, kl \in {0, 3}, ks \in {0, 1},
        w \in {0, 8}, pat \in {<<>>, <<1, 1, 1, 0>>}, int \in {0, 2},
        rec \in {<<>>, <<1, 0, 1, 0>>, <<0>>}}

\* A file lays its tensors out in some order, each at an aligned offset, and
\* lists them in another.
Aligned(x, a) == ((x + a - 1) \div a) * a
Layout(sizes, listed, table, infoEnd) ==
    LET off == [i \in 1 .. 3 |-> IF i = 1 THEN 0
                   ELSE IF i = 2 THEN Aligned(sizes[1], 4)
                   ELSE Aligned(Aligned(sizes[1], 4) + sizes[2], 4)]
    IN  [sizes |-> sizes, listed |-> listed, table |-> table, offsets |-> off, infoEnd |-> infoEnd,
         alignment |-> 4, fileSize |-> DataStart(infoEnd, 4) + off[3] + sizes[3]]
Orders == {<<1, 2, 3>>, <<1, 3, 2>>, <<2, 1, 3>>, <<2, 3, 1>>, <<3, 1, 2>>, <<3, 2, 1>>}
Other(table) == Layout(<<4, 3, 5>>, <<2, 3, 1>>, table, 8)
Tensors3 ==
    {[kind |-> "tensors", present |-> present, shards |-> <<Layout(<<x, y, z>>, order, table, 9)>>
                                    \o (IF table = 0 THEN <<Other(2)>> ELSE <<Other(0)>>)] :
        x \in {1, 4, 6}, y \in {3, 8}, z \in {2, 5}, order \in Orders, table \in 0 .. 3,
        present \in {{}, {2}}}

Buffer(device, kind, card) == [device |-> device, kind |-> kind, card |-> card, mib |-> 1 + 2 * card]
Buffers ==
    {Buffer("Meta()", k, 0) : k \in {"model", "kv", "compute"}}
    \union {Buffer("ROCm0", k, 1) : k \in {"model", "recurrent", "output"}}
    \union {Buffer("ROCm1", "kv", 2), Buffer("CPU_Mapped", "model", 0), Buffer("ROCm_Host", "output", 0)}
Reports ==
    {[kind |-> "report", cards |-> 2, report |-> r] : r \in UNION {[1 .. k -> Buffers] : k \in 1 .. 3}}

-----------------------------------------------------------------------------
PlainOf(v) ==
    [hf_token |-> v.hf, ms_token |-> "", api_key |-> v.api, default_model_source |-> v.source,
     external_url |-> "http", active_build |-> "b1", models_max |-> "1", auto_start |-> "true",
     log_level |-> "info", models_dir |-> v.dir]
Line(x, v) == [name |-> x, value |-> v]
Envs == {<<>>, [verbosity |-> "4"], [vkmax |-> "9", p2p |-> "1"]}
Extras == {<<>>, <<Line("verbosity", "5"), Line("CUDA_VISIBLE_DEVICES", "0")>>, <<Line("p2p", "0"), Line("p2p", "1")>>}
Confs ==
    {[plain |-> PlainOf([hf |-> hf, api |-> "k", source |-> source, dir |-> ""]), env |-> env, extra |-> extra] :
        hf \in {"", "t1"}, source \in {"", "modelscope"}, env \in Envs, extra \in Extras}

Edit(of, x, v) == [of |-> of, name |-> x, value |-> v]
Edits ==
    {Edit("env", "verbosity", v) : v \in {"", "3", "9"}} \union {Edit("env", "vkmax", "7")}
    \union {Edit("extra", "extra", v) : v \in {<<>>, <<Line("", "x")>>}}
PlainEdits ==
    {Edit("plain", "hf_token", v) : v \in {"", "t2"}} \union {Edit("plain", "default_model_source", "modelscope")}
    \union {Edit("plain", "models_max", v) : v \in {"2", "many"}} \union {Edit("plain", "api_key", "k2")}
    \union {Edit("plain", "models_dir", v) : v \in {"", "there", "gone"}}
    \union {Edit("plain", "auto_start", "false"), Edit("plain", "external_url", "")}
Form(c, section, hidden, edit, place, existing) ==
    [kind |-> "form", conf |-> c, section |-> section, hidden |-> hidden, dirs |-> {"there"}, edit |-> edit,
     place |-> place, existing |-> existing]
Place(os, xdg, home, var) == [os |-> os, xdg |-> xdg, home |-> home, local |-> home, var |-> var]
Root == Place("linux", FALSE, FALSE, FALSE)
Places == {Place(os, xdg, home, var) : os \in {"linux", "darwin", "windows"}, xdg \in BOOLEAN, home \in BOOLEAN, var \in BOOLEAN}
Forms ==
    {Form(c, {"env"}, h, e, Root, {"/etc"}) : c \in Confs, h \in SUBSET DOMAIN Curated, e \in Edits}
    \union {Form(c, s, {}, e, Root, {}) : c \in Confs, s \in Sections \ {{"env"}}, e \in PlainEdits}
    \union {Form(CHOOSE c \in Confs : TRUE, {"api_key"}, {}, Edit("plain", "api_key", "k2"), p, S) :
              p \in Places, S \in SUBSET {"XDG", ".config", "/etc", "Library", "/data"}}
EditsItsForm(f) == f.edit.of = "plain" => f.edit.name \in f.section

File(dir, x) == dir \o <<x>>
Conf(a, p, n) ==
    [place |-> ResolveGPUAssign(a, n), paths |-> [mmproj |-> p]]
ServerOf(conf, presets, dir, n, models, pending) ==
    [conf |-> conf, presets |-> presets, models |-> models, pending |-> pending, n |-> n, dir |-> dir,
     files |-> {File(dir, "mm"), <<"else">>}]
BackupConfs == {c \in Confs : c.plain["default_model_source"] = "" \/ c.env = <<>>}
From(confs, assigns, paths) ==
    {ServerOf(c, [fast |-> 1], <<"a">>, 2,
        (1 :> [key |-> "k1", cfg |-> Conf(a, p, 2)]) @@ (2 :> [key |-> "k1", cfg |-> Conf(All, NoPath, 2)])
            @@ (3 :> [key |-> "k2", cfg |-> Conf(All, p, 2)]), <<>>) :
        c \in confs, a \in assigns, p \in paths}
Old == Conf(All, NoPath, 2)
OldModels ==
    {<<>>, 5 :> [key |-> "k1", cfg |-> Old],
     (5 :> [key |-> "k1", cfg |-> Old]) @@ (6 :> [key |-> "k3", cfg |-> Old])}
To(confs, sizes, allModels, pendings) ==
    {ServerOf(c, presets, <<"b", "c">>, n, models, pending) :
        c \in confs, presets \in {<<>>, [fast |-> 2, slow |-> 3]}, n \in sizes,
        models \in allModels, pending \in pendings}
OneConf == {CHOOSE c \in BackupConfs : c.plain["hf_token"] # "" /\ c.env # <<>>}
Backup(f, t) == [kind |-> "backup", from |-> f, to |-> t]
MMPath == AbsolutePath(<<"a", "mm">>)
\* The settings of two servers, and then their models.
Backups ==
    {Backup(f, t) : f \in From(BackupConfs, {Single(1)}, {MMPath}),
                    t \in To({c \in BackupConfs : c.plain["default_model_source"] = ""}, {2}, {<<>>}, {<<>>})}
    \union {Backup(f, t) : f \in From(OneConf, {Single(1), TensorFirst(2), Custom},
                                      {NoPath, MMPath, AbsolutePath(<<"else">>)}),
                           t \in To(OneConf, {1, 2}, OldModels, {<<>>, "k2" :> Old, "k4" :> Old})}

-----------------------------------------------------------------------------
Token(dash, digit, eq, name, value) == [dash |-> dash, digit |-> digit, eq |-> eq, name |-> name, value |-> value]
\* The ways to write a flag: with an equals sign, with a word or a negative
\* number after it, or alone.
Pair(flag, how) ==
    CASE how = "eq" -> [flag |-> flag, value |-> "5", tokens |-> <<Token(TRUE, FALSE, TRUE, flag, "5")>>]
      [] how = "word" -> [flag |-> flag, value |-> "5",
                          tokens |-> <<Token(TRUE, FALSE, FALSE, flag, ""), Token(FALSE, TRUE, FALSE, "5", "")>>]
      [] how = "minus" -> [flag |-> flag, value |-> "-1",
                           tokens |-> <<Token(TRUE, FALSE, FALSE, flag, ""), Token(TRUE, TRUE, FALSE, "-1", "")>>]
      [] how = "alone" -> [flag |-> flag, value |-> "true", tokens |-> <<Token(TRUE, FALSE, FALSE, flag, "")>>]
Pairs2 == {Pair(f, h) : f \in {"verbose", "rope"}, h \in {"eq", "word", "minus", "alone"}}
Written == {<<>>} \union {<<a>> : a \in Pairs2} \union {<<a, b>> : a \in Pairs2, b \in Pairs2}
NoKnobs == [k \in Knobs |-> 0]
Quiet ==
    [embedding |-> FALSE, layers |-> 999, ctx |-> 0, batch |-> 0, ubatch |-> 0, threads |-> 8,
     parallel |-> 1, flash |-> TRUE, jinja |-> TRUE, kv |-> "", directIO |-> FALSE, ple |-> "",
     mmproj |-> "", mmprojOff |-> FALSE, mtp |-> "", mtpOff |-> FALSE, spec |-> "", draft |-> "",
     knobs |-> NoKnobs, resources |-> ("gpu-layers-draft" :> 0), sampling |-> <<>>, extra |-> <<>>,
     place |-> Placed(All, NoSplit, "layer"), backend |-> "rocm"]
AModel(ple) ==
    [size |-> 10, ple |-> ple, embd |-> 2, ctx |-> 40, indexer |-> 1,
     p |-> [layers |-> 2, heads |-> 2, kvHead |-> 1, kvHeads |-> <<>>, embd |-> 4, keyLen |-> 0, valLen |-> 0,
            keySWA |-> 0, valSWA |-> 0, window |-> 0, pattern |-> <<>>, interval |-> 0, recurrent |-> <<1, 0>>]]
Config(c, pairs) ==
    [kind |-> "config", c |-> [c EXCEPT !.extra = FlattenSeq([i \in DOMAIN pairs |-> pairs[i].tokens])],
     pairs |-> pairs, model |-> AModel(IF c.ctx = 0 THEN 3 ELSE 9)]
Modes == {"", "draft", "draft-mtp", "ngram-simple", "ngram-cache", "ngram-map-k", "ngram-mod"}
Tensor2 == Placed(TensorFirst(2), NoSplit, "tensor")
Configs ==
    {Config([Quiet EXCEPT !.layers = l, !.threads = t, !.ctx = x, !.batch = b, !.ubatch = u, !.parallel = s, !.embedding = e], <<>>) :
        l \in {-2, 0, 20}, t \in {-1, 0, 4}, x \in {0, 7}, b \in {0, 256, 4096}, u \in {0, 256, 1024}, s \in {0, 1, 4}, e \in BOOLEAN}
    \union {Config([Quiet EXCEPT !.flash = f, !.kv = q, !.jinja = f, !.place = pl, !.backend = b, !.directIO = f, !.ple = IF f THEN "on" ELSE "", !.sampling = s], <<>>) :
        f \in BOOLEAN, q \in {"", "q8_0"}, pl \in {Quiet.place, Tensor2, Placed(Single(1), Padded({1}, 2), "layer")},
        b \in {"rocm", "metal"}, s \in {<<>>, [top_k |-> 20, temp |-> 70]}}
    \union {Config([Quiet EXCEPT !.spec = s, !.draft = d, !.mtp = h, !.mtpOff = o, !.mmproj = m, !.mmprojOff = mo, !.embedding = e, !.resources["gpu-layers-draft"] = r], <<>>) :
        s \in Modes, d \in {"", "d.gguf"}, h \in {"", "h.gguf"}, m \in {"", "m.gguf"}, o \in BOOLEAN, mo \in BOOLEAN, e \in BOOLEAN, r \in {0, 10}}
    \union {Config(Quiet, w) : w \in Written}
Named(id, d, p, as, e) == [id |-> id, dir |-> d, public |-> p, aliases |-> as, enabled |-> e]
NamesOf ==
    {[kind |-> "names", models |-> {Named("a1", d1, p1, a1, e1), Named("a2", d2, "org-b", a2, e2), Named("c", "z", "org-c", {}, e2)}] :
        d1 \in {"x", "y"}, d2 \in {"x", ""}, p1 \in {"org-a", "org-b"}, a1 \in {{}, {"fast"}, {"c"}}, a2 \in {{}, {"fast"}, {"slow", "x"}},
        e1 \in BOOLEAN, e2 \in BOOLEAN}

-----------------------------------------------------------------------------
Chr(c) == [letter |-> c \in {"q", "s"}, c |-> c]
Keep(text) == [drop |-> FALSE, text |-> [i \in DOMAIN text |-> Chr(text[i])]]
Drop(text) == [drop |-> TRUE, text |-> [i \in DOMAIN text |-> Chr(text[i])]]
Size == Drop(<<"8", "q">>)
Q3 == <<Keep(<<"q", "3">>)>>
Q38 == <<Keep(<<"q", "3", ".", "8">>)>>
Q3s == <<Keep(<<"q", "3">>), Keep(<<"s">>)>>
Page(slug) == [model |-> TRUE, slug |-> slug, title |-> <<>>]
Indexes ==
    {<<>>, <<Page(Q3)>>, <<Page(Q38), Page(Q3)>>, <<Page(<<Keep(<<"q">>)>>), Page(Q3)>>,
     <<[Page(Q3) EXCEPT !.model = FALSE], Page(Q38)>>}
Heading(level, wanted) == [kind |-> "heading", level |-> level, wanted |-> wanted]
Row(head, cells) == [kind |-> "row", head |-> head, cells |-> cells]
Inline(p, v) == [kind |-> "inline", param |-> p, value |-> v]
Thinking == <<"thinking", FALSE>>
Headed(name) == [name |-> name, number |-> <<>>]
Number(v) == [name |-> Default, number |-> <<v>>]
Blank == Headed(Default)
Bodies ==
    {<<Heading(1, FALSE), Inline("temperature", 10), Heading(2, TRUE), Inline("temperature", 60),
       Heading(3, FALSE), Inline("top_k", 2000), Heading(2, FALSE), Inline("min_p", 5)>>,
     <<Heading(2, TRUE), Row("Parameter", <<Headed(Thinking), Headed(Default), Headed(Thinking)>>),
       Row("", <<Blank, Blank, Blank>>), Row("temperature", <<Number(60), Number(70), Number(80)>>),
       Row("top_p", <<Blank, Number(900)>>), Row("note", <<Number(1)>>),
       Heading(2, TRUE), Row("temperature", <<Number(1), Number(1)>>)>>}
Src(answers, body) == [answers |-> answers, body |-> body, fresh |-> FALSE, cached |-> <<>>]
Ok == <<"ok", "ok">>
Bad == <<"404", "ok">>
Late == <<"429", "ok">>
Temp(v) == <<Inline("temperature", v)>>
Recommendations ==
    {[kind |-> "presets",
      m |-> [repo |-> repo, presets |-> own, base |-> base, embedding |-> e, chosen |-> ("temperature" :> 33)],
      net |-> [index |-> [Src(ai, ix) EXCEPT !.fresh = fr, !.cached = <<Page(Q3)>>],
               pages |-> <<Src(ap, b), Src(Ok, b)>>,
               tags |-> Src(Ok, <<[quantized |-> TRUE, slashes |-> 1, repo |-> "quant"], [quantized |-> FALSE, slashes |-> 1, repo |-> "up"]>>),
               unsloth |-> {"quant"}, mirror |-> Src(Ok, Temp(20)),
               gen |-> [x \in {"up", "quant"} |-> Src(ag, <<Inline("temperature", 90), Inline("top_k", 150), Inline("top_p", 95)>>)],
               params |-> Src(Ok, <<Inline("min_p", 1), Inline("temperature", 99)>>)]] :
        repo \in {Append(Q3, Size), Append(Q38, Size), Q3s, <<Size>>},
        own \in {<<>>, <<Preset(Default, "gguf", ("temperature" :> 50))>>}, base \in {"", "quant"}, e \in BOOLEAN,
        ai \in {Ok, Bad, Late}, ap \in {Ok, Bad}, ag \in {Ok, Bad}, fr \in BOOLEAN, ix \in Indexes, b \in Bodies}

MCInputs ==
    {h \in Headers : DistinctKeys(h)} \union Models \union Tensors3 \union Reports
    \union {f \in Forms : EditsItsForm(f)} \union Backups
    \union Configs \union NamesOf \union Recommendations
=============================================================================
