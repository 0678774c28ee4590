-------------------------- MODULE SamplingPresets --------------------------
(***************************************************************************)
(* The sampling that is recommended for a model (internal/presets): the    *)
(* defaults in its file, the table on its family's page of the Unsloth     *)
(* docs, its base model's generation config and the params file of its     *)
(* repository, merged field by field; and what a client is told of them    *)
(* (api/capabilities.go).  Each source may be missing or fail.             *)
(*                                                                         *)
(* A preset is [name, source, fields]; a name is a mode and whether it is  *)
(* for coding; values are in hundredths.  A name of a model is a sequence  *)
(* of tokens [drop, text], a text is a sequence of characters, and a       *)
(* character is [letter, c].  A cell of a table has a name, for when it is *)
(* in the first row, and a number or none.                                 *)
(***************************************************************************)
EXTENDS Maps, Integers, Sequences, FiniteSets, FiniteSetsExt, SequencesExt

Params == {"temperature", "top_p", "top_k", "min_p", "presence_penalty", "repeat_penalty"}
Default == <<"default", FALSE>>

-----------------------------------------------------------------------------
\* get: one retry, of a network error or a 429.  cachedGet: a fresh copy, or else
\* the network; a stale copy is not used.
Answered(a) == a[1] = "ok" \/ (a[1] \in {"429", "error"} /\ a[2] = "ok")
Get(s) == IF Answered(s.answers) THEN s.body ELSE <<>>
CachedGet(s) == IF s.fresh THEN s.cached ELSE Get(s)

-----------------------------------------------------------------------------
\* assignParam: a value out of its range is dropped; of the others the last one
\* stays.
InRange(param, v) ==
    CASE param = "temperature" -> v \in 0 .. 400
      [] param \in {"top_p", "min_p"} -> v \in 0 .. 100
      [] param = "top_k" -> v % 100 = 0 /\ v \in 100 .. 100000
      [] param = "presence_penalty" -> v \in -200 .. 200
      [] param = "repeat_penalty" -> v \in 1 .. 300
      [] OTHER -> FALSE

AssignParam(lines) ==
    LET good == {i \in DOMAIN lines : InRange(lines[i].param, lines[i].value)}
        last(p) == Max({i \in good : lines[i].param = p})
    IN  [p \in {lines[i].param : i \in good} |-> lines[last(p)].value]

Preset(name, source, fields) == [name |-> name, source |-> source, fields |-> fields]
One(source, lines) ==
    LET fields == AssignParam(lines)
    IN  IF DOMAIN fields = {} THEN <<>> ELSE <<Preset(Default, source, fields)>>

-----------------------------------------------------------------------------
\* familyKey: sizes, quants and variants of a name are not its family.
AddToken(key, token) == IF token.drop THEN key ELSE key \o token.text
FamilyKey(name) == FoldLeft(AddToken, <<>>, name)

\* A page of "qwen3" is not the page of "qwen3.8".
Begins(key, family) ==
    /\ Len(key) < Len(family)
    /\ SubSeq(family, 1, Len(key)) = key
    /\ family[Len(key) + 1].letter

\* matchDocsPage: the first page of the family, or the longest beginning of it.
Keys(page) == {FamilyKey(page.slug), FamilyKey(page.title)} \ {<<>>}
MatchDocsPage(pages, repo) ==
    LET family == FamilyKey(repo)
        models == {i \in DOMAIN pages : pages[i].model}
        exact == {i \in models : family \in Keys(pages[i])}
        reach(i) == Max({0} \union {Len(k) : k \in {x \in Keys(pages[i]) : Begins(x, family)}})
        best == Max({0} \union {reach(i) : i \in models})
    IN  IF family = <<>> THEN 0
        ELSE IF exact # {} THEN Min(exact)
        ELSE IF best = 0 THEN 0 ELSE Min({i \in models : reach(i) = best})

\* recommendedSection: to the next heading that is no deeper.
RecommendedSection(lines) ==
    LET heads == {i \in DOMAIN lines : lines[i].kind = "heading"}
        starts == {i \in heads : lines[i].wanted}
        after == {j \in heads : j > Min(starts) /\ lines[j].level <= lines[Min(starts)].level}
    IN  IF starts = {} THEN <<>>
        ELSE SubSeq(lines, Min(starts) + 1, Min({Len(lines) + 1} \union after) - 1)

\* parseSettingsTable: the first row names the variants, a column each; the
\* later of two columns of one variant is dropped.
Column(lines, rows, i) ==
    AssignParam([r \in {r \in rows : i \in DOMAIN lines[r].cells /\ lines[r].cells[i].number # <<>>} |->
                    [param |-> lines[r].head, value |-> lines[r].cells[i].number[1]]])

ParseSettingsTable(section) ==
    LET rows == {r \in DOMAIN section : section[r].kind = "row"}
        variants == section[Min(rows)].cells
        column(i) == Column(section, rows \ {Min(rows)}, i)
        filled == {i \in DOMAIN variants : DOMAIN column(i) # {}}
        kept == {i \in filled : \A j \in filled : j < i => variants[j].name # variants[i].name}
    IN  IF rows = {} THEN <<>>
        ELSE [k \in 1 .. Cardinality(kept) |->
                LET i == CHOOSE i \in kept : Cardinality({j \in kept : j <= i}) = k
                IN  Preset(variants[i].name, "unsloth-docs", column(i))]

\* parseInlineSettings, of a section without a table.
ParseRecommendedSettings(lines) ==
    LET section == RecommendedSection(lines)
        table == ParseSettingsTable(section)
        inline == {i \in DOMAIN section : section[i].kind = "inline"}
    IN  IF table # <<>> THEN table
        ELSE One("unsloth-docs", [i \in inline |-> section[i]])

FetchUnslothDocs(net, repo) ==
    LET pages == CachedGet(net.index)
        page == MatchDocsPage(pages, repo)
    IN  IF page = 0 THEN <<>> ELSE ParseRecommendedSettings(CachedGet(net.pages[page]))

-----------------------------------------------------------------------------
\* resolveBaseRepo: the first plain tag, or the first that says quantized.
ResolveBaseRepo(tags) ==
    LET plain == {i \in DOMAIN tags : ~tags[i].quantized /\ tags[i].slashes = 1}
        quantized == {i \in DOMAIN tags : tags[i].quantized}
    IN  IF plain # {} THEN tags[Min(plain)].repo
        ELSE IF quantized # {} THEN tags[Min(quantized)].repo ELSE ""

\* fetchGenerationConfig: the mirror, when a repository that has one does not
\* answer.
FetchGenerationConfig(net, base) ==
    One("generation_config.json",
        IF Answered(net.gen[base].answers) \/ base \in net.unsloth THEN Get(net.gen[base]) ELSE Get(net.mirror))

\* A bug: what is fetched later wins.
MergeOver(list, p) ==
    LET at == {i \in DOMAIN list : list[i].name = p.name}
    IN  IF at # {} THEN [list EXCEPT ![Min(at)].fields = p.fields ++ @] ELSE Append(list, p)

\* mergePresets: of a known variant only the fields without a value are filled.
MergePreset(list, p) ==
    LET at == {i \in DOMAIN list : list[i].name = p.name}
    IN  IF at # {} THEN [list EXCEPT ![Min(at)].fields = @ ++ p.fields]
        ELSE IF p.name = Default THEN <<p>> \o list ELSE Append(list, p)

MergePresets(existing, incoming) == FoldLeft(MergePreset, existing, incoming)

Base(m, net) == IF m.base # "" THEN m.base ELSE ResolveBaseRepo(Get(net.tags))

Sources(m, net) ==
    <<FetchUnslothDocs(net, m.repo),
      IF Base(m, net) = "" THEN <<>> ELSE FetchGenerationConfig(net, Base(m, net)),
      One("params", Get(net.params))>>

Fetch(m, net) == FoldLeft(MergePresets, m.presets, Sources(m, net))

\* enrichModelPresets.
EnrichModelPresets(m, net) == IF m.embedding THEN m.presets ELSE Fetch(m, net)

\* buildSampling: the user's value, or the card's.
Card(list) ==
    LET defaults == {i \in DOMAIN list : list[i].name = Default}
    IN  IF defaults # {} THEN list[Min(defaults)].fields
        ELSE IF list # <<>> THEN list[1].fields ELSE <<>>
BuildSampling(list, overrides) == overrides ++ Card(list)
=============================================================================
