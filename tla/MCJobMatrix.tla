---------------------------- MODULE MCJobMatrix ----------------------------
(* The instance of JobMatrix for TLC: bodies of the shapes that the form   *)
(* and JSON callers send, on one to two models, builds and presets.        *)
EXTENDS JobMatrix

Source == ("internal" :> "internal") @@ ("benchy" :> "benchy") @@ ("ppl" :> "capability")

(* The second model's saved batch size is small.                           *)
SavedSizes ==
    ("m1" :> [batch_size |-> 0, ubatch_size |-> 0])
    @@ ("m2" :> [batch_size |-> 256, ubatch_size |-> 256])

(* Raw values: a number as it is spelled, a text, the two spellings of a   *)
(* speculative mode's setting, and what no parser takes.                   *)
Num(f, text, n) == [text |-> text, parts |-> Nil, sets |-> f :> n]
Txt(f, text) == [text |-> text, parts |-> Nil, sets |-> f :> text]
Blank == [text |-> "", parts |-> Nil, sets |-> Nil]
Wrong == [text |-> "fast", parts |-> Nil, sets |-> Nil]
Off == [text |-> "none", parts |-> "mode" :> "", sets |-> "spec_type" :> ""]
Draft(text, raw, n) ==
    [text |-> text, parts |-> ("mode" :> "draft") @@ ("draft_max" :> raw),
     sets |-> ("spec_type" :> "draft") @@ ("draft_max" :> n)]

UB(n, text) == Num("ubatch_size", text, n)
B(n, text) == Num("batch_size", text, n)
Temp(n, text) == Num("temperature", text, n)
Ctx(n, text) == Num("context_size", text, n)

Form(models, builds, presets, params) ==
    [models |-> models, builds |-> builds, presets |-> presets,
     overrides |-> Nil, sweeps |-> <<>>, params |-> params]
Json(models, builds, presets, overrides, sweeps) ==
    [models |-> models, builds |-> builds, presets |-> presets,
     overrides |-> overrides, sweeps |-> sweeps, params |-> Nil]
Axis(f, values) == [field |-> f, values |-> values]

M1 == <<"m1">>
B1 == <<"b1">>
Internal == <<"internal">>

AllRequests ==
    { \* one fixed value, spelled twice, and another one
      Form(M1, B1, Internal, "ubatch_size" :> <<UB(64, "64"), Blank, UB(64, "064")>>),
      Form(M1, B1, Internal, "ubatch_size" :> <<UB(128, "128")>>),
      \* the same field swept, from the form and from JSON
      Form(M1, B1, Internal, "ubatch_size" :> <<UB(64, "64"), UB(128, "128")>>),
      Json(M1, B1, Internal, Nil, <<Axis("ubatch_size", <<UB(64, "64"), UB(64, "064")>>)>>),
      Json(M1, B1, Internal, "ubatch_size" :> 128,
           <<Axis("ubatch_size", <<UB(64, "064"), UB(1024, "1024")>>)>>),
      \* a cheap axis with an expensive one, and a capability preset
      Form(M1, B1, <<"ppl", "internal">>,
           ("temperature" :> <<Temp(0, "0"), Temp(1, "1.0"), Temp(1, "1")>>)
           @@ ("ubatch_size" :> <<UB(64, "64"), UB(128, "128")>>)),
      Json(M1, B1, <<"internal", "ppl">>, Nil,
           <<Axis("temperature", <<Temp(0, "0"), Temp(1, "1")>>),
             Axis("context_size", <<Ctx(4096, "4096"), Ctx(8192, "8192")>>)>>),
      \* only capability presets: an axis that never reaches them
      Json(M1, B1, <<"ppl">>, Nil, <<Axis("temperature", <<Temp(0, "0"), Temp(1, "1")>>)>>),
      Json(<<"m1", "m2">>, B1, <<"ppl">>, Nil,
           <<Axis("temperature", <<Temp(0, "0"), Temp(1, "1")>>)>>),
      \* llama-benchy with sampling settings, swept or fixed, and without
      Form(M1, B1, <<"benchy">>, "temperature" :> <<Temp(0, "0"), Temp(1, "1")>>),
      Json(M1, B1, <<"benchy", "internal">>, "temperature" :> 1, <<>>),
      Json(M1, B1, <<"benchy", "internal">>, Nil, <<>>),
      \* two builds and two models
      Json(<<"m1", "m2">>, <<"b1", "b2">>, Internal, Nil, <<>>),
      Json(<<"m2", "m1">>, <<"b2">>, Internal, Nil, <<>>),
      \* batch sizes that fit some, or none, of the cells
      Json(M1, B1, Internal, Nil,
           <<Axis("batch_size", <<B(128, "128"), B(512, "512")>>),
             Axis("ubatch_size", <<UB(256, "256"), UB(1024, "1024")>>)>>),
      Json(<<"m1", "m2">>, B1, Internal, "ubatch_size" :> 512, <<>>),
      Form(M1, B1, Internal, "ubatch_size" :> <<UB(4096, "4096")>>),
      Json(M1, B1, Internal, "batch_size" :> 128,
           <<Axis("ubatch_size", <<UB(256, "256"), UB(512, "512")>>)>>),
      \* a speculative mode, over an override that no parameter expresses
      [Form(M1, B1, Internal,
            "spec_type" :> <<Off, Draft("draft:draft_max=8", "8", 8),
                             Draft("draft: draft_max=8", "8", 8),
                             Draft("draft:draft_max=08", "08", 8)>>)
         EXCEPT !.overrides = ("draft_model_path" :> "small.gguf") @@ ("threads" :> 4)],
      \* placement given twice, and once
      Form(M1, B1, Internal, ("gpu_assign" :> <<Txt("gpu_assign", "0")>>)
                             @@ ("tensor_split" :> <<Txt("tensor_split", "1,1")>>)),
      Form(M1, B1, Internal,
           "gpu_assign" :> <<Txt("gpu_assign", "0"), Txt("gpu_assign", "all")>>),
      \* what is refused: no parser takes it, or it is above the limit
      Form(M1, B1, Internal, "threads" :> <<Wrong>>),
      Json(<<"m1", "m2">>, <<"b1", "b2">>, <<"internal", "ppl">>, Nil,
           <<Axis("ubatch_size", <<UB(64, "64"), UB(128, "128")>>)>>) }
============================================================================
