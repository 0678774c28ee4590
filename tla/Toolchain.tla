----------------------------- MODULE Toolchain -----------------------------
(***************************************************************************)
(* What a build of llama.cpp is configured with: the profile's cmake flags *)
(* and toggles (internal/builder/profiles.go), the backends and ROCm tools *)
(* found on the machine (detect.go), and what runBuild adds for the        *)
(* compilers it has to pin (builder.go).                                   *)
(*                                                                         *)
(* A machine m is a record: gpus (gfx targets rocminfo reports), cards     *)
(* (names nvidia-smi and vulkaninfo report), os, container, env (inherited *)
(* variables, PATH apart), path (its directories, in order), files (pairs  *)
(* <<directory, program>>), clangs (what the distribution packages, as     *)
(* [dir, ver, bitcode]) and hipclang (the directory hipconfig names).  A   *)
(* directory stands for its bin/, so that "/usr" is both a place on PATH   *)
(* and the root ROCm is installed under.  A flag set is a function from    *)
(* flag names to values; a compiler is named by its directory, a list of   *)
(* GPU targets by which targets it holds.                                  *)
(***************************************************************************)
EXTENDS Naturals, Sequences, FiniteSets

CONSTANT IGPUs      \* gfx targets of integrated GPUs (apuArchs)

NoFlags       == <<>>
Flag(k, v)    == [x \in {k} |-> v]
Overlay(f, g) == [k \in DOMAIN f \union DOMAIN g |-> IF k \in DOMAIN g THEN g[k] ELSE f[k]]
Has(f, k)     == k \in DOMAIN f

\* setEnvDefault, and every "unless already set" of the configure step.
Default(f, k, v) == Overlay(Flag(k, v), f)

----------------------------------------------------------------------------
\* What the machine has.

FirstDir(m, dirs, name) ==
    LET hits == SelectSeq(dirs, LAMBDA d : <<d, name>> \in m.files)
    IN IF hits = <<>> THEN "" ELSE Head(hits)

\* FindROCmTool: PATH, then $ROCM_PATH/bin, then /opt/rocm/bin.
RocmRoot(m) == IF Has(m.env, "ROCM_PATH") THEN <<m.env["ROCM_PATH"]>> ELSE <<>>
FindROCmTool(m, name) == FirstDir(m, m.path \o RocmRoot(m) \o <<"/opt/rocm">>, name)

\* DetectBackends: which profiles the machine can serve, and with which devices.
DetectBackends(m) ==
    [ rocm   |-> IF FindROCmTool(m, "rocminfo") = "" THEN {} ELSE m.gpus,
      cuda   |-> IF FirstDir(m, m.path, "nvidia-smi") = "" THEN {} ELSE m.cards,
      vulkan |-> IF m.container \/ FirstDir(m, m.path, "vulkaninfo") = ""
                 THEN {} ELSE m.cards \ {"llvmpipe"},
      metal  |-> IF m.os = "darwin" THEN {"metal"} ELSE {},
      cpu    |-> {"cpu"} ]

Discrete(m)   == DetectBackends(m).rocm \ IGPUs
Integrated(m) == DetectBackends(m).rocm \cap IGPUs

\* rocmGPUTargets: discrete GPUs only, when there are any.
GPUTargets(m) == IF Discrete(m) # {} THEN "discrete"
                 ELSE IF Integrated(m) # {} THEN "integrated" ELSE "gfx1100"

ProfileFlags(m) ==
    LET own == [ rocm   |-> Overlay(Flag("GGML_HIP", "ON"), Flag("GPU_TARGETS", GPUTargets(m))),
                 cuda   |-> Flag("GGML_CUDA", "ON"),
                 vulkan |-> Flag("GGML_VULKAN", "ON"),
                 metal  |-> [f \in {"GGML_METAL", "GGML_METAL_EMBED_LIBRARY"} |-> "ON"],
                 cpu    |-> NoFlags ]
    IN [p \in DOMAIN own |-> Overlay(Flag("CMAKE_BUILD_TYPE", "Release"), own[p])]
Profiles == {"rocm", "cuda", "vulkan", "metal", "cpu"}

\* ProfileOptions: the toggles of a profile, each with the value it sets.
Options(m, prof) ==
    LET common == {"GGML_NATIVE", "LLAMA_OPENSSL", "GGML_LTO"}
        kernels == {"GGML_CUDA_FORCE_MMQ", "GGML_CUDA_FA_ALL_QUANTS"}
        extra == CASE prof = "cuda" -> kernels \union {"GGML_CUDA_FORCE_CUBLAS", "GGML_CUDA_GRAPHS",
                                                       "GGML_CUDA_NO_PEER_COPY"}
                   [] prof = "rocm" -> kernels \union {"GGML_HIP_RCCL", "GGML_HIP_ROCWMMA_FATTN"}
                   [] OTHER -> {}
        igpu  == IF prof = "rocm" /\ Discrete(m) # {} /\ Integrated(m) # {} THEN {"GPU_TARGETS"} ELSE {}
    IN [o \in common \union extra \union igpu |-> IF o = "GPU_TARGETS" THEN "all" ELSE "ON"]
DefaultOn == {"GGML_NATIVE", "LLAMA_OPENSSL"}

\* ApplyOptionOverrides: `toggles` says of an option whether it is on; one it
\* does not name has its default.
ApplyOptionOverrides(flags, options, toggles) ==
    LET on == {o \in DOMAIN options : IF Has(toggles, o) THEN toggles[o] ELSE o \in DefaultOn}
    IN Overlay(flags, [o \in on |-> options[o]])

\* Build: toggles over the profile, extra flags over both.
Effective(m, prof, toggles, extra) ==
    Overlay(ApplyOptionOverrides(ProfileFlags(m)[prof], Options(m, prof), toggles), extra)

----------------------------------------------------------------------------
\* The compilers runBuild pins.

\* newestDistroHIPClang: the newest clang that has the device bitcode beside it.
NewestDistroHIPClang(m) ==
    LET usable == {c \in m.clangs : c.bitcode}
    IN IF usable = {} THEN ""
       ELSE (CHOOSE c \in usable : \A d \in usable : d.ver <= c.ver).dir

\* findHIPCompiler: what hipconfig says, if it is there; an installed ROCm; a
\* distribution's clang.
FindHIPCompiler(m, env) ==
    LET roots == (IF Has(env, "ROCM_PATH") THEN <<env["ROCM_PATH"]>> ELSE <<>>)
                 \o <<"/opt/rocm", "/usr/lib/rocm", "/usr/lib64/rocm">>
        asked == IF FindROCmTool(m, "hipconfig") # "" /\ <<m.hipclang, "clang++">> \in m.files
                 THEN m.hipclang ELSE ""
        inRoot == FirstDir(m, roots, "llvm/bin/clang++")
    IN IF asked # "" THEN asked ELSE IF inRoot # "" THEN inRoot ELSE NewestDistroHIPClang(m)

FindNVCC(m) == FirstDir(m, m.path \o <<"/usr/local/cuda", "/opt/cuda">>, "nvcc")
FindCUDAHostCompiler(m) ==
    LET hits == SelectSeq(<<"g++-15", "g++-14", "g++-13", "g++-12">>,
                          LAMBDA c : <<"/usr", c>> \in m.files)
    IN IF hits = <<>> THEN "" ELSE Head(hits)

PrependPath(path, dir) == IF path # <<>> /\ Head(path) = dir THEN path ELSE <<dir>> \o path

\* A bug: the pin does not look whether the user gave the flag.
PinAlways(args, name, found) == IF found = "" THEN args ELSE Overlay(args, Flag(name, found))
Pin(args, name, found) == IF found = "" THEN args ELSE Default(args, name, found)

BaseArgs == [f \in {"LLAMA_BUILD_TESTS", "LLAMA_BUILD_EXAMPLES", "LLAMA_BUILD_SERVER"} |->
                IF f = "LLAMA_BUILD_SERVER" THEN "ON" ELSE "OFF"]

\* The configure step for ROCm: a distribution's layout gets a cache variable,
\* a self-contained one the environment its clang needs.
ConfigureRocm(m, args) ==
    LET root == FindROCmTool(m, "hipconfig")
        env1 == IF root \in {"", "/usr"} THEN m.env
                ELSE Default(Default(m.env, "ROCM_PATH", root), "HIP_PATH", root)
        env2 == IF root \notin {"", "/usr"} /\ <<root, "amdgcn/bitcode">> \in m.files
                THEN Default(env1, "HIP_DEVICE_LIB_PATH", root) ELSE env1
        args1 == Pin(args, "CMAKE_HIP_COMPILER_ROCM_ROOT", IF root = "/usr" THEN root ELSE "")
    IN [ args |-> Pin(args1, "CMAKE_HIP_COMPILER", FindHIPCompiler(m, env2)),
         env  |-> env2,
         path |-> IF root = "" THEN m.path ELSE PrependPath(m.path, root) ]

ConfigureCuda(m, args) ==
    LET nvcc == FindNVCC(m)
    IN [ args |-> Pin(Pin(args, "CMAKE_CUDA_COMPILER", nvcc),
                      "CMAKE_CUDA_HOST_COMPILER", FindCUDAHostCompiler(m)),
         env  |-> m.env,
         path |-> IF nvcc = "" THEN m.path ELSE PrependPath(m.path, nvcc) ]

Configure(m, prof, flags) ==
    LET args == Overlay(BaseArgs, flags)
    IN CASE prof = "rocm" -> ConfigureRocm(m, args)
         [] prof = "cuda" -> ConfigureCuda(m, args)
         [] OTHER -> [args |-> args, env |-> m.env, path |-> m.path]
=============================================================================
