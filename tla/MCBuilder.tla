----------------------------- MODULE MCBuilder -----------------------------
(***************************************************************************)
(* One machine of each kind, five requests, and what a behaviour may do:   *)
(* builds one at a time with deletions, rebuilds and a crash; two at once; *)
(* forced replacements; log pages; saved flag sets.                        *)
(***************************************************************************)
EXTENDS Builder, TLC

MCLatest == "b2"
MCCommitCount == [r \in Refs |-> CASE r = "b2" -> 2 [] r = "main" -> 0 [] OTHER -> 3]
MCTagNumber   == [r \in Refs |-> IF r = "b2" THEN 2 ELSE 0]

Debian == [ gpus |-> {"gfx1201", "gfx1036"}, cards |-> {"rtx", "llvmpipe"}, os |-> "linux", container |-> FALSE,
            env |-> NoFlags, path |-> <<"/usr">>, hipclang |-> "/usr/lib/llvm",
            clangs |-> {[dir |-> "/usr/lib/llvm-17", ver |-> 17, bitcode |-> TRUE],
                        [dir |-> "/usr/lib/llvm-21", ver |-> 21, bitcode |-> FALSE]},
            files |-> {<<"/usr", f>> : f \in {"rocminfo", "hipconfig", "nvidia-smi", "vulkaninfo", "g++-14"}}
                      \union {<<"/usr/local/cuda", "nvcc">>} ]
Arch == [ Debian EXCEPT !.gpus = {"gfx1151"}, !.container = TRUE, !.hipclang = "/opt/rocm/lib/llvm",
          !.env = [v \in {"HIP_PATH"} |-> "/custom"], !.clangs = {},
          !.files = {<<"/opt/rocm", f>> : f \in {"rocminfo", "hipconfig", "amdgcn/bitcode", "llvm/bin/clang++"}} ]
MCMachines == {Debian, Arch}

Form(on) == [o \in {"GGML_NATIVE", "LLAMA_OPENSSL", "GGML_LTO", "GGML_CUDA_FORCE_MMQ", "GGML_CUDA_FA_ALL_QUANTS",
                    "GGML_HIP_RCCL", "GGML_HIP_ROCWMMA_FATTN", "GPU_TARGETS"} |-> o \in on]
Request(prof, ref, tag, toggles, extra) ==
    [prof |-> prof, ref |-> ref, tag |-> tag, toggles |-> toggles, extra |-> extra]
MCRequests ==
    { Request("cpu", "latest", "", Form({"GGML_NATIVE"}), NoFlags),
      Request("rocm", "b2", "", NoFlags, Flag("CMAKE_HIP_COMPILER", "/mine")),
      Request("rocm", "main", "", Form({"GPU_TARGETS"}), Flag("GPU_TARGETS", "gfx1100")),
      Request("cuda", "main", "t", NoFlags, Flag("CMAKE_CUDA_COMPILER", "/mine")),
      Request("vulkan", "main", "", NoFlags, NoFlags) }
MCScenarios ==
    { {"build", "rebuild", "delete", "crash", "import", "fail"}, {"build", "force", "crash"},
      {"build", "overlap"}, {"build", "watch", "fail", "delete"}, {"build", "force", "watch"},
      {"build", "overlap", "watch"}, {"build", "overlap", "delete"}, {"sets"} }
Symmetry == Permutations(Slots)
=============================================================================
