---------------------------- MODULE MCEvaluation ----------------------------
(* The instance of Evaluation for TLC: two files of one repository, a      *)
(* third that may arrive, and settings that differ in what matters.        *)
EXTENDS Evaluation

File(quant, size) == [repo |-> "r", quant |-> quant, size |-> size,
                      base |-> Unset, vocab |-> Unset, arch |-> Unset]
MCInfo == [m \in Models |-> CASE m = "small" -> File("Q4", 1)
                              [] m = "large" -> File("Q8", 2)
                              [] m = "other" -> [File("Q4", 1) EXCEPT !.repo = "s", !.arch = "x"]]
MCConfigs == {[f \in Fields |-> CASE f \in {"batch", "ubatch"} -> 0 [] f = "kv" -> kv [] OTHER -> 1]
              : kv \in {0, 1}}
KL(ms, asked, ov, n) == [models |-> ms, mode |-> "kl-divergence", asked |-> asked, ov |-> ov, chunks |-> n]
MCRequests == {KL({"small", "large"}, None, <<>>, 1), KL({"small"}, None, [f \in {"ubatch"} |-> 2], 1),
               KL({"small"}, "other", [f \in {"kv"} |-> 1], 0),
               [KL({"small"}, None, [f \in {"ubatch"} |-> 3], 1) EXCEPT !.mode = "perplexity"],
               [KL({"small"}, None, <<>>, 0) EXCEPT !.mode = "perplexity"]}
MCScenarios == {{"crash", "edit", "cancel"}, {"cancel", "copy", "crash"}, {"arrive", "depart"}, {"delete", "crash", "edit"}}

=============================================================================
