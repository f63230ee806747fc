---------------------------- MODULE MCInference ----------------------------
(* The models and command lines on which TLC runs the inference loops.      *)
(* Tokens are 1 and 2; a model chooses from the last two tokens.            *)
EXTENDS Qwen35Decode, LlamaDecode

inferenceVars == <<decodeVars, hybridVars>>

InferenceInit == DecodeInit /\ HybridInit

HostRuns == HostStep /\ UNCHANGED hybridVars
DeviceRuns == GpuRuns /\ UNCHANGED hybridVars
WorkerRuns == AmxRuns /\ UNCHANGED hybridVars
LoopRuns == ((DenseStep \/ LibraryStep) /\ UNCHANGED hybridVars) \/ HybridStep

InferenceNext == HostRuns \/ DeviceRuns \/ WorkerRuns \/ LoopRuns

(* Each thread and the GPU go on while they can.                            *)
InferenceSpec ==
  /\ InferenceInit /\ [][InferenceNext]_inferenceVars
  /\ WF_inferenceVars(HostRuns) /\ WF_inferenceVars(DeviceRuns)
  /\ WF_inferenceVars(WorkerRuns) /\ WF_inferenceVars(LoopRuns)

Weights == {"w_q", "w_k", "w_v", "w_o", "w_gate", "w_up", "w_down", "lm_head", "w_qkv", "w_z", "alpha",
            "beta", "ssm_out", "gate_inp", "gate_shexp", "up_shexp", "down_shexp", "gate_exps",
            "up_exps", "down_exps"}

(* The usual mix of formats: products of v, w_down in Q6_K, the router F32. *)
Usual == [w \in Weights |-> CASE w = "gate_inp" -> "F32" [] w = "down_exps" -> "Q5_K"
                              [] w \in {"w_v", "w_down"} -> "Q6_K" [] OTHER -> "Q4_K"]

(* 1 2 1 2 ..., and 1 1 2 2 1 1 ...                                         *)
Alternating == [p \in (0..2) \X (1..2) |-> 3 - p[2]]
Pairs == [p \in (0..2) \X (1..2) |-> IF p[1] = p[2] THEN 3 - p[2] ELSE p[2]]

Hybrid0 ==
  [family |-> "hybrid", mode |-> "prompt", chunk |-> 1, b |-> 0, n |-> 3, prompt |-> <<1, 1, 2>>,
   lines |-> <<>>, stops |-> {}, next |-> Alternating, dtype |-> Usual, layers |-> <<"ssm", "attn">>,
   ffn |-> "dense", qk_norm |-> TRUE, q_gate |-> TRUE, routing |-> "gpu", reduce_store |-> FALSE,
   mmid |-> TRUE, t200 |-> FALSE, hooks |-> FALSE, per_token |-> FALSE, timed |-> FALSE, dump |-> FALSE]

Dense0 == [Hybrid0 EXCEPT !.family = "dense", !.mode = "token", !.layers = <<"attn", "attn">>]

Probes == {"token", "profile", "sparsity", "rank", "entropy", "layer_cos", "head_stats", "dump_h", "batch_test"}

(* A prompt whose repetitions the models first follow and then leave, so    *)
(* that drafts are accepted, cut short and rejected.                        *)
Drafty == <<1, 1, 2, 1, 2>>

(* The library's decoders; the reduced ones see a token at a time.          *)
LibraryNets ==
  {[Dense0 EXCEPT !.family = "library", !.mode = m, !.qk_norm = (m # "cuda"), !.next = nx,
                  !.layers = IF m = "reference" THEN <<"ssm", "attn">> ELSE @] :
     m \in {"cpu", "cuda", "reference"}, nx \in {Alternating, Pairs}}
  \cup {[Dense0 EXCEPT !.family = "library", !.mode = "ffn_only"],
        [Dense0 EXCEPT !.family = "library", !.mode = "minimal", !.layers = <<>>],
        [Dense0 EXCEPT !.family = "library", !.mode = "cpu", !.prompt = Drafty, !.n = MaxSeq]}

NetSet ==
  LibraryNets
  \cup {[Dense0 EXCEPT !.mode = m] : m \in Probes}
  \cup {[Dense0 EXCEPT !.mode = "spec", !.chunk = 2, !.b = 3, !.n = 6, !.prompt = Drafty, !.next = nx,
                       !.qk_norm = qk, !.timed = ~qk] : nx \in {Alternating, Pairs}, qk \in BOOLEAN}
  \cup {[Hybrid0 EXCEPT !.timed = t, !.dump = ~t, !.ffn = m] : t \in BOOLEAN, m \in {"dense", "moe"}}
  \cup {[Hybrid0 EXCEPT !.ffn = "moe", !.routing = r, !.layers = <<"attn", "ssm">>,
                        !.reduce_store = (r = "gpu")] : r \in {"gpu", "amx_sync", "amx_async"}}
  \cup {[Hybrid0 EXCEPT !.chunk = c, !.t200 = (c = 3), !.ffn = m, !.prompt = Drafty, !.mmid = (c = 3),
                        !.hooks = (c = 2)] : c \in {2, 3}, m \in {"dense", "moe"}}
  \cup {[Hybrid0 EXCEPT !.chunk = 4, !.ffn = "moe", !.prompt = Drafty, !.mmid = FALSE]}
  \cup {[Hybrid0 EXCEPT !.chunk = 4, !.per_token = TRUE, !.n = 2]}
  \cup {[Hybrid0 EXCEPT !.chunk = 4, !.b = 4, !.n = 6, !.layers = <<"attn", "attn">>, !.prompt = Drafty,
                        !.next = nx, !.stops = st] : nx \in {Alternating, Pairs}, st \in {{}, {2}}}
  \cup {[Hybrid0 EXCEPT !.mode = "chat", !.stops = {1}, !.lines = <<<<1, 2>>, <<2, 1>>, [i \in 1..20 |-> 1], <<1>>>>,
                        !.q_gate = FALSE]}

(* Speculative decoding on a model with recurrent layers.                   *)
RecurrentDrafts == {[Hybrid0 EXCEPT !.b = 4, !.n = 6, !.prompt = Drafty]}
=============================================================================
