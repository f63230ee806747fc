---------------------------- MODULE Qwen35Decode ----------------------------
(* The forward passes of the hybrid Qwen3.5 example: attention layers with  *)
(* a key/value cache, state-space layers with a convolution and a recurrent *)
(* state, and a dense or a mixture-of-experts feed-forward half; token by   *)
(* token in the decoder's scratch buffers, or in batches in buffers of      *)
(* their own.  The routed experts run as one expert per row.                *)
EXTENDS QwenDecode

CONSTANT EmThreshold  \* RUSTORCH_EM_THRESHOLD: rows from which experts are grouped

(* HybridMetalWeight::matmul_into: the kernel of the weight's own dtype.    *)
hybrid_matmul(w, from, to, l, f) ==
  Kernel("matmul", <<from>>, to[1], <<to[2], l>>, l, Rows(f), Base(f),
         net.dtype[w] \in {"Q3_K", "Q4_K", "Q5_K", "Q6_K", "Q8_0", "F32"})

(* profile_drain_record and dump_buf: a drain, and a read of the stage.     *)
Profiled == IF net.timed THEN <<Sync>> ELSE <<>>
Dumped(buf, want) == IF net.dump THEN <<Sync, Look(<<buf, 0, 0>>, want)>> ELSE <<>>

Of(stage, l, f) == <<stage, l, Context(f, 0), 0>>
OwnOf(stage, l, f) == <<stage, l, Own(l, Context(f, 0)), 0>>

embed_token(f) == Put(<<"xd", 0, 0>> :> Residual(f, 0, 1))

(* attn_block_forward.                                                      *)
AttnQkv(l, f) ==
  <<Call("norm", <<<<"xd", "x">>>>, "h", "h", l, f)>>
  \o (IF net.q_gate
      THEN <<hybrid_matmul("w_q", <<"h", "h">>, <<"qg", "qg">>, l, f)>>
      ELSE <<hybrid_matmul("w_q", <<"h", "h">>, <<"q", "q">>, l, f)>>)
  \o <<hybrid_matmul("w_k", <<"h", "h">>, <<"k_attn", "k">>, l, f),
       hybrid_matmul("w_v", <<"h", "h">>, <<"v_attn", "v">>, l, f)>>
  \o (IF net.q_gate
      THEN <<Call("split", <<<<"qg", "qg">>>>, "q", "q", l, f),
             Call("split", <<<<"qg", "qg">>>>, "gate_attn", "ga", l, f)>>
      ELSE <<>>)

AttnCache(l, f) ==
  <<Call("norm", <<<<"q", "q">>>>, "q", "qn", l, f),
    Call("norm", <<<<"k_attn", "k">>>>, "k_attn", "kn", l, f),
    Call("rope", <<<<"q", "qn">>>>, "q", "qr", l, f),
    Call("rope", <<<<"k_attn", "kn">>>>, "k_attn", "kr", l, f),
    Call("append", <<<<"k_attn", "kr">>>>, "k_cache", "kr", l, f),
    Call("append", <<<<"v_attn", "v">>>>, "v_cache", "v", l, f),
    Call("attend", <<<<"q", "qr">>>>, "attn_out", "attn", l, f)>>

AttnOut(l, f) ==
  (IF net.q_gate
   THEN <<Call("merge", <<<<"gate_attn", "ga">>, <<"attn_out", "attn">>>>, "attn_out", "attn_g", l, f)>>
   ELSE <<>>)
  \o <<hybrid_matmul("w_o", <<"attn_out", IF net.q_gate THEN "attn_g" ELSE "attn">>,
                     <<"o", "o">>, l, f),
       Call("merge", <<<<"xd", "x">>, <<"o", "o">>>>, "xd", "y", l, f)>>

attn_block_forward(l, f) == <<Encode(AttnQkv(l, f) \o AttnCache(l, f) \o AttnOut(l, f))>>

(* ssm_block_forward: projections, gates, convolution, recurrence, gated    *)
(* norm; each stage may be dumped, each group of stages profiled.           *)
SsmProject(l, f) ==
  <<Encode(<<Call("norm", <<<<"xd", "x">>>>, "h", "h", l, f)>>)>> \o Profiled
  \o Dumped("h", OwnOf("h", l, f))
  \o <<Encode(<<hybrid_matmul("w_qkv", <<"h", "h">>, <<"qkv_mixed", "qkv">>, l, f),
                hybrid_matmul("w_z", <<"h", "h">>, <<"z", "z">>, l, f)>>)>>
  \o Dumped("qkv_mixed", OwnOf("qkv", l, f)) \o Dumped("z", OwnOf("z", l, f))
  \o <<Encode(<<hybrid_matmul("alpha", <<"h", "h">>, <<"alpha", "alpha">>, l, f),
                hybrid_matmul("beta", <<"h", "h">>, <<"beta", "beta">>, l, f)>>)>>
  \o Dumped("alpha", OwnOf("alpha", l, f)) \o Dumped("beta", OwnOf("beta", l, f)) \o Profiled

SsmGates(l, f) ==
  <<Encode(<<Call("gate", <<<<"alpha", "alpha">>, <<"beta", "beta">>>>, "gate_h", "gh", l, f),
             Call("gate", <<<<"alpha", "alpha">>, <<"beta", "beta">>>>, "beta_sig", "bs", l, f)>>)>>
  \o Dumped("gate_h", OwnOf("gh", l, f)) \o Dumped("beta_sig", OwnOf("bs", l, f)) \o Profiled

SsmConv(l, f) ==
  <<Encode(<<Call("conv", <<<<"qkv_mixed", "qkv">>>>, "conv_out", "conv", l, f)>>)>>
  \o Dumped("conv_out", Of("conv", l, f)) \o Profiled
  \o <<Encode(<<Call("split", <<<<"conv_out", "conv">>>>, "q_ssm", "sq", l, f),
                Call("split", <<<<"conv_out", "conv">>>>, "k_ssm", "sk", l, f),
                Call("split", <<<<"conv_out", "conv">>>>, "v_ssm", "sv", l, f)>>)>> \o Profiled
  \o Dumped("q_ssm", Of("sq", l, f)) \o Dumped("k_ssm", Of("sk", l, f))
  \o Dumped("v_ssm", Of("sv", l, f))

SsmScan(l, f) ==
  <<Encode(<<Call("scan", <<<<"q_ssm", "sq">>, <<"k_ssm", "sk">>, <<"v_ssm", "sv">>,
                          <<"gate_h", "gh">>, <<"beta_sig", "bs">>>>, "ssm_out", "so", l, f)>>)>>
  \o Dumped("ssm_out", Of("so", l, f)) \o Profiled

SsmOut(l, f) ==
  <<Encode(<<Call("merge", <<<<"z", "z">>, <<"ssm_out", "so">>>>, "ssm_out", "sg", l, f)>>)>>
  \o Dumped("ssm_out", Of("sg", l, f)) \o Profiled
  \o <<Encode(<<hybrid_matmul("ssm_out", <<"ssm_out", "sg">>, <<"o", "o">>, l, f)>>)>>
  \o Dumped("o", Of("o", l, f))
  \o <<Encode(<<Call("merge", <<<<"xd", "x">>, <<"o", "o">>>>, "xd", "y", l, f)>>)>> \o Profiled

ssm_block_forward(l, f) ==
  SsmProject(l, f) \o SsmGates(l, f) \o SsmConv(l, f) \o SsmScan(l, f) \o SsmOut(l, f)

-----------------------------------------------------------------------------
(* ffn_dense_forward, dense weights.                                        *)
FfnDense(l, f) ==
  <<Encode(<<hybrid_matmul("w_gate", <<"h", "g">>, <<"gate_ffn", "gate">>, l, f),
             hybrid_matmul("w_up", <<"h", "g">>, <<"up_ffn", "up">>, l, f),
             Call("swiglu", <<<<"gate_ffn", "gate">>, <<"up_ffn", "up">>>>, "fd_ffn", "fd", l, f),
             hybrid_matmul("w_down", <<"fd_ffn", "fd">>, <<"fc2", "fc2">>, l, f),
             Kernel("add", <<<<"xd", "y">>, <<"fc2", "fc2">>>>, "xd", <<"x", l + 1>>, l,
                    Rows(f), Base(f), TRUE)>>)>>

Router(l, f) == hybrid_matmul("gate_inp", <<"h", "g">>, <<"moe_logits", "route_logits">>, l, f)

ZeroAcc(l, f) == Call("zero", <<>>, "moe_acc", "zero", l, f)

SharedExpert(l, f) ==
  <<hybrid_matmul("gate_shexp", <<"h", "g">>, <<"moe_gate", "sgate">>, l, f),
    hybrid_matmul("up_shexp", <<"h", "g">>, <<"moe_up", "sup">>, l, f),
    Call("swiglu", <<<<"moe_gate", "sgate">>, <<"moe_up", "sup">>>>, "moe_fd", "sfd", l, f),
    hybrid_matmul("down_shexp", <<"moe_fd", "sfd">>, <<"moe_expert_out", "shared">>, l, f)>>

SharedDot(l, f) == Call("dot", <<<<"h", "g">>>>, "moe_dot_scalar", "dot", l, f)

(* The routing product: on the GPU; on the CPU after a drain; or on the AMX *)
(* worker while the GPU computes the shared expert.                         *)
MoeRouting(l, f) ==
  CASE net.routing = "amx_async" /\ net.dtype["gate_inp"] = "F32" ->
         <<SignalEvent, SubmitJobs(<<Router(l, f)>>),
           Encode(<<ZeroAcc(l, f)>> \o SharedExpert(l, f) \o <<SharedDot(l, f)>>), WaitEvent>>
    [] net.routing = "amx_sync" /\ net.dtype["gate_inp"] = "F32" -> <<Sync, OnCpu(Router(l, f))>>
    [] OTHER -> <<Encode(<<Router(l, f)>>)>>

Async == net.routing = "amx_async" /\ net.dtype["gate_inp"] = "F32"

(* The chosen experts, one gathered row per chosen expert, and their        *)
(* weighted sum onto the zeroed accumulator (or stored, without zeroing).   *)
MoeExperts(l, f) ==
  <<Encode(<<Call("topk", <<<<"moe_logits", "route_logits">>>>, "moe_indices", "route", l, f),
             Call("topk", <<<<"moe_logits", "route_logits">>>>, "moe_topw", "topw", l, f)>>)>> \o Profiled
  \o <<Encode((IF Async \/ net.reduce_store THEN <<>> ELSE <<ZeroAcc(l, f)>>)
              \o <<Call("gather", <<<<"h", "g">>, <<"moe_indices", "route">>>>, "gate_gather", "eg", l, f)>>)>>
  \o Profiled
  \o <<Encode(<<Call("gather", <<<<"h", "g">>, <<"moe_indices", "route">>>>, "up_gather", "eu", l, f),
                Call("swiglu", <<<<"gate_gather", "eg">>, <<"up_gather", "eu">>>>, "fd_gather", "ef", l, f)>>)>>
  \o Profiled
  \o <<Encode(<<Call("gather", <<<<"fd_gather", "ef">>, <<"moe_indices", "route">>>>, "down_gather", "ed", l, f)>>)>>
  \o Profiled
  \o <<Encode(<<IF net.reduce_store /\ ~Async
                THEN Call("reduce", <<<<"down_gather", "ed">>, <<"moe_topw", "topw">>>>, "moe_acc", "moe", l, f)
                ELSE Call("accumulate", <<<<"moe_acc", "zero">>, <<"down_gather", "ed">>,
                                        <<"moe_topw", "topw">>>>, "moe_acc", "moe", l, f)>>)>> \o Profiled

(* The shared expert, unless it ran beside the router, and the residual.    *)
MoeJoin(l, f) ==
  (IF Async THEN <<>> ELSE <<Encode(SharedExpert(l, f))>>) \o Profiled
  \o <<Encode(IF ~Async
              THEN <<Kernel("add", <<<<"moe_acc", "moe">>, <<"moe_expert_out", "shared">>, <<"h", "g">>,
                                     <<"xd", "y">>>>, "xd", <<"x", l + 1>>, l, Rows(f), Base(f), TRUE)>>
              ELSE <<Kernel("add", <<<<"moe_acc", "moe">>, <<"moe_expert_out", "shared">>,
                                     <<"moe_dot_scalar", "dot">>, <<"xd", "y">>>>, "xd", <<"x", l + 1>>, l,
                            Rows(f), Base(f), TRUE)>>)>> \o Profiled

ffn_dense_forward(l, f) ==
  IF net.ffn = "dense" THEN FfnDense(l, f)
  ELSE MoeRouting(l, f) \o MoeExperts(l, f) \o MoeJoin(l, f)

(* One layer of forward_token: the mixer, the second norm, the feed-forward *)
(* half, and a commit every CommitPeriod layers unless stages are dumped.   *)
HybridLayer(l, f) ==
  (IF net.layers[l] = "attn" THEN attn_block_forward(l, f) ELSE ssm_block_forward(l, f)) \o Profiled
  \o Dumped("xd", Of("y", l, f))
  \o <<Encode(<<Call("norm", <<<<"xd", "y">>>>, "h", "g", l, f)>>)>> \o Profiled
  \o Dumped("h", Of("g", l, f))
  \o ffn_dense_forward(l, f) \o Profiled \o Dumped("xd", Residual(f, 0, l + 1))
  \o (IF ~net.dump /\ l % CommitPeriod = 0 /\ l < Depth THEN <<Commit>> ELSE <<>>)

HybridHead(f) ==
  <<Encode(<<Call("norm", <<<<"xd", "x">>>>, "h", "hn", Depth + 1, f)>>)>> \o Profiled
  \o Dumped("h", Of("hn", Depth + 1, f))
  \o <<Encode(<<hybrid_matmul("lm_head", <<"h", "hn">>, <<"logits", "logits">>, Depth + 1, f)>>), Sync,
       Sample(<<"logits", 0, 0>>, Of("logits", Depth + 1, f))>>

hybrid_forward_token(f) ==
  LET One(l) == HybridLayer(l, f)
  IN <<embed_token(f)>> \o Dumped("xd", Residual(f, 0, 1)) \o Layers(One) \o HybridHead(f)

-----------------------------------------------------------------------------
(* The batched forward pass of the hybrid example, in scratch buffers of    *)
(* its own for each kind of block (BatchScratch).                           *)

(* dispatch_batched_attn_matmul: one product over whole tiles of rows, the  *)
(* token kernel for one row, otherwise row by row through the host after a  *)
(* drain.                                                                   *)
dispatch_batched_attn_matmul(w, from, to, l, f) ==
  LET m == Len(f.toks)
      one == Kernel("matmul", <<<<"x_view", from[2]>>>>, "o_view", <<to[2], l>>, l, {0}, 0, TRUE)
  IN IF m = 1 \/ m % Tile = 0 THEN <<Encode(<<hybrid_matmul(w, from, to, l, f)>>)>>
     ELSE <<Sync>> \o FlattenSeq([i \in 1..m |->
            <<Copy(<<from[1], 0, i - 1>>, <<"x_view", 0, 0>>), Encode(<<one>>), Sync,
              Copy(<<"o_view", 0, 0>>, <<to[1], 0, i - 1>>)>>])

(* attn_block_forward_batch.                                                *)
AttnBatchQkv(l, f) ==
  <<Encode(<<Call("norm", <<<<"b_xd", "x">>>>, "ba_h", "h", l, f)>>)>>
  \o dispatch_batched_attn_matmul("w_q", <<"ba_h", "h">>,
       IF net.q_gate THEN <<"ba_qg", "qg">> ELSE <<"ba_q", "q">>, l, f)
  \o dispatch_batched_attn_matmul("w_k", <<"ba_h", "h">>, <<"ba_k", "k">>, l, f)
  \o dispatch_batched_attn_matmul("w_v", <<"ba_h", "h">>, <<"ba_v", "v">>, l, f)

AttnBatchCache(l, f) ==
  <<Encode((IF net.q_gate
            THEN <<Call("split", <<<<"ba_qg", "qg">>>>, "ba_q", "q", l, f),
                   Call("split", <<<<"ba_qg", "qg">>>>, "ba_gate", "ga", l, f)>>
            ELSE <<>>)
           \o <<Call("norm", <<<<"ba_q", "q">>>>, "ba_q", "qn", l, f),
                Call("norm", <<<<"ba_k", "k">>>>, "ba_k", "kn", l, f),
                Call("rope", <<<<"ba_q", "qn">>>>, "ba_q", "qr", l, f),
                Call("rope", <<<<"ba_k", "kn">>>>, "ba_k", "kr", l, f),
                Call("append", <<<<"ba_k", "kr">>>>, "k_cache", "kr", l, f),
                Call("append", <<<<"ba_v", "v">>>>, "v_cache", "v", l, f),
                Call("attend", <<<<"ba_q", "qr">>>>, "ba_out", "attn", l, f)>>)>>

AttnBatchOut(l, f) ==
  <<Encode(IF net.q_gate
           THEN <<Call("merge", <<<<"ba_gate", "ga">>, <<"ba_out", "attn">>>>, "ba_out", "attn_g", l, f)>>
           ELSE <<>>)>>
  \o dispatch_batched_attn_matmul("w_o", <<"ba_out", IF net.q_gate THEN "attn_g" ELSE "attn">>,
                                  <<"ba_o", "o">>, l, f)
  \o <<Encode(<<Call("merge", <<<<"b_xd", "x">>, <<"ba_o", "o">>>>, "b_xd", "y", l, f)>>)>>

attn_block_forward_batch(l, f) ==
  AttnBatchQkv(l, f) \o AttnBatchCache(l, f) \o AttnBatchOut(l, f)

(* ffn_dense_forward_batch.                                                 *)
ffn_dense_forward_batch(l, f) ==
  <<Encode(<<Call("norm", <<<<"b_xd", "y">>>>, "bf_h", "g", l, f)>>)>>
  \o dispatch_batched_attn_matmul("w_gate", <<"bf_h", "g">>, <<"bf_gate", "gate">>, l, f)
  \o dispatch_batched_attn_matmul("w_up", <<"bf_h", "g">>, <<"bf_up", "up">>, l, f)
  \o <<Encode(<<Call("swiglu", <<<<"bf_gate", "gate">>, <<"bf_up", "up">>>>, "bf_fd", "fd", l, f)>>)>>
  \o dispatch_batched_attn_matmul("w_down", <<"bf_fd", "fd">>, <<"bf_fc2", "fc2">>, l, f)
  \o <<Encode(<<Kernel("add", <<<<"b_xd", "y">>, <<"bf_fc2", "fc2">>>>, "b_xd", <<"x", l + 1>>, l,
                       Rows(f), Base(f), TRUE)>>)>>

(* ssm_block_forward_batch: the projections.                                *)
SsmBatchProject(l, f) ==
  <<Encode(<<Call("norm", <<<<"b_xd", "x">>>>, "bs_h", "h", l, f)>>)>> \o Profiled
  \o dispatch_batched_attn_matmul("w_qkv", <<"bs_h", "h">>, <<"bs_qkv", "qkv">>, l, f)
  \o dispatch_batched_attn_matmul("w_z", <<"bs_h", "h">>, <<"bs_z", "z">>, l, f)
  \o dispatch_batched_attn_matmul("alpha", <<"bs_h", "h">>, <<"bs_alpha", "alpha">>, l, f)
  \o dispatch_batched_attn_matmul("beta", <<"bs_h", "h">>, <<"bs_beta", "beta">>, l, f) \o Profiled
  \o <<Encode(<<Call("gate", <<<<"bs_alpha", "alpha">>, <<"bs_beta", "beta">>>>, "bs_gate", "gh", l, f),
                Call("gate", <<<<"bs_alpha", "alpha">>, <<"bs_beta", "beta">>>>, "bs_beta_sig", "bs", l, f)>>)>>
  \o Profiled

OneRow(k, r) == [k EXCEPT !.rows = {r}]

EachRow(k, f) == [i \in 1..Len(f.toks) |-> OneRow(k, i - 1)]

(* The recurrences over the batch: convolution row by row and one           *)
(* persistent scan (T200), or one persistent convolution and the scan row   *)
(* by row.  The state buffers are the ones the token pass uses.             *)
SsmBatchScan(l, f) ==
  LET conv == Call("conv", <<<<"bs_qkv", "qkv">>>>, "bs_conv", "conv", l, f)
      scan == Call("scan", <<<<"bs_conv", "conv">>, <<"bs_conv", "conv">>, <<"bs_conv", "conv">>,
                           <<"bs_gate", "gh">>, <<"bs_beta_sig", "bs">>>>, "bs_out", "so", l, f)
  IN <<Encode((IF net.t200 THEN EachRow(conv, f) \o <<scan>> ELSE <<conv>> \o EachRow(scan, f))
              \o <<Call("merge", <<<<"bs_z", "z">>, <<"bs_out", "so">>>>, "bs_out", "sg", l, f)>>)>>
     \o Profiled

SsmBatchOut(l, f) ==
  dispatch_batched_attn_matmul("ssm_out", <<"bs_out", "sg">>, <<"bs_o", "o">>, l, f)
  \o <<Encode(<<Call("merge", <<<<"b_xd", "x">>, <<"bs_o", "o">>>>, "b_xd", "y", l, f)>>)>> \o Profiled

ssm_block_forward_batch(l, f) ==
  SsmBatchProject(l, f) \o SsmBatchScan(l, f) \o SsmBatchOut(l, f)

-----------------------------------------------------------------------------
(* ffn_moe_forward_batch: the router's product and choice.                  *)
MoeBatchRouting(l, f) ==
  <<Encode(<<Call("norm", <<<<"b_xd", "y">>>>, "bm_h", "g", l, f)>>)>> \o Profiled
  \o dispatch_batched_attn_matmul("gate_inp", <<"bm_h", "g">>, <<"bm_logits", "route_logits">>, l, f)
  \o Profiled
  \o <<Encode(<<Call("topk", <<<<"bm_logits", "route_logits">>>>, "bm_indices", "route", l, f),
                Call("topk", <<<<"bm_logits", "route_logits">>>>, "bm_topw", "topw", l, f)>>)>> \o Profiled

(* Experts are grouped when all three stacks have a grouped kernel and the  *)
(* batch is large enough.                                                   *)
AllEm(f) ==
  /\ \A w \in {"gate_exps", "up_exps", "down_exps"} : net.dtype[w] \in {"Q4_K", "Q5_K"}
  /\ Len(f.toks) >= EmThreshold

MmidSupported(f) ==
  /\ net.mmid /\ AllEm(f)
  /\ net.dtype["gate_exps"] = "Q4_K" /\ net.dtype["up_exps"] = "Q4_K" /\ net.dtype["down_exps"] = "Q5_K"

(* Grouping on the GPU: the map from experts to rows, the grouped products  *)
(* and the scatter of the weighted results.                                 *)
MoeMmid(l, f) ==
  <<Encode(<<Call("map0", <<<<"bm_indices", "route">>>>, "mmid_ids", "map", l, f)>>)>> \o Profiled
  \o <<Encode(<<Call("mmid", <<<<"bm_h", "g">>, <<"mmid_ids", "map">>>>, "mmid_silu", "ef", l, f)>>)>> \o Profiled
  \o <<Encode(<<Call("mmid", <<<<"mmid_silu", "ef">>, <<"mmid_ids", "map">>>>, "mmid_down", "ed", l, f)>>)>> \o Profiled
  \o <<Encode(<<Call("scatter", <<<<"mmid_down", "ed">>, <<"bm_indices", "route">>, <<"bm_topw", "topw">>>>,
                   "bm_acc", "moe", l, f)>>)>> \o Profiled

(* Grouping on the host: drain, sort the choices (build_expert_major_perm), *)
(* store the permutation, then pack, multiply, unpack and reduce.           *)
MoeExpertMajor(l, f) ==
  <<Sync>> \o Profiled
  \o [i \in 1..Len(f.toks) |-> Look(<<"bm_indices", 0, i - 1>>, <<"route", l, Context(f, i - 1), 0>>)]
  \o <<OnCpu(Call("perm", <<<<"bm_indices", "route">>>>, "em_src", "perm", l, f))>> \o Profiled
  \o <<Encode(<<Call("zero", <<>>, "bm_acc", "zero", l, f)>>)>> \o Profiled
  \o <<Encode(<<Call("pack", <<<<"bm_h", "g">>, <<"em_src", "perm">>>>, "em_x", "ex", l, f)>>)>> \o Profiled
  \o <<Encode(<<Call("em", <<<<"em_x", "ex">>>>, "em_gate", "eg", l, f)>>)>> \o Profiled
  \o <<Encode(<<Call("em", <<<<"em_x", "ex">>>>, "em_up", "eu", l, f)>>)>> \o Profiled
  \o <<Encode(<<Call("swiglu", <<<<"em_gate", "eg">>, <<"em_up", "eu">>>>, "em_fd", "ef", l, f)>>)>> \o Profiled
  \o <<Encode(<<Call("em", <<<<"em_fd", "ef">>>>, "em_d", "edp", l, f)>>)>> \o Profiled
  \o <<Encode(<<Call("unpermute", <<<<"em_d", "edp">>, <<"em_src", "perm">>>>, "bm_down", "ed", l, f)>>)>> \o Profiled
  \o <<Encode(<<Call("accumulate", <<<<"bm_acc", "zero">>, <<"bm_down", "ed">>, <<"bm_topw", "topw">>>>,
                   "bm_acc", "moe", l, f)>>)>> \o Profiled

(* No grouping: one gathered product per row and expert; gate and up run    *)
(* the Q4_K kernel whatever their dtype is.                                 *)
MoeGather(l, f) ==
  <<Encode(<<Call("zero", <<>>, "bm_acc", "zero", l, f),
             Kernel("gather", <<<<"bm_h", "g">>, <<"bm_indices", "route">>>>, "bm_gate", <<"eg", l>>, l,
                    Rows(f), Base(f), net.dtype["gate_exps"] = "Q4_K"),
             Kernel("gather", <<<<"bm_h", "g">>, <<"bm_indices", "route">>>>, "bm_up", <<"eu", l>>, l,
                    Rows(f), Base(f), net.dtype["up_exps"] = "Q4_K"),
             Call("swiglu", <<<<"bm_gate", "eg">>, <<"bm_up", "eu">>>>, "bm_fd", "ef", l, f),
             Call("gather", <<<<"bm_fd", "ef">>, <<"bm_indices", "route">>>>, "bm_down", "ed", l, f),
             Call("accumulate", <<<<"bm_acc", "zero">>, <<"bm_down", "ed">>, <<"bm_topw", "topw">>>>,
                "bm_acc", "moe", l, f)>>)>>

MoeBatchShared(l, f) ==
  dispatch_batched_attn_matmul("gate_shexp", <<"bm_h", "g">>, <<"bm_sgate", "sgate">>, l, f) \o Profiled
  \o dispatch_batched_attn_matmul("up_shexp", <<"bm_h", "g">>, <<"bm_sup", "sup">>, l, f) \o Profiled
  \o <<Encode(<<Call("swiglu", <<<<"bm_sgate", "sgate">>, <<"bm_sup", "sup">>>>, "bm_sfd", "sfd", l, f)>>)>>
  \o dispatch_batched_attn_matmul("down_shexp", <<"bm_sfd", "sfd">>, <<"bm_shared", "shared">>, l, f) \o Profiled
  \o <<Encode(<<Kernel("add", <<<<"bm_acc", "moe">>, <<"bm_shared", "shared">>, <<"bm_h", "g">>, <<"b_xd", "y">>>>,
                       "b_xd", <<"x", l + 1>>, l, Rows(f), Base(f), TRUE)>>)>> \o Profiled

ffn_moe_forward_batch(l, f) ==
  MoeBatchRouting(l, f)
  \o (IF MmidSupported(f) THEN MoeMmid(l, f)
      ELSE IF AllEm(f) THEN MoeExpertMajor(l, f) ELSE MoeGather(l, f))
  \o MoeBatchShared(l, f)

-----------------------------------------------------------------------------
(* forward_batch_argmax: one layer, then the optional per-layer offset that *)
(* the inference hooks add (zeros in the example).                          *)
HybridBatchLayer(l, f) ==
  (IF net.layers[l] = "attn" THEN attn_block_forward_batch(l, f) ELSE ssm_block_forward_batch(l, f))
  \o Profiled
  \o (IF net.ffn = "dense" THEN ffn_dense_forward_batch(l, f) ELSE ffn_moe_forward_batch(l, f)) \o Profiled
  \o (IF net.hooks THEN <<Encode(<<Call("hook", <<<<"b_xd", "x">>>>, "b_xd", "x", l + 1, f)>>)>> ELSE <<>>)

EmbedBatch(f) == Put([c \in {<<"b_xd", 0, r>> : r \in Rows(f)} |-> Residual(f, c[3], 1)])

(* The argmax of the last row only: it moves to the token scratch on the    *)
(* host.                                                                    *)
LastArgmax(f) ==
  LET g == Pass(f.hist \o SubSeq(f.toks, 1, Len(f.toks) - 1), <<f.toks[Len(f.toks)]>>)
  IN <<Sync, Copy(<<"b_xd", 0, Len(f.toks) - 1>>, <<"xd", 0, 0>>),
       Encode(<<Call("norm", <<<<"xd", "x">>>>, "h", "hn", Depth + 1, g),
                hybrid_matmul("lm_head", <<"h", "hn">>, <<"logits", "logits">>, Depth + 1, g)>>), Sync,
       Sample(<<"logits", 0, 0>>, <<"logits", Depth + 1, Context(g, 0), 0>>)>>

(* The argmax of every row, taken on the GPU.                               *)
AllArgmax(f) ==
  <<Encode(<<Call("norm", <<<<"b_xd", "x">>>>, "b_h", "hn", Depth + 1, f),
             hybrid_matmul("lm_head", <<"b_h", "hn">>, <<"b_logits", "logits">>, Depth + 1, f),
             Call("argmax", <<<<"b_logits", "logits">>>>, "argmax_indices", "best", Depth + 1, f)>>), Sync>>
  \o [i \in 1..Len(f.toks) |-> Sample(<<"argmax_indices", 0, i - 1>>,
                                   <<"best", Depth + 1, Context(f, i - 1), 0>>)]

forward_batch_argmax(f, all) ==
  LET One(l) == HybridBatchLayer(l, f)
  IN <<EmbedBatch(f)>> \o Layers(One) \o (IF all THEN AllArgmax(f) ELSE LastArgmax(f))

-----------------------------------------------------------------------------
(* The loops of the hybrid example: one prompt with batched prefill and     *)
(* plain or speculative decoding (--prompt), token by token (--forward), or *)
(* a chat that keeps its caches from turn to turn (--chat).                 *)

CONSTANT Margin  \* positions a chat turn must leave free (16 in the code)

VARIABLES
  left,     \* tokens of the prompt, or of this turn, still to be fed
  prev2,    \* prev_token2: the token before prev
  stopped,  \* hit_stop
  typed     \* lines the chat has read

hybridVars == <<left, prev2, stopped, typed>>

Hybrid == net.family = "hybrid"
Chat == net.mode = "chat"
Drafting == net.mode = "prompt" /\ net.b >= 2 /\ net.b % Tile = 0

queueButTodo == <<mem, pending, committed, event, jobs, nextValue, stale>>

(* update_caches: continuations after every triple and after every pair.    *)
update_caches(table, h, k) ==
  LET Keys(w) == {SubSeq(h, j - w + 1, j) : j \in w..(Len(h) - 1)}
      Ends(key) == {j \in Len(key)..(Len(h) - 1) : SubSeq(h, j - Len(key) + 1, j) = key}
      LastEnd(key) == CHOOSE j \in Ends(key) : \A i \in Ends(key) : i <= j
  IN IF Len(h) < 3 THEN table
     ELSE [key \in Keys(2) \cup Keys(3) |->
             SubSeq(h, LastEnd(key) + 1, Least(LastEnd(key) + k, Len(h)))] @@ table

(* Prefill: full chunks, then whole tiles, then the rest token by token.    *)
ChunkSize ==
  IF net.mode # "prompt" \/ net.chunk <= 1 \/ net.per_token THEN 1
  ELSE IF Len(left) >= net.chunk THEN net.chunk
  ELSE IF Len(left) >= Tile THEN (Len(left) \div Tile) * Tile ELSE 1

HybridPrefill ==
  /\ Hybrid /\ doing = "prefill" /\ batch = <<>>
  /\ LET f == Pass(text, SubSeq(left, 1, ChunkSize))
     IN Launch(f.toks, IF ChunkSize > 1 THEN forward_batch_argmax(f, FALSE)
                       ELSE hybrid_forward_token(f))
  /\ UNCHANGED hybridVars

HybridPrefillResult ==
  /\ Hybrid /\ doing = "prefill" /\ batch # <<>> /\ todo = <<>>
  /\ text' = text \o batch
  /\ left' = SubSeq(left, Len(batch) + 1, Len(left))
  /\ last' = argmax(picked[Len(picked)])
  /\ batch' = <<>> /\ picked' = <<>>
  /\ IF left' # <<>> THEN UNCHANGED <<doing, asked, gen, ngram, prev, prev2, stopped>>
     ELSE /\ doing' = "decode" /\ asked' = text' /\ gen' = <<last'>>
          /\ ngram' = IF Drafting THEN update_caches(update_caches(ngram, net.prompt, Drafts),
                                                     net.prompt \o <<last'>>, Drafts)
                      ELSE ngram
          /\ prev' = text'[Len(text')]
          /\ prev2' = IF Len(text') >= 2 THEN text'[Len(text') - 1] ELSE text'[Len(text')]
          /\ stopped' = (Chat /\ last' \in net.stops)
  /\ UNCHANGED <<net, queueButTodo, todo, recent, typed>>

(* The triple's continuation, or the pair's.                                *)
KnownKeys == {<<prev2, prev, last>>, <<prev, last>>} \cap DOMAIN ngram
Chosen == ngram[IF <<prev2, prev, last>> \in KnownKeys THEN <<prev2, prev, last>> ELSE <<prev, last>>]

(* Drafts must beat 1.5 + 0.05 b accepted tokens per round.                 *)
HybridShouldSpec ==
  /\ KnownKeys # {}
  /\ recent = <<>> \/ 100 * SumOf(recent) >= (150 + 5 * net.b) * Len(recent)

HybridCandidates ==
  [i \in 1..net.b |-> IF i > 1 /\ i <= Least(Drafts, Len(Chosen)) + 1 THEN Chosen[i - 1] ELSE last]

Goes == /\ ~stopped /\ Len(gen) < net.n
        /\ Len(text) + (IF Drafting THEN net.b ELSE 1) < MaxSeq

HybridDecode ==
  /\ Hybrid /\ doing = "decode" /\ batch = <<>> /\ Goes
  /\ IF Drafting /\ HybridShouldSpec
     THEN Launch(HybridCandidates, forward_batch_argmax(Pass(text, HybridCandidates), TRUE))
     ELSE Launch(<<last>>, hybrid_forward_token(Pass(text, <<last>>)))
  /\ UNCHANGED hybridVars

HybridToken ==
  /\ Hybrid /\ doing = "decode" /\ Len(batch) = 1 /\ todo = <<>>
  /\ last' = argmax(picked[1])
  /\ gen' = Append(gen, last')
  /\ prev' = last /\ prev2' = prev
  /\ text' = text \o batch
  /\ ngram' = IF Drafting /\ Len(gen') >= 3
              THEN update_caches(ngram, SubSeq(gen', IF Len(gen') > 8 THEN Len(gen') - 7 ELSE 1, Len(gen')), Drafts)
              ELSE ngram
  /\ stopped' = (last' \in net.stops)
  /\ batch' = <<>> /\ picked' = <<>>
  /\ UNCHANGED <<net, queueButTodo, todo, doing, asked, recent, left, typed>>

(* How many accepted drafts are taken: up to n in all, and up to a stop.    *)
Taken(acc) ==
  LET cut == {i \in 1..acc : Len(gen) + i >= net.n \/ batch[i + 1] \in net.stops}
  IN IF cut = {} THEN acc ELSE CHOOSE i \in cut : \A j \in cut : i <= j

(* A speculative round.  When the drafts end it, by n or by a stop, the     *)
(* loop ends without the bonus token and without moving on.                 *)
HybridRound ==
  /\ Hybrid /\ doing = "decode" /\ Len(batch) > 1 /\ todo = <<>>
  /\ LET acc == AcceptedCount
         took == Taken(acc)
         ends == took > 0 /\ (Len(gen) + took >= net.n \/ batch[took + 1] \in net.stops)
         all == gen \o SubSeq(batch, 2, took + 1) \o (IF ends THEN <<>> ELSE <<Outs[acc + 1]>>)
         from == IF Len(all) > acc + 4 THEN Len(all) - (acc + 4) ELSE 0
         window == IF from >= 3 THEN SubSeq(all, from - 2, Len(all)) ELSE all
     IN /\ gen' = all
        /\ recent' = Append(IF Len(recent) = AbortWindow THEN Tail(recent) ELSE recent, acc)
        /\ stopped' = (all[Len(all)] \in net.stops)
        /\ IF ends THEN UNCHANGED <<last, prev, prev2, text, ngram>>
           ELSE /\ last' = Outs[acc + 1]
                /\ prev' = all[Len(all) - 1]
                /\ prev2' = IF Len(all) >= 3 THEN all[Len(all) - 2] ELSE prev2
                /\ text' = text \o SubSeq(batch, 1, acc + 1)
                /\ ngram' = update_caches(ngram, window, Drafts)
  /\ batch' = <<>> /\ picked' = <<>>
  /\ UNCHANGED <<net, queueButTodo, todo, doing, asked, left, typed>>

(* n tokens, a stop token, or no room left in the caches.                   *)
HybridEnds ==
  /\ Hybrid /\ doing = "decode" /\ batch = <<>> /\ ~Goes
  /\ doing' = IF Chat THEN "idle" ELSE "done"
  /\ UNCHANGED <<net, queueVars, text, asked, last, prev, gen, ngram, recent, batch, hybridVars>>

-----------------------------------------------------------------------------
(* The chat: a line is fed after what the caches hold, if it fits.          *)
ChatLine ==
  /\ Hybrid /\ doing = "idle" /\ typed < Len(net.lines)
  /\ typed' = typed + 1
  /\ IF Len(text) + Len(net.lines[typed + 1]) + Margin >= MaxSeq THEN UNCHANGED <<left, doing>>
     ELSE left' = net.lines[typed + 1] /\ doing' = "prefill"
  /\ UNCHANGED <<net, queueVars, text, asked, last, prev, gen, ngram, recent, batch, prev2, stopped>>

(* /clear: a new DecodeState, with its caches, states and scratch buffers.  *)
ChatClear ==
  /\ Hybrid /\ doing = "idle" /\ text # <<>>
  /\ mem' = << >> /\ text' = <<>>
  /\ UNCHANGED <<net, pending, committed, event, jobs, nextValue, todo, picked, stale, doing, asked,
                 last, prev, gen, ngram, recent, batch, hybridVars>>

ChatExit ==
  /\ Hybrid /\ doing = "idle"
  /\ doing' = "done"
  /\ UNCHANGED <<net, queueVars, text, asked, last, prev, gen, ngram, recent, batch, hybridVars>>

HybridInit ==
  /\ left = (IF net.family = "hybrid" /\ ~Chat THEN net.prompt ELSE <<>>)
  /\ prev2 = 0 /\ stopped = FALSE /\ typed = 0

HybridStep ==
  \/ HybridPrefill \/ HybridPrefillResult \/ HybridDecode \/ HybridToken \/ HybridRound
  \/ HybridEnds \/ ChatLine \/ ChatClear \/ ChatExit
=============================================================================
