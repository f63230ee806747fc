---------------------------- MODULE LlamaDecode ----------------------------
(* The model library's own decoders, one token per step: LlamaModel on the  *)
(* CPU, LlamaModelCuda on one CUDA stream, and the CPU reference of the     *)
(* hybrid Qwen3.5.  Scratch buffers are few and reused within a layer: h    *)
(* and block_out hold several stages in turn.                               *)
EXTENDS QwenDecode

Library == net.family = "library"

(* A kernel of the step that reads one stage, or two.                       *)
From1(name, buf, stage, dst, out, l, f) == Call(name, <<<<buf, stage>>>>, dst, out, l, f)

(* x into h, and the norm in place on h.                                    *)
CopyAndNorm(stage, out, l, f) ==
  <<From1("copy", "x", stage, "h", stage, l, f), From1("norm", "h", stage, "h", out, l, f)>>

(* The second residual addition: the next layer's input.                    *)
NextResidual(buf, l, f) ==
  Kernel("add", <<<<"x", "y">>, <<buf, "fc2">>>>, "x", <<"x", l + 1>>, l, Rows(f), Base(f), TRUE)

OnHost(ks) == [i \in DOMAIN ks |-> OnCpu(ks[i])]

-----------------------------------------------------------------------------
(* LlamaModel::decode_step: everything on the calling thread.               *)
LlamaEmbed(f) == <<Put(<<"x", 0, 0>> :> Residual(f, 0, 1))>>

(* One fused product, split in three; per-head norms; rotation.             *)
LlamaQkv(l, f) ==
  CopyAndNorm("x", "h", l, f)
  \o <<From1("matmul", "h", "h", "qkv", "qkv", l, f), From1("split", "qkv", "qkv", "q", "q", l, f),
       From1("split", "qkv", "qkv", "k", "k", l, f), From1("split", "qkv", "qkv", "v", "v", l, f)>>
  \o HeadNorms(l, f) \o Ropes(l, f)

(* Append, attend over the positions so far, w_o, residual.                 *)
LlamaAttention(l, f) ==
  KvAppends(l, f)
  \o <<From1("attend", "q", "qr", "attn_out", "attn", l, f),
       From1("matmul", "attn_out", "attn", "o_out", "o", l, f),
       Call("merge", <<<<"x", "x">>, <<"o_out", "o">>>>, "x", "y", l, f)>>

(* The fused gate and up product, split; swiglu in place on the gate.       *)
LlamaFfn(l, f) ==
  CopyAndNorm("y", "g", l, f)
  \o <<From1("matmul", "h", "g", "gate_up", "gu", l, f),
       From1("split", "gate_up", "gu", "gate_out", "gate", l, f),
       From1("split", "gate_up", "gu", "up_out", "up", l, f),
       Call("swiglu", <<<<"gate_out", "gate">>, <<"up_out", "up">>>>, "gate_out", "fd", l, f),
       From1("matmul", "gate_out", "fd", "fc2_out", "fc2", l, f), NextResidual("fc2_out", l, f)>>

LlamaHead(f) ==
  CopyAndNorm("x", "hn", Depth + 1, f)
  \o <<From1("matmul", "h", "hn", "logits", "logits", Depth + 1, f)>>

(* While the prompt is fed nobody samples.                                  *)
LlamaSample(f) ==
  IF doing = "prefill" THEN <<>>
  ELSE <<Sample(<<"logits", 0, 0>>, <<"logits", Depth + 1, Context(f, 0), 0>>)>>

LlamaStep(f) ==
  LET Of(l) == OnHost(LlamaQkv(l, f) \o LlamaAttention(l, f) \o LlamaFfn(l, f))
  IN LlamaEmbed(f) \o Layers(Of) \o OnHost(LlamaHead(f)) \o LlamaSample(f)

-----------------------------------------------------------------------------
(* LlamaModelCuda::decode_step: every launch goes to the stream at once and *)
(* returns; only the copy of the chosen token to the host waits.  The       *)
(* per-head norms are uploaded and never applied.                           *)
Launched(ks) == FlattenSeq([i \in DOMAIN ks |-> <<Encode(<<ks[i]>>), Commit>>])

(* The token id is uploaded and the table's row looked up.                  *)
CudaEmbed(f) ==
  <<Put(<<"token_id", 0, 0>> :> <<"id", 1, f.toks, 0>>)>>
  \o Launched(<<From1("embed", "token_id", "id", "x", "x", 1, f)>>)

(* One product fills the three thirds of qkv; rotation in place.            *)
CudaQkv(l, f) ==
  CopyAndNorm("x", "h", l, f)
  \o <<From1("matmul", "h", "h", "q", "q", l, f), From1("matmul", "h", "h", "k", "k", l, f),
       From1("matmul", "h", "h", "v", "v", l, f), From1("rope", "q", "q", "q", "qr", l, f),
       From1("rope", "k", "k", "k", "kr", l, f)>>

CudaAttention(l, f) ==
  KvAppends(l, f)
  \o <<From1("attend", "q", "qr", "block_out", "attn", l, f),
       From1("matmul", "block_out", "attn", "h", "o", l, f),
       Call("merge", <<<<"x", "x">>, <<"h", "o">>>>, "x", "y", l, f)>>

CudaFfn(l, f) ==
  CopyAndNorm("y", "g", l, f)
  \o <<From1("matmul", "h", "g", "gate", "gate", l, f), From1("matmul", "h", "g", "up", "up", l, f),
       Call("swiglu", <<<<"gate", "gate">>, <<"up", "up">>>>, "ffn_inter", "fd", l, f),
       From1("matmul", "ffn_inter", "fd", "block_out", "fc2", l, f), NextResidual("block_out", l, f)>>

(* lm_head and the argmax kernel on the device, and the copy that waits.    *)
CudaPick(ctx, f) ==
  Launched(<<From1("norm", "h", "x", "h", "hn", Depth + 1, f),
             From1("matmul", "h", "hn", "logits", "logits", Depth + 1, f),
             From1("argmax", "logits", "logits", "sample_out", "best", Depth + 1, f)>>)
  \o <<Sync, Sample(<<"sample_out", 0, 0>>, <<"best", Depth + 1, ctx, 0>>)>>

CudaStep(f) ==
  LET Of(l) == Launched(CudaQkv(l, f) \o CudaAttention(l, f) \o CudaFfn(l, f))
  IN CudaEmbed(f) \o Layers(Of)
     \o Launched(<<From1("copy", "x", "x", "h", "x", Depth + 1, f)>>) \o CudaPick(Context(f, 0), f)

(* copy_x_to_h: to the host and back; the copy to the host waits.           *)
copy_x_to_h == <<Sync, Copy(<<"x", 0, 0>>, <<"h", 0, 0>>)>>

(* decode_step_ffn_only: the layers without their attention half, so the    *)
(* model sees nothing but the token it is fed.                              *)
FfnOnlyLayer(l, f) ==
  copy_x_to_h
  \o Launched(<<From1("norm", "h", "x", "h", "g", l, f), From1("matmul", "h", "g", "gate", "gate", l, f),
                From1("matmul", "h", "g", "up", "up", l, f),
                Call("swiglu", <<<<"gate", "gate">>, <<"up", "up">>>>, "ffn_inter", "fd", l, f),
                From1("matmul", "ffn_inter", "fd", "block_out", "fc2", l, f),
                Kernel("add", <<<<"x", "x">>, <<"block_out", "fc2">>>>, "x", <<"x", l + 1>>, l,
                       Rows(f), Base(f), TRUE)>>)

decode_step_ffn_only(f) ==
  LET Of(l) == FfnOnlyLayer(l, f)
  IN CudaEmbed(f) \o Layers(Of) \o copy_x_to_h \o CudaPick(f.toks, f)

(* decode_step_minimal: no layer at all.                                    *)
decode_step_minimal(f) == CudaEmbed(f) \o copy_x_to_h \o CudaPick(f.toks, f)

-----------------------------------------------------------------------------
(* forward_token of the CPU reference.  residual, cur and ffn_in are copies *)
(* of x that each layer makes anew.                                         *)
ReferenceNorm(l, f) ==
  <<From1("copy", "x", "x", "residual", "x", l, f), From1("norm", "x", "x", "cur", "h", l, f)>>

(* attn_block_forward: q and its gate from one product, read head by head.  *)
ReferenceAttention(l, f) ==
  <<From1("matmul", "cur", "h", "qg", "qg", l, f), From1("split", "qg", "qg", "q", "q", l, f),
    From1("split", "qg", "qg", "gate", "ga", l, f), From1("matmul", "cur", "h", "k", "k", l, f),
    From1("matmul", "cur", "h", "v", "v", l, f), From1("norm", "q", "q", "q", "qn", l, f),
    From1("norm", "k", "k", "k", "kn", l, f), From1("rope", "q", "qn", "q", "qr", l, f),
    From1("rope", "k", "kn", "k", "kr", l, f)>>
  \o KvAppends(l, f)
  \o <<From1("attend", "q", "qr", "attn_out", "attn", l, f),
       Call("merge", <<<<"gate", "ga">>, <<"attn_out", "attn">>>>, "attn_out", "attn_g", l, f),
       From1("matmul", "attn_out", "attn_g", "cur", "o", l, f)>>

(* ssm_block_forward: projections and gates.                                *)
ReferenceSsmInputs(l, f) ==
  <<From1("matmul", "cur", "h", "qkv_mixed", "qkv", l, f), From1("matmul", "cur", "h", "z", "z", l, f),
    From1("matmul", "cur", "h", "beta", "beta", l, f), From1("gate", "beta", "beta", "beta", "bs", l, f),
    From1("matmul", "cur", "h", "alpha", "alpha", l, f), From1("gate", "alpha", "alpha", "gate_h", "gh", l, f)>>

(* The convolution over the history rows and the new one, which takes the   *)
(* last row once the others have moved up; the scan; the gated norm.        *)
ReferenceSsmScan(l, f) ==
  <<From1("conv", "qkv_mixed", "qkv", "conv_out", "conv", l, f),
    From1("split", "conv_out", "conv", "q", "sq", l, f), From1("split", "conv_out", "conv", "k", "sk", l, f),
    From1("split", "conv_out", "conv", "v", "sv", l, f),
    Call("scan", <<<<"q", "sq">>, <<"k", "sk">>, <<"v", "sv">>, <<"gate_h", "gh">>, <<"beta", "bs">>>>,
         "out_per_head", "so", l, f)>>

ReferenceSsmOut(l, f) ==
  <<Call("merge", <<<<"z", "z">>, <<"out_per_head", "so">>>>, "out_normed", "sg", l, f),
    From1("matmul", "out_normed", "sg", "cur", "o", l, f)>>

(* ffn_dense_forward, between its norm and the last residual.               *)
ReferenceFfn(l, f) ==
  <<Call("merge", <<<<"residual", "x">>, <<"cur", "o">>>>, "residual", "y", l, f),
    From1("norm", "residual", "y", "ffn_in", "g", l, f), From1("matmul", "ffn_in", "g", "gate", "gate", l, f),
    From1("matmul", "ffn_in", "g", "up", "up", l, f),
    Call("swiglu", <<<<"gate", "gate">>, <<"up", "up">>>>, "gate", "fd", l, f),
    From1("matmul", "gate", "fd", "ffn_out", "fc2", l, f), From1("copy", "residual", "y", "x", "y", l, f),
    NextResidual("ffn_out", l, f)>>

ReferenceLayer(l, f) ==
  ReferenceNorm(l, f)
  \o (IF net.layers[l] = "attn" THEN ReferenceAttention(l, f)
      ELSE ReferenceSsmInputs(l, f) \o ReferenceSsmScan(l, f) \o ReferenceSsmOut(l, f))
  \o ReferenceFfn(l, f)

ReferenceStep(f) ==
  LET Of(l) == OnHost(ReferenceLayer(l, f))
  IN LlamaEmbed(f) \o Layers(Of)
     \o OnHost(<<From1("norm", "x", "x", "x", "hn", Depth + 1, f),
                 From1("matmul", "x", "hn", "logits", "logits", Depth + 1, f)>>)
     \o <<Sample(<<"logits", 0, 0>>, <<"logits", Depth + 1, Context(f, 0), 0>>)>>

-----------------------------------------------------------------------------
Step(f) ==
  CASE net.mode = "cpu" -> LlamaStep(f)
    [] net.mode = "cuda" -> CudaStep(f)
    [] net.mode = "ffn_only" -> decode_step_ffn_only(f)
    [] net.mode = "minimal" -> decode_step_minimal(f)
    [] net.mode = "reference" -> ReferenceStep(f)

(* Without a row left for the position the step fails: KVCache::append is   *)
(* unwrapped, the CUDA step returns an error, the reference is out of its   *)
(* slice.  The reduced CUDA steps keep no cache.                            *)
HasRow == net.mode \in {"ffn_only", "minimal"} \/ Len(text) < MaxSeq

Feed(tok) == HasRow /\ Launch(<<tok>>, Step(Pass(text, <<tok>>)))

(* generate: the prompt, token by token; what the steps choose is ignored.  *)
GeneratePrefill ==
  /\ Library /\ doing = "prefill" /\ batch = <<>> /\ Feed(net.prompt[Len(text) + 1])

(* After the prompt its last token is fed once more: the text that is       *)
(* continued ends with that token twice.                                    *)
GeneratePrefilled ==
  /\ Library /\ doing = "prefill" /\ batch # <<>> /\ todo = <<>>
  /\ text' = text \o batch
  /\ last' = batch[1]
  /\ batch' = <<>> /\ picked' = <<>>
  /\ IF Len(text') < Len(net.prompt) THEN UNCHANGED <<doing, asked>>
     ELSE doing' = "decode" /\ asked' = Append(text', last')
  /\ UNCHANGED <<net, mem, pending, committed, event, jobs, nextValue, todo, stale, prev, gen, ngram, recent>>

GenerateDecode ==
  /\ Library /\ doing = "decode" /\ batch = <<>> /\ Len(gen) < net.n /\ Feed(last)

(* One decoded token.                                                       *)
GenerateToken ==
  /\ Library /\ doing = "decode" /\ batch # <<>> /\ todo = <<>>
  /\ last' = argmax(picked[1])
  /\ gen' = Append(gen, last')
  /\ text' = text \o batch
  /\ batch' = <<>> /\ picked' = <<>>
  /\ UNCHANGED <<net, mem, pending, committed, event, jobs, nextValue, todo, stale, doing, asked,
                 prev, ngram, recent>>

(* n tokens, or no row left.                                                *)
GenerateEnds ==
  /\ Library /\ batch = <<>>
  /\ \/ doing = "decode" /\ Len(gen) >= net.n
     \/ doing \in {"prefill", "decode"} /\ ~HasRow
  /\ doing' = "done"
  /\ UNCHANGED <<net, queueVars, text, asked, last, prev, gen, ngram, recent, batch>>

LibraryStep ==
  GeneratePrefill \/ GeneratePrefilled \/ GenerateDecode \/ GenerateToken \/ GenerateEnds
=============================================================================
