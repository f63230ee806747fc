----------------------------- MODULE QwenDecode -----------------------------
(* The forward passes of the dense Qwen example: the instructions each one  *)
(* gives the backend, in order.  A pass f feeds the tokens f.toks at the    *)
(* positions from Len(f.hist) on; one row of every scratch buffer belongs   *)
(* to each token.                                                           *)
EXTENDS MetalQueue

CONSTANTS
  CommitPeriod,   \* layers between two commit_async calls (5 in the code)
  Tile,           \* rows of a simdgroup tile (8 in the code)
  EntropyLayers   \* ENTROPY_LAYERS: depths whose residual is probed

VARIABLE net  \* the loaded model: layers, qk_norm, and the dtype of each weight

Pass(hist, toks) == [hist |-> hist, toks |-> toks]

Base(f) == Len(f.hist)
Rows(f) == 0..(Len(f.toks) - 1)
Context(f, r) == f.hist \o SubSeq(f.toks, 1, r + 1)
Depth == Len(net.layers)

(* The residual of row r before layer l.                                    *)
Residual(f, r, l) == <<"x", l, IF l = 1 THEN <<f.toks[r + 1]>> ELSE Context(f, r), 0>>

(* A kernel of layer l over every row of the pass.                          *)
Call(name, src, dst, out, l, f) ==
  Kernel(name, src, dst, <<out, l>>, l, Rows(f), Base(f), TRUE)

(* sgemv_q4_k_*_into: decodes Q4_K whatever the weight's dtype is.          *)
Q4(w, src, dst, out, l, f) ==
  Kernel("matmul", src, dst, <<out, l>>, l, Rows(f), Base(f), net.dtype[w] = "Q4_K")

(* MetalWeight::matmul_into: the kernel of the weight's own dtype.          *)
matmul_into(w, src, dst, out, l, f) ==
  Kernel("matmul", src, dst, <<out, l>>, l, Rows(f), Base(f),
         net.dtype[w] \in {"Q3_K", "Q4_K", "Q5_K", "Q6_K", "Q8_0"})

EmbedToken(f) == Put([c \in {<<"xd", 0, r>> : r \in Rows(f)} |-> Residual(f, c[3], 1)])

(* rms_norm_f32 on the residual, then the three projections: Q4_K kernels   *)
(* for q and k in every case, for v by its dtype.                           *)
TokenQkv(l, f) ==
  <<Call("norm", <<<<"xd", "x">>>>, "h", "h", l, f),
    Q4("w_q", <<<<"h", "h">>>>, "q", "q", l, f),
    Q4("w_k", <<<<"h", "h">>>>, "k", "k", l, f),
    IF net.dtype["w_v"] = "Q4_K" THEN Q4("w_v", <<<<"h", "h">>>>, "v", "v", l, f)
    ELSE matmul_into("w_v", <<<<"h", "h">>>>, "v", "v", l, f)>>

(* The per-head norms, when the model has them.                             *)
HeadNorms(l, f) ==
  IF net.qk_norm THEN <<Call("norm", <<<<"q", "q">>>>, "q", "qn", l, f),
                        Call("norm", <<<<"k", "k">>>>, "k", "kn", l, f)>>
  ELSE <<>>

(* rope_half_split_f32 on q and k in place.                                 *)
Ropes(l, f) ==
  <<Call("rope", <<<<"q", IF net.qk_norm THEN "qn" ELSE "q">>>>, "q", "qr", l, f),
    Call("rope", <<<<"k", IF net.qk_norm THEN "kn" ELSE "k">>>>, "k", "kr", l, f)>>

KvAppends(l, f) ==
  <<Call("append", <<<<"k", "kr">>>>, "k_cache", "kr", l, f),
    Call("append", <<<<"v", "v">>>>, "v_cache", "v", l, f)>>

Gqa(l, f) == <<Call("attend", <<<<"q", "qr">>>>, "attn", "attn", l, f)>>

(* Norms, rotation, cache and attention of one token.                       *)
TokenAttend(l, f) == HeadNorms(l, f) \o Ropes(l, f) \o KvAppends(l, f) \o Gqa(l, f)

(* w_o, and the first residual addition, in place on xd.                    *)
TokenOut(l, f) ==
  <<matmul_into("w_o", <<<<"attn", "attn">>>>, "o", "o", l, f),
    Call("merge", <<<<"xd", "x">>, <<"o", "o">>>>, "xd", "y", l, f)>>

FfnNorm(l, f) == <<Call("norm", <<<<"xd", "y">>>>, "h", "g", l, f)>>

TokenGateUp(l, f) ==
  <<Q4("w_gate", <<<<"h", "g">>>>, "gate", "gate", l, f),
    Q4("w_up", <<<<"h", "g">>>>, "up", "up", l, f)>>

Swiglu(l, f) == <<Call("swiglu", <<<<"gate", "gate">>, <<"up", "up">>>>, "fd", "fd", l, f)>>

(* w_down, and the second residual addition: the next layer's input.        *)
TokenDown(l, f) ==
  <<matmul_into("w_down", <<<<"fd", "fd">>>>, "fc2", "fc2", l, f),
    Kernel("add", <<<<"xd", "y">>, <<"fc2", "fc2">>>>, "xd", <<"x", l + 1>>, l,
           Rows(f), Base(f), TRUE)>>

(* final_norm and lm_head into the logits, one row per token.               *)
HeadKernels(f) ==
  <<Call("norm", <<<<"xd", "x">>>>, "h", "hn", Depth + 1, f),
    matmul_into("lm_head", <<<<"h", "hn">>>>, "logits", "logits", Depth + 1, f)>>

(* Copy the logits of every row to the host and take their argmax.          *)
ReadLogits(f) ==
  [i \in 1..Len(f.toks) |-> Sample(<<"logits", 0, i - 1>>,
                                   <<"logits", Depth + 1, Context(f, i - 1), 0>>)]

(* Mutant: the logits are read after commit_async, without drain.           *)
MutHead1(f) == <<Encode(HeadKernels(f)), Commit>> \o ReadLogits(f)

Head1(f) == <<Encode(HeadKernels(f)), Sync>> \o ReadLogits(f)

Layers(Of(_)) == FlattenSeq([l \in 1..Depth |-> Of(l)])

-----------------------------------------------------------------------------
(* forward_token: the whole token in one or more command buffers, committed *)
(* every CommitPeriod layers while the host encodes the next ones.          *)
TokenLayer(l, f) ==
  <<Encode(TokenQkv(l, f) \o TokenAttend(l, f) \o TokenOut(l, f) \o FfnNorm(l, f)
             \o TokenGateUp(l, f) \o Swiglu(l, f) \o TokenDown(l, f))>>
  \o (IF l % CommitPeriod = 0 /\ l < Depth THEN <<Commit>> ELSE <<>>)

forward_token(f) ==
  LET Of(l) == TokenLayer(l, f) IN <<EmbedToken(f)>> \o Layers(Of) \o Head1(f)

(* forward_token_dump_h: one command buffer; the final hidden state is read *)
(* next to the logits.                                                      *)
DumpAttention(l, f) == TokenQkv(l, f) \o TokenAttend(l, f) \o TokenOut(l, f)

DumpFfn(l, f) == FfnNorm(l, f) \o TokenGateUp(l, f) \o Swiglu(l, f) \o TokenDown(l, f)

forward_token_dump_h(f) ==
  LET Of(l) == <<Encode(DumpAttention(l, f) \o DumpFfn(l, f))>>
  IN <<EmbedToken(f)>> \o Layers(Of) \o <<Encode(HeadKernels(f)), Sync,
       Look(<<"h", 0, 0>>, <<"hn", Depth + 1, Context(f, 0), 0>>)>> \o ReadLogits(f)

(* forward_token_profiled: a drain after every stage.                       *)
ProfiledAttention(l, f) ==
  <<Encode(SubSeq(TokenQkv(l, f), 1, 1)), Sync, Encode(SubSeq(TokenQkv(l, f), 2, 4)), Sync,
    Encode(HeadNorms(l, f) \o Ropes(l, f)), Sync, Encode(KvAppends(l, f)), Sync,
    Encode(Gqa(l, f)), Sync, Encode(TokenOut(l, f)), Sync>>

ProfiledFfn(l, f) ==
  <<Encode(FfnNorm(l, f)), Sync, Encode(TokenGateUp(l, f)), Sync, Encode(Swiglu(l, f)), Sync,
    Encode(TokenDown(l, f)), Sync>>

forward_token_profiled(f) ==
  LET Of(l) == ProfiledAttention(l, f) \o ProfiledFfn(l, f)
  IN <<EmbedToken(f)>> \o Layers(Of)
     \o <<Encode(SubSeq(HeadKernels(f), 1, 1)), Sync, Encode(SubSeq(HeadKernels(f), 2, 2)), Sync>>
     \o ReadLogits(f)

(* forward_token_sparsity: the gated activations of every layer, before     *)
(* w_down.                                                                  *)
SparsityAttention(l, f) == TokenQkv(l, f) \o TokenAttend(l, f) \o TokenOut(l, f)

SparsityFfn(l, f) ==
  <<Encode(FfnNorm(l, f) \o TokenGateUp(l, f) \o Swiglu(l, f)), Sync,
    Look(<<"fd", 0, 0>>, <<"fd", l, Context(f, 0), 0>>), Encode(TokenDown(l, f))>>

forward_token_sparsity(f) ==
  LET Of(l) == <<Encode(SparsityAttention(l, f))>> \o SparsityFfn(l, f)
  IN <<EmbedToken(f)>> \o Layers(Of) \o Head1(f)

(* forward_token_rank: the input of the feed-forward half of every layer;   *)
(* without a Q4_K w_v all three projections go by their dtype.              *)
RankAttention(l, f) ==
  (IF net.dtype["w_v"] = "Q4_K" THEN TokenQkv(l, f)
   ELSE <<Head(TokenQkv(l, f)), matmul_into("w_q", <<<<"h", "h">>>>, "q", "q", l, f),
          matmul_into("w_k", <<<<"h", "h">>>>, "k", "k", l, f),
          matmul_into("w_v", <<<<"h", "h">>>>, "v", "v", l, f)>>)
  \o TokenAttend(l, f) \o TokenOut(l, f)

RankFfn(l, f) ==
  <<Encode(FfnNorm(l, f)), Sync, Look(<<"h", 0, 0>>, <<"g", l, Context(f, 0), 0>>),
    Encode(TokenGateUp(l, f) \o Swiglu(l, f) \o TokenDown(l, f))>>

forward_token_rank(f) ==
  LET Of(l) == <<Encode(RankAttention(l, f))>> \o RankFfn(l, f)
  IN <<EmbedToken(f)>> \o Layers(Of) \o Head1(f)

(* forward_token_entropy: at some depths the head runs on the residual into *)
(* auxiliary buffers, so that the pass itself is not disturbed.             *)
EntropyAttention(l, f) == TokenQkv(l, f) \o TokenAttend(l, f) \o TokenOut(l, f)

EntropyFfn(l, f) == FfnNorm(l, f) \o TokenGateUp(l, f) \o Swiglu(l, f) \o TokenDown(l, f)

EntropyProbe(l, f) ==
  <<Encode(<<Kernel("norm", <<<<"xd", "x">>>>, "aux_h", <<"hn", l + 1>>, l + 1, Rows(f), Base(f), TRUE),
             matmul_into("lm_head", <<<<"aux_h", "hn">>>>, "aux_logits", "logits", l + 1, f)>>),
    Sync, Look(<<"aux_h", 0, 0>>, <<"hn", l + 1, Context(f, 0), 0>>),
    Look(<<"aux_logits", 0, 0>>, <<"logits", l + 1, Context(f, 0), 0>>)>>

forward_token_entropy(f) ==
  LET Of(l) == <<Encode(EntropyAttention(l, f) \o EntropyFfn(l, f))>>
               \o (IF l \in EntropyLayers THEN EntropyProbe(l, f) ELSE <<>>)
  IN <<EmbedToken(f)>> \o Layers(Of) \o Head1(f)
     \o <<Look(<<"h", 0, 0>>, <<"hn", Depth + 1, Context(f, 0), 0>>)>>

(* forward_token_layer_cos: the residual before, in the middle and after    *)
(* every layer.                                                             *)
LayerCosAttention(l, f) ==
  <<Sync, Look(<<"xd", 0, 0>>, Residual(f, 0, l)),
    Encode(TokenQkv(l, f) \o TokenAttend(l, f) \o TokenOut(l, f)), Sync,
    Look(<<"xd", 0, 0>>, <<"y", l, Context(f, 0), 0>>)>>

LayerCosFfn(l, f) ==
  <<Encode(FfnNorm(l, f) \o TokenGateUp(l, f) \o Swiglu(l, f) \o TokenDown(l, f)), Sync,
    Look(<<"xd", 0, 0>>, Residual(f, 0, l + 1))>>

forward_token_layer_cos(f) ==
  LET Of(l) == LayerCosAttention(l, f) \o LayerCosFfn(l, f)
  IN <<EmbedToken(f)>> \o Layers(Of) \o Head1(f)

(* forward_token_head_stats: the attention output of every layer, before w_o. *)
HeadStatsAttention(l, f) ==
  <<Encode(TokenQkv(l, f) \o TokenAttend(l, f)), Sync,
    Look(<<"attn", 0, 0>>, <<"attn", l, Context(f, 0), 0>>), Encode(TokenOut(l, f))>>

HeadStatsFfn(l, f) == FfnNorm(l, f) \o TokenGateUp(l, f) \o Swiglu(l, f) \o TokenDown(l, f)

forward_token_head_stats(f) ==
  LET Of(l) == HeadStatsAttention(l, f) \o <<Encode(HeadStatsFfn(l, f))>>
  IN <<EmbedToken(f)>> \o Layers(Of) \o Head1(f)

-----------------------------------------------------------------------------
(* dispatch_batched_matmul: one kernel over all rows where the dtype has    *)
(* one, else a loop that copies each row out and back through the host.     *)
dispatch_batched_matmul(w, src, stage, dst, out, l, f) ==
  LET dt == net.dtype[w]
      whole == \/ dt \in {"Q4_K", "Q6_K"}
               \/ dt = "Q3_K" /\ Len(f.toks) % Tile = 0
      one == Kernel("matmul", <<<<"h_view", stage>>>>, "out_view", <<out, l>>, l, {0}, 0, TRUE)
  IN IF whole THEN <<Encode(<<matmul_into(w, <<<<src, stage>>>>, dst, out, l, f)>>)>>
     ELSE FlattenSeq([i \in 1..Len(f.toks) |->
            <<Copy(<<src, 0, i - 1>>, <<"h_view", 0, 0>>), Encode(<<one>>), Sync,
              Copy(<<"out_view", 0, 0>>, <<dst, 0, i - 1>>)>>])

(* PhaseTimer::mark: a drain when the profile is asked for.                 *)
Mark == IF net.timed THEN <<Sync>> ELSE <<>>

BatchAttention(l, f) ==
  <<Encode(<<Call("norm", <<<<"xd", "x">>>>, "h", "h", l, f)>>)>> \o Mark
  \o dispatch_batched_matmul("w_q", "h", "h", "q", "q", l, f) \o Mark
  \o dispatch_batched_matmul("w_k", "h", "h", "k", "k", l, f) \o Mark
  \o dispatch_batched_matmul("w_v", "h", "h", "v", "v", l, f) \o Mark
  \o <<Encode(HeadNorms(l, f) \o Ropes(l, f))>> \o Mark
  \o <<Encode(KvAppends(l, f))>> \o Mark

BatchOut(l, f) ==
  <<Encode(Gqa(l, f))>> \o Mark
  \o dispatch_batched_matmul("w_o", "attn", "attn", "o", "o", l, f) \o Mark
  \o <<Encode(<<Call("merge", <<<<"xd", "x">>, <<"o", "o">>>>, "xd", "y", l, f)>>)>> \o Mark

BatchFfn(l, f) ==
  <<Encode(FfnNorm(l, f))>> \o Mark
  \o dispatch_batched_matmul("w_gate", "h", "g", "gate", "gate", l, f) \o Mark
  \o dispatch_batched_matmul("w_up", "h", "g", "up", "up", l, f) \o Mark
  \o <<Encode(Swiglu(l, f))>> \o Mark
  \o dispatch_batched_matmul("w_down", "fd", "fd", "fc2", "fc2", l, f) \o Mark
  \o <<Encode(SubSeq(TokenDown(l, f), 2, 2))>> \o Mark

forward_batch(f) ==
  LET Of(l) == BatchAttention(l, f) \o BatchOut(l, f) \o BatchFfn(l, f)
  IN <<EmbedToken(f)>> \o Mark \o Layers(Of)
     \o <<Encode(SubSeq(HeadKernels(f), 1, 1))>>
     \o dispatch_batched_matmul("lm_head", "h", "hn", "logits", "logits", Depth + 1, f) \o Mark
     \o <<Sync>> \o ReadLogits(f)

-----------------------------------------------------------------------------
(* The decoding loop of the dense Qwen example: prefill in chunks or token  *)
(* by token, then greedy decoding with one of the instrumented passes, or   *)
(* speculative decoding with drafts from a table of 2-grams.                *)

CONSTANTS
  Nets,            \* the models and command lines that are run
  Unknown,         \* the argmax of logits that are not the model's
  AbortWindow,     \* rounds the acceptance rate looks back on (8 in the code)
  BreakEvenPct     \* acceptance below which drafting is skipped, in percent

VARIABLES
  doing,   \* "prefill", "decode" or "done"
  text,    \* the tokens fed for good: cur_pos of them
  asked,   \* the text that the first generated token continues
  last,    \* the token to feed next
  prev,    \* prev_token: the first half of the lookup key
  gen,     \* generated
  ngram,   \* continuations seen after each pair of tokens
  recent,  \* recent_accept: accepted drafts of the last rounds
  batch    \* the tokens of the pass in flight

loopVars == <<doing, text, asked, last, prev, gen, ngram, recent, batch>>
decodeVars == <<net, queueVars, loopVars>>

(* The model: its choice after the last two tokens of a context.            *)
NextToken(c) == net.next[<<IF Len(c) = 1 THEN 0 ELSE c[Len(c) - 1], c[Len(c)]>>]

argmax(v) == IF v[1] \in {"logits", "best"} /\ v[2] = Depth + 1 THEN NextToken(v[3]) ELSE Unknown

Least(a, b) == IF a < b THEN a ELSE b
SumOf(s) == FoldSeq(LAMBDA x, y : x + y, 0, s)

(* update_ngram: the continuation of up to k tokens after every pair of h;  *)
(* a later occurrence replaces an earlier one.                              *)
update_ngram(table, h, k) ==
  IF Len(h) < 3 THEN table
  ELSE LET ends(key) == {j \in 2..(Len(h) - 1) : <<h[j - 1], h[j]>> = key}
           lastEnd(key) == CHOOSE j \in ends(key) : \A i \in ends(key) : i <= j
       IN [key \in {<<h[j - 1], h[j]>> : j \in 2..(Len(h) - 1)} |->
             SubSeq(h, lastEnd(key) + 1, Least(lastEnd(key) + k, Len(h)))] @@ table

Speculative == net.mode = "spec"
Drafts == net.b - 1

(* The pass that the command line's mode runs for one token.                *)
TokenPass(f) ==
  CASE net.mode = "profile" -> forward_token_profiled(f)
    [] net.mode = "sparsity" -> forward_token_sparsity(f)
    [] net.mode = "rank" -> forward_token_rank(f)
    [] net.mode = "entropy" -> forward_token_entropy(f)
    [] net.mode = "layer_cos" -> forward_token_layer_cos(f)
    [] net.mode = "head_stats" -> forward_token_head_stats(f)
    [] net.mode = "dump_h" -> forward_token_dump_h(f)
    [] net.mode = "batch_test" -> forward_batch(f)
    [] OTHER -> forward_token(f)

Chunked == net.chunk > 1 /\ net.mode \in {"token", "spec"}

Launch(toks, prog) ==
  /\ batch' = toks
  /\ todo' = prog
  /\ UNCHANGED <<net, mem, pending, committed, event, jobs, nextValue, picked, stale,
                 doing, text, asked, last, prev, gen, ngram, recent>>

(* One chunk of the prompt, or one token of it.                             *)
PrefillPass ==
  /\ doing = "prefill" /\ batch = <<>> /\ net.family = "dense"
  /\ LET n == IF Chunked THEN Least(net.chunk, Len(net.prompt) - Len(text)) ELSE 1
         f == Pass(text, SubSeq(net.prompt, Len(text) + 1, Len(text) + n))
     IN Launch(f.toks, IF Chunked THEN forward_batch(f) ELSE TokenPass(f))

(* The chunk is done; after the last one its last argmax is the first       *)
(* generated token, and the table is seeded from the prompt and it.         *)
PrefillResult ==
  /\ doing = "prefill" /\ batch # <<>> /\ todo = <<>> /\ net.family = "dense"
  /\ text' = text \o batch
  /\ batch' = <<>> /\ picked' = <<>>
  /\ last' = argmax(picked[Len(picked)])
  /\ IF Len(text') < Len(net.prompt) THEN UNCHANGED <<doing, asked, prev, gen, ngram>>
     ELSE /\ doing' = "decode"
          /\ asked' = text'
          /\ gen' = <<last'>>
          /\ ngram' = IF ~Speculative THEN ngram
                      ELSE LET seeded == update_ngram(ngram, net.prompt, Drafts)
                           IN IF Len(net.prompt) >= 2
                              THEN update_ngram(seeded, net.prompt \o <<last'>>, Drafts)
                              ELSE seeded
          /\ prev' = IF Len(net.prompt) >= 2 THEN net.prompt[Len(net.prompt) - 1] ELSE last'
  /\ UNCHANGED <<net, mem, pending, committed, event, jobs, nextValue, todo, stale, recent>>

(* Draft only after a known pair, and while drafts pay off.                 *)
ShouldSpec ==
  /\ <<prev, last>> \in DOMAIN ngram
  /\ recent = <<>> \/ 100 * SumOf(recent) >= BreakEvenPct * Len(recent) * Drafts

(* The last token, the drafts, and padding with the last token.             *)
Candidates ==
  LET drafts == SubSeq(ngram[<<prev, last>>], 1, Least(Drafts, Len(ngram[<<prev, last>>])))
  IN [i \in 1..net.b |-> IF i > 1 /\ i <= Len(drafts) + 1 THEN drafts[i - 1] ELSE last]

DecodePass ==
  /\ doing = "decode" /\ batch = <<>> /\ Len(gen) < net.n /\ net.family = "dense"
  /\ IF Speculative /\ ShouldSpec
     THEN Launch(Candidates, forward_batch(Pass(text, Candidates)))
     ELSE Launch(<<last>>, TokenPass(Pass(text, <<last>>)))

(* One token: it is what the pass chose.                                    *)
TokenResult ==
  /\ doing = "decode" /\ Len(batch) = 1 /\ todo = <<>> /\ net.family = "dense"
  /\ last' = argmax(picked[1])
  /\ gen' = Append(gen, last')
  /\ prev' = gen[Len(gen)]
  /\ text' = text \o batch
  /\ batch' = <<>> /\ picked' = <<>>
  /\ UNCHANGED <<net, mem, pending, committed, event, jobs, nextValue, todo, stale,
                 doing, asked, ngram, recent>>

Outs == [i \in DOMAIN picked |-> argmax(picked[i])]

(* Mutant: counts every draft that matches, past the first that does not.   *)
MutAcceptedCount == Cardinality({k \in 1..(Len(batch) - 1) : Outs[k] = batch[k + 1]})

(* Drafts that the model agrees with, from the first on.                    *)
AcceptedCount ==
  Cardinality({k \in 1..(Len(batch) - 1) : \A i \in 1..k : Outs[i] = batch[i + 1]})

(* A speculative round: the accepted drafts and the model's own next token, *)
(* never more than n in all; the cache is kept up to the accepted drafts.   *)
SpeculativeResult ==
  /\ doing = "decode" /\ Len(batch) > 1 /\ todo = <<>> /\ net.family = "dense"
  /\ LET acc == AcceptedCount
         room == net.n - Len(gen)
         took == Least(acc, room)
         all == gen \o SubSeq(batch, 2, took + 1) \o (IF took < room THEN <<Outs[acc + 1]>> ELSE <<>>)
         from == IF Len(all) > acc + 3 THEN Len(all) - (acc + 3) ELSE 0
         window == IF from >= 2 THEN SubSeq(all, from - 1, Len(all)) ELSE all
     IN /\ gen' = all
        /\ last' = IF took < room THEN Outs[acc + 1] ELSE batch[acc + 1]
        /\ prev' = IF Len(all) >= 2 THEN all[Len(all) - 1] ELSE prev
        /\ text' = text \o SubSeq(batch, 1, acc + 1)
        /\ recent' = Append(IF Len(recent) = AbortWindow THEN Tail(recent) ELSE recent, acc)
        /\ ngram' = update_ngram(ngram, window, Drafts)
  /\ batch' = <<>> /\ picked' = <<>>
  /\ UNCHANGED <<net, mem, pending, committed, event, jobs, nextValue, todo, stale, doing, asked>>

LoopEnds ==
  /\ doing = "decode" /\ batch = <<>> /\ Len(gen) >= net.n /\ net.family = "dense"
  /\ doing' = "done"
  /\ UNCHANGED <<net, queueVars, text, asked, last, prev, gen, ngram, recent, batch>>

DecodeInit ==
  /\ net \in Nets
  /\ QueueInit /\ todo = <<>>
  /\ doing = IF net.mode = "chat" THEN "idle" ELSE "prefill"
  /\ text = <<>> /\ asked = <<>> /\ last = 0 /\ prev = 0 /\ gen = <<>>
  /\ ngram = << >> /\ recent = <<>> /\ batch = <<>>

HostStep ==
  /\ todo # <<>>
  /\ with_encoder \/ commit_async \/ drain \/ HostStore \/ HostLoad \/ HostEvent
  /\ UNCHANGED <<net, loopVars>>

GpuRuns == GpuStep /\ UNCHANGED <<net, loopVars>>

AmxRuns == worker_loop /\ UNCHANGED <<net, loopVars>>

DenseStep ==
  PrefillPass \/ PrefillResult \/ DecodePass \/ TokenResult \/ SpeculativeResult \/ LoopEnds

(* DecodesGreedily: every generated token is the model's own choice after   *)
(* the prompt and the tokens generated before it, whichever pass computed   *)
(* it, and however many drafts were rejected on the way.                    *)
DecodesGreedily ==
  \A i \in DOMAIN gen : gen[i] = NextToken(asked \o SubSeq(gen, 1, i - 1))
=============================================================================
