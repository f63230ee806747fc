------------------------------ MODULE LlmHost ------------------------------
(***************************************************************************)
(* The host side of the LLM library: how the loaders lay weights out       *)
(* (rustorch-llm/src/model.rs, qwen35_cpu.rs) and what the products, norms,*)
(* rotation, convolution and recurrence of the reference then read of      *)
(* them, and how a token is drawn from logits (rustorch-nn/src/sampling.rs)*)
(* A weight file holds matrices [out, in]: the element (o, i) is the term  *)
(* <<name, o, i>> at offset o * in + i.                                    *)
(***************************************************************************)
EXTENDS CpuAttention

CONSTANTS
  LlamaShapes,   \* <<hidden, kv_dim, intermediate, vocabulary>>
  HybridShapes,  \* [d, head_dim, n_q, n_kv, n_k, n_v, state, kernel, f, experts]
  HostRows,      \* <<heads, head_dim, rope_dim>>
  DrawCases      \* [logits, penalty, inv_t, top_k, top_p, recent]

Matrix(name, out, in) == [x \in Upto(out * in) |-> <<name, x \div in, x % in>>]

(* --------------------------- the llama loaders -------------------------- *)

transpose_2d(src, rows, cols) == [x \in Upto(rows * cols) |-> src[((x % rows) * cols) + (x \div rows)]]

(* Matrices of as many rows side by side.                                   *)
fuse_rows_2(a, ac, b, bc) ==
  LET stride == ac + bc
      rows == Cardinality(DOMAIN a) \div ac
  IN  [x \in Upto(rows * stride) |->
        LET r == x \div stride
            c == x % stride
        IN  IF c < ac THEN a[(r * ac) + c] ELSE b[(r * bc) + (c - ac)]]
fuse_rows_3(a, ac, b, bc, c, cc) == fuse_rows_2(fuse_rows_2(a, ac, b, bc), ac + bc, c, cc)

Loaded(d, kv, f, head) ==
  LET Of(name, out, in) == transpose_2d(Matrix(name, out, in), out, in)
  IN  [qkv |-> fuse_rows_3(Of("q", d, d), d, Of("k", kv, d), kv, Of("v", kv, d), kv),
       o |-> Of("o", d, d),
       gate_up |-> fuse_rows_2(Of("gate", f, d), f, Of("up", f, d), f),
       down |-> Of("down", d, f),
       lm_head |-> head]

(* A tied head is the transposed embedding.  Only from_gguf transposes an   *)
(* untied one: the instances give from_hf tied weights.                     *)
from_hf(d, kv, f, V, tied) ==
  Loaded(d, kv, f, IF tied THEN transpose_2d(Matrix("embed", V, d), V, d) ELSE Matrix("head", V, d))
from_gguf(d, kv, f, V, tied) ==
  Loaded(d, kv, f, transpose_2d(Matrix(IF tied THEN "embed" ELSE "head", V, d), V, d))

(* y = x W with W [k, n]: the row loop and the library product alike.       *)
sgemv_dispatch(w, k, n) == {<<nn, <<kk, w[(kk * n) + nn]>>, 0, kk>> : kk \in Upto(k), nn \in Upto(n)}

Applied(name, out, in, first) == {<<first + o, <<i, <<name, o, i>>>>>> : o \in Upto(out), i \in Upto(in)}

llama_products(w, d, kv, f, V, tied) ==
  Kernel(TRUE,
    <<Part(Applied("q", d, d, 0) \cup Applied("k", kv, d, d) \cup Applied("v", kv, d, d + kv), sgemv_dispatch(w.qkv, d, d + (2 * kv))),
      Part(Applied("o", d, d, 0), sgemv_dispatch(w.o, d, d)),
      Part(Applied("gate", f, d, 0) \cup Applied("up", f, d, f), sgemv_dispatch(w.gate_up, d, 2 * f)),
      Part(Applied("down", d, f, 0), sgemv_dispatch(w.down, f, d)),
      Part(Applied(IF tied THEN "embed" ELSE "head", V, d, 0), sgemv_dispatch(w.lm_head, d, V))>>, <<>>)

(* The sum of squares of a head, then each element by it and its gamma.     *)
rms_norm_inplace(first, d, h) ==
  [sums |-> {<<h, first + i, h, i>> : i \in Upto(d)},
   out |-> {<<first + i, <<first + i, h, i>>, h, 0>> : i \in Upto(d)}]
rms_norm_per_head(heads, d) ==
  LET each == {rms_norm_inplace(h * d, d, h) : h \in Upto(heads)}
  IN  Kernel(TRUE,
        <<Part({<<x \div d, x>> : x \in Upto(heads * d)}, UNION {e.sums : e \in each}),
          Part({<<x, <<x, x \div d, x % d>>>> : x \in Upto(heads * d)}, UNION {e.out : e \in each})>>, <<>>)

(* ------------------------- the hybrid's reference ----------------------- *)

(* A file's tensor is accepted when its shape, fastest axis first, is the   *)
(* one expected; the data of an [in, out] tensor is [out, in] row-major.    *)
load_2d(name, shape, out, in) ==
  IF shape = <<in, out>> THEN [ok |-> TRUE, data |-> Matrix(name, out, in)] ELSE [ok |-> FALSE]
load_1d(name, shape, n) ==
  LET total[i \in 0 .. Len(shape)] == IF i = 0 THEN 1 ELSE shape[i] * total[i - 1]
  IN  IF total[Len(shape)] = n THEN [ok |-> TRUE, data |-> Matrix(name, n, 1)] ELSE [ok |-> FALSE]

(* Expert e of a stack [in, out, experts] is the e-th run of out * in.      *)
Stack(name, out, in, n_e) == [x \in Upto(n_e * out * in) |-> <<<<name, x \div (out * in)>>, (x \div in) % out, x % in>>]
load_stacked_experts(name, shape, n_e, out, in) ==
  IF shape # <<in, out, n_e>> THEN [ok |-> FALSE]
  ELSE LET raw == Stack(name, out, in, n_e)
           stride == out * in
       IN  [ok |-> TRUE, data |-> [e \in Upto(n_e) |-> [x \in Upto(stride) |-> raw[(e * stride) + x]]]]

(* y = W x with W [n, k].                                                   *)
gemv(w, n, k) == {<<i, <<j, w[(i * k) + j]>>, 0, j>> : i \in Upto(n), j \in Upto(k)}

(* What a layer's loader expects of the file: name, outputs, inputs.        *)
load_attn_layer(c) ==
  <<<<"attn_q", 2 * c.head_dim * c.n_q, c.d>>, <<"attn_k", c.head_dim * c.n_kv, c.d>>,
    <<"attn_v", c.head_dim * c.n_kv, c.d>>, <<"attn_output", c.d, c.head_dim * c.n_q>>>>
load_ssm_layer(c) ==
  LET key == c.state * c.n_k
      value == c.state * c.n_v
  IN  <<<<"attn_qkv", (2 * key) + value, c.d>>, <<"attn_gate", value, c.d>>, <<"ssm_alpha", c.n_v, c.d>>,
        <<"ssm_beta", c.n_v, c.d>>, <<"ssm_out", c.d, value>>>>
load_ffn(c) ==
  <<<<"ffn_gate", c.f, c.d>>, <<"ffn_up", c.f, c.d>>, <<"ffn_down", c.d, c.f>>>>
    \o (IF c.experts = 0 THEN <<>> ELSE <<<<"ffn_gate_inp", c.experts, c.d>>>>)
load_layer(c) == load_attn_layer(c) \o load_ssm_layer(c) \o load_ffn(c)

(* The sizes the forward passes give the same products.                     *)
GemvSizes(c) ==
  LET q_dim == c.head_dim * c.n_q
      kv_dim == c.head_dim * c.n_kv
      value_dim == c.state * c.n_v
      conv_dim == (2 * (c.state * c.n_k)) + value_dim
  IN  <<<<2 * q_dim, c.d>>, <<kv_dim, c.d>>, <<kv_dim, c.d>>, <<c.d, q_dim>>,
        <<conv_dim, c.d>>, <<value_dim, c.d>>, <<c.n_v, c.d>>, <<c.n_v, c.d>>, <<c.d, value_dim>>,
        <<c.f, c.d>>, <<c.f, c.d>>, <<c.d, c.f>>>>

(* The file's tensors have the shapes of its configuration, or transposed.  *)
reference_products(c, flipped) ==
  LET want == load_layer(c)
      n == Len(GemvSizes(c))
      file(i) == IF flipped THEN <<want[i][2], want[i][3]>> ELSE <<want[i][3], want[i][2]>>
      loads == [i \in 1 .. n |-> load_2d(want[i][1], file(i), want[i][2], want[i][3])]
      size == GemvSizes(c)
      experts == IF c.experts = 0 THEN [ok |-> TRUE, data |-> [e \in {} |-> 0]]
                 ELSE load_stacked_experts("exps", <<c.d, c.f, c.experts>>, c.experts, c.f, c.d)
  IN  IF ~experts.ok \/ \E i \in 1 .. n : ~loads[i].ok THEN [ok |-> FALSE]
      ELSE Kernel(TRUE,
             [i \in 1 .. n |-> Part(Applied(want[i][1], want[i][2], want[i][3], 0), gemv(loads[i].data, size[i][1], size[i][2]))]
               \o [e \in 1 .. c.experts |->
                    Part(Applied(<<"exps", e - 1>>, c.f, c.d, 0), gemv(experts.data[e - 1], c.f, c.d))],
             <<>>)

(* The norms' gains and the head's biases are vectors of the right length.  *)
reference_vectors(c, shape) ==
  LET v == load_1d("norm", shape, c.d)
  IN  IF ~v.ok THEN [ok |-> FALSE]
      ELSE Simple(TRUE, {<<i, <<i, <<"norm", i, 0>>>>>> : i \in Upto(c.d)},
                  {<<i, <<i, v.data[i]>>, 0, 0>> : i \in Upto(c.d)})

(* The first rope_dim dimensions of each head, in two halves.               *)
rope_inplace(heads, head_dim, rope_dim) ==
  LET half == rope_dim \div 2
      at == Upto(heads) \X Upto(half)
      want(p) == {<<(p[1] * head_dim) + p[2], <<"c-s", (p[1] * head_dim) + p[2], (p[1] * head_dim) + p[2] + half, p[2]>>>>,
                  <<(p[1] * head_dim) + half + p[2], <<"s+c", (p[1] * head_dim) + p[2], (p[1] * head_dim) + half + p[2], p[2]>>>>}
  IN  Simple(rope_dim <= head_dim, UNION {want(p) : p \in at},
             UNION {LET off == p[1] * head_dim
                    IN  Rotate(off + p[2], off + p[2] + half, p[2], p) : p \in at})

(* Attention over the cache [position, kv head, dim]: position p of kv head *)
(* g starts at p * kv_dim + g * head_dim; a step stores its own row first.  *)
reference_attention(c, position) ==
  LET kv_dim == c.head_dim * c.n_kv
      at == Upto(c.n_q) \X Upto(position + 1) \X Upto(c.head_dim)
      Cache(p, g, i) == IF p = position THEN <<"new", (g * c.head_dim) + i>> ELSE <<"cache", p, g, i>>
      Ref(x) == Cache(x[2], KvHead(c.n_q, c.n_kv, x[1]), x[3])
      held == [x \in Upto((position + 1) * kv_dim) |->
                LET p == x \div kv_dim
                    r == x % kv_dim
                IN  IF p = position THEN <<"new", r>> ELSE <<"cache", p, r \div c.head_dim, r % c.head_dim>>]
      Got(x) == held[(x[2] * kv_dim) + ((x[1] \div (c.n_q \div c.n_kv)) * c.head_dim) + x[3]]
  IN  Kernel(c.n_q % c.n_kv = 0,
        <<Part({<<<<x[1], x[2]>>, <<(x[1] * c.head_dim) + x[3], Ref(x)>>>> : x \in at},
               {<<<<x[1], x[2]>>, <<(x[1] * c.head_dim) + x[3], Got(x)>>, 0, x[3]>> : x \in at}),
          Part({<<(x[1] * c.head_dim) + x[3], <<x[2], Ref(x)>>>> : x \in at},
               {<<(x[1] * c.head_dim) + x[3], <<x[2], Got(x)>>, 0, x[2]>> : x \in at}),
          \* Q and its gate alternate in the joint projection
          Part({<<<<"q", (h * c.head_dim) + i>>, (2 * h * c.head_dim) + i>> : h \in Upto(c.n_q), i \in Upto(c.head_dim)}
                 \cup {<<<<"gate", (h * c.head_dim) + i>>, (((2 * h) + 1) * c.head_dim) + i>> : h \in Upto(c.n_q), i \in Upto(c.head_dim)},
               UNION {LET src == h * 2 * c.head_dim
                          dst == h * c.head_dim
                      IN  {<<<<"q", dst + i>>, src + i, h, 0>> : i \in Upto(c.head_dim)}
                            \cup {<<<<"gate", dst + i>>, src + c.head_dim + i, h, 0>> : i \in Upto(c.head_dim)}
                      : h \in Upto(c.n_q)})>>, <<>>)

(* The history of the last kernel - 1 inputs after n of them: each step     *)
(* convolves, shifts left by one and stores its own input last.             *)
ConvHistory(c, dim, n) ==
  LET at[s \in 0 .. n] ==
        IF s = 0 THEN [x \in Upto((c.kernel - 1) * dim) |-> <<"zero", 0>>]
        ELSE [x \in Upto((c.kernel - 1) * dim) |->
               IF x \div dim = c.kernel - 2 THEN <<s, x % dim>> ELSE at[s - 1][x + dim]]
  IN  at[n]
reference_conv(c, n) ==
  LET dim == (2 * c.state * c.n_k) + (c.state * c.n_v)
      seen == ConvHistory(c, dim, n - 1)
      Input(t, ch) == IF t < 1 THEN <<"zero", 0>> ELSE <<t, ch>>
  IN  Simple(c.kernel >= 1,
             {<<ch, <<(t * dim) + ch, Input(n - c.kernel + 1 + t, ch)>>>> : ch \in Upto(dim), t \in Upto(c.kernel)},
             {<<ch, <<(t * dim) + ch, seen[(t * dim) + ch]>>, 0, t>> : ch \in Upto(dim), t \in Upto(c.kernel - 1)}
               \cup {<<ch, <<((c.kernel - 1) * dim) + ch, <<n, ch>>>>, 0, c.kernel - 1>> : ch \in Upto(dim)})

(* The recurrence: state (h, r, c) meets v (h, r), and k, q (group of h, c).*)
reference_delta(c) ==
  LET hd == c.state
      rep == c.n_v \div c.n_k
      \* q_v, k_v: key heads repeated for the value heads
      wide == [x \in Upto(c.n_v * hd) |-> IF rep = 1 THEN x ELSE (((x \div hd) \div rep) * hd) + (x % hd)]
      at == Upto(c.n_v) \X Upto(hd) \X Upto(hd)
      key(h, i) == (KvHead(c.n_v, c.n_k, h) * hd) + i
  IN  IF c.n_v % c.n_k # 0 THEN [ok |-> FALSE]
      ELSE Kernel(TRUE,
             <<Part({<<<<x[1], x[2], x[3]>>, <<(x[1] * hd) + x[2], key(x[1], x[3])>>>> : x \in at},
                    {<<<<x[1], x[2], x[3]>>, <<(x[1] * hd) + x[2], wide[(x[1] * hd) + x[3]]>>, 0, 0>> : x \in at}),
               Part({<<(x[1] * hd) + x[2], <<(((x[1] * hd) + x[2]) * hd) + x[3], key(x[1], x[3])>>>> : x \in at},
                    {<<(x[1] * hd) + x[2],
                       <<(x[1] * hd * hd) + (x[2] * hd) + x[3], wide[(x[1] * hd) + x[3]]>>, 0, x[3]>> : x \in at})>>, <<>>)

(* ------------------------------- drawing -------------------------------- *)

(* Logits are whole numbers, a penalty halves or doubles, exp is 2^x: what  *)
(* matters is the order of the weights and how u is compared with them.     *)
Weight(x, least) == IF x = NegInf THEN 0 ELSE 2^(x - least)
Lowest(x) == CHOOSE m \in {x[i] : i \in DOMAIN x} \ {NegInf} : \A i \in DOMAIN x : x[i] # NegInf => m <= x[i]

Penalised(x, recent) ==
  LET at[n \in 0 .. Len(recent)] ==
        IF n = 0 THEN x
        ELSE IF recent[n] \notin DOMAIN x THEN at[n - 1]
        ELSE [at[n - 1] EXCEPT ![recent[n]] = IF @ > 0 THEN @ \div 2 ELSE 2 * @]
  IN  at[Len(recent)]
Tempered(x, inv_t) == [i \in DOMAIN x |-> x[i] * inv_t]
TopKFiltered(x, k) ==
  LET Above(v) == Cardinality({i \in DOMAIN x : x[i] > v})
      kth == CHOOSE v \in {x[i] : i \in DOMAIN x} : Above(v) < k /\ Above(v) + Cardinality({i \in DOMAIN x : x[i] = v}) >= k
  IN  IF k = 0 \/ k >= Cardinality(DOMAIN x) THEN x
      ELSE [i \in DOMAIN x |-> IF x[i] < kth THEN NegInf ELSE x[i]]

Mass(w, S) ==
  LET n == Cardinality(DOMAIN w)
      at[i \in 0 .. n] == IF i = 0 THEN 0 ELSE at[i - 1] + (IF i - 1 \in S THEN w[i - 1] ELSE 0)
  IN  at[n]

(* Sorted by weight, ties in either order: the shortest prefix with at      *)
(* least p of the mass.                                                     *)
Nuclei(w, p) ==
  {S \in SUBSET DOMAIN w :
     /\ \A i \in S, j \in DOMAIN w \ S : w[i] >= w[j]
     /\ Mass(w, S) * p[2] >= p[1] * Mass(w, DOMAIN w)
     /\ \E i \in S : Mass(w, S \ {i}) * p[2] < p[1] * Mass(w, DOMAIN w) /\ \A j \in S : w[i] <= w[j]}
NoNucleus == <<1, 1>>

(* The first i whose running sum exceeds u.                                 *)
InverseCdf(w, u) ==
  CHOOSE i \in DOMAIN w : u < Mass(w, 0 .. i) /\ (i > 0 => u >= Mass(w, 0 .. i - 1))

argmax_of(x) ==
  LET n == Cardinality(DOMAIN x)
      best[i \in 0 .. n] ==
        IF i = 0 THEN <<0, NegInf>> ELSE IF x[i - 1] > best[i - 1][2] THEN <<i - 1, x[i - 1]>> ELSE best[i - 1]
  IN  best[n][1]

Greedy(c) == c.inv_t = 0 /\ c.penalty = 1 /\ c.top_k = 0 /\ c.top_p = NoNucleus
Filtered(c) ==
  LET x == TopKFiltered(Tempered(IF c.penalty > 1 THEN Penalised(c.logits, c.recent) ELSE c.logits, c.inv_t), c.top_k)
  IN  [i \in DOMAIN x |-> Weight(x[i], Lowest(x))]

(* Every u of a uniform grid: a token is drawn for as many as it has        *)
(* weight, and no token outside the filters is.  Temperature 0 together     *)
(* with a filter divides by zero in the code and is not asked for.          *)
sample_next(c, kept) ==
  LET w == Filtered(c)
      v == [i \in DOMAIN w |-> IF i \in kept THEN w[i] ELSE 0]
      total == Mass(v, DOMAIN v)
      Best == CHOOSE i \in DOMAIN c.logits : \A j \in DOMAIN c.logits : c.logits[j] < c.logits[i] \/ (c.logits[j] = c.logits[i] /\ i <= j)
  IN  IF Greedy(c)
      THEN Simple(TRUE, {<<"token", Best>>}, {<<"token", argmax_of(c.logits), 0, 0>>})
      ELSE Simple(c.inv_t > 0,
             UNION {{i} \X Upto(v[i]) : i \in kept},
             {<<InverseCdf(v, u), u - Mass(v, 0 .. InverseCdf(v, u) - 1), 0, u>> : u \in Upto(total)})

Kept(c) ==
  LET w == Filtered(c)
  IN  IF c.top_p = NoNucleus THEN {DOMAIN w} ELSE Nuclei(w, c.top_p)

LlmHostNext ==
  /\ job = NoJob
  /\ \/ \E s \in LlamaShapes :
          \/ Launch("from_hf", s, llama_products(from_hf(s[1], s[2], s[3], s[4], TRUE), s[1], s[2], s[3], s[4], TRUE))
          \/ \E tied \in BOOLEAN :
               Launch("from_gguf", <<s, tied>>,
                      llama_products(from_gguf(s[1], s[2], s[3], s[4], tied), s[1], s[2], s[3], s[4], tied))
     \/ \E s \in HostRows :
          \/ Launch("rms_norm_per_head", s, rms_norm_per_head(s[1], s[2]))
          \/ Launch("rope_inplace", s, rope_inplace(s[1], s[2], s[3]))
     \/ \E c \in HybridShapes :
          \/ \E flipped \in BOOLEAN : Launch("reference_products", <<c, flipped>>, reference_products(c, flipped))
          \/ \E shape \in {<<c.d>>, <<c.d, 1>>, <<c.d, 2>>} : Launch("reference_vectors", <<c, shape>>, reference_vectors(c, shape))
          \/ \E p \in Upto(3) : Launch("reference_attention", <<c, p>>, reference_attention(c, p))
          \/ \E n \in 1 .. 5 : Launch("reference_conv", <<c, n>>, reference_conv(c, n))
          \/ Launch("reference_delta", c, reference_delta(c))
     \/ \E c \in DrawCases : \E kept \in (IF Greedy(c) THEN {{}} ELSE Kept(c)) :
          Launch("sample_next", <<c, kept>>, sample_next(c, kept))
=============================================================================
