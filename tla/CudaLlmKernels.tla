--------------------------- MODULE CudaLlmKernels ---------------------------
(***************************************************************************)
(* The CUDA kernels of LLM decoding (rustorch-cuda/src/llm_kernels.rs)     *)
(* with the functions that launch them, in the form of GpuLaunch.  Most    *)
(* of them write over their input.                                         *)
(***************************************************************************)
EXTENDS WgpuKernels

CONSTANTS
  CudaNorms,  \* <<batch, n>>
  CudaHeads,  \* <<n_heads, head_dim, pos, max_seq>>
  CudaTexts,  \* <<ids, hidden>>, the token ids of a sequence
  CudaAttns,  \* <<n_heads, n_kv, head_dim, kv_len, max_seq>>
  Fp4Inputs   \* sequences of values to quantise

(* A launch configuration of rows times blocks of width threads, and the    *)
(* threads <<row, i>> of it that pass the guard i < n.                      *)
Grid(rows, n, width) == [rows |-> rows, blocks |-> CeilDiv(n, width), width |-> width]
Threads(grid, n) == {t \in Upto(grid.rows) \X Upto(grid.blocks * grid.width) : t[2] < n}
AtMost(bound, n) == IF n < bound THEN n ELSE bound

(* A block a row.  The reduction ends with a barrier after which every      *)
(* thread reads sdata[0]; each then rewrites its own elements of x.         *)
RMS_NORM_BF16_SRC(batch, n) == rmsnorm_wgsl(batch, n)
rms_norm_bf16(batch, n) == LaunchRows(TRUE, RMS_NORM_BF16_SRC(batch, n))

(* One operand, or two, an element.                                         *)
SILU_BF16_SRC(grid, n) == {<<t[2], t[2], t, 0>> : t \in Threads(grid, n)}
silu_bf16(n) == Simple(TRUE, {<<i, i>> : i \in Upto(n)}, SILU_BF16_SRC(Grid(1, n, 256), n))

COPY_BF16_SRC(grid, n) == SILU_BF16_SRC(grid, n)
copy_bf16(n) == Simple(TRUE, {<<i, i>> : i \in Upto(n)}, COPY_BF16_SRC(Grid(1, n, 256), n))

(* gate and up are the halves of one fused product.                         *)
SWIGLU_BF16_SRC(grid, n) == {<<t[2], <<t[2], t[2]>>, t, 0>> : t \in Threads(grid, n)}
swiglu_bf16(n) == Simple(TRUE, {<<i, <<i, i>>>> : i \in Upto(n)}, SWIGLU_BF16_SRC(Grid(1, n, 256), n))

ADD_INPLACE_BF16_SRC(grid, n) == SWIGLU_BF16_SRC(grid, n)
add_inplace_bf16(n) == Simple(TRUE, {<<i, <<i, i>>>> : i \in Upto(n)}, ADD_INPLACE_BF16_SRC(Grid(1, n, 256), n))

(* Neighbours 2p and 2p + 1 of a head turn by the angle of p.               *)
ROPE_HALF_SPLIT_BF16_SRC(grid, head_dim, pos) ==
  UNION {LET base == t[1] * head_dim + 2 * t[2]
         IN  {<<base, <<base, base + 1, t[2], pos>>, t, 0>>, <<base + 1, <<base + 1, base, t[2], pos>>, t, 0>>}
           : t \in Threads(grid, head_dim \div 2)}
rope_half_split_bf16(n_heads, head_dim, pos) ==
  LET half == head_dim \div 2
      Mate(i) == IF i % 2 = 0 THEN i + 1 ELSE i - 1
  IN  Simple(half > 0,
             {<<h * head_dim + i, <<h * head_dim + i, h * head_dim + Mate(i), i \div 2, pos>>>>
                : h \in Upto(n_heads), i \in Upto(2 * half)},
             ROPE_HALF_SPLIT_BF16_SRC(Grid(n_heads, half, AtMost(64, half)), head_dim, pos))

EMBEDDING_LOOKUP_BF16_SRC(grid, ids, hidden) ==
  {<<t[1] * hidden + t[2], ids[t[1] + 1] * hidden + t[2], t, 0>> : t \in Threads(grid, hidden)}
embedding_lookup_bf16(ids, hidden) ==
  Simple(TRUE,
         {<<s * hidden + i, ids[s + 1] * hidden + i>> : s \in Upto(Len(ids)), i \in Upto(hidden)},
         EMBEDDING_LOOKUP_BF16_SRC(Grid(Len(ids), hidden, 256), ids, hidden))

(* A thread replaces its best only by a strictly larger value, so equal     *)
(* values of two threads are decided by the shape of the tree and not by    *)
(* their position: asked is some position of the largest value.             *)
ARGMAX_BF16_SRC(width, depth, vals) ==
  LET init == [v |-> -100, i |-> 0]
      Own(lid) ==
        LET mine == From(lid, width, Cardinality(DOMAIN vals))
            best == {i \in mine : vals[i] > init.v /\ \A j \in mine : vals[j] < vals[i] \/ (vals[j] = vals[i] /\ i <= j)}
        IN  IF best = {} THEN init ELSE LET i == CHOOSE j \in best : TRUE IN [v |-> vals[i], i |-> i]
      held[level \in 0 .. depth] ==
        IF level = 0 THEN [lid \in Upto(width) |-> Own(lid)]
        ELSE LET s == width \div 2^level
                 prev == held[level - 1]
             IN  [lid \in Upto(s) |-> IF prev[lid + s].v > prev[lid].v THEN prev[lid + s] ELSE prev[lid]]
  IN  held[depth][0].i
argmax_bf16(vals) ==
  LET got == ARGMAX_BF16_SRC(256, 8, vals)
      top == {i \in DOMAIN vals : \A j \in DOMAIN vals : vals[j] <= vals[i]}
      asked == IF got \in top THEN got ELSE CHOOSE i \in top : TRUE
  IN  Kernel(TRUE, <<Part({<<0, asked>>}, {<<0, got, 0, 0>>})>>, <<TreeArray(256, 8), TreeArray(256, 8)>>)

(* Row pos of every KV head of a cache of max_seq rows a head, if it has    *)
(* such a row: a position past the end is not refused.                      *)
KV_APPEND_BF16_SRC(grid, head_dim, pos, max_seq) ==
  {<<t[1] * max_seq * head_dim + pos * head_dim + t[2], t[1] * head_dim + t[2], t, 0>> : t \in Threads(grid, head_dim)}
kv_append_bf16(n_kv, head_dim, pos, max_seq) ==
  LET rows == {row \in Upto(n_kv) \X Upto(max_seq) : row[2] = pos}
      cache == Part({<<(row[1] * max_seq + pos) * head_dim + i, row[1] * head_dim + i>> : row \in rows, i \in Upto(head_dim)},
                    KV_APPEND_BF16_SRC(Grid(n_kv, head_dim, AtMost(64, head_dim)), head_dim, pos, max_seq))
  IN  Kernel(TRUE, <<cache, cache>>, <<>>)  \* k and v

(* ------------------------------- attention ------------------------------ *)

(* The tree over a block of head_dim threads: s = head_dim / 2, s / 2, ...  *)
(* with the guard tid + s < head_dim.                                       *)
Halvings(dim) == CHOOSE d \in 0 .. 12 : 2^d <= dim /\ dim < 2^(d + 1)
HalvingRoutes(dim) ==
  LET depth == Halvings(dim)
      held[level \in 0 .. depth] ==
        IF level = 0 THEN [tid \in Upto(dim) |-> {<<tid>>}]
        ELSE LET s == dim \div 2^level
                 prev == held[level - 1]
             IN  [tid \in Upto(dim) |->
                   IF tid < s /\ tid + s < dim THEN prev[tid] \cup {Append(r, tid) : r \in prev[tid + s]}
                                               ELSE prev[tid]]
  IN  held[depth][0]

(* One pass over the cache, a thread a column: the score of row t is the    *)
(* tree's sum of the threads' products, then every thread adds its column   *)
(* of v[t].  A barrier on each side of the read of sdata[0].  An odd s      *)
(* leaves its last slot out of the rest of the tree.                        *)
GQA_DECODE_ONLINE_BF16_SRC(n_heads, n_kv, head_dim, kv_len, max_seq) ==
  LET Row(h, t) == (((h * n_kv) \div n_heads) * max_seq + t) * head_dim
      rows == Upto(n_heads) \X Upto(kv_len)
      depth == Halvings(head_dim)
      tree == TreeArray(head_dim, depth)
      rounds == {0, 3 + depth}  \* the phases at which two rows of the cache start
  IN  [scores |-> {<<r, <<r[1] * head_dim + p[1], Row(r[1], r[2]) + p[1]>>, 0, p>> : r \in rows, p \in HalvingRoutes(head_dim)},
       out |-> {<<r[1] * head_dim + tid, <<r[2], Row(r[1], r[2]) + tid>>, tid, r[2]>> : r \in rows, tid \in Upto(head_dim)},
       sdata |-> Array({<<at, tid, tid>> : at \in rounds, tid \in Upto(head_dim)}
                         \cup {<<at + w[1], w[2], w[3]>> : at \in rounds, w \in tree.writes},
                       {<<at + r[1], r[2], r[3]>> : at \in rounds, r \in tree.reads}
                         \cup {<<at + depth + 1, 0, tid>> : at \in rounds, tid \in Upto(head_dim)})]

(* The products and the weighted rows of grouped-query attention: n_heads   *)
(* heads share n_kv heads of the cache, n_heads / n_kv to each.             *)
AskedScores(n_heads, n_kv, head_dim, kv_len, max_seq) ==
  {<<<<h, t>>, <<h * head_dim + i, ((h \div (n_heads \div n_kv)) * max_seq + t) * head_dim + i>>>>
     : h \in Upto(n_heads), t \in Upto(kv_len), i \in Upto(head_dim)}
AskedOut(n_heads, n_kv, head_dim, kv_len, max_seq) ==
  {<<h * head_dim + i, <<t, ((h \div (n_heads \div n_kv)) * max_seq + t) * head_dim + i>>>>
     : h \in Upto(n_heads), t \in Upto(kv_len), i \in Upto(head_dim)}

gqa_decode_online_bf16(n_heads, n_kv, head_dim, kv_len, max_seq) ==
  LET k == GQA_DECODE_ONLINE_BF16_SRC(n_heads, n_kv, head_dim, kv_len, max_seq)
  IN  Kernel(TRUE, <<Part(AskedScores(n_heads, n_kv, head_dim, kv_len, max_seq), k.scores),
                     Part(AskedOut(n_heads, n_kv, head_dim, kv_len, max_seq), k.out)>>, <<k.sdata>>)

(* Three passes through an array of kv_len scores: products, exponentials,  *)
(* columns of the weighted sum.                                             *)
GQA_DECODE_NAIVE_BF16_SRC(width, n_heads, n_kv, head_dim, kv_len, max_seq) ==
  LET Row(h, t) == (((h * n_kv) \div n_heads) * max_seq + t) * head_dim
      mine == Strided(width, kv_len)
  IN  [scores |-> {<<<<h, p[2]>>, <<h * head_dim + i, Row(h, p[2]) + i>>, p[1], i>>
                     : h \in Upto(n_heads), p \in mine, i \in Upto(head_dim)},
       out |-> {<<h * head_dim + p[2], <<t, Row(h, t) + p[2]>>, p[1], t>>
                  : h \in Upto(n_heads), p \in Strided(width, head_dim), t \in Upto(kv_len)},
       sdata |-> Array({<<ph, p[2], p[1]>> : ph \in {0, 2}, p \in mine},
                       {<<4, t, tid>> : t \in Upto(kv_len), tid \in Upto(width)})]
gqa_decode_naive_bf16(n_heads, n_kv, head_dim, kv_len, max_seq) ==
  LET k == GQA_DECODE_NAIVE_BF16_SRC(AtMost(128, head_dim), n_heads, n_kv, head_dim, kv_len, max_seq)
  IN  Kernel(TRUE, <<Part(AskedScores(n_heads, n_kv, head_dim, kv_len, max_seq), k.scores),
                     Part(AskedOut(n_heads, n_kv, head_dim, kv_len, max_seq), k.out)>>, <<k.sdata>>)

(* -------------------------------- NVFP4 --------------------------------- *)

(* The codes 0..7 of E2M1 stand for these magnitudes, in halves.            *)
Fp4Magnitude == [code \in 0 .. 7 |-> <<0, 1, 2, 3, 4, 6, 8, 12>>[code + 1]]
Bounds == <<1, 3, 5, 7, 10, 14, 20>>  \* between two codes, in quarters

Abs(x) == IF x < 0 THEN -x ELSE x

(* encode(x / scale) with scale = top / 6.                                  *)
encode(x, top) ==
  (IF x < 0 THEN 8 ELSE 0) + Cardinality({i \in 1 .. 7 : 24 * Abs(x) >= Bounds[i] * top})

(* scale_byte of top / 6: the exponent re-biased by 7 and three bits of the *)
(* mantissa, cut off.  Bit 7 of the saturated byte is not part of UE4M3.    *)
scale_byte(top) ==
  LET fexp == CHOOSE e \in -12 .. 14 : 2^(e + 12) * 6 <= top * 2^12 /\ top * 2^12 < 2^(e + 13) * 6
      fmant == ((8 * top * 2^12) \div (6 * 2^(fexp + 12))) - 8
      ue_exp == fexp + 7
  IN  CASE ue_exp <= 0 -> fmant
        [] ue_exp >= 15 -> 128 + 8 * 14 + 7
        [] OTHER -> 8 * ue_exp + fmant

(* A block of 16 values a thread; byte i of the block holds the codes of    *)
(* values 2i and 2i + 1, a missing last value coded as zero.                *)
ValueAt(x, i) == IF i < Len(x) THEN x[i + 1] ELSE 0
BlockTop(x, b) ==
  LET all == {Abs(ValueAt(x, b * 16 + i)) : i \in Upto(16)}
      max_abs == CHOOSE v \in all : \A w \in all : w <= v
  IN  IF max_abs = 0 THEN 6 ELSE max_abs  \* scale 1 for a block of zeros
QUANTIZE_BF16_TO_NVFP4_SRC(n_blocks, x) ==
  LET blocks == {b \in Upto(n_blocks) : b * 16 < Len(x)}
      bytes == {<<b, i>> \in blocks \X Upto(8) : b * 16 + 2 * i < Len(x)}
  IN  {LET at == t[1] * 16 + 2 * t[2]
           byte == encode(ValueAt(x, at), BlockTop(x, t[1])) + 16 * encode(ValueAt(x, at + 1), BlockTop(x, t[1]))
       IN  <<<<"fp4", t[1] * 8 + t[2]>>, <<byte % 16, byte \div 16>>, t[1], t[2]>> : t \in bytes}
        \cup {<<<<"scale", b>>, scale_byte(BlockTop(x, b)) % 128, b, 0>> : b \in blocks}

(* Asked are the nearest code, the larger of two as near, and the largest   *)
(* UE4M3 number that is at most the scale.                                  *)
quantize_bf16_to_nvfp4(x) ==
  LET Nearest(v, top) ==
        LET Off(c) == Abs(12 * Abs(v) - Fp4Magnitude[c] * top)
        IN  (IF v < 0 THEN 8 ELSE 0)
            + CHOOSE k \in 0 .. 7 : \A j \in 0 .. 7 : Off(k) < Off(j) \/ (Off(k) = Off(j) /\ k >= j)
      Largest(top) ==
        LET fits == {u \in 8 .. 119 : 2^(u \div 8) * (8 + (u % 8)) * 6 <= top * 1024}
        IN  CHOOSE u \in fits : \A w \in fits : w <= u
  IN  Simple(TRUE,
             {<<<<"fp4", j>>, <<Nearest(ValueAt(x, 2 * j), BlockTop(x, j \div 8)), Nearest(ValueAt(x, 2 * j + 1), BlockTop(x, j \div 8))>>>>
                : j \in Upto(CeilDiv(Len(x), 2))}
               \cup {<<<<"scale", b>>, Largest(BlockTop(x, b))>> : b \in Upto(CeilDiv(Len(x), 16))},
             QUANTIZE_BF16_TO_NVFP4_SRC(CeilDiv(Len(x), 16), x))

CudaLlmNext ==
  /\ job = NoJob
  /\ \/ \E s \in CudaNorms : Launch("rms_norm_bf16", s, rms_norm_bf16(s[1], s[2]))
     \/ \E n \in Lengths :
          \/ Launch("silu_bf16", n, silu_bf16(n))
          \/ Launch("swiglu_bf16", n, swiglu_bf16(n))
          \/ Launch("add_inplace_bf16", n, add_inplace_bf16(n))
          \/ Launch("copy_bf16", n, copy_bf16(n))
     \/ \E s \in CudaHeads :
          \/ Launch("rope_half_split_bf16", s, rope_half_split_bf16(s[1], s[2], s[3]))
          \/ Launch("kv_append_bf16", s, kv_append_bf16(s[1], s[2], s[3], s[4]))
     \/ \E s \in CudaTexts : Launch("embedding_lookup_bf16", s, embedding_lookup_bf16(s[1], s[2]))
     \/ \E vals \in ArgRows : Launch("argmax_bf16", vals, argmax_bf16(vals))
     \/ \E s \in CudaAttns :
          \/ Launch("gqa_decode_online_bf16", s, gqa_decode_online_bf16(s[1], s[2], s[3], s[4], s[5]))
          \/ Launch("gqa_decode_naive_bf16", s, gqa_decode_naive_bf16(s[1], s[2], s[3], s[4], s[5]))
     \/ \E x \in Fp4Inputs : Launch("quantize_bf16_to_nvfp4", x, quantize_bf16_to_nvfp4(x))
=============================================================================
