--------------------------- MODULE DecodeKernels ---------------------------
(***************************************************************************)
(* The kernels of a transformer block around its matrix products           *)
(* (kernels.rs): RMS norm, rotary embedding, SwiGLU, the append to the KV  *)
(* cache and the attention of new tokens over the cache.                   *)
(***************************************************************************)
EXTENDS GpuLaunch

CONSTANTS
  NormShapes,   \* <<vectors, length>>
  HeadShapes,   \* <<n_heads, head_dim, rope_dim, position, B>>
  CacheShapes,  \* <<n_kv, head_dim, position, max_seq, B>>
  AttnShapes,   \* <<n_heads, n_kv, head_dim, kv_len, max_seq>>
  BatchAttnShapes \* the same, with the position of the first token for kv_len, and B

(* float4 loops with a scalar tail, `threads` of them: <<thread, i>>.       *)
Vectorised(threads, n) ==
  {<<p[1], 4 * p[2] + c>> : p \in Strided(threads, n \div 4), c \in Upto(4)}
    \cup {<<p[1], 4 * (n \div 4) + p[2]>> : p \in Strided(threads, n % 4)}

(* ------------------------------- RMS norm ------------------------------- *)

(* One simdgroup a vector: the sum of squares, then the scaled elements.    *)
Norm(vectors, d, lanes) ==
  Kernel(TRUE,
    <<Part({<<v, v * d + i>> : v \in Upto(vectors), i \in Upto(d)},
           {<<v, v * d + p[2], v, p>> : v \in Upto(vectors), p \in lanes}),
      Part({<<v * d + i, <<v * d + i, i>>>> : v \in Upto(vectors), i \in Upto(d)},
           {<<v * d + p[2], <<v * d + p[2], p[2]>>, <<v, p[1]>>, 0>> : v \in Upto(vectors), p \in lanes})>>,
    <<>>)

rms_norm_f32(d) == Norm(1, d, Vectorised(32, d))
rms_norm_batched_f32(B, d) == Norm(B, d, Vectorised(32, d))
rms_norm_per_head_f32(n_heads, head_dim) == Norm(n_heads, head_dim, Strided(32, head_dim))

(* A flat threadgroup number holds the head and the token.                  *)
rms_norm_per_head_batched_f32(n_heads, B, head_dim) ==
  LET heads == {<<tg, (tg \div n_heads) * n_heads + (tg % n_heads)>> : tg \in Upto(n_heads * B)}
      lanes == Strided(32, head_dim)
  IN  Kernel(TRUE,
        <<Part({<<v, v * head_dim + i>> : v \in Upto(n_heads * B), i \in Upto(head_dim)},
               {<<h[2], h[2] * head_dim + p[2], h[1], p>> : h \in heads, p \in lanes})>>, <<>>)

(* --------------------------- rotary embedding --------------------------- *)

(* Elements k and k + half of a head turn by the angle (position, k).       *)
Rotated(row, half, position, k) ==
  {<<row + k, <<row + k, row + k + half, position * half + k>>>>,
   <<row + k + half, <<row + k + half, row + k, position * half + k>>>>}
Rotation(rows, head_dim, half, Position(_)) ==
  UNION {Rotated(r * head_dim, half, Position(r), k) : r \in rows, k \in Upto(half)}
Turns(turns) ==  \* turns: <<i0, i1, tab_off, by>>
  UNION {{<<t[1], <<t[1], t[2], t[3]>>, t[4], 0>>, <<t[2], <<t[2], t[1], t[3]>>, t[4], 0>>} : t \in turns}

rope_half_split_f32(n_heads, head_dim, rope_dim, position) ==
  LET half == rope_dim \div 2
      At(r) == position
  IN  Simple(rope_dim \in 1 .. head_dim /\ rope_dim % 2 = 0,
             Rotation(Upto(n_heads), head_dim, half, At),
             Turns({LET h == g \div half  k == g % half
                    IN  <<h * head_dim + k, h * head_dim + k + half, position * half + k, g>>
                      : g \in GuardedGrid(n_heads * half, 64)}))

(* Token b of the batch is at position + b.                                 *)
rope_half_split_partial_batched_f32(n_heads, head_dim, rope_dim, position, B) ==
  LET half == rope_dim \div 2
      At(r) == position + (r \div n_heads)
  IN  Simple(rope_dim \in 1 .. head_dim /\ rope_dim % 2 = 0 /\ B > 0,
             Rotation(Upto(n_heads * B), head_dim, half, At),
             Turns({LET b == g[2]  h == g[1] \div half  k == g[1] % half
                        i0 == b * (n_heads * head_dim) + h * head_dim + k
                    IN  <<i0, i0 + half, (position + b) * half + k, g>>
                      : g \in Upto(n_heads * half) \X Upto(B)}))

rope_half_split_batched_f32(n_heads, head_dim, position, B) ==
  rope_half_split_partial_batched_f32(n_heads, head_dim, head_dim, position, B)

(* The norm of a head, a barrier, the rotation by the same simdgroup.       *)
rms_norm_per_head_then_rope_f32(n_heads, head_dim, position) ==
  LET half == head_dim \div 2
      At(r) == position
      turns == {LET i0 == s[1] * head_dim + s[2][2] IN <<i0, i0 + half, position * half + s[2][2], s>>
                  : s \in Upto(n_heads) \X Strided(32, half)}
  IN  Kernel(TRUE,
        rms_norm_per_head_f32(n_heads, head_dim).parts
          \o <<Part(Rotation(Upto(n_heads), head_dim, half, At), Turns(turns))>>,
        <<Array({<<0, p[2], p[1]>> : p \in Strided(32, head_dim)},
                {<<1, t[i], t[4][2][1]>> : t \in {u \in turns : u[4][1] = 0}, i \in {1, 2}})>>)

(* ------------------------- element-wise kernels ------------------------- *)

swiglu_f32(f) ==
  Simple(TRUE, {<<i, i>> : i \in Upto(f)}, {<<g, g, g, 0>> : g \in GuardedGrid(f, 256)})
swiglu_batched_f32(B, f) == swiglu_f32(f * B)

(* A thread a float4, and a thread for each element of the tail.            *)
Quads(n) ==
  {<<g, 4 * g + c>> : g \in Upto(n \div 4), c \in Upto(4)}
    \cup {p \in {<<g, 4 * (n \div 4) + (g - (n \div 4))>> : g \in (n \div 4) .. (n \div 4) + (n % 4) - 1} : p[2] < n}
add_inplace_f32(d) ==
  Simple(TRUE, {<<i, i>> : i \in Upto(d)}, {<<p[2], p[2], p[1], 0>> : p \in Quads(d)})
(* y starts y_offset floats into its buffer, aligned to 16 bytes.           *)
add_inplace_batched_f32_with_y_offset(d, B, y_offset) ==
  Simple((y_offset * 4) % 16 = 0, {<<i, y_offset + i>> : i \in Upto(d * B)},
         {<<p[2], y_offset + p[2], p[1], 0>> : p \in Quads(d * B)})
add_inplace_batched_f32(d, B) == add_inplace_batched_f32_with_y_offset(d, B, 0)

(* ----------------------------- the KV cache ----------------------------- *)

(* Row `position` of every head of a cache of max_seq rows a head; that the *)
(* cache has such a row is not checked.                                     *)
Slot(kvh, position, dd, head_dim, max_seq) == kvh * max_seq * head_dim + position * head_dim + dd
CacheRows(n_kv, head_dim, position, max_seq, B) ==
  {<<(kvh * max_seq + position + b) * head_dim + dd, (b * n_kv + kvh) * head_dim + dd>>
     : b \in {x \in Upto(B) : position + x < max_seq}, kvh \in Upto(n_kv), dd \in Upto(head_dim)}

(* A float4 is stored at the place of its first element, which is right     *)
(* when a head is a multiple of four.                                       *)
kv_append_f32(n_kv, head_dim, position, max_seq) ==
  LET total == n_kv * head_dim
      First(p) == IF p[1] < total \div 4 THEN 4 * p[1] ELSE p[2]
  IN  Simple(TRUE, CacheRows(n_kv, head_dim, position, max_seq, 1),
             {<<Slot(First(p) \div head_dim, position, First(p) % head_dim, head_dim, max_seq) + p[2] - First(p),
                p[2], p[1], 0>> : p \in Quads(total)})

kv_append_batched_f32(n_kv, head_dim, pos_base, max_seq, B) ==
  LET per_token == n_kv * head_dim
  IN  Simple(TRUE, CacheRows(n_kv, head_dim, pos_base, max_seq, B),
             {LET flat == g % per_token
              IN  <<Slot(flat \div head_dim, pos_base + (g \div per_token), flat % head_dim, head_dim, max_seq), g, g, 0>>
                : g \in GuardedGrid(B * per_token, 64)})

(* K and V in one grid: the second half of the threads store V.             *)
kv_append_kv_f32(n_kv, head_dim, position, max_seq) ==
  LET total == n_kv * head_dim
      Half(of) ==
        Part(CacheRows(n_kv, head_dim, position, max_seq, 1),
             {LET flat == IF g >= total THEN g - total ELSE g
              IN  <<Slot(flat \div head_dim, position, flat % head_dim, head_dim, max_seq), flat, g, 0>>
                : g \in {h \in GuardedGrid(2 * total, 64) : (h >= total) = (of = "v")}})
  IN  Kernel(TRUE, <<Half("k"), Half("v")>>, <<>>)

(* ------------------------------- attention ------------------------------ *)

(* A query: where it starts in q and in the output, its KV head, and how    *)
(* many rows of the cache it sees.                                          *)
Query(at, kv_head, len) == [at |-> at, kv |-> kv_head, len |-> len]
Queries(n_heads, n_kv, head_dim, kv_len) ==
  {Query(h * head_dim, h \div (n_heads \div n_kv), kv_len) : h \in Upto(n_heads)}

(* The rows of a query in `chunks` threadgroups of `threads` threads:       *)
(* thread t of chunk c takes row start + t, start + t + threads, ...        *)
Chunk(q, chunks) == CeilDiv(q.len, chunks)
LastSpot(q, chunks, c) == IF (c + 1) * Chunk(q, chunks) < q.len THEN (c + 1) * Chunk(q, chunks) ELSE q.len
Spots(queries, chunks, threads) ==
  LET most == CHOOSE n \in {Chunk(q, chunks) : q \in queries} : \A q \in queries : Chunk(q, chunks) <= n
      all == {<<q, c, p[1], c * Chunk(q, chunks) + p[2]>> : q \in queries, c \in Upto(chunks), p \in Strided(threads, most)}
  IN  {s \in all : s[4] < LastSpot(s[1], chunks, s[2])}

(* Scores q . k, the softmax over a chunk, and the sum of v weighted by it. *)
Attend(queries, head_dim, max_seq, chunks, spots, columns) ==
  LET Row(q, p) == (q.kv * max_seq + p) * head_dim
      ChunkOf(q, p) == p \div Chunk(q, chunks)
      seen == {<<q, p>> \in queries \X Upto(max_seq) : p < q.len}
  IN  <<Part({<<s, <<s[1].at + d, Row(s[1], s[2]) + d>>>> : s \in seen, d \in Upto(head_dim)},
             {<<<<s[1], s[4]>>, <<s[1].at + d, s[1].kv * max_seq * head_dim + s[4] * head_dim + d>>, <<s[2], s[3]>>, d>>
                : s \in spots, d \in Upto(head_dim)}),
        Part({<<<<s[1], ChunkOf(s[1], s[2])>>, s[2]>> : s \in seen},
             {<<<<s[1], s[2]>>, s[4], 0, s[3]>> : s \in spots}),
        Part({<<<<s[1].at + d, ChunkOf(s[1], s[2])>>, <<s[2], Row(s[1], s[2]) + d>>>> : s \in seen, d \in Upto(head_dim)},
             {<<<<s[1].at + c[2], s[2]>>, <<s[4], s[1].kv * max_seq * head_dim + s[4] * head_dim + c[2]>>, c[1], s[4]>>
                : s \in spots, c \in columns})>>

(* The scores of one threadgroup in threadgroup memory, and the maximum and *)
(* the sum of each simdgroup behind them.  own: the phases in which a       *)
(* thread goes over its own scores; the last phase reads all of them.       *)
Scores(size, nsg, own, last) ==
  LET mine == Strided(32 * nsg, size)
      leads == {<<g, 32 * g>> : g \in Upto(nsg)}
  IN  Array({<<ph, p[2], p[1]>> : ph \in own, p \in mine}
              \cup {<<ph, size + (ph - 1) * nsg + l[1], l[2]>> : ph \in {1, 2}, l \in leads},
            {<<last, i, t>> : i \in Upto(size), t \in Upto(32 * nsg)}
              \cup {<<ph + 1, size + (ph - 1) * nsg + g, t>> : ph \in {1, 2}, g \in Upto(nsg), t \in Upto(32 * nsg)})

(* One simdgroup a head; barriers after the scores and after the softmax.   *)
gqa_decode_f32(n_heads, n_kv, head_dim, kv_len, max_seq) ==
  LET queries == Queries(n_heads, n_kv, head_dim, kv_len)
  IN  Kernel(TRUE,
        Attend(queries, head_dim, max_seq, 1, Spots(queries, 1, 32), Vectorised(32, head_dim)),
        <<Array({<<ph, p[2], p[1]>> : ph \in {0, 1}, p \in Strided(32, kv_len)},
                {<<2, i, t>> : i \in Upto(kv_len), t \in Lanes})>>)

(* Two simdgroups a head exchange their maxima and their sums.              *)
gqa_decode_f32_nsg2(n_heads, n_kv, head_dim, kv_len, max_seq) ==
  LET queries == Queries(n_heads, n_kv, head_dim, kv_len)
  IN  Kernel(TRUE,
        Attend(queries, head_dim, max_seq, 1, Spots(queries, 1, 64), Vectorised(64, head_dim)),
        <<Scores(kv_len, 2, {0, 2, 3}, 4)>>)

(* Token b of a batch sees the rows up to its own.                          *)
gqa_decode_batched_f32(n_heads, n_kv, head_dim, pos_base, max_seq, B) ==
  LET queries == {Query(b * (n_heads * head_dim) + h * head_dim, h \div (n_heads \div n_kv), pos_base + b + 1)
                    : h \in Upto(n_heads), b \in Upto(B)}
  IN  Kernel(TRUE,
        Attend(queries, head_dim, max_seq, 1, Spots(queries, 1, 32), Strided(32, head_dim)),
        <<Array({<<ph, p[2], p[1]>> : ph \in {0, 1}, p \in Strided(32, pos_base + B)},
                {<<2, i, t>> : i \in Upto(pos_base + B), t \in Lanes})>>)

(* Long caches in chunks: a threadgroup of nsg simdgroups a head and chunk, *)
(* then one that rescales and adds the partial outputs.  With one simdgroup *)
(* a chunk goes from its scores to the weighted sum, for which every lane   *)
(* reads all of them, without a barrier.  A single chunk is gqa_nsg2's.     *)
n_chunks(kv_len) == IF kv_len <= 1024 THEN 1 ELSE IF kv_len <= 2048 THEN 4 ELSE 8
SplitK(n_heads, n_kv, head_dim, kv_len, max_seq, nsg) ==
  LET queries == Queries(n_heads, n_kv, head_dim, kv_len)
      chunks == n_chunks(kv_len)
      partial == Attend(queries, head_dim, max_seq, chunks, Spots(queries, chunks, 32 * nsg), Vectorised(32 * nsg, head_dim))
      combined == Part({<<h * head_dim + d, <<h, c, d>>>> : h \in Upto(n_heads), c \in Upto(chunks), d \in Upto(head_dim)},
                       {<<h * head_dim + p[2], <<h, c, p[2]>>, p[1], c>>
                          : h \in Upto(n_heads), c \in Upto(chunks), p \in Strided(32, head_dim)})
      scales == Array({<<0, lane, lane>> : lane \in {l \in Lanes : l < chunks}} \cup {<<1, 8 + c, 0>> : c \in Upto(chunks)},
                      {<<1, c, 0>> : c \in Upto(chunks)} \cup {<<2, 8 + c, lane>> : c \in Upto(chunks), lane \in Lanes})
      size == Chunk(Query(0, 0, kv_len), chunks)
      lockstep == Array({<<0, p[2], p[1]>> : p \in Strided(32, size)}, {<<0, i, lane>> : i \in Upto(size), lane \in Lanes})
  IN  IF head_dim = 0 \/ head_dim % 4 # 0 THEN [ok |-> FALSE]
      ELSE IF chunks = 1 THEN gqa_decode_f32_nsg2(n_heads, n_kv, head_dim, kv_len, max_seq)
      ELSE Kernel(TRUE, Append(partial, combined),
                  <<scales, IF nsg = 1 THEN lockstep ELSE Scores(size, nsg, {0, 2}, 3)>>)

gqa_decode_f32_splitk(n_heads, n_kv, head_dim, kv_len, max_seq) == SplitK(n_heads, n_kv, head_dim, kv_len, max_seq, 1)
gqa_decode_f32_splitk_nsg2(n_heads, n_kv, head_dim, kv_len, max_seq) == SplitK(n_heads, n_kv, head_dim, kv_len, max_seq, 2)
gqa_decode_f32_splitk_nsg4(n_heads, n_kv, head_dim, kv_len, max_seq) == SplitK(n_heads, n_kv, head_dim, kv_len, max_seq, 4)

(* Keys of four bits with a scale and a zero for every 32, the softmax kept *)
(* running by two simdgroups that take every other row and are merged at    *)
(* the end; a lane holds hd / 32 columns.                                   *)
gqa_decode_kv4_f32(n_q, n_kv, hd, kv_len, max_seq) ==
  LET per == hd \div 32
      groups == hd \div 32
      queries == Queries(n_q, n_kv, hd, kv_len)
      rows == {<<q, p[1], p[2]>> : q \in queries, p \in Strided(2, kv_len)}
      columns == {<<lane, lane * per + e>> : lane \in Lanes, e \in Upto(per)}
      Key(q, p, d) == LET i == (q.kv * max_seq + p) * hd + d IN <<i \div 2, 4 * (i % 2), i \div 32>>
      Read(q, p, d) == <<q.kv * max_seq * (hd \div 2) + p * (hd \div 2) + (d \div 2), IF d % 2 = 1 THEN 4 ELSE 0,
                         q.kv * max_seq * groups + p * groups + (d \div 32)>>
  IN  Kernel(hd > 0 /\ hd % 32 = 0 /\ hd <= 512,
        <<Part({<<<<q, p>>, <<q.at + d, Key(q, p, d)>>>> : q \in queries, p \in Upto(kv_len), d \in Upto(hd)},
               {<<<<r[1], r[3]>>, <<r[1].at + c[2], Read(r[1], r[3], c[2])>>, r[2], c[1]>> : r \in rows, c \in columns}),
          Part({<<q.at + d, <<p % 2, p, (q.kv * max_seq + p) * hd + d>>>> : q \in queries, p \in Upto(kv_len), d \in Upto(hd)},
               {<<r[1].at + c[2], <<r[2], r[3], r[1].kv * max_seq * hd + r[3] * hd + c[2]>>, c[1], r[3]>>
                  : r \in rows, c \in columns})>>,
        <<Array({<<0, p[2], p[1]>> : p \in Strided(64, hd)}
                  \cup {<<1, hd + 2 * k + sg, 32 * sg>> : k \in Upto(2), sg \in Upto(2)}
                  \cup {<<1, hd + 4 + sg * hd + c[2], 32 * sg + c[1]>> : sg \in Upto(2), c \in columns},
                {<<1, c[2], 32 * sg + c[1]>> : sg \in Upto(2), c \in columns}
                  \cup {<<2, hd + k, lane>> : k \in Upto(4), lane \in Lanes}
                  \cup {<<2, hd + 4 + sg * hd + c[2], c[1]>> : sg \in Upto(2), c \in columns})>>)

DecodeNext ==
  /\ job = NoJob
  /\ \/ \E s \in NormShapes :
          \/ Launch("rms_norm", s, rms_norm_f32(s[2]))
          \/ Launch("rms_norm_batched", s, rms_norm_batched_f32(s[1], s[2]))
          \/ Launch("swiglu_batched", s, swiglu_batched_f32(s[1], s[2]))
          \/ Launch("add_inplace", s, add_inplace_f32(s[2]))
          \/ Launch("add_inplace_batched", s, add_inplace_batched_f32(s[2], s[1]))
          \/ Launch("add_inplace_offset", s, add_inplace_batched_f32_with_y_offset(s[2], s[1], 4 * s[2]))
     \/ \E s \in HeadShapes :
          \/ Launch("rms_norm_per_head_batched", s, rms_norm_per_head_batched_f32(s[1], s[5], s[2]))
          \/ Launch("norm_then_rope", s, rms_norm_per_head_then_rope_f32(s[1], s[2], s[4]))
          \/ Launch("rope", s, rope_half_split_f32(s[1], s[2], s[3], s[4]))
          \/ Launch("rope_partial_batched", s, rope_half_split_partial_batched_f32(s[1], s[2], s[3], s[4], s[5]))
          \/ Launch("rope_batched", s, rope_half_split_batched_f32(s[1], s[2], s[4], s[5]))
     \/ \E s \in CacheShapes :
          \/ Launch("kv_append", s, kv_append_f32(s[1], s[2], s[3], s[4]))
          \/ Launch("kv_append_batched", s, kv_append_batched_f32(s[1], s[2], s[3], s[4], s[5]))
          \/ Launch("kv_append_kv", s, kv_append_kv_f32(s[1], s[2], s[3], s[4]))
     \/ \E s \in AttnShapes :
          \/ Launch("gqa", s, gqa_decode_f32(s[1], s[2], s[3], s[4], s[5]))
          \/ Launch("gqa_nsg2", s, gqa_decode_f32_nsg2(s[1], s[2], s[3], s[4], s[5]))
          \/ Launch("gqa_splitk", s, gqa_decode_f32_splitk(s[1], s[2], s[3], s[4], s[5]))
          \/ Launch("gqa_splitk_nsg2", s, gqa_decode_f32_splitk_nsg2(s[1], s[2], s[3], s[4], s[5]))
          \/ Launch("gqa_splitk_nsg4", s, gqa_decode_f32_splitk_nsg4(s[1], s[2], s[3], s[4], s[5]))
          \/ Launch("gqa_kv4", s, gqa_decode_kv4_f32(s[1], s[2], s[3], s[4], s[5]))
     \/ \E s \in BatchAttnShapes : Launch("gqa_batched", s, gqa_decode_batched_f32(s[1], s[2], s[3], s[4], s[5], s[6]))

-----------------------------------------------------------------------------
(* The kernels of the state-space blocks (kernels.rs): the causal          *)
(* convolution with its ring of past inputs, and the delta-net recurrence  *)
(* over a head_dim x head_dim state a head,                                *)
(*     S := gamma S;  S := S + (beta (v - S k)) k^T;  out := S q.          *)

CONSTANTS
  ConvShapes,   \* <<kernel_size, conv_dim, B>>
  DeltaShapes   \* <<n_v_heads, head_dim, n_k_heads, B>>

(* ---------------------------- convolution ------------------------------- *)

(* What channel c has seen: the kernel_size - 1 inputs of the state, then   *)
(* the inputs of the launch.                                                *)
History(ks, dim, i, c) ==
  IF i < ks - 1 THEN <<"state", i * dim + c>> ELSE <<"x", (i - (ks - 1)) * dim + c>>
Convolved(ks, dim, B) ==
  {<<b * dim + c, <<c * ks + t, History(ks, dim, b + t, c)>>>> : b \in Upto(B), c \in Upto(dim), t \in Upto(ks)}
Remembered(ks, dim, B) ==
  {<<t * dim + c, History(ks, dim, B + t, c)>> : t \in Upto(ks - 1), c \in Upto(dim)}

(* The state of a channel before input b: shifted once for each input.      *)
Shifted(ks, dim, B, c) ==
  LET at[b \in 0 .. B] ==
        IF b = 0 THEN [t \in Upto(ks - 1) |-> <<"state", t * dim + c>>]
        ELSE [t \in Upto(ks - 1) |-> IF t = ks - 2 THEN <<"x", (b - 1) * dim + c>> ELSE at[b - 1][t + 1]]
  IN  at

Convolution(ok, ks, dim, B) ==
  LET state == [c \in Upto(dim) |-> Shifted(ks, dim, B, c)]
      grid == GuardedGrid(dim, 64)
  IN  Kernel(ok,
        <<Part(Convolved(ks, dim, B),
               {<<b * dim + g, <<g * ks + t, IF t = ks - 1 THEN <<"x", b * dim + g>> ELSE state[g][b][t]>>, g, t>>
                  : g \in grid, b \in Upto(B), t \in Upto(ks)}),
          Part(Remembered(ks, dim, B),
               {<<t * dim + g, state[g][B][t], g, 0>> : g \in grid, t \in Upto(ks - 1)})>>,
        <<>>)

ssm_conv1d_step_f32(ks, dim) == Convolution(ks > 0 /\ dim > 0, ks, dim, 1)

(* A batch with the weights and the state in registers.                     *)
ssm_conv1d_step_persistent_f32(ks, dim, B) == Convolution(ks \in 1 .. 8 /\ dim > 0 /\ B > 0, ks, dim, B)

(* ------------------------------- norms ---------------------------------- *)

(* One simdgroup a head; x is scaled in place.                              *)
l2_norm_per_head_f32(n_heads, hd) ==
  Kernel(TRUE,
    <<Part({<<h, h * hd + i>> : h \in Upto(n_heads), i \in Upto(hd)},
           {<<h, h * hd + p[2], h, p[1]>> : h \in Upto(n_heads), p \in Strided(32, hd)}),
      Part({<<h * hd + i, h>> : h \in Upto(n_heads), i \in Upto(hd)},
           {<<h * hd + p[2], h, p[1], 0>> : h \in Upto(n_heads), p \in Strided(32, hd)})>>, <<>>)

(* As above, times gamma and silu(z); heads of a batch in the grid's y.     *)
rms_norm_per_head_gated_batched_f32(B, n_heads, hd) ==
  LET heads == Upto(n_heads) \X Upto(B)
      Base(g) == g[2] * n_heads * hd + g[1] * hd
  IN  Kernel(B > 0 /\ n_heads > 0 /\ hd > 0,
        <<Part({<<h, h * hd + i>> : h \in Upto(B * n_heads), i \in Upto(hd)},
               {<<Base(g) \div hd, Base(g) + p[2], g, p[1]>> : g \in heads, p \in Strided(32, hd)}),
          Part({<<i, <<i, i % hd>>>> : i \in Upto(B * n_heads * hd)},
               {<<Base(g) + p[2], <<Base(g) + p[2], p[2]>>, <<g, p[1]>>, 0>> : g \in heads, p \in Strided(32, hd)})>>, <<>>)

rms_norm_per_head_gated_f32(n_heads, hd) == rms_norm_per_head_gated_batched_f32(1, n_heads, hd)

(* ------------------------------ delta-net ------------------------------- *)

(* Head h of v uses head h mod n_k_heads of q and k.  For every row: the    *)
(* projection S k, the rank-one update and S q.                             *)
DeltaRule(n_v, hd, n_k) ==
  LET cells == {<<h, r, c>> : h \in Upto(n_v), r \in Upto(hd), c \in Upto(hd)}
      At(x) == (x[1] * hd + x[2]) * hd + x[3]
      OfHead(x) == (x[1] % n_k) * hd + x[3]
  IN  <<{<<x[1] * hd + x[2], <<At(x), OfHead(x)>>>> : x \in cells},
        {<<At(x), <<x[1] * hd + x[2], OfHead(x)>>>> : x \in cells}>>

(* rows: <<head_v, row, by>>; the lanes of a simdgroup share the columns.   *)
DeltaSteps(rows, hd, n_k, lanes) ==
  LET Off(r) == r[1] * hd * hd + r[2] * hd
      Qk(r) == (r[1] % n_k) * hd
  IN  <<{<<r[1] * hd + r[2], <<Off(r) + p[2], Qk(r) + p[2]>>, r[3], p[1]>> : r \in rows, p \in lanes},
        {<<Off(r) + p[2], <<r[1] * hd + r[2], Qk(r) + p[2]>>, <<r[3], p[1]>>, 0>> : r \in rows, p \in lanes}>>

(* S k and S q go over the same columns.                                    *)
Delta(ok, n_v, hd, n_k, rows, lanes) ==
  LET ask == DeltaRule(n_v, hd, n_k)
      did == DeltaSteps(rows, hd, n_k, lanes)
  IN  Kernel(ok /\ n_v > 0 /\ hd > 0 /\ n_k > 0 /\ n_v % n_k = 0,
             <<Part(ask[1], did[1]), Part(ask[2], did[2])>>, <<>>)

RowPerGroup(n_v, hd) == {<<h, r, <<r, h>>>> : r \in Upto(hd), h \in Upto(n_v)}

delta_net_step_f32(n_v, hd, n_k) == Delta(TRUE, n_v, hd, n_k, RowPerGroup(n_v, hd), Strided(32, hd))

(* Every simdgroup also sums the squares of its q and k.                    *)
delta_net_step_with_l2_f32(n_v, hd, n_k) ==
  LET plain == Delta(n_k > 0, n_v, hd, n_k, RowPerGroup(n_v, hd), Strided(32, hd))
  IN  Kernel(n_v * hd * n_k > 0 /\ n_v % n_k = 0,
        plain.parts \o <<Part({<<<<r[3], r[1]>>, (r[1] % n_k) * hd + c>> : r \in RowPerGroup(n_v, hd), c \in Upto(hd)},
                              {<<<<r[3], r[1]>>, (r[1] % n_k) * hd + p[2], r[3], p[1]>>
                                 : r \in RowPerGroup(n_v, hd), p \in Strided(32, hd)})>>, <<>>)

(* Four rows a threadgroup, one a simdgroup.                                *)
delta_net_step_with_l2_v2_f32(n_v, hd, n_k) ==
  LET rows == {<<h, 4 * tile + in, <<tile, in, h>>>> : tile \in Upto(hd \div 4), in \in Upto(4), h \in Upto(n_v)}
      lanes == {<<l, l + 32 * i>> : l \in Lanes, i \in Upto(hd \div 32)}
  IN  Delta(hd % 32 = 0 /\ hd <= 512, n_v, hd, n_k, {r \in rows : r[2] < hd}, lanes)

(* B tokens with the row of the state in registers; q, k and v are side by  *)
(* side in the output of the convolution.                                   *)
delta_net_persistent_scan_f32(n_v, hd, n_k, B) ==
  LET conv == 2 * n_k * hd + n_v * hd
      key_dim == n_k * hd
      rows == RowPerGroup(n_v, hd)
      lanes == {<<l, l + 32 * i>> : l \in Lanes, i \in Upto(CeilDiv(hd, 32))}
      inside == {p \in lanes : p[2] < hd}
  IN  Kernel(hd <= 256 /\ hd % 32 = 0 /\ n_v > 0 /\ n_k > 0 /\ n_v % n_k = 0 /\ B > 0,
        <<Part({<<<<t, h, r>>, <<t * conv + (h % n_k) * hd + c, t * conv + key_dim + (h % n_k) * hd + c,
                                 t * conv + 2 * key_dim + h * hd + r, (h * hd + r) * hd + c>>>>
                  : t \in Upto(B), h \in Upto(n_v), r \in Upto(hd), c \in Upto(hd)},
               {LET qk == (x[1] % n_k) * hd + p[2]
                IN  <<<<t, x[1], x[2]>>,
                      <<t * conv + qk, t * conv + key_dim + qk, t * conv + (2 * key_dim + x[1] * hd + x[2]),
                        x[1] * hd * hd + x[2] * hd + p[2]>>, x[3], p[1]>>
                  : t \in Upto(B), x \in rows, p \in inside})>>, <<>>)

(* One threadgroup a head: the gate and the norms of q and k by simdgroup   *)
(* 0, the rows in rounds of four, the norm over the rows, the gated output  *)
(* by a thread a column: of the 256 columns that the checks allow it stores *)
(* the first 128.                                                           *)
ssm_block_mega_f32(n_v, hd, n_k) ==
  LET rounds == {<<h, 4 * rd + sg, <<h, sg>>>> : h \in Upto(n_v), rd \in Upto(hd \div 4), sg \in Upto(4)}
      rows == {r \in rounds : r[2] < hd}
      ask == DeltaRule(n_v, hd, n_k)
      did == DeltaSteps(rows, hd, n_k, Strided(32, hd))
  IN  Kernel(n_v * hd * n_k > 0 /\ n_v % n_k = 0 /\ hd % 32 = 0 /\ hd <= 256,
        <<Part(ask[1], did[1]), Part(ask[2], did[2]),
          Part({<<h, r>> : h \in Upto(n_v), r \in Upto(hd)},
               {<<h, p[2], h, p[1]>> : h \in Upto(n_v), p \in Strided(128, hd)}),
          Part({<<h * hd + r, <<r, h>>>> : h \in Upto(n_v), r \in Upto(hd)},
               {<<h * hd + tid, <<tid, h>>, tid, 0>> : h \in Upto(n_v), tid \in {u \in Upto(128) : u < hd}})>>,
        <<Array({<<0, hd + i, 0>> : i \in Upto(4)} \cup {<<1, r[2], 32 * r[3][2]>> : r \in {x \in rows : x[1] = 0}}
                  \cup {<<2, hd + 4 + sg, 32 * sg>> : sg \in Upto(4)} \cup {<<3, hd + 8, 0>>},
                {<<1, hd + i, t>> : i \in Upto(4), t \in Upto(128)} \cup {<<2, p[2], p[1]>> : p \in Strided(128, hd)}
                  \cup {<<3, hd + 4 + sg, 0>> : sg \in Upto(4)} \cup {<<4, hd + 8, t>> : t \in Upto(128)}
                  \cup {<<4, t, t>> : t \in {u \in Upto(128) : u < hd}})>>)

SsmNext ==
  /\ job = NoJob
  /\ \/ \E s \in ConvShapes :
          \/ Launch("ssm_conv1d_step", s, ssm_conv1d_step_f32(s[1], s[2]))
          \/ Launch("ssm_conv1d_persistent", s, ssm_conv1d_step_persistent_f32(s[1], s[2], s[3]))
     \/ \E s \in DeltaShapes :
          \/ Launch("l2_norm_per_head", s, l2_norm_per_head_f32(s[1], s[2]))
          \/ Launch("rms_norm_gated", s, rms_norm_per_head_gated_f32(s[1], s[2]))
          \/ Launch("rms_norm_gated_batched", s, rms_norm_per_head_gated_batched_f32(s[4], s[1], s[2]))
          \/ Launch("delta_net_step", s, delta_net_step_f32(s[1], s[2], s[3]))
          \/ Launch("delta_net_l2", s, delta_net_step_with_l2_f32(s[1], s[2], s[3]))
          \/ Launch("delta_net_l2_v2", s, delta_net_step_with_l2_v2_f32(s[1], s[2], s[3]))
          \/ Launch("delta_net_scan", s, delta_net_persistent_scan_f32(s[1], s[2], s[3], s[4]))
          \/ Launch("ssm_block_mega", s, ssm_block_mega_f32(s[1], s[2], s[3]))
=============================================================================
