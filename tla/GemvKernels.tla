---------------------------- MODULE GemvKernels ----------------------------
(***************************************************************************)
(* The quantised matrix-vector products of the Metal backend (kernels.rs), *)
(* the token-by-token path of inference: y[n] sums W[n, k] x[k].  A cell   *)
(* is an offset in y; a term pairs the bits that W[n, k] is decoded from   *)
(* in TileKernels, with an offset in x.                                    *)
(*                                                                         *)
(* A kernel is a set of rows (who stores which cell, where its row of W    *)
(* and its vector start) and a way to share a row among lanes: the shares, *)
(* and what Decode makes of a share.  simd_sum and the xor shuffles add up *)
(* the lanes of a row; one lane stores.                                    *)
(***************************************************************************)
EXTENDS TileKernels

CONSTANTS
  RowShapes,     \* <<K, N>>
  BatchShapes,   \* <<K, N, B>>
  TripleShapes   \* <<K, n_q, n_k, n_v>>

Row(by, cell, base, x) == [by |-> by, cell |-> cell, base |-> base, x |-> x]

Sums(rows, shares, Decode(_, _)) ==
  {LET d == Decode(r.base, s) IN <<r.cell, <<d[1], r.x + d[2]>>, r.by, s>> : r \in rows, s \in shares}

(* What y = W x is, for a format with `bytes` for `weights` weights.        *)
Bytes(K, weights, bytes) == (K \div weights) * bytes
Gemv(K, N, stride, W(_, _)) == {<<n, <<W(n * stride, k), k>>>> : n \in Upto(N), k \in Upto(K)}

Aligned(K, N, block) == K > 0 /\ N > 0 /\ K % block = 0

(* ----------------------------- row layouts ------------------------------ *)

(* nsg simdgroups a threadgroup, nr rows a simdgroup; rows past N are       *)
(* skipped.                                                                 *)
SimdRows(N, nsg, nr, stride) ==
  {Row(<<p[1], p[2]>>, (p[1] * nsg + p[2]) * nr + p[3], ((p[1] * nsg + p[2]) * nr + p[3]) * stride, 0)
     : p \in {q \in Upto(CeilDiv(N, nsg * nr)) \X Upto(nsg) \X Upto(nr) : (q[1] * nsg + q[2]) * nr + q[3] < N}}

ThreadRows(N, stride) == {Row(n, n, n * stride, 0) : n \in GuardedGrid(N, 64)}

(* Four rows a simdgroup, eight lanes each.                                 *)
QuadRows(N, stride) ==
  {Row(p, 4 * p[1] + p[2], (4 * p[1] + p[2]) * stride, 0)
     : p \in {q \in Upto(CeilDiv(N, 4)) \X Upto(4) : 4 * q[1] + q[2] < N}}

(* The vectors of a batch share W.                                          *)
Batched(rows, B, N, K) ==
  {Row(<<r.by, b>>, b * N + r.cell, r.base, b * K) : r \in rows, b \in Upto(B)}
BatchedGemv(K, N, B, stride, W(_, _)) ==
  {<<b * N + n, <<W(n * stride, k), b * K + k>>>> : b \in Upto(B), n \in Upto(N), k \in Upto(K)}

(* Mixture of experts: entry b of the batch uses the matrix indices[b];     *)
(* x_stride is 0 when all share one vector, and `used` entries in a row     *)
(* belong to the same token in the per-token kernel.                        *)
indices(b) == (b + 1) % 2
Gathered(rows, B, N, expert_stride, x_stride, used) ==
  {Row(<<r.by, b>>, b * N + r.cell, indices(b) * expert_stride + r.base, (b \div used) * x_stride)
     : r \in rows, b \in Upto(B)}
GatheredGemv(K, N, B, stride, X(_), W(_, _)) ==
  {<<b * N + n, <<W((indices(b) * N + n) * stride, k), X(b) + k>>>> : b \in Upto(B), n \in Upto(N), k \in Upto(K)}

(* ------------------------ how lanes share a row -------------------------- *)

(* A lane takes whole blocks, `lanes` apart: pairs of sub-blocks jp, the    *)
(* low and the high nibbles of 32 bytes.                                    *)
BlocksQ4(K, lanes) ==
  {<<p[1], p[2], jp, hi, kk>> : p \in Strided(lanes, K \div 256), jp \in Upto(4), hi \in Upto(2), kk \in Upto(32)}
PackedScales(i, up) ==  \* sc[i], m[i] and, up, sc[i + 4], m[i + 4]
  IF up THEN <<<<i + 8, 0, 4, i, 6>>, <<i + 8, 4, 4, i + 4, 6>>>> ELSE <<<<i, 0, 6>>, <<i + 4, 0, 6>>>>
NibblesQ4(block, s) ==
  LET j == 2 * s[3] + s[4]
  IN  <<<<block + 16 + 4 * (8 * s[3] + (s[5] \div 4)) + (s[5] % 4), 4 * s[4], block,
          PackedScales(j % 4, j >= 4)>>,
        s[2] * 256 + j * 32 + s[5]>>
DecodeQ4(base, s) == NibblesQ4(base + 144 * s[2], s)

(* llama.cpp's split: lane / 8 takes every fourth block; eight lanes take   *)
(* eight weights each of four sub-blocks.  The scales are unpacked with     *)
(* masks on 16-bit words.                                                   *)
LanesLcpp(K) ==
  {<<p[1] * 8 + it, p[2], g, i>> : p \in Strided(4, K \div 256), it \in Upto(8), g \in Upto(4), i \in Upto(8)}
MaskedScales(iq, g) ==
  LET b == 2 * iq + (g % 2)
  IN  IF g < 2 THEN <<<<b, 0, 6>>, <<b + 4, 0, 6>>>>
               ELSE <<<<b + 8, 0, 4, b, 6>>, <<b + 8, 4, 4, b + 4, 6>>>>
DecodeLcppQ4(base, s) ==
  LET iq == (s[1] % 8) \div 4
      ir == s[1] % 4
      block == base + 144 * s[2]
  IN  <<<<block + 16 + 2 * (16 * iq + 4 * ir) + 64 * (s[3] \div 2) + s[4], 4 * (s[3] % 2), block,
          MaskedScales(iq, s[3])>>,
        s[2] * 256 + 64 * iq + 8 * ir + s[4] + 32 * (s[3] % 2) + 128 * (s[3] \div 2)>>

(* Here lane % 4 takes every fourth block.                                  *)
LanesLcppQ5(K) ==
  {<<4 * tid + p[1], p[2], g, l>> : p \in Strided(4, K \div 256), tid \in Upto(8), g \in Upto(4), l \in Upto(8)}
DecodeLcppQ5(base, s) ==
  LET tid == s[1] \div 4
      iq == tid \div 4
      l0 == 8 * (tid % 4)
      block == base + 176 * s[2]
  IN  <<<<block + 48 + 32 * iq + l0 + 64 * (s[3] \div 2) + s[4], 4 * (s[3] % 2),
          block + 16 + l0 + s[4], 2 * iq + (s[3] % 2) + 4 * (s[3] \div 2), block, MaskedScales(iq, s[3])>>,
        s[2] * 256 + 64 * iq + l0 + s[4] + 32 * (s[3] % 2) + 128 * (s[3] \div 2)>>

(* MLX's split: two blocks an iteration, 16 consecutive weights a lane.     *)
LanesQmv(K) == {<<lane, k_iter, l>> : lane \in Lanes, k_iter \in Upto(K \div 512), l \in Upto(16)}
DecodeQmv(base, s) ==
  LET sub == (s[1] % 16) \div 2
      block == base + 144 * (2 * s[2] + (s[1] \div 16))
  IN  <<<<block + 16 + 32 * (sub \div 2) + 16 * (s[1] % 2) + s[3], IF sub % 2 = 1 THEN 4 ELSE 0, block, sc6_m6(sub)>>,
        s[2] * 512 + s[1] * 16 + s[3]>>

(* Q3_K: every lane works on every block, eight weights of a sub-block.     *)
LanesQ3(K) == {<<lane, ib, k>> : lane \in Lanes, ib \in Upto(K \div 256), k \in Upto(8)}
DecodeQ3(base, s) ==
  LET sb == s[1] \div 2
      l == 8 * (s[1] % 2) + s[3]
      half == sb \div 8
      block == base + 110 * s[2]
  IN  <<<<block + 32 + half * 32 + ((sb % 8) % 2) * 16 + l, 2 * ((sb % 8) \div 2),
          block + ((sb % 8) % 2) * 16 + l, half * 4 + ((sb % 8) \div 2), block + 108, Q3Scale(sb)>>,
        s[2] * 256 + s[1] * 8 + s[3]>>

(* Q3_K by lane % 4: two neighbouring sub-blocks of every fourth block.     *)
LanesLcppQ3(K) ==
  {<<4 * tid + p[1], p[2], second, l>> : p \in Strided(4, K \div 256), tid \in Upto(8), second \in Upto(2), l \in Upto(16)}
DecodeLcppQ3(base, s) ==
  LET sb_first == 2 * (s[1] \div 4)
      half == sb_first \div 8
      j == (sb_first % 8) \div 2
      block == base + 110 * s[2]
  IN  <<<<block + 32 + half * 32 + 16 * s[3] + s[4], 2 * j, block + 16 * s[3] + s[4], half * 4 + j,
          block + 108, Q3Scale(sb_first + s[3])>>,
        s[2] * 256 + sb_first * 16 + 16 * s[3] + s[4]>>

LanesQ8(K) == {<<lane, ib>> : lane \in Lanes, ib \in Upto(K \div 32)}
DecodeQ8(base, s) == <<<<base + 34 * s[2] + 2 + s[1], base + 34 * s[2]>>, s[2] * 32 + s[1]>>

(* Q6_K: whole blocks a lane, in two halves of four quarters.               *)
BlocksQ6(K, lanes) ==
  {<<p[1], p[2], half, q, l>> : p \in Strided(lanes, K \div 256), half \in Upto(2), q \in Upto(4), l \in Upto(32)}
DecodeQ6(base, s) ==
  LET block == base + 210 * s[2]
  IN  <<<<block + 64 * s[3] + s[5] + (IF s[4] % 2 = 1 THEN 32 ELSE 0), IF s[4] < 2 THEN 0 ELSE 4,
          block + 128 + 32 * s[3] + s[5], 2 * s[4], block + 208,
          block + 192 + 8 * s[3] + 2 * s[4] + (IF s[5] < 16 THEN 0 ELSE 1)>>,
        s[2] * 256 + s[3] * 128 + s[5] + 32 * s[4]>>

(* Q6_K by lane % 2: four weights of four quarters of every other block.    *)
LanesLcppQ6(K) ==
  {<<2 * tid + p[1], p[2], q, l>> : p \in Strided(2, K \div 256), tid \in Upto(16), q \in Upto(4), l \in Upto(4)}
DecodeLcppQ6(base, s) ==
  LET ip == (s[1] \div 2) \div 8
      l0 == 4 * ((s[1] \div 2) % 8)
      block == base + 210 * s[2]
  IN  <<<<block + 64 * ip + l0 + 32 * (s[3] % 2) + s[4], IF s[3] < 2 THEN 0 ELSE 4,
          block + 128 + 32 * ip + l0 + s[4], 2 * s[3], block + 208,
          block + 192 + 8 * ip + (l0 \div 16) + 2 * s[3]>>,
        s[2] * 256 + 128 * ip + l0 + s[4] + 32 * s[3]>>

(* ------------------------------ the kernels ----------------------------- *)

Q4Stride(K) == Bytes(K, 256, 144)
Q4(K, N) == Gemv(K, N, Q4Stride(K), Q4_K)

sgemv_q4_k_f32(K, N) ==
  Simple(Aligned(K, N, 256), Q4(K, N), Sums(ThreadRows(N, Q4Stride(K)), BlocksQ4(K, 1), DecodeQ4))

(* The blocks of W by column: repack_q4_k_transposed moves block blk of row *)
(* n to place blk N + n.                                                    *)
repack_q4_k_transposed(N, base, blk) == blk * N * 144 + base
sgemv_q4_k_f32_transposed(K, N) ==
  LET Moved(off, k) == dequant_q4_k(repack_q4_k_transposed(N, off, k \div 256), k % 256)
      Decode(base, s) == NibblesQ4(s[2] * N * 144 + base, s)
  IN  Simple(Aligned(K, N, 256), Gemv(K, N, 144, Moved), Sums(ThreadRows(N, 144), BlocksQ4(K, 1), Decode))

sgemv_q4_k_f32_simdcoop(K, N) ==
  Simple(Aligned(K, N, 256), Q4(K, N), Sums(SimdRows(N, 1, 1, Q4Stride(K)), BlocksQ4(K, 32), DecodeQ4))

(* What the store combines with the sum: the residual already in y, or the  *)
(* gate.                                                                    *)
Stored(rows) == Part({<<r.cell, r.cell>> : r \in rows}, {<<r.cell, r.cell, r.by, 0>> : r \in rows})
sgemv_q4_k_f32_simdcoop_residual(K, N) ==
  Kernel(Aligned(K, N, 256),
         sgemv_q4_k_f32_simdcoop(K, N).parts \o <<Stored(SimdRows(N, 1, 1, Q4Stride(K)))>>, <<>>)

sgemv_q4_k_f32_simdcoop_nr2(K, N) ==
  Simple(Aligned(K, N, 256), Q4(K, N), Sums(SimdRows(N, 1, 2, Q4Stride(K)), BlocksQ4(K, 32), DecodeQ4))

sgemv_q4_k_f32_quadcoop(K, N) ==
  Simple(Aligned(K, N, 256), Q4(K, N), Sums(QuadRows(N, Q4Stride(K)), BlocksQ4(K, 8), DecodeQ4))

sgemv_q4_k_f32_batch(K, N, B) ==
  Simple(Aligned(K, N, 256) /\ B > 0, BatchedGemv(K, N, B, Q4Stride(K), Q4_K),
         Sums(Batched({Row(n, n, n * Q4Stride(K), 0) : n \in Upto(N)}, B, N, K), BlocksQ4(K, 1), DecodeQ4))

sgemv_q4_k_f32_lcpp_nr2(K, N) ==
  Simple(Aligned(K, N, 256), Q4(K, N), Sums(SimdRows(N, 1, 2, Q4Stride(K)), LanesLcpp(K), DecodeLcppQ4))

(* Fallbacks of the wrappers: two simdgroups of two rows when N % 4 = 0,    *)
(* of four when N % 8 = 0.                                                  *)
sgemv_q4_k_f32_lcpp_nsg2(K, N) ==
  IF N % 4 # 0 THEN sgemv_q4_k_f32_lcpp_nr2(K, N)
  ELSE Simple(Aligned(K, N, 256), Q4(K, N), Sums(SimdRows(N, 2, 2, Q4Stride(K)), LanesLcpp(K), DecodeLcppQ4))

sgemv_q4_k_f32_lcpp_nsg2_nr4(K, N) ==
  IF N % 8 # 0 THEN sgemv_q4_k_f32_lcpp_nsg2(K, N)
  ELSE Simple(Aligned(K, N, 256), Q4(K, N), Sums(SimdRows(N, 2, 4, Q4Stride(K)), LanesLcpp(K), DecodeLcppQ4))

sgemv_q4_k_f32_qmv_fast(K, N) ==
  IF N % 8 # 0 THEN Kernel(K % 512 = 0, sgemv_q4_k_f32_lcpp_nsg2(K, N).parts, <<>>)
  ELSE Simple(Aligned(K, N, 512), Q4(K, N), Sums(SimdRows(N, 2, 4, Q4Stride(K)), LanesQmv(K), DecodeQmv))

sgemv_q4_k_f32_lcpp_nsg2_resadd(K, N) ==
  Kernel(Aligned(K, N, 256) /\ N % 4 = 0,
         sgemv_q4_k_f32_lcpp_nsg2(K, N).parts \o <<Stored(SimdRows(N, 2, 2, Q4Stride(K)))>>, <<>>)

sgemv_q4_k_swiglu_f32_lcpp_nsg2(K, N) == sgemv_q4_k_f32_lcpp_nsg2_resadd(K, N)

(* A flat threadgroup number holds the pair of rows and the vector.         *)
PairRows(N, B, K, stride) ==
  LET pairs == CeilDiv(N, 2)
      sgs == {<<tg, tg \div pairs, 2 * (tg % pairs) + r>> : tg \in Upto(pairs * B), r \in Upto(2)}
  IN  {Row(s[1], s[2] * N + s[3], s[3] * stride, s[2] * K) : s \in {t \in sgs : t[3] < N}}

sgemv_q4_k_f32_lcpp_nr2_batch(K, N, B) ==
  Simple(Aligned(K, N, 256) /\ B > 0, BatchedGemv(K, N, B, Q4Stride(K), Q4_K),
         Sums(PairRows(N, B, K, Q4Stride(K)), LanesLcpp(K), DecodeLcppQ4))

(* ------ experts ------ *)

sgemv_q4_k_gather_f32_lcpp_nsg2(K, N, B, x_stride) ==
  LET X(b) == b * x_stride
  IN  Simple(Aligned(K, N, 256) /\ N % 4 = 0 /\ B > 0 /\ x_stride \in {0, K},
             GatheredGemv(K, N, B, Q4Stride(K), X, Q4_K),
             Sums(Gathered(SimdRows(N, 2, 2, Q4Stride(K)), B, N, N * Q4Stride(K), x_stride, 1), LanesLcpp(K), DecodeLcppQ4))

sgemv_q4_k_gather_swiglu_f32_lcpp_nsg2(K, N, B, x_stride) ==
  LET rows == Gathered(SimdRows(N, 2, 2, Q4Stride(K)), B, N, N * Q4Stride(K), x_stride, 1)
  IN  Kernel(Aligned(K, N, 256) /\ N % 4 = 0 /\ B > 0,
             sgemv_q4_k_gather_f32_lcpp_nsg2(K, N, B, x_stride).parts \o <<Stored(rows)>>, <<>>)

sgemv_q4_k_gather_qmv_fast(K, N, B, x_stride) ==
  LET X(b) == b * x_stride
  IN  Simple(Aligned(K, N, 512) /\ N % 8 = 0 /\ B > 0 /\ x_stride \in {0, K},
             GatheredGemv(K, N, B, Q4Stride(K), X, Q4_K),
             Sums(Gathered(SimdRows(N, 2, 4, Q4Stride(K)), B, N, N * Q4Stride(K), x_stride, 1), LanesQmv(K), DecodeQmv))

(* n_used experts a token: entry b reads the vector of token b / n_used.    *)
sgemv_q4_k_gather_per_token_f32_lcpp_nsg2(K, N, B, n_used) ==
  LET X(b) == (b \div n_used) * K
  IN  Simple(Aligned(K, N, 256) /\ N % 4 = 0 /\ B > 0 /\ B % n_used = 0,
             GatheredGemv(K, N, B, Q4Stride(K), X, Q4_K),
             Sums(Gathered(SimdRows(N, 2, 2, Q4Stride(K)), B, N, N * Q4Stride(K), K, n_used), LanesLcpp(K), DecodeLcppQ4))

Q5Stride(K) == Bytes(K, 256, 176)
sgemv_q5_k_gather_f32_lcpp_nsg2(K, N, B, x_stride) ==
  LET X(b) == b * x_stride
  IN  Simple(Aligned(K, N, 256) /\ B > 0 /\ x_stride \in {0, K},
             GatheredGemv(K, N, B, Q5Stride(K), X, Q5_K),
             Sums(Gathered(SimdRows(N, 2, 1, Q5Stride(K)), B, N, N * Q5Stride(K), x_stride, 1), LanesLcppQ5(K), DecodeLcppQ5))

Q6Stride(K) == Bytes(K, 256, 210)
sgemv_q6_k_gather_f32_lcpp_nsg2(K, N, B, x_stride) ==
  LET X(b) == b * x_stride
  IN  Simple(Aligned(K, N, 256) /\ N % 4 = 0 /\ B > 0 /\ x_stride \in {0, K},
             GatheredGemv(K, N, B, Q6Stride(K), X, Q6_K),
             Sums(Gathered(SimdRows(N, 2, 2, Q6Stride(K)), B, N, N * Q6Stride(K), x_stride, 1), LanesLcppQ6(K), DecodeLcppQ6))

(* ------ other formats ------ *)

sgemv_q3_k_f32_lcpp_nsg1(K, N) ==
  Simple(Aligned(K, N, 256), Gemv(K, N, Bytes(K, 256, 110), Q3_K),
         Sums(SimdRows(N, 1, 1, Bytes(K, 256, 110)), LanesQ3(K), DecodeQ3))

sgemv_q3_k_f32_lcpp_nsg2(K, N) ==
  Simple(Aligned(K, N, 256), Gemv(K, N, Bytes(K, 256, 110), Q3_K),
         Sums(SimdRows(N, 2, 1, Bytes(K, 256, 110)), LanesLcppQ3(K), DecodeLcppQ3))

sgemv_q5_k_f32_lcpp_nsg2(K, N) ==
  Simple(Aligned(K, N, 256), Gemv(K, N, Q5Stride(K), Q5_K),
         Sums(SimdRows(N, 2, 1, Q5Stride(K)), LanesLcppQ5(K), DecodeLcppQ5))

sgemv_q5_k_f32_lcpp_nsg4(K, N) ==
  Simple(Aligned(K, N, 256), Gemv(K, N, Q5Stride(K), Q5_K),
         Sums(SimdRows(N, 4, 1, Q5Stride(K)), LanesLcppQ5(K), DecodeLcppQ5))

sgemv_q8_0_f32_lcpp_nsg2(K, N) ==
  Simple(Aligned(K, N, 32), Gemv(K, N, Bytes(K, 32, 34), Q8_0),
         Sums(SimdRows(N, 2, 2, Bytes(K, 32, 34)), LanesQ8(K), DecodeQ8))

Q6(K, N) == Gemv(K, N, Q6Stride(K), Q6_K)

sgemv_q6_k_f32_simdcoop(K, N) ==
  Simple(Aligned(K, N, 256), Q6(K, N), Sums(SimdRows(N, 1, 1, Q6Stride(K)), BlocksQ6(K, 32), DecodeQ6))

sgemv_q6_k_f32_simdcoop_residual(K, N) ==
  Kernel(Aligned(K, N, 256),
         sgemv_q6_k_f32_simdcoop(K, N).parts \o <<Stored(SimdRows(N, 1, 1, Q6Stride(K)))>>, <<>>)

sgemv_q6_k_f32_simdcoop_nr2(K, N) ==
  Simple(Aligned(K, N, 256), Q6(K, N), Sums(SimdRows(N, 1, 2, Q6Stride(K)), BlocksQ6(K, 32), DecodeQ6))

sgemv_q6_k_f32_lcpp_nr2(K, N) ==
  Simple(Aligned(K, N, 256), Q6(K, N), Sums(SimdRows(N, 1, 2, Q6Stride(K)), LanesLcppQ6(K), DecodeLcppQ6))

sgemv_q6_k_f32_lcpp_nsg2(K, N) ==
  IF N % 4 # 0 THEN sgemv_q6_k_f32_lcpp_nr2(K, N)
  ELSE Simple(Aligned(K, N, 256), Q6(K, N), Sums(SimdRows(N, 2, 2, Q6Stride(K)), LanesLcppQ6(K), DecodeLcppQ6))

sgemv_q6_k_f32_lcpp_nr2_batch(K, N, B) ==
  Simple(Aligned(K, N, 256) /\ B > 0, BatchedGemv(K, N, B, Q6Stride(K), Q6_K),
         Sums(PairRows(N, B, K, Q6Stride(K)), LanesLcppQ6(K), DecodeLcppQ6))

sgemv_q6_k_f32(K, N) ==
  Simple(Aligned(K, N, 256), Q6(K, N), Sums(ThreadRows(N, Q6Stride(K)), BlocksQ6(K, 1), DecodeQ6))

repack_q6_k_transposed(N, base, blk) == blk * N * 210 + base
sgemv_q6_k_f32_transposed(K, N) ==
  LET Moved(off, k) == dequant_q6_k(repack_q6_k_transposed(N, off, k \div 256), k % 256)
      Decode(base, s) == DecodeQ6(s[2] * N * 210 + base - 210 * s[2], s)
  IN  Simple(Aligned(K, N, 256), Gemv(K, N, 210, Moved), Sums(ThreadRows(N, 210), BlocksQ6(K, 1), Decode))

sgemv_q6_k_f32_batch(K, N, B) ==
  Simple(Aligned(K, N, 256) /\ B > 0, BatchedGemv(K, N, B, Q6Stride(K), Q6_K),
         Sums(Batched({Row(n, n, n * Q6Stride(K), 0) : n \in Upto(N)}, B, N, K), BlocksQ6(K, 1), DecodeQ6))

(* ------ q, k and v in one launch ------ *)

(* Three matrices and three outputs, Apart rows from each other; the flat   *)
(* row number picks one.  Pairs pass n_v = 0.                               *)
Apart == 1000
OfThree(g, n_q, n_k) ==
  IF g < n_q THEN g ELSE IF g < n_q + n_k THEN Apart + g - n_q ELSE 2 * Apart + g - n_q - n_k
Triple(K, n, rows, shares) ==
  LET stride == Q4Stride(K)
      outs == {i \in Upto(3 * Apart) : i % Apart < n[(i \div Apart) + 1]}
  IN  Simple(K % 256 = 0,
             {<<i, <<Q4_K(i * stride, k), k>>>> : i \in outs, k \in Upto(K)},
             Sums({LET i == OfThree(r.cell, n[1], n[2]) IN Row(r.by, i, i * stride, 0) : r \in rows}, shares, DecodeQ4))

sgemv_q4_k_f32_triple(K, n) ==
  Triple(K, n, ThreadRows(n[1] + n[2] + n[3], 1), BlocksQ4(K, 1))
sgemv_q4_k_f32_triple_quadcoop(K, n) ==
  Triple(K, n, QuadRows(n[1] + n[2] + n[3], 1), BlocksQ4(K, 8))
sgemv_q4_k_f32_triple_simdcoop(K, n) ==
  Triple(K, n, SimdRows(n[1] + n[2] + n[3], 1, 1, 1), BlocksQ4(K, 32))
sgemv_q4_k_f32_pair(K, n_a, n_b) == sgemv_q4_k_f32_triple(K, <<n_a, n_b, 0>>)
sgemv_q4_k_f32_pair_quadcoop(K, n_a, n_b) == sgemv_q4_k_f32_triple_quadcoop(K, <<n_a, n_b, 0>>)
sgemv_q4_k_f32_pair_simdcoop(K, n_a, n_b) == sgemv_q4_k_f32_triple_simdcoop(K, <<n_a, n_b, 0>>)

GemvNext ==
  /\ job = NoJob
  /\ \/ \E s \in RowShapes : LET K == s[1] N == s[2] IN
          \/ Launch("q4_k", s, sgemv_q4_k_f32(K, N))
          \/ Launch("q4_k_transposed", s, sgemv_q4_k_f32_transposed(K, N))
          \/ Launch("q4_k_residual", s, sgemv_q4_k_f32_simdcoop_residual(K, N))
          \/ Launch("q4_k_nr2", s, sgemv_q4_k_f32_simdcoop_nr2(K, N))
          \/ Launch("q4_k_quadcoop", s, sgemv_q4_k_f32_quadcoop(K, N))
          \/ Launch("q4_k_nr4", s, sgemv_q4_k_f32_lcpp_nsg2_nr4(K, N))
          \/ Launch("q4_k_qmv_fast", s, sgemv_q4_k_f32_qmv_fast(K, N))
          \/ Launch("q4_k_resadd", s, sgemv_q4_k_f32_lcpp_nsg2_resadd(K, N))
          \/ Launch("q4_k_swiglu", s, sgemv_q4_k_swiglu_f32_lcpp_nsg2(K, N))
          \/ Launch("q3_k_nsg1", s, sgemv_q3_k_f32_lcpp_nsg1(K, N))
          \/ Launch("q3_k_nsg2", s, sgemv_q3_k_f32_lcpp_nsg2(K, N))
          \/ Launch("q5_k_nsg2", s, sgemv_q5_k_f32_lcpp_nsg2(K, N))
          \/ Launch("q5_k_nsg4", s, sgemv_q5_k_f32_lcpp_nsg4(K, N))
          \/ Launch("q8_0", s, sgemv_q8_0_f32_lcpp_nsg2(K, N))
          \/ Launch("q6_k_residual", s, sgemv_q6_k_f32_simdcoop_residual(K, N))
          \/ Launch("q6_k_nr2", s, sgemv_q6_k_f32_simdcoop_nr2(K, N))
          \/ Launch("q6_k", s, sgemv_q6_k_f32(K, N))
          \/ Launch("q6_k_transposed", s, sgemv_q6_k_f32_transposed(K, N))
          \/ Launch("q6_k_nsg2", s, sgemv_q6_k_f32_lcpp_nsg2(K, N))
     \/ \E s \in BatchShapes : LET K == s[1] N == s[2] B == s[3] IN
          \/ Launch("q4_k_batch", s, sgemv_q4_k_f32_batch(K, N, B))
          \/ Launch("q4_k_nr2_batch", s, sgemv_q4_k_f32_lcpp_nr2_batch(K, N, B))
          \/ Launch("q6_k_batch", s, sgemv_q6_k_f32_batch(K, N, B))
          \/ Launch("q6_k_nr2_batch", s, sgemv_q6_k_f32_lcpp_nr2_batch(K, N, B))
          \/ Launch("q4_k_gather_per_token", s, sgemv_q4_k_gather_per_token_f32_lcpp_nsg2(K, N, B, 2))
          \/ \E x_stride \in {0, K} :
               \/ Launch("q4_k_gather_swiglu", s, sgemv_q4_k_gather_swiglu_f32_lcpp_nsg2(K, N, B, x_stride))
               \/ Launch("q4_k_gather_qmv", s, sgemv_q4_k_gather_qmv_fast(K, N, B, x_stride))
               \/ Launch("q5_k_gather", s, sgemv_q5_k_gather_f32_lcpp_nsg2(K, N, B, x_stride))
               \/ Launch("q6_k_gather", s, sgemv_q6_k_gather_f32_lcpp_nsg2(K, N, B, x_stride))
     \/ \E s \in TripleShapes : LET K == s[1] n == <<s[2], s[3], s[4]>> IN
          \/ Launch("triple", s, sgemv_q4_k_f32_triple(K, n))
          \/ Launch("triple_quadcoop", s, sgemv_q4_k_f32_triple_quadcoop(K, n))
          \/ Launch("triple_simdcoop", s, sgemv_q4_k_f32_triple_simdcoop(K, n))
          \/ Launch("pair", s, sgemv_q4_k_f32_pair(K, n[1], n[2]))
          \/ Launch("pair_quadcoop", s, sgemv_q4_k_f32_pair_quadcoop(K, n[1], n[2]))
          \/ Launch("pair_simdcoop", s, sgemv_q4_k_f32_pair_simdcoop(K, n[1], n[2]))
=============================================================================
