--------------------------- MODULE ElementKernels ---------------------------
(***************************************************************************)
(* Elementwise, broadcast, reduction and transpose kernels of the Metal    *)
(* backend (kernels.rs).  Which function of its operands a cell gets is    *)
(* the choice of an MSL expression; the kernels differ in which operands   *)
(* meet in which cell.                                                     *)
(***************************************************************************)
EXTENDS GpuLaunch

CONSTANTS
  Lengths,   \* vector lengths
  Matrices   \* <<rows, columns>>

Width == 256  \* threads of a threadgroup

(* out[i] = op(a[i], b[i]), one thread an element.                          *)
dispatch_binary(n) ==
  Simple(TRUE,
         {<<i, <<"a", i, "b", i>>>> : i \in Upto(n)},
         {<<gid, <<"a", gid, "b", gid>>, gid, 0>> : gid \in GuardedGrid(n, Width)})

dispatch_unary(n) ==
  Simple(TRUE,
         {<<i, i>> : i \in Upto(n)},
         {<<gid, gid, gid, 0>> : gid \in GuardedGrid(n, Width)})

add_f32(n) == dispatch_binary(n)

dispatch_binary_scalar(n) ==
  Simple(TRUE,
         {<<i, <<"src", i, "scalar">>>> : i \in Upto(n)},
         {<<gid, <<"src", gid, "scalar">>, gid, 0>> : gid \in GuardedGrid(n, Width)})

cast_f32_bf16(n) == dispatch_unary(n)

(* ------------------------- full reductions ------------------------------ *)

Tree256 == TreeRoutes(256, 8)

(* Mutant: the last, partial threadgroup is not launched.                   *)
MutPartials(n) == n \div 256

Partials(n) == CeilDiv(n, 256)

(* reduce_partial_f32: scratch[lid] is src[idx], or 0 past the end, and the *)
(* tree brings it to partials[tg_pos].                                      *)
reduce_partial(n) ==
  {<<tg, tg * 256 + r[1], r>> : tg \in Upto(Partials(n)),
                                r \in Tree256}

(* reduce_finalise_f32: one thread adds the partials.                       *)
reduce_full(n) ==
  Kernel(TRUE,
         <<Part({<<0, i>> : i \in Upto(n)},
                {<<0, p[2], 0, <<p[1], p[3]>>>> : p \in {q \in reduce_partial(n) : q[2] < n}})>>,
         <<TreeArray(256, 8)>>)

(* The same with (a[i] - b[i])^2 for src[i].                                *)
mse_reduce_f32(n) == reduce_full(n)

(* --------------------------- two dimensions ----------------------------- *)

(* out[b, j] = x[b, j] + bias[j]                                            *)
add_bias_f32(B, N) ==
  Simple(TRUE,
         {<<b * N + j, <<b * N + j, j>>>> : b \in Upto(B), j \in Upto(N)},
         {<<gid, <<gid, gid % N>>, gid, 0>> : gid \in GuardedGrid(B * N, Width)})

(* The sum over one dimension of a d0 x d1 matrix, a thread an output.      *)
reduce_dim_2d(d0, d1, dim) ==
  Simple(dim <= 1,
         {<<IF dim = 0 THEN j ELSE i, i * d1 + j>> : i \in Upto(d0), j \in Upto(d1)},
         IF dim = 0
         THEN {<<gid, i * d1 + gid, gid, i>> : gid \in GuardedGrid(d1, Width), i \in Upto(d0)}
         ELSE {<<gid, gid * d1 + j, gid, j>> : gid \in GuardedGrid(d0, Width), j \in Upto(d1)})

(* Transposition of an M x N matrix by 16 x 16 tiles in threadgroup memory: *)
(* a thread of the grid stores its element of the tile, and after the       *)
(* barrier reads the one across the diagonal (rows padded to 17).           *)
transpose2d_f32(M, N) ==
  LET threads == {<<16 * g[1] + l[1], 16 * g[2] + l[2]>> :
                    g \in Upto(CeilDiv(N, 16)) \X Upto(CeilDiv(M, 16)), l \in Upto(16) \X Upto(16)}
      Tile(x, y, i, j) == <<x \div 16, y \div 16, 17 * i + j>>
      loaders == {t \in threads : t[2] < M /\ t[1] < N}
      Row(t) == (t[1] \div 16) * 16 + (t[2] % 16)
      Col(t) == (t[2] \div 16) * 16 + (t[1] % 16)
      storers == {t \in threads : Row(t) < N /\ Col(t) < M}
  IN  Kernel(TRUE,
             <<Part({<<j * M + i, i * N + j>> : i \in Upto(M), j \in Upto(N)},
                    {<<Row(t) * M + Col(t), Col(t) * N + Row(t), t, 0>>
                       : t \in {u \in storers : <<Row(u), Col(u)>> \in loaders}})>>,
             <<Array({<<0, Tile(t[1], t[2], t[2] % 16, t[1] % 16), t>> : t \in loaders},
                     {<<1, Tile(t[1], t[2], t[1] % 16, t[2] % 16), t>> : t \in storers})>>)

ElementNext ==
  /\ job = NoJob
  /\ \/ \E n \in Lengths :
          \/ Launch("binary", n, dispatch_binary(n))
          \/ Launch("add_f32", n, add_f32(n))
          \/ Launch("unary", n, dispatch_unary(n))
          \/ Launch("binary_scalar", n, dispatch_binary_scalar(n))
          \/ Launch("cast_f32_bf16", n, cast_f32_bf16(n))
          \/ Launch("reduce_full", n, reduce_full(n))
          \/ Launch("mse_reduce_f32", n, mse_reduce_f32(n))
     \/ \E s \in Matrices :
          \/ Launch("add_bias_f32", s, add_bias_f32(s[1], s[2]))
          \/ \E dim \in 0 .. 2 :
               Launch("reduce_dim_2d", <<s, dim>>, reduce_dim_2d(s[1], s[2], dim))
          \/ Launch("transpose2d_f32", s, transpose2d_f32(s[1], s[2]))

-----------------------------------------------------------------------------
(* The small kernels between the blocks of a decoder layer (kernels.rs):   *)
(* gates, splits of fused projections, in-place updates, and the argmax    *)
(* that picks the next token of each row.                                  *)

CONSTANTS
  GateShapes,   \* <<n, B>>
  SplitShapes,  \* <<n_q, head_dim, B>>
  VocabShapes   \* <<B, vocab>>

(* Cells of a B x n grid whose element i of row b combines the row-major    *)
(* element with a per-column one.                                           *)
PerColumn(ok, n, B) ==
  Simple(ok,
    {<<b * n + i, <<b * n + i, i>>>> : b \in Upto(B), i \in Upto(n)},
    {<<g[2] * n + g[1], <<g[2] * n + g[1], g[1]>>, g, 0>> : g \in GuardedGrid(n, 32) \X Upto(B)})

(* gate_h = softplus(alpha + dt_bias) * ssm_a; beta_sig = sigmoid(beta).    *)
ssm_apply_gate_batched_f32(n, B) == PerColumn(n > 0 /\ B > 0, n, B)
ssm_apply_gate_f32(n) == PerColumn(n > 0, n, 1)

(* qg holds, a head, its query and then its gate.                           *)
split_qg_per_head_batched_f32(n_q, hd, B) ==
  LET Half(h) ==
        Part({<<(b * n_q + n) * hd + i, ((b * n_q + n) * 2 + h) * hd + i>>
                : b \in Upto(B), n \in Upto(n_q), i \in Upto(hd)},
             {<<b * (n_q * hd) + n * hd + i, b * (n_q * 2 * hd) + n * 2 * hd + h * hd + i, <<b, n, i>>, 0>>
                : b \in Upto(B), n \in Upto(n_q), i \in Upto(hd)})
  IN  Kernel(n_q > 0 /\ hd > 0 /\ B > 0, <<Half(0), Half(1)>>, <<>>)
split_qg_per_head_f32(n_q, hd) == split_qg_per_head_batched_f32(n_q, hd, 1)

(* A fused row of q, k and v: thread gid copies element gid to its buffer.  *)
split_qkv_f32(q_len, k_len, v_len) ==
  LET grid == GuardedGrid(q_len + k_len + v_len, 64)
  IN  Kernel(q_len > 0 /\ k_len > 0 /\ v_len > 0,
        <<Part({<<i, i>> : i \in Upto(q_len)}, {<<g, g, g, 0>> : g \in {x \in grid : x < q_len}}),
          Part({<<i, q_len + i>> : i \in Upto(k_len)},
               {<<g - q_len, g, g, 0>> : g \in {x \in grid : q_len <= x /\ x < q_len + k_len}}),
          Part({<<i, q_len + k_len + i>> : i \in Upto(v_len)},
               {<<g - q_len - k_len, g, g, 0>> : g \in {x \in grid : q_len + k_len <= x}})>>, <<>>)

weighted_add_inplace_f32(n) == PerColumn(n > 0, n, 1)
zero_f32(n) == PerColumn(n > 0, n, 1)
sigmoid_mul_inplace_f32(n) == PerColumn(n > 0, n, 1)
sigmoid_mul_inplace_batched_f32(n, B) == PerColumn(n > 0 /\ B > 0, n, B)

(* A threadgroup a row: 256 strided threads keep their largest logit, and a *)
(* tree over the pairs (value, index) brings the row's largest to slot 0.   *)
argmax_batched_f32(B, vocab) ==
  LET best == {<<p[1], p[2]>> : p \in Strided(256, vocab)}
      tree == {r[1] : r \in TreeRoutes(256, 8)}
  IN  Kernel(B > 0 /\ vocab > 0,
        <<Part({<<b, b * vocab + i>> : b \in Upto(B), i \in Upto(vocab)},
               {<<b, b * vocab + p[2], b, p[1]>> : b \in Upto(B), p \in {q \in best : q[1] \in tree}})>>,
        <<TreeArray(256, 8)>>)

GlueNext ==
  /\ job = NoJob
  /\ \/ \E s \in GateShapes :
          \/ Launch("apply_gate", s, ssm_apply_gate_f32(s[1]))
          \/ Launch("apply_gate_batched", s, ssm_apply_gate_batched_f32(s[1], s[2]))
          \/ Launch("weighted_add_inplace", s, weighted_add_inplace_f32(s[1]))
          \/ Launch("zero", s, zero_f32(s[1]))
          \/ Launch("sigmoid_mul", s, sigmoid_mul_inplace_f32(s[1]))
          \/ Launch("sigmoid_mul_batched", s, sigmoid_mul_inplace_batched_f32(s[1], s[2]))
     \/ \E s \in SplitShapes :
          \/ Launch("split_qg", s, split_qg_per_head_f32(s[1], s[2]))
          \/ Launch("split_qg_batched", s, split_qg_per_head_batched_f32(s[1], s[2], s[3]))
          \/ Launch("split_qkv", s, split_qkv_f32(s[1], s[2], s[3]))
     \/ \E s \in VocabShapes : Launch("argmax", s, argmax_batched_f32(s[1], s[2]))

-----------------------------------------------------------------------------
(* The dense matrix products of the Metal backend (kernels.rs).  GEMMs     *)
(* work on 8 x 8 fragments that a whole simdgroup loads and multiplies: a  *)
(* cell is the offset of a fragment of C, a term the offsets of the        *)
(* fragments of A and B.  SGEMVs work on elements.                         *)

CONSTANTS
  GemmShapes,  \* <<M, K, N>>
  GemvShapes   \* <<K, N>>

Tiled(M, K, N, m, n) == M % m = 0 /\ K % 8 = 0 /\ N % n = 0

(* C = A B by fragments, for given layouts of A and B.                      *)
Product(M, K, N, A(_, _), B(_, _)) ==
  {<<8 * i * N + 8 * j, <<A(8 * i, 8 * l), B(8 * l, 8 * j)>>>>
     : i \in Quotients(M, 8), j \in Quotients(N, 8), l \in Quotients(K, 8)}

(* 16 simdgroups of a threadgroup: two rows of eight, four fragments each.  *)
(* Simdgroups past the matrix return.                                       *)
WideGroups(M, N) ==
  {g \in {<<16 * y + 8 * (s \div 8), 256 * x + 32 * (s % 8)>> :
            x \in Quotients(N, 256), y \in Quotients(M, 16), s \in Upto(16)}
     : g[1] < M /\ g[2] < N}
WideSteps(M, K, N, A(_, _), B(_, _)) ==
  {<<sg[1] * N + sg[2] + 8 * j, <<A(sg[1], k), B(k, sg[2] + 8 * j)>>, sg, k>>
     : sg \in WideGroups(M, N), j \in Upto(4), k \in From(0, 8, K)}

(* 8 simdgroups in a row, `per` fragments each.                             *)
RowSteps(M, K, N, per) ==
  LET wide == 64 * per
      sgs == {<<8 * y, wide * x + 8 * per * s>> :
                x \in Quotients(N, wide), y \in Quotients(M, 8), s \in Upto(8)}
  IN  {<<sg[1] * N + sg[2] + 8 * j, <<sg[1] * K + k, k * N + sg[2] + 8 * j>>, sg, k>>
         : sg \in {g \in sgs : g[1] < M /\ g[2] < N}, j \in Upto(per), k \in From(0, 8, K)}

RowMajor(M, K, N) ==
  LET A(i, k) == i * K + k
      B(k, j) == k * N + j
  IN  Product(M, K, N, A, B)

matmul_simdgroup_f32_coarsened_wide(M, K, N) ==
  LET A(i, k) == i * K + k
      B(k, j) == k * N + j
  IN  Simple(Tiled(M, K, N, 16, 256), RowMajor(M, K, N), WideSteps(M, K, N, A, B))

(* Operands in bfloat16, accumulated and stored in float.                   *)
matmul_bf16_in_f32_out(M, K, N) == matmul_simdgroup_f32_coarsened_wide(M, K, N)

(* B stored as N x K.                                                       *)
matmul_simdgroup_f32_b_t(M, K, N) ==
  LET A(i, k) == i * K + k
      B(k, j) == j * K + k
  IN  Simple(Tiled(M, K, N, 16, 256), Product(M, K, N, A, B), WideSteps(M, K, N, A, B))

(* A stored as K x M.                                                       *)
matmul_simdgroup_f32_a_t(M, K, N) ==
  LET A(i, k) == k * M + i
      B(k, j) == k * N + j
  IN  Simple(Tiled(M, K, N, 16, 256), Product(M, K, N, A, B), WideSteps(M, K, N, A, B))

(* The 16 x 256 tile of fragments goes through threadgroup memory; after    *)
(* the barrier 512 threads store eight elements each with their bias (an    *)
(* aligned row of eight, like a row of a fragment, counts as one cell).     *)
matmul_simdgroup_f32_coarsened_wide_bias(M, K, N) ==
  LET A(i, k) == i * K + k
      B(k, j) == k * N + j
      groups == Quotients(N, 256) \X Quotients(M, 16)
      TileBase(sg) == 8 * (sg \div 8) * 256 + 32 * (sg % 8)
      stores == {<<g, lid, 8 * lid>> : g \in groups, lid \in Upto(512)}
      Row(s) == 16 * s[1][2] + (s[3] \div 256)
      Col(s) == 256 * s[1][1] + (s[3] % 256)
      inside == {s \in stores : Row(s) < M /\ Col(s) < N}
  IN  Kernel(Tiled(M, K, N, 16, 256),
             <<Part(RowMajor(M, K, N), WideSteps(M, K, N, A, B)),
               Part({<<i * N + j, <<(i % 16) * 256 + (j % 256), j>>>> : i \in Upto(M), j \in From(0, 8, N)},
                    {<<Row(s) * N + Col(s), <<(s[3] \div 256) * 256 + (s[3] % 256), Col(s)>>, <<s[1], s[2]>>, 0>>
                       : s \in inside})>>,
             <<Array({<<0, <<g, TileBase(sg) + 256 * r + 8 * f>>, <<g, sg>>>>
                        : g \in groups, sg \in Upto(16), r \in Upto(8), f \in Upto(4)},
                     {<<1, <<s[1], s[3]>>, <<s[1], s[2] \div 32>>>> : s \in inside})>>)

matmul_simdgroup_f32_coarsened(M, K, N) ==
  Simple(Tiled(M, K, N, 8, 256), RowMajor(M, K, N), RowSteps(M, K, N, 4))

matmul_simdgroup_f32_multisg(M, K, N) ==
  Simple(Tiled(M, K, N, 8, 64), RowMajor(M, K, N), RowSteps(M, K, N, 1))

matmul_simdgroup_bf16(M, K, N) == matmul_simdgroup_f32_multisg(M, K, N)

(* Casts of A and B in place, the bfloat16 product, a cast of C.            *)
matmul_simdgroup_f32_via_bf16(M, K, N) == matmul_simdgroup_bf16(M, K, N)

(* One simdgroup and one fragment a threadgroup.                            *)
matmul_simdgroup_f32(M, K, N) ==
  Simple(Tiled(M, K, N, 8, 8), RowMajor(M, K, N),
         {<<8 * y * N + 8 * x, <<8 * y * K + k, k * N + 8 * x>>, <<x, y>>, k>>
            : x \in Quotients(N, 8), y \in Quotients(M, 8), k \in From(0, 8, K)})

(* The threadgroup number encodes the row and the column of the fragment;   *)
(* W is N x K.                                                              *)
sgemm_f32_simdgroup_matrix(M, K, N) ==
  LET A(i, k) == i * K + k
      B(k, j) == j * K + k
      Row(tg) == 8 * (tg \div (N \div 8))
      Col(tg) == 8 * (tg % (N \div 8))
  IN  Simple(M * N * K > 0 /\ Tiled(M, K, N, 8, 8), Product(M, K, N, A, B),
             {<<Row(tg) * N + Col(tg), <<Row(tg) * K + k, Col(tg) * K + k>>, tg, k>>
                : tg \in Upto((M \div 8) * (N \div 8)), k \in From(0, 8, K)})

(* ------------------------- vector times matrix -------------------------- *)

Dot(K, N, W(_, _)) == {<<n, <<W(n, k), k>>>> : n \in Upto(N), k \in Upto(K)}

(* One thread a column of the K x N matrix.                                 *)
sgemv_f32_simd(K, N) ==
  LET W(n, k) == k * N + n
  IN  Simple(K > 0 /\ N > 0, Dot(K, N, W),
             {<<n, <<k * N + n, k>>, n, k>> : n \in GuardedGrid(N, 64), k \in Upto(K)})

(* One simdgroup a row of the N x K matrix; lane 0 stores the simd_sum.     *)
sgemv_f32_lcpp_simd(K, N) ==
  LET W(n, k) == n * K + k
  IN  Simple(K > 0 /\ N > 0, Dot(K, N, W),
             {<<row, <<row * K + p[2], p[2]>>, row, p>> : row \in Upto(N), p \in Strided(32, K)})

(* Four simdgroups a threadgroup share x: 128 threads copy it, a barrier,   *)
(* and only then do the simdgroups past row N return.                       *)
sgemv_f32_cached_x(K, N) ==
  LET W(n, k) == n * K + k
      groups == Upto(CeilDiv(N, 4))
      rows == {r \in groups \X Upto(4) : 4 * r[1] + r[2] < N}
  IN  Kernel(K > 0 /\ N > 0 /\ K <= 4096,
             <<Part(Dot(K, N, W),
                    {<<4 * r[1] + r[2], <<(4 * r[1] + r[2]) * K + p[2], p[2]>>, r, p>>
                       : r \in rows, p \in Strided(32, K)})>>,
             <<Array({<<0, <<g, p[2]>>, p[1]>> : g \in groups, p \in Strided(128, K)},
                     {<<1, <<r[1], p[2]>>, 32 * r[2] + p[1]>> : r \in rows, p \in Strided(32, K)})>>)

MatmulNext ==
  /\ job = NoJob
  /\ \/ \E s \in GemmShapes : LET M == s[1] K == s[2] N == s[3] IN
          \/ Launch("coarsened_wide", s, matmul_simdgroup_f32_coarsened_wide(M, K, N))
          \/ Launch("bf16_in_f32_out", s, matmul_bf16_in_f32_out(M, K, N))
          \/ Launch("b_t", s, matmul_simdgroup_f32_b_t(M, K, N))
          \/ Launch("a_t", s, matmul_simdgroup_f32_a_t(M, K, N))
          \/ Launch("wide_bias", s, matmul_simdgroup_f32_coarsened_wide_bias(M, K, N))
          \/ Launch("coarsened", s, matmul_simdgroup_f32_coarsened(M, K, N))
          \/ Launch("multisg", s, matmul_simdgroup_f32_multisg(M, K, N))
          \/ Launch("bf16", s, matmul_simdgroup_bf16(M, K, N))
          \/ Launch("via_bf16", s, matmul_simdgroup_f32_via_bf16(M, K, N))
          \/ Launch("simdgroup", s, matmul_simdgroup_f32(M, K, N))
          \/ Launch("simdgroup_matrix", s, sgemm_f32_simdgroup_matrix(M, K, N))
     \/ \E s \in GemvShapes :
          \/ Launch("sgemv_simd", s, sgemv_f32_simd(s[1], s[2]))
          \/ Launch("sgemv_lcpp_simd", s, sgemv_f32_lcpp_simd(s[1], s[2]))
          \/ Launch("sgemv_cached_x", s, sgemv_f32_cached_x(s[1], s[2]))
=============================================================================
