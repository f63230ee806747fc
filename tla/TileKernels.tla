---------------------------- MODULE TileKernels ----------------------------
(***************************************************************************)
(* The quantised matrix products of the Metal backend (kernels.rs): a      *)
(* threadgroup stages a strip of 32 columns of its rows of X and, decoded, *)
(* of its rows of W in threadgroup memory, waits at a barrier, multiplies  *)
(* 8 x 8 fragments of the two strips, and waits again.                     *)
(*                                                                         *)
(* Three parts are judged: the slots of the strip of X and of the strip of *)
(* W with the element that must be there, <<tile, column, slot>>, and the  *)
(* fragments of the output with the slots of the fragments they sum.  Runs *)
(* of consecutive elements that one thread copies count as one slot.       *)
(***************************************************************************)
EXTENDS GpuLaunch

CONSTANTS
  TileShapes,  \* <<M, K, N>>
  BlockShapes  \* <<M, K, N>> for the 64 x 64 tiles

(* The block formats of quantised weights, as the GGUF reader decodes them *)
(* (rustorch-gguf/src/dequant.rs): the definition that every quantised     *)
(* kernel is held to.  The value of a weight is determined by where its    *)
(* bits come from: the bytes and shifts of its quant, and the bits of its  *)
(* scale and minimum.  Bytes are offsets from the start of the tensor.     *)

QK_K == 256

(* The 6-bit scale and minimum of sub-block j in the 12 scale bytes:        *)
(* <<byte, shift, bits>> with the upper two bits elsewhere when j >= 4.     *)
unpack_q4_k_sc_m(j) ==
  IF j < 4 THEN <<<<j, 0, 6>>, <<j + 4, 0, 6>>>>
  ELSE LET i == j - 4 IN
       <<<<i + 8, 0, 4, i, 6>>, <<i + 8, 4, 4, i + 4, 6>>>>

(* Weight p of the block at byte off.                                       *)
dequant_q8_0(off, p) == <<off + 2 + p, off>>

dequant_q4_k(off, p) ==
  LET j == p \div 32
      k == p % 32
  IN  <<off + 16 + 32 * (j \div 2) + k, 4 * (j % 2), off, unpack_q4_k_sc_m(j)>>

dequant_q5_k(off, p) ==
  LET j == p \div 32
      k == p % 32
  IN  <<off + 48 + 32 * (j \div 2) + k, 4 * (j % 2), off + 16 + k, j, off, unpack_q4_k_sc_m(j)>>

(* 16 scales of 6 bits: four low bits and two high bits.                    *)
q3_k_scale(is) ==
  LET aux == is \div 4
      i == is % 4
  IN  <<IF aux % 2 = 0 THEN i ELSE i + 4, IF aux < 2 THEN 0 ELSE 4, 8 + i, 2 * aux>>

dequant_q3_k(off, p) ==
  LET half == p \div 128
      j == (p % 128) \div 32
      l == p % 32
  IN  <<off + 32 + 32 * half + l, 2 * j, off + l, 4 * half + j, off + 108, q3_k_scale(p \div 16)>>

dequant_q6_k(off, p) ==
  LET half == p \div 128
      q == (p % 128) \div 32
      l == p % 32
  IN  <<off + 64 * half + l + 32 * (q % 2), 4 * (q \div 2),
        off + 128 + 32 * half + l, 2 * q, off + 208, off + 192 + 8 * half + 2 * q + (l \div 16)>>

(* Weight k of the row of blocks that starts at byte row.                   *)
Q8_0(row, k) == dequant_q8_0(row + 34 * (k \div 32), k % 32)
Q4_K(row, k) == dequant_q4_k(row + 144 * (k \div QK_K), k % QK_K)
Q5_K(row, k) == dequant_q5_k(row + 176 * (k \div QK_K), k % QK_K)
Q3_K(row, k) == dequant_q3_k(row + 110 * (k \div QK_K), k % QK_K)
Q6_K(row, k) == dequant_q6_k(row + 210 * (k \div QK_K), k % QK_K)

(* The same scales, as the shaders unpack them.                             *)
sc6_m6(sb) ==
  IF sb < 4 THEN <<<<sb, 0, 6>>, <<sb + 4, 0, 6>>>>
            ELSE <<<<sb - 4 + 8, 0, 4, sb - 4, 6>>, <<sb - 4 + 8, 4, 4, sb - 4 + 4, 6>>>>

Q3Scale(sb) ==
  CASE sb < 4  -> <<sb, 0, 8 + sb, 0>>
    [] sb \in 4 .. 7  -> <<4 + (sb - 4), 0, 8 + (sb - 4), 2>>
    [] sb \in 8 .. 11 -> <<sb - 8, 4, 8 + (sb - 8), 4>>
    [] sb >= 12 -> <<4 + (sb - 12), 4, 8 + (sb - 12), 6>>

-----------------------------------------------------------------------------

RowBytes(K, weights, bytes) == (K \div weights) * bytes

(* What a tiled product X W^T must stage and sum; Weight(t, n, k) is where  *)
(* W[n, k] is for the rows of tile t.                                       *)
Strips(M, K, N, BM, BN, run, Weight(_, _, _)) ==
  LET tiles == Quotients(M, BM) \X Quotients(N, BN)
      strips == From(0, 32, K)
  IN  <<{<<<<t, k0, 32 * r + c>>, (BM * t[1] + r) * K + k0 + c>>
           : t \in tiles, k0 \in strips, r \in Upto(BM), c \in From(0, run, 32)},
        {<<<<t, k0, 32 * r + c>>, Weight(t[1], BN * t[2] + r, k0 + c)>>
           : t \in tiles, k0 \in strips, r \in Upto(BN), c \in From(0, 8, 32)},
        {<<(BM * t[1] + 8 * i) * N + BN * t[2] + 8 * j, <<t, k0, 256 * i + 8 * f, 256 * j + 8 * f>>>>
           : t \in tiles, k0 \in strips, i \in Quotients(BM, 8), j \in Quotients(BN, 8), f \in Upto(4)}>>

(* The accesses of one threadgroup to a strip: columns k0 are written in    *)
(* one phase and read, eight rows of a fragment, in the next, after the     *)
(* barrier.                                                                 *)
FirstTile(part) == {d \in part : d[1][1] = <<0, 0>>}
(* Mutant: without the barrier between the two.                             *)
MutStrip(staged, summed, operand, run) ==
  Array({<<d[1][2] \div 16, d[1][3], d[3]>> : d \in FirstTile(staged)},
        {<<d[2][2] \div 16, d[2][operand] + 32 * i + run * q, d[3]>>
           : d \in {e \in summed : e[2][1] = <<0, 0>>}, i \in Upto(8), q \in Upto(8 \div run)})
Strip(staged, summed, operand, run) ==
  Array({<<d[1][2] \div 16, d[1][3], d[3]>> : d \in FirstTile(staged)},
        {<<1 + d[2][2] \div 16, d[2][operand] + 32 * i + run * q, d[3]>>
           : d \in {e \in summed : e[2][1] = <<0, 0>>}, i \in Upto(8), q \in Upto(8 \div run)})

Tile(ok, ask, did, run) ==
  Kernel(ok, [i \in 1 .. 3 |-> Part(ask[i], did[i])],
         <<Strip(did[1], did[3], 3, run), Strip(did[2], did[3], 4, 8)>>)

Divides(M, K, N, m, n, k) == M * N * K > 0 /\ M % m = 0 /\ N % n = 0 /\ K % k = 0

(* --------------------------- the geometries ----------------------------- *)

(* 8 x 8: a single simdgroup; lane stages the run of eight of row lane / 4. *)
(* Decode[t, n, k0, l] is what it decodes for W[n, k0 + l].                 *)
EightByEight(M, K, N, Decode) ==
  LET tiles == {<<tg \div (N \div 8), tg % (N \div 8)>> : tg \in Upto((M \div 8) * (N \div 8))}
      strips == From(0, 32, K)
      Row(lane) == lane \div 4
      Run(lane) == 8 * (lane % 4)
  IN  <<{<<<<t, k0, 32 * Row(lane) + Run(lane)>>, (8 * t[1] + Row(lane)) * K + k0 + Run(lane), lane, 0>>
           : t \in tiles, k0 \in strips, lane \in Lanes},
        {<<<<t, k0, 32 * Row(lane) + Run(lane)>>, Decode[t[1], 8 * t[2] + Row(lane), k0, Run(lane)], lane, 0>>
           : t \in tiles, k0 \in strips, lane \in Lanes},
        {<<8 * t[1] * N + 8 * t[2], <<t, k0, 8 * f, 8 * f>>, -1, 0>>
           : t \in tiles, k0 \in strips, f \in Upto(4)}>>

(* 8 x BN, BN = 64 or 128: four simdgroups; two elements of X a thread, and *)
(* a half or a whole row of W; a simdgroup sums BN / 32 fragments.          *)
EightByWide(M, K, N, BN, Decode) ==
  LET tiles == Quotients(M, 8) \X Quotients(N, BN)
      strips == From(0, 32, K)
      share == 128 \div BN
      len == 32 \div share
      Row(tid) == tid \div share
      Col(t, sg, j) == BN * t[2] + sg * (BN \div 4) + 8 * j
  IN  <<{<<<<t, k0, 32 * (tid \div 16) + 2 * (tid % 16)>>,
         (8 * t[1] + (tid \div 16)) * K + k0 + 2 * (tid % 16), tid, 0>>
           : t \in tiles, k0 \in strips, tid \in {u \in Upto(128) : u \div 16 < 8}},
        {<<<<t, k0, 32 * Row(tid) + (tid % share) * len + c>>,
              Decode[t[1], BN * t[2] + Row(tid), k0, (tid % share) * len + c], tid, 0>>
           : t \in tiles, k0 \in strips, tid \in Upto(128), c \in From(0, 8, len)},
        {<<8 * s[1][1] * N + Col(s[1], s[2], s[3]),
           <<s[1], k0, 8 * f, s[2] * (BN \div 4) * 32 + 8 * f + 8 * s[3] * 32>>, -1 - s[2], 0>>
         : s \in {u \in tiles \X Upto(4) \X Upto(BN \div 32) :
                    8 * u[1][1] + 7 < M /\ Col(u[1], u[2], u[3]) + 7 < N},
           k0 \in strips, f \in Upto(4)}>>

(* 64 x 64: four simdgroups, 4 x 4 fragments each; half a row a thread.     *)
SixtyFour(M, K, N, Decode) ==
  LET tiles == {<<tg \div (N \div 64), tg % (N \div 64)>> : tg \in Upto((M \div 64) * (N \div 64))}
      strips == From(0, 32, K)
      Slot(tid, c) == 32 * (tid \div 2) + 16 * (tid % 2) + c
      CRow(t, s) == 64 * t[1] + 32 * (s[1] \div 2) + 8 * s[2]
      CCol(t, s) == 64 * t[2] + 32 * (s[1] % 2) + 8 * s[3]
      frags == Upto(4) \X Upto(4) \X Upto(4)
  IN  <<{<<<<t, k0, Slot(tid, c)>>, (64 * t[1] + (tid \div 2)) * K + k0 + 16 * (tid % 2) + c, tid, 0>>
           : t \in tiles, k0 \in strips, tid \in Upto(128), c \in {0, 8}},
        {<<<<t, k0, Slot(tid, c)>>, Decode[t[1], 64 * t[2] + (tid \div 2), k0, 16 * (tid % 2) + c], tid, 0>>
           : t \in tiles, k0 \in strips, tid \in Upto(128), c \in {0, 8}},
        {<<CRow(u[1], u[2]) * N + CCol(u[1], u[2]),
           <<u[1], k0, (32 * (u[2][1] \div 2) + 8 * u[2][2]) * 32 + 8 * f,
                (32 * (u[2][1] % 2) + 8 * u[2][3]) * 32 + 8 * f>>, -1 - u[2][1], 0>>
         : u \in {v \in tiles \X frags : CRow(v[1], v[2]) + 7 < M /\ CCol(v[1], v[2]) + 7 < N},
           k0 \in strips, f \in Upto(4)}>>

(* ---------------- decoding a strip, as the shaders do ------------------- *)

StripQ8_0(row, k0, l) ==
  LET row_block == row + (k0 \div 32) * 34 IN <<row_block + 2 + l, row_block>>


StripQ4_K(row, k0, l) ==
  LET sb == (k0 % 256) \div 32
      row_block == row + (k0 \div 256) * 144
  IN  <<row_block + 16 + (sb \div 2) * 32 + l, IF sb % 2 # 0 THEN 4 ELSE 0, row_block, sc6_m6(sb)>>

StripQ5_K(row, k0, l) ==
  LET sb == (k0 % 256) \div 32
      row_block == row + (k0 \div 256) * 176
  IN  <<row_block + 48 + (sb \div 2) * 32 + l, IF sb % 2 # 0 THEN 4 ELSE 0,
        row_block + 16 + (l \div 16) * 16 + (l % 16), sb, row_block, sc6_m6(sb)>>

StripQ6_K(row, k0, l) ==
  LET sb_row == (k0 % 256) \div 32
      half == sb_row \div 4
      row_in_half == sb_row % 4
      row_block == row + (k0 \div 256) * 210
  IN  <<row_block + half * 64 + l + (IF row_in_half % 2 = 1 THEN 32 ELSE 0),
        IF row_in_half >= 2 THEN 4 ELSE 0,
        row_block + 128 + half * 32 + l, 2 * row_in_half,
        row_block + 208, row_block + 192 + half * 8 + 2 * row_in_half + (l \div 16)>>

StripQ3_K(row, k0, l) ==
  LET sb == (k0 % 256) \div 16 + (l \div 16)
      half == sb \div 8
      sb_in_half == sb % 8
      row_block == row + (k0 \div 256) * 110
  IN  <<row_block + 32 + half * 32 + (sb_in_half % 2) * 16 + (l % 16), 2 * (sb_in_half \div 2),
        row_block + (sb_in_half % 2) * 16 + (l % 16), half * 4 + (sb_in_half \div 2),
        row_block + 108, Q3Scale(sb)>>

(* ------------------------------ the kernels ----------------------------- *)

sgemm_q8_0_f32_simdgroup_matrix(M, K, N) ==
  LET stride == RowBytes(K, 32, 34)
      Weight(t, n, k) == Q8_0(n * stride, k)
      Decode == [t \in Nat, n \in Nat, k0 \in Nat, l \in Nat |-> StripQ8_0(n * stride, k0, l)]
  IN  Tile(Divides(M, K, N, 8, 8, 32), Strips(M, K, N, 8, 8, 8, Weight), EightByEight(M, K, N, Decode), 8)

sgemm_q8_0_f32_8x64_half(M, K, N) ==
  LET stride == RowBytes(K, 32, 34)
      Weight(t, n, k) == Q8_0(n * stride, k)
      Decode == [t \in Nat, n \in Nat, k0 \in Nat, l \in Nat |-> StripQ8_0(n * stride, k0, l)]
  IN  Tile(Divides(M, K, N, 8, 64, 32), Strips(M, K, N, 8, 64, 2, Weight), EightByWide(M, K, N, 64, Decode), 2)

sgemm_q4_k_f32_simdgroup_matrix(M, K, N) ==
  LET stride == RowBytes(K, 256, 144)
      Weight(t, n, k) == Q4_K(n * stride, k)
      Decode == [t \in Nat, n \in Nat, k0 \in Nat, l \in Nat |-> StripQ4_K(n * stride, k0, l)]
  IN  Tile(Divides(M, K, N, 8, 8, 256), Strips(M, K, N, 8, 8, 8, Weight), EightByEight(M, K, N, Decode), 8)

(* Expert-major: the rows of row tile t belong to one expert, whose matrix  *)
(* starts expert_stride bytes after the previous one's.                     *)
tile_expert_ids(t) == (t + 1) % 2
ExpertRow(t, n, N, row_bytes) == (tile_expert_ids(t) * N + n) * row_bytes
ExpertBase(t, n, stride, row_bytes) == tile_expert_ids(t) * stride + n * row_bytes

sgemm_q4_k_f32_expert_major_8x8(M, K, N) ==
  LET bytes == RowBytes(K, 256, 144)
      Weight(t, n, k) == Q4_K(ExpertRow(t, n, N, bytes), k)
      Decode == [t \in Nat, n \in Nat, k0 \in Nat, l \in Nat |-> StripQ4_K(ExpertBase(t, n, N * bytes, bytes), k0, l)]
  IN  Tile(Divides(M, K, N, 8, 8, 256), Strips(M, K, N, 8, 8, 8, Weight), EightByEight(M, K, N, Decode), 8)

sgemm_q5_k_f32_expert_major_8x8(M, K, N) ==
  LET bytes == RowBytes(K, 256, 176)
      Weight(t, n, k) == Q5_K(ExpertRow(t, n, N, bytes), k)
      Decode == [t \in Nat, n \in Nat, k0 \in Nat, l \in Nat |-> StripQ5_K(ExpertBase(t, n, N * bytes, bytes), k0, l)]
  IN  Tile(Divides(M, K, N, 8, 8, 256), Strips(M, K, N, 8, 8, 8, Weight), EightByEight(M, K, N, Decode), 8)

ExpertMajorQ4Wide(M, K, N, BN) ==
  LET bytes == RowBytes(K, 256, 144)
      Weight(t, n, k) == Q4_K(ExpertRow(t, n, N, bytes), k)
      Decode == [t \in Nat, n \in Nat, k0 \in Nat, l \in Nat |-> StripQ4_K(ExpertBase(t, n, N * bytes, bytes), k0, l)]
  IN  Tile(Divides(M, K, N, 8, BN, 256), Strips(M, K, N, 8, BN, 2, Weight), EightByWide(M, K, N, BN, Decode), 2)

sgemm_q4_k_f32_expert_major_8x64_half(M, K, N) == ExpertMajorQ4Wide(M, K, N, 64)
sgemm_q4_k_f32_expert_major_8x128_half(M, K, N) == ExpertMajorQ4Wide(M, K, N, 128)

sgemm_q5_k_f32_expert_major_8x64_half(M, K, N) ==
  LET bytes == RowBytes(K, 256, 176)
      Weight(t, n, k) == Q5_K(ExpertRow(t, n, N, bytes), k)
      Decode == [t \in Nat, n \in Nat, k0 \in Nat, l \in Nat |-> StripQ5_K(ExpertBase(t, n, N * bytes, bytes), k0, l)]
  IN  Tile(Divides(M, K, N, 8, 64, 256), Strips(M, K, N, 8, 64, 2, Weight), EightByWide(M, K, N, 64, Decode), 2)

sgemm_q6_k_f32_simdgroup_matrix(M, K, N) ==
  LET stride == RowBytes(K, 256, 210)
      Weight(t, n, k) == Q6_K(n * stride, k)
      Decode == [t \in Nat, n \in Nat, k0 \in Nat, l \in Nat |-> StripQ6_K(n * stride, k0, l)]
  IN  Tile(Divides(M, K, N, 8, 8, 256), Strips(M, K, N, 8, 8, 8, Weight), EightByEight(M, K, N, Decode), 8)

sgemm_q3_k_f32_simdgroup_matrix(M, K, N) ==
  LET stride == RowBytes(K, 256, 110)
      Weight(t, n, k) == Q3_K(n * stride, k)
      Decode == [t \in Nat, n \in Nat, k0 \in Nat, l \in Nat |-> StripQ3_K(n * stride, k0, l)]
  IN  Tile(Divides(M, K, N, 8, 8, 256), Strips(M, K, N, 8, 8, 8, Weight), EightByEight(M, K, N, Decode), 8)

sgemm_q4_k_f32_simdgroup_matrix_64(M, K, N) ==
  LET stride == RowBytes(K, 256, 144)
      Weight(t, n, k) == Q4_K(n * stride, k)
      Decode == [t \in Nat, n \in Nat, k0 \in Nat, l \in Nat |-> StripQ4_K(n * stride, k0, l)]
  IN  Tile(Divides(M, K, N, 64, 64, 256), Strips(M, K, N, 64, 64, 8, Weight), SixtyFour(M, K, N, Decode), 8)

sgemm_q6_k_f32_simdgroup_matrix_64(M, K, N) ==
  LET stride == RowBytes(K, 256, 210)
      Weight(t, n, k) == Q6_K(n * stride, k)
      Decode == [t \in Nat, n \in Nat, k0 \in Nat, l \in Nat |-> StripQ6_K(n * stride, k0, l)]
  IN  Tile(Divides(M, K, N, 64, 64, 256), Strips(M, K, N, 64, 64, 8, Weight), SixtyFour(M, K, N, Decode), 8)

sgemm_q3_k_f32_simdgroup_matrix_64(M, K, N) ==
  LET stride == RowBytes(K, 256, 110)
      Weight(t, n, k) == Q3_K(n * stride, k)
      Decode == [t \in Nat, n \in Nat, k0 \in Nat, l \in Nat |-> StripQ3_K(n * stride, k0, l)]
  IN  Tile(Divides(M, K, N, 64, 64, 256), Strips(M, K, N, 64, 64, 8, Weight), SixtyFour(M, K, N, Decode), 8)

(* Two matrices against the same strip of X: gate and up.                   *)
sgemm_q4_k_f32_gate_up_64(M, K, N) ==
  LET gate == sgemm_q4_k_f32_simdgroup_matrix_64(M, K, N)
      up == gate
  IN  Kernel(Divides(M, K, N, 64, 64, 256), gate.parts \o SubSeq(up.parts, 2, 3),
             gate.shared \o SubSeq(up.shared, 2, 2))

(* Where thread tid stages its f-th run of W and its run of X (lcpp_ported).*)
SaSlot(tid, f) == <<8 * (2 * (tid % 2) + f) + ((tid \div 2) \div 8), (tid \div 2) % 8>>
SbSlot(tid) == <<4 * (tid % 4) + ((tid \div 4) \div 8), (tid \div 4) % 8>>

(* 32 x 64, strips kept as 8 x 8 blocks: block 8 f + j of sa is K x N       *)
(* (f-th run of k, j-th run of rows of W, one row a column), block 4 f + i  *)
(* of sb is M x K.  Act(t, r) is the row of activations that row r of tile  *)
(* t multiplies, and Out(t, row, column) where the tile's element goes.     *)
BlockMMA(ok, tiles, K, Weight(_, _, _), Decode(_, _, _, _), Act(_, _), ActRow(_, _), Out(_, _, _)) ==
  LET strips == From(0, 32, K)
      Element(row, k) == IF row = -1 THEN -1 ELSE row * K + k
      CRow(sg, i) == (sg \div 2) * 16 + (i \div 4) * 8
      CCol(sg, i) == (sg % 2) * 32 + (i % 4) * 8
      sa == {<<<<t, k0, SaSlot(tid, f)>>,
               Decode(t, 64 * t[2] + (tid \div 2), k0, 16 * (tid % 2) + 8 * f), tid, 0>>
               : t \in tiles, k0 \in strips, tid \in Upto(128), f \in Upto(2)}
      sb == {<<<<t, k0, SbSlot(tid)>>, Element(ActRow(t, tid \div 4), k0 + 8 * (tid % 4)), tid, 0>>
               : t \in tiles, k0 \in strips, tid \in Upto(128)}
      mc == {<<Out(t, CRow(sg, i), CCol(sg, i)),
               <<t, k0, 2 * (sg \div 2) + (i \div 4) + 4 * ik, 4 * (sg % 2) + (i % 4) + 8 * ik>>, -1 - sg, 0>>
               : t \in tiles, k0 \in strips, sg \in Upto(4), i \in Upto(8), ik \in Upto(4)}
      some == CHOOSE t \in tiles : TRUE
      Blocks(staged, operand) ==
        Array({<<d[1][2] \div 16, d[1][3], d[3]>> : d \in {e \in staged : e[1][1] = some}},
              {<<1 + d[2][2] \div 16, <<d[2][operand], r>>, d[3]>>
                 : d \in {e \in mc : e[2][1] = some}, r \in Upto(8)})
  IN  Kernel(ok,
             <<Part({<<<<t, k0, <<8 * f + j, r>>>>, Weight(t, 64 * t[2] + 8 * j + r, k0 + 8 * f)>>
                       : t \in tiles, k0 \in strips, f \in Upto(4), j \in Upto(8), r \in Upto(8)}, sa),
               Part({<<<<t, k0, <<4 * f + i, r>>>>, Element(Act(t, 8 * i + r), k0 + 8 * f)>>
                       : t \in tiles, k0 \in strips, f \in Upto(4), i \in Upto(4), r \in Upto(8)}, sb),
               Part({<<Out(t, 8 * i, 8 * j), <<t, k0, 4 * f + i, 8 * f + j>>>>
                       : t \in tiles, k0 \in strips, i \in Upto(4), j \in Upto(8), f \in Upto(4)}, mc)>>,
             <<Blocks(sb, 3), Blocks(sa, 4)>>)

sgemm_q4_k_f32_lcpp_ported(M, K, N) ==
  LET stride == RowBytes(K, 256, 144)
      Weight(t, n, k) == Q4_K(n * stride, k)
      Decode(t, n, k0, l) == StripQ4_K(n * stride, k0, l)
      Act(t, r) == 32 * t[1] + r
      Out(t, row, col) == (32 * t[1] + row) * N + 64 * t[2] + col
  IN  BlockMMA(Divides(M, K, N, 32, 64, 256), Quotients(M, 32) \X Quotients(N, 64), K,
               Weight, Decode, Act, Act, Out)

TileNext ==
  /\ job = NoJob
  /\ \/ \E s \in TileShapes : LET M == s[1] K == s[2] N == s[3] IN
          \/ Launch("q8_0_8x8", s, sgemm_q8_0_f32_simdgroup_matrix(M, K, N))
          \/ Launch("q8_0_8x64", s, sgemm_q8_0_f32_8x64_half(M, K, N))
          \/ Launch("q4_k_8x8", s, sgemm_q4_k_f32_simdgroup_matrix(M, K, N))
          \/ Launch("q4_k_em_8x8", s, sgemm_q4_k_f32_expert_major_8x8(M, K, N))
          \/ Launch("q4_k_em_8x64", s, sgemm_q4_k_f32_expert_major_8x64_half(M, K, N))
          \/ Launch("q4_k_em_8x128", s, sgemm_q4_k_f32_expert_major_8x128_half(M, K, N))
          \/ Launch("q5_k_em_8x8", s, sgemm_q5_k_f32_expert_major_8x8(M, K, N))
          \/ Launch("q5_k_em_8x64", s, sgemm_q5_k_f32_expert_major_8x64_half(M, K, N))
          \/ Launch("q6_k_8x8", s, sgemm_q6_k_f32_simdgroup_matrix(M, K, N))
          \/ Launch("q3_k_8x8", s, sgemm_q3_k_f32_simdgroup_matrix(M, K, N))
     \/ \E s \in BlockShapes : LET M == s[1] K == s[2] N == s[3] IN
          \/ Launch("q4_k_64", s, sgemm_q4_k_f32_simdgroup_matrix_64(M, K, N))
          \/ Launch("q6_k_64", s, sgemm_q6_k_f32_simdgroup_matrix_64(M, K, N))
          \/ Launch("q3_k_64", s, sgemm_q3_k_f32_simdgroup_matrix_64(M, K, N))
          \/ Launch("gate_up_64", s, sgemm_q4_k_f32_gate_up_64(M, K, N))
          \/ Launch("lcpp_ported", s, sgemm_q4_k_f32_lcpp_ported(M, K, N))
=============================================================================
