---------------------------- MODULE WgpuKernels ----------------------------
(***************************************************************************)
(* The WGSL shaders of the portable backend (rustorch-wgpu/src) with the   *)
(* Rust functions that launch them: elementwise and broadcast grids, the   *)
(* one-workgroup-per-row reductions and normalisations.  The dispatches    *)
(* whose shaders index by (wgid.y * nwg.x + wgid.x) may be split over two  *)
(* dimensions, since a device takes at most MaxDim workgroups along one.   *)
(***************************************************************************)
EXTENDS ElementKernels

CONSTANTS
  MaxDim,          \* MAX_DIM, 65535 in the code
  GridLengths,     \* lengths of elementwise dispatches
  BroadcastPairs,  \* <<lhs shape, rhs shape>>
  WgpuRows,        \* <<rows, columns>>
  ArgRows          \* the rows of values that argmax_rows is given

split_dispatch(groups) ==
  IF groups <= MaxDim THEN <<IF groups = 0 THEN 1 ELSE groups, 1>>
                      ELSE <<MaxDim, CeilDiv(groups, MaxDim)>>

(* The threads that pass the guard idx < n, with the idx of each.           *)
SplitGrid(n, width) ==
  LET g == split_dispatch(CeilDiv(n, width))
  IN  {p \in {<<(wg[2] * g[1] + wg[1]) * width + lid, <<wg, lid>>>>
                : wg \in Upto(g[1]) \X Upto(g[2]), lid \in Upto(width)} : p[1] < n}

wgpu_dispatch_binary(lhs, rhs) ==
  Simple(lhs = rhs,
         {<<i, <<"lhs", i, "rhs", i>>>> : i \in Upto(lhs)},
         {<<p[1], <<"lhs", p[1], "rhs", p[1]>>, p[2], 0>> : p \in SplitGrid(lhs, 64)})

wgpu_dispatch_unary(n) ==
  Simple(TRUE, {<<i, i>> : i \in Upto(n)}, {<<p[1], p[1], p[2], 0>> : p \in SplitGrid(n, 64)})

mul_scalar(n) == wgpu_dispatch_unary(n)

(* The first moment, the second and the new parameter are stored by the     *)
(* thread that read the old ones; the grid is not split.                    *)
adamw_shader(n) ==
  LET Old(i) == <<"param", i, "grad", i, "m", i, "v", i>>
      out == {"m", "v", "param_out"}
  IN  Part({<<<<o, i>>, Old(i)>> : o \in out, i \in Upto(n)},
           {<<<<o, gid>>, Old(gid), gid, 0>> : o \in out, gid \in GuardedGrid(n, 256)})

fused_adamw_step(n, grad, m, v) == Kernel(grad = n /\ m = n /\ v = n, <<adamw_shader(n)>>, <<>>)

transpose2d(m, n) ==
  Simple(TRUE,
         {<<j * m + i, i * n + j>> : i \in Upto(m), j \in Upto(n)},
         {<<(p[1] % n) * m + (p[1] \div n), p[1], p[2], 0>> : p \in SplitGrid(m * n, 64)})

(* Scores above the diagonal are replaced by -3.4e38.                       *)
apply_causal_mask(s) ==
  Simple(TRUE,
         {<<i * s + j, IF j > i THEN "masked" ELSE i * s + j>> : i \in Upto(s), j \in Upto(s)},
         {<<p[1], IF (p[1] % s) > (p[1] \div s) THEN "masked" ELSE p[1], p[2], 0>>
            : p \in SplitGrid(s * s, 64)})

(* ------------------------------ broadcasting ---------------------------- *)

MaxBroadcastDims == 8

LeftPadded(shape, n) == [i \in 1 .. n |-> IF i <= n - Len(shape) THEN 1 ELSE shape[i - n + Len(shape)]]

(* The product of shape from dimension i on.                                *)
Volume(shape, i) ==
  LET vol[j \in i .. Len(shape) + 1] == IF j > Len(shape) THEN 1 ELSE shape[j] * vol[j + 1]
  IN  vol[i]

Broadcastable(l, r) ==
  LET n == IF Len(l) > Len(r) THEN Len(l) ELSE Len(r)
  IN  /\ n <= MaxBroadcastDims
      /\ \A i \in 1 .. n : \/ 1 \in {LeftPadded(l, n)[i], LeftPadded(r, n)[i]}
                           \/ LeftPadded(l, n)[i] = LeftPadded(r, n)[i]

broadcast_shape(l, r) ==
  LET n == IF Len(l) > Len(r) THEN Len(l) ELSE Len(r)
      Out == [i \in 1 .. n |-> IF LeftPadded(l, n)[i] = 1 THEN LeftPadded(r, n)[i] ELSE LeftPadded(l, n)[i]]
      Strides(orig) ==
        [i \in 1 .. n |->
          LET o == i - (n - Len(orig))
          IN  IF o < 1 \/ orig[o] = 1 THEN 0 ELSE Volume(orig, o + 1)]
  IN  [out |-> Out, lhs |-> Strides(l), rhs |-> Strides(r)]

Along(coords, strides) ==
  LET sum[i \in 0 .. Len(strides)] == IF i = 0 THEN 0 ELSE sum[i - 1] + coords[i] * strides[i]
  IN  sum[Len(strides)]

(* The operand that broadcasting pairs with coordinates c: coordinate 0     *)
(* along its own dimensions of size 1.                                      *)
Operand(shape, c) ==
  LET skip == Len(c) - Len(shape)
  IN  Along([i \in 1 .. Len(shape) |-> IF shape[i] = 1 THEN 0 ELSE c[i + skip]],
            [i \in 1 .. Len(shape) |-> Volume(shape, i + 1)])

dispatch_binary_broadcast(l, r) ==
  IF ~Broadcastable(l, r) THEN [ok |-> FALSE]
  ELSE
    LET plan == broadcast_shape(l, r)
        out == plan.out
        total == Volume(out, 1)
        coords == {c \in [1 .. Len(out) -> Upto(total)] : \A i \in 1 .. Len(out) : c[i] < out[i]}
        Coord(idx) ==  \* rem % s, rem / s from the last dimension
          LET rem[i \in 1 .. Len(out)] == IF i = Len(out) THEN idx ELSE rem[i + 1] \div out[i + 1]
          IN  [i \in 1 .. Len(out) |-> rem[i] % out[i]]
    IN  Simple(TRUE,
               {<<Along(c, [i \in 1 .. Len(out) |-> Volume(out, i + 1)]),
                  <<Operand(l, c), Operand(r, c)>>>> : c \in coords},
               {<<p[1], <<Along(Coord(p[1]), plan.lhs), Along(Coord(p[1]), plan.rhs)>>, p[2], 0>>
                  : p \in SplitGrid(total, 64)})

(* --------------------------- a workgroup a row -------------------------- *)

(* One reduction through a workgroup array, from phase first on: every      *)
(* thread stores its partial, the tree folds them, everyone reads slot 0.   *)
RoundAt(first, tree) ==
  Array({<<first, lid, lid>> : lid \in Upto(256)}
          \cup {<<first + w[1], w[2], w[3]>> : w \in tree.writes},
        {<<first + r[1], r[2], r[3]>> : r \in tree.reads}
          \cup {<<first + 9, 0, lid>> : lid \in Upto(256)})

(* Reductions through one array; barriers says whether one separates the    *)
(* reads of slot 0 from the next round's stores.                            *)
Rounds(count, barriers) ==
  LET pace == IF barriers THEN 10 ELSE 9
      at == [i \in Upto(count) |-> RoundAt(pace * i, TreeArray(256, 8))]
  IN  Array(UNION {at[i].writes : i \in Upto(count)}, UNION {at[i].reads : i \in Upto(count)})

(* The row's elements, each folded once into the row's result: a thread     *)
(* takes i = lid, lid + 256, ... and the tree brings its partial to slot 0. *)
RowFold(b, k) ==
  Part({<<row, row * k + i>> : row \in Upto(b), i \in Upto(k)},
       {<<f[1], f[1] * k + f[3], f[1], <<f[2], f[3]>>>>
          : f \in UNION {Upto(b) \X {r} \X From(r[1], 256, k) : r \in Tree256}})

(* out[row, i] from the element, the row's results and the column's scale.  *)
RowMap(b, k) ==
  Part({<<row * k + i, <<row * k + i, row, i>>>> : row \in Upto(b), i \in Upto(k)},
       {<<row * k + p[2], <<row * k + p[2], row, p[2]>>, <<row, p[1]>>, 0>>
          : row \in Upto(b), p \in Strided(256, k)})

(* A shader, and the function that checks its operands' sizes and launches  *)
(* a workgroup a row.                                                       *)
Shader(parts, shared) == [parts |-> parts, shared |-> shared]
LaunchRows(ok, shader) == Kernel(ok, shader.parts, shader.shared)

reduce_wgsl(b, k) == Shader(<<RowFold(b, k)>>, <<Rounds(1, TRUE)>>)
reduce_rows(numel, b, k) == LaunchRows(numel = b * k, reduce_wgsl(b, k))

softmax_wgsl(b, k) ==
  Shader(<<RowFold(b, k), RowFold(b, k), RowMap(b, k)>>, <<Rounds(1, TRUE), Rounds(1, TRUE)>>)
softmax_rows(numel, b, k) == LaunchRows(numel = b * k, softmax_wgsl(b, k))

log_softmax_wgsl(b, k) == softmax_wgsl(b, k)
log_softmax_rows(numel, b, k) == LaunchRows(numel = b * k, log_softmax_wgsl(b, k))

(* Mean and variance go through the same array, with a barrier between.     *)
layernorm_wgsl(b, k) ==
  Shader(<<RowFold(b, k), RowFold(b, k), RowMap(b, k)>>, <<Rounds(2, TRUE)>>)
layernorm_rows(numel, b, k, gamma, beta) ==
  LaunchRows(numel = b * k /\ gamma = k /\ beta = k, layernorm_wgsl(b, k))

(* Count, mean and squared deviation are merged pairwise in three arrays.   *)
layernorm_welford_wgsl(b, k) ==
  Shader(<<RowFold(b, k), RowMap(b, k)>>, <<Rounds(1, TRUE), Rounds(1, TRUE), Rounds(1, TRUE)>>)
layernorm_welford_rows(numel, b, k, gamma, beta) ==
  LaunchRows(numel = b * k /\ gamma = k /\ beta = k, layernorm_welford_wgsl(b, k))

rmsnorm_wgsl(b, k) == Shader(<<RowFold(b, k), RowMap(b, k)>>, <<Rounds(1, TRUE)>>)
rmsnorm_rows(numel, b, k, gamma) ==
  LaunchRows(numel = b * k /\ gamma = k, rmsnorm_wgsl(b, k))

(* Along axis 0 the matrix is transposed, normalised by rows, and back.     *)
softmax_axis(d0, d1, axis) ==
  LET T(i) == (i % d1) * d0 + (i \div d1)
      fold == IF axis = 1 THEN RowFold(d0, d1) ELSE RowFold(d1, d0)
      map == IF axis = 1 THEN RowMap(d0, d1) ELSE RowMap(d1, d0)
      At(c) == IF axis = 1 THEN c ELSE CHOOSE i \in Upto(d0 * d1) : T(i) = c
  IN  Kernel(axis \in {0, 1},
             <<Part({<<IF axis = 1 THEN i ELSE j, i * d1 + j>> : i \in Upto(d0), j \in Upto(d1)},
                    {<<d[1], At(d[2]), d[3], d[4]>> : d \in fold.did}),
               Part({<<i * d1 + j, <<i * d1 + j, IF axis = 1 THEN i ELSE j>>>>
                       : i \in Upto(d0), j \in Upto(d1)},
                    {<<At(d[1]), <<At(d[2][1]), d[2][2]>>, d[3], 0>> : d \in map.did})>>,
             <<Rounds(1, TRUE), Rounds(1, TRUE)>>)

log_softmax_axis(d0, d1, axis) == softmax_axis(d0, d1, axis)

(* The index of the largest (or smallest) value: each thread keeps the      *)
(* first best of its own elements, the tree prefers the lower index when    *)
(* two are equal; a thread without elements holds the initial value, 0.     *)
argmax_wgsl(vals, kind) ==
  LET k == Cardinality(DOMAIN vals)
      Beats(v, w) == IF kind = "max" THEN v > w ELSE v < w
      init == [v |-> IF kind = "max" THEN -100 ELSE 100, i |-> 0]
      Own(lid) ==
        LET n == IF lid < k THEN CeilDiv(k - lid, 256) ELSE 0
            best[m \in 0 .. n] ==
              IF m = 0 THEN init
              ELSE LET i == lid + 256 * (m - 1)
                   IN  IF Beats(vals[i], best[m - 1].v) THEN [v |-> vals[i], i |-> i] ELSE best[m - 1]
        IN  best[n]
      held[level \in 0 .. 8] ==
        IF level = 0 THEN [lid \in Upto(256) |-> Own(lid)]
        ELSE LET s == 256 \div 2^level
                 prev == held[level - 1]
             IN  [lid \in Upto(s) |->
                   LET mine == prev[lid]
                       other == prev[lid + s]
                   IN  IF Beats(other.v, mine.v) \/ (other.v = mine.v /\ other.i < mine.i)
                       THEN other ELSE mine]
      bests == {i \in Upto(k) : \A j \in Upto(k) : ~Beats(vals[j], vals[i])}
  IN  Shader(<<Part({<<0, CHOOSE i \in bests : \A j \in bests : i <= j>>},
                    {<<0, held[8][0].i, 0, 0>>})>>,
             <<Rounds(1, TRUE), Rounds(1, TRUE)>>)

argmax_rows(numel, vals, kind) ==
  LaunchRows(numel = Cardinality(DOMAIN vals), argmax_wgsl(vals, kind))

WgpuElementNext ==
  /\ job = NoJob
  /\ \/ \E n \in GridLengths :
          \/ \E m \in GridLengths : Launch("wgpu binary", n, wgpu_dispatch_binary(n, m))
          \/ Launch("wgpu unary", n, wgpu_dispatch_unary(n))
          \/ Launch("mul_scalar", n, mul_scalar(n))
          \/ \E m \in GridLengths : Launch("fused_adamw", n, fused_adamw_step(n, m, n, n))
     \/ \E p \in BroadcastPairs : Launch("broadcast", p, dispatch_binary_broadcast(p[1], p[2]))
     \/ \E s \in WgpuRows :
          \/ Launch("transpose2d", s, transpose2d(s[1], s[2]))
          \/ Launch("causal_mask", s, apply_causal_mask(s[1]))
          \/ \E n \in {s[1] * s[2], s[2] + 1} :
               \/ Launch("reduce_rows", <<s, n>>, reduce_rows(n, s[1], s[2]))
               \/ Launch("softmax_rows", <<s, n>>, softmax_rows(n, s[1], s[2]))
               \/ Launch("log_softmax_rows", <<s, n>>, log_softmax_rows(n, s[1], s[2]))
          \/ \E n \in {1, s[2]} :
               \/ Launch("layernorm_rows", <<s, n>>, layernorm_rows(s[1] * s[2], s[1], s[2], s[2], n))
               \/ Launch("layernorm_welford", <<s, n>>,
                         layernorm_welford_rows(s[1] * s[2], s[1], s[2], n, s[2]))
               \/ Launch("wgpu rmsnorm", <<s, n>>, rmsnorm_rows(s[1] * s[2], s[1], s[2], n))
          \/ \E axis \in 0 .. 2 :
               \/ Launch("softmax_axis", <<s, axis>>, softmax_axis(s[1], s[2], axis))
               \/ Launch("log_softmax_axis", <<s, axis>>, log_softmax_axis(s[1], s[2], axis))
     \/ \E vals \in ArgRows, kind \in {"max", "min"} : \E n \in {1, Cardinality(DOMAIN vals)} :
          Launch("argmax_rows", <<vals, kind, n>>, argmax_rows(n, vals, kind))

-----------------------------------------------------------------------------
(* Matrix products, convolution and attention of the portable backend      *)
(* (rustorch-wgpu/src/matmul.rs, fused.rs, conv.rs, attention.rs,          *)
(* flash_attn.rs).  The composite operations are the composition of what   *)
(* their launches do to each element.                                      *)

CONSTANTS
  ProductShapes,  \* <<m, k, n>>
  Convolutions,   \* records, see Conv below
  AttentionShapes \* <<s, d_model, num_heads>>

(* The 16 x 16 tiles of workgroup memory: thread (ly, lx) stages one        *)
(* element of each operand, a barrier, sixteen products, a barrier.         *)
TileArrays(tiles) ==
  LET cells == Upto(16) \X Upto(16)
  IN  <<Array({<<2 * t, c, c>> : t \in Upto(tiles), c \in cells},
              {<<2 * t + 1, <<c[1], i>>, c>> : t \in Upto(tiles), i \in Upto(16), c \in cells}),
        Array({<<2 * t, c, c>> : t \in Upto(tiles), c \in cells},
              {<<2 * t + 1, <<i, c[2]>>, c>> : t \in Upto(tiles), i \in Upto(16), c \in cells})>>

Absent == -1  \* what is staged outside the matrices

(* What acc takes in: a_tile[ly][i] * b_tile[i][lx], the staged zeros left  *)
(* out, for the threads that store.                                         *)
TiledTerms(m, k, n) ==
  LET ATile(row, t, lx) == IF row < m /\ t * 16 + lx < k THEN row * k + t * 16 + lx ELSE Absent
      BTile(t, ly, col) == IF t * 16 + ly < k /\ col < n THEN (t * 16 + ly) * n + col ELSE Absent
      threads == {g \in Upto(16 * CeilDiv(m, 16)) \X Upto(16 * CeilDiv(n, 16)) : g[1] < m /\ g[2] < n}
  IN  {d \in {<<g[1] * n + g[2], <<ATile(g[1], t, i), BTile(t, i, g[2])>>, g, <<t, i>>>>
                : g \in threads, t \in Upto(CeilDiv(k, 16)), i \in Upto(16)} :
         Absent \notin {d[2][1], d[2][2]}}

RowByColumn(m, k, n) ==
  {<<i * n + j, <<i * k + kk, kk * n + j>>>> : i \in Upto(m), j \in Upto(n), kk \in Upto(k)}

wgpu_matmul(lhs, rhs, m, k, n) ==
  Kernel(lhs = m * k /\ rhs = k * n,
         <<Part(RowByColumn(m, k, n), TiledTerms(m, k, n))>>, TileArrays(CeilDiv(k, 16)))

(* Which input element transpose2d(., m, n) puts at offset c.               *)
TransposedFrom(c, m, n) == (c % m) * n + (c \div m)

matmul_with_transposes(m, k, n, ta, tb) ==
  LET A(c) == IF ta THEN TransposedFrom(c, k, m) ELSE c
      B(c) == IF tb THEN TransposedFrom(c, n, k) ELSE c
  IN  Kernel(TRUE,
             <<Part({<<i * n + j, <<IF ta THEN kk * m + i ELSE i * k + kk,
                                    IF tb THEN j * k + kk ELSE kk * n + j>>>>
                       : i \in Upto(m), j \in Upto(n), kk \in Upto(k)},
                    {<<d[1], <<A(d[2][1]), B(d[2][2])>>, d[3], d[4]>> : d \in TiledTerms(m, k, n)})>>,
             TileArrays(CeilDiv(k, 16)))

(* Bias and activation applied by the thread that stores the element.       *)
fused_linear_wgsl(m, k, n) ==
  Shader(<<Part(RowByColumn(m, k, n), TiledTerms(m, k, n)),
           Part({<<i * n + j, <<"bias", j>>>> : i \in Upto(m), j \in Upto(n)},
                {<<d[1], <<"bias", d[3][2]>>, d[3], 0>> : d \in TiledTerms(m, k, n)})>>,
         TileArrays(CeilDiv(k, 16)))

fused_linear(bias, m, k, n) ==
  LET shader == fused_linear_wgsl(m, k, n) IN Kernel(bias = n, shader.parts, shader.shared)

(* ------------------------------ convolution ----------------------------- *)

Conv(n, c, h, w, cout, kh, kw, stride, pad, dil, groups) ==
  [n |-> n, c |-> c, h |-> h, w |-> w, cout |-> cout, kh |-> kh, kw |-> kw,
   sh |-> stride[1], sw |-> stride[2], ph |-> pad[1], pw |-> pad[2],
   dh |-> dil[1], dw |-> dil[2], groups |-> groups]

SaturatingSub(a, b) == IF a > b THEN a - b ELSE 0

output_shape(v) ==
  <<(SaturatingSub(v.h + 2 * v.ph, v.dh * SaturatingSub(v.kh, 1) + 1) \div v.sh) + 1,
    (SaturatingSub(v.w + 2 * v.pw, v.dw * SaturatingSub(v.kw, 1) + 1) \div v.sw) + 1>>

(* The input element that im2col puts at offset idx of the columns, or Absent *)
(* where the window hangs over the border.                                  *)
im2col(v, idx) ==
  LET o == output_shape(v)
      cols == v.c * v.kh * v.kw
      row == idx \div cols
      col == idx % cols
      ih == ((row \div o[2]) % o[1]) * v.sh + ((col \div v.kw) % v.kh) * v.dh - v.ph
      iw == (row % o[2]) * v.sw + (col % v.kw) * v.dw - v.pw
      cc == col \div (v.kh * v.kw)
      nn == row \div (o[1] * o[2])
  IN  IF ih >= 0 /\ ih < v.h /\ iw >= 0 /\ iw < v.w THEN ((nn * v.c + cc) * v.h + ih) * v.w + iw
      ELSE Absent

(* A thread of the split grid fills each cell of the columns.               *)
dispatch_im2col(v) ==
  LET o == output_shape(v)
      total == v.n * o[1] * o[2] * v.c * v.kh * v.kw
  IN  Part({<<idx, im2col(v, idx)>> : idx \in Upto(total)},
           {<<p[1], im2col(v, p[1]), p[2], 0>> : p \in SplitGrid(total, 64)})

(* Where dispatch_permute moves element idx of the [N * spatial, Cout]      *)
(* product to in [N, Cout, spatial].                                        *)
dispatch_permute(cout, spatial, idx) ==
  LET row == idx \div cout
  IN  ((row \div spatial) * cout + (idx % cout)) * spatial + (row % spatial)

(* conv2d_forward with groups = 1: im2col, product with weight^T, permute.  *)
UngroupedTerms(v) ==
  LET o == output_shape(v)
      rows == v.n * o[1] * o[2]
  IN  {t \in {<<dispatch_permute(v.cout, o[1] * o[2], d[1]),
                <<im2col(v, d[2][1]), d[2][2]>>, d[3], d[4]>>
                : d \in TiledTerms(rows, v.c * v.kh * v.kw, v.cout)} : t[2][1] # Absent}

(* Otherwise the host cuts input channels and weight columns into groups,   *)
(* convolves each alone and puts the outputs side by side.                  *)
GroupedTerms(v) ==
  LET o == output_shape(v)
      sp == o[1] * o[2]
      hw == v.h * v.w
      cper == v.c \div v.groups
      coper == v.cout \div v.groups
      inner == [v EXCEPT !.c = cper, !.cout = coper, !.groups = 1]
      Input(g, x) == ((x \div (cper * hw)) * v.c + g * cper) * hw + (x % (cper * hw))
      Weight(g, x) == (x \div coper) * v.cout + g * coper + (x % coper)
      Output(g, x) == ((x \div (coper * sp)) * v.cout + g * coper) * sp + (x % (coper * sp))
  IN  UNION {{<<Output(g, d[1]), <<Input(g, d[2][1]), Weight(g, d[2][2])>>, <<g, d[3]>>, d[4]>>
                : d \in UngroupedTerms(inner)} : g \in Upto(v.groups)}

(* The definition: output channel co sees the channels of its own group     *)
(* through every window that lies within the padded image.                  *)
Correlation(v) ==
  LET o == output_shape(v)
      cper == v.c \div v.groups
      coper == v.cout \div v.groups
      taps == {<<nn, co, oh, ow, ci, ki, kj>> \in
                 Upto(v.n) \X Upto(v.cout) \X Upto(o[1]) \X Upto(o[2]) \X Upto(cper) \X Upto(v.kh) \X Upto(v.kw) :
                 /\ oh * v.sh + (v.kh - 1) * v.dh < v.h + 2 * v.ph
                 /\ ow * v.sw + (v.kw - 1) * v.dw < v.w + 2 * v.pw
                 /\ oh * v.sh + ki * v.dh - v.ph \in Upto(v.h)
                 /\ ow * v.sw + kj * v.dw - v.pw \in Upto(v.w)}
  IN  {<<((t[1] * v.cout + t[2]) * o[1] + t[3]) * o[2] + t[4],
         <<((t[1] * v.c + ((t[2] \div coper) * cper) + t[5]) * v.h + (t[3] * v.sh + t[6] * v.dh - v.ph)) * v.w
             + (t[4] * v.sw + t[7] * v.dw - v.pw),
           ((t[5] * v.kh + t[6]) * v.kw + t[7]) * v.cout + t[2]>>>> : t \in taps}

conv2d_forward(v) ==
  IF v.groups = 0 \/ (v.c % v.groups) # 0 \/ (v.cout % v.groups) # 0 THEN [ok |-> FALSE]
  ELSE LET cper == v.c \div v.groups
           cols == cper * v.kh * v.kw
       IN  Kernel(TRUE,
                  <<Part(Correlation(v), IF v.groups = 1 THEN UngroupedTerms(v) ELSE GroupedTerms(v)),
                    dispatch_im2col([v EXCEPT !.c = cper])>>,
                  TileArrays(CeilDiv(cols, 16)))

(* The [Cout, K] weight laid out as [K, Cout].                              *)
transpose_weight(cout, k) ==
  Simple(TRUE,
         {<<kk * cout + co, co * k + kk>> : kk \in Upto(k), co \in Upto(cout)},
         {<<(p \div cout) * cout + (p % cout), (p % cout) * k + (p \div cout), 0, p>> : p \in Upto(k * cout)})

(* ------------------------------- attention ------------------------------ *)

(* The query and key positions that meet.                                   *)
Meeting(s, causal) == {p \in Upto(s) \X Upto(s) : causal => p[2] <= p[1]}

(* scores[i, j] = q[i] . k[j]: the product of q with k transposed.          *)
QueryKey(s, d) ==
  {<<t[1], <<t[2][1], TransposedFrom(t[2][2], s, d)>>, t[3], t[4]>> : t \in TiledTerms(s, d, s)}

(* out = softmax(mask(scale * scores)) . v; masked scores weigh nothing.    *)
Mixed(s, d, causal) ==
  {t \in TiledTerms(s, s, d) : ~causal \/ (t[2][1] % s) <= (t[2][1] \div s)}

Attention(s, d, causal) ==
  Kernel(TRUE,
         <<Part({<<i * s + j, <<i * d + x, j * d + x>>>> : i \in Upto(s), j \in Upto(s), x \in Upto(d)},
                QueryKey(s, d)),
           Part({<<p[1] * d + x, <<p[1] * s + p[2], p[2] * d + x>>>>
                   : p \in Meeting(s, causal), x \in Upto(d)},
                Mixed(s, d, causal))>>,
         TileArrays(CeilDiv(d, 16)))

attention_naive(s, d) == Attention(s, d, FALSE)
attention_naive_causal(s, d) == Attention(s, d, TRUE)

(* The host cuts Q, K and V into heads of d_model / num_heads columns and   *)
(* puts the heads' outputs side by side.                                    *)
multi_head_attention(s, dm, heads, causal) ==
  IF heads = 0 \/ (dm % heads) # 0 THEN [ok |-> FALSE]
  ELSE LET dh == dm \div heads
           At(h, x) == (x \div dh) * dm + h * dh + (x % dh)
       IN  Kernel(TRUE,
             <<Part({<<<<h, i * s + j>>, <<i * dm + h * dh + x, j * dm + h * dh + x>>>>
                       : h \in Upto(heads), i \in Upto(s), j \in Upto(s), x \in Upto(dh)},
                    {<<<<h, t[1]>>, <<At(h, t[2][1]), At(h, t[2][2])>>, t[3], t[4]>>
                       : h \in Upto(heads), t \in QueryKey(s, dh)}),
               Part({<<p[1] * dm + c, <<c \div dh, p[1] * s + p[2], p[2] * dm + c>>>>
                       : p \in Meeting(s, causal), c \in Upto(dm)},
                    {<<At(h, t[1]), <<h, t[2][1], At(h, t[2][2])>>, <<h, t[3]>>, t[4]>>
                       : h \in Upto(heads), t \in Mixed(s, dh, causal)})>>,
             TileArrays(CeilDiv(dh, 16)))

(* A workgroup a query row, a thread a column: for each key j the tree sums *)
(* q[tid] * k[j, tid] in red[], everyone reads red[0] and adds its column   *)
(* of v.  Nothing separates that read from the store of the next key's      *)
(* product into red[tid].                                                   *)
flash_attn_wgsl(s, d) ==
  LET cols == {r \in Tree256 : r[1] < d}
  IN  Shader(<<Part({<<i * s + j, <<i * d + x, j * d + x>>>> : i \in Upto(s), j \in Upto(s), x \in Upto(d)},
                    {<<row * s + j, <<row * d + r[1], j * d + r[1]>>, row, <<j, r>>>>
                       : row \in Upto(s), j \in Upto(s), r \in cols}),
               Part({<<i * d + x, <<i * s + j, j * d + x>>>> : i \in Upto(s), j \in Upto(s), x \in Upto(d)},
                    {<<row * d + r[1], <<row * s + j, j * d + r[1]>>, <<row, r[1]>>, j>>
                       : row \in Upto(s), j \in Upto(s), r \in cols})>>,
             <<Rounds(s, FALSE)>>)

(* A head wider than the workgroup is refused.                              *)
flash_attention(numel, s, d) == LaunchRows(d <= 256 /\ numel = s * d, flash_attn_wgsl(s, d))

WgpuMatmulNext ==
  /\ job = NoJob
  /\ \/ \E s \in ProductShapes :
          \/ \E n \in {s[2] * s[3], s[2]} :
               Launch("wgpu matmul", <<s, n>>, wgpu_matmul(s[1] * s[2], n, s[1], s[2], s[3]))
          \/ \E ta, tb \in BOOLEAN :
               Launch("matmul_with_transposes", <<s, ta, tb>>, matmul_with_transposes(s[1], s[2], s[3], ta, tb))
          \/ \E n \in {s[3], 1} : Launch("fused_linear", <<s, n>>, fused_linear(n, s[1], s[2], s[3]))
          \/ Launch("transpose_weight", s, transpose_weight(s[1], s[2]))
     \/ \E v \in Convolutions : Launch("conv2d_forward", v, conv2d_forward(v))
     \/ \E a \in AttentionShapes :
          \/ Launch("attention_naive", a, attention_naive(a[1], a[2]))
          \/ Launch("attention_naive_causal", a, attention_naive_causal(a[1], a[2]))
          \/ \E causal \in BOOLEAN :
               Launch("multi_head_attention", <<a, causal>>, multi_head_attention(a[1], a[2], a[3], causal))
          \/ \E n \in {a[2], a[1] * a[2]} : Launch("flash_attention", <<a, n>>, flash_attention(n, a[1], a[2]))
=============================================================================
