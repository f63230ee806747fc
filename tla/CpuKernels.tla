----------------------------- MODULE CpuKernels -----------------------------
(***************************************************************************)
(* The CPU backend (rustorch-cpu): elementwise operations, reductions,     *)
(* softmax, shape and index operations and products, each as the code      *)
(* computes it over flat buffers, judged against its definition by         *)
(* coordinates.  A call takes tensors of every layout (dense, transposed,  *)
(* narrowed, sliced) that the code accepts; rounding is left out.          *)
(***************************************************************************)
EXTENDS Layouts, Numbers, FiniteSets, FiniteSetsExt

VARIABLE call  \* the call being judged

NoCall == [op |-> "none", kind |-> "none"]
CpuInit == call = NoCall
Return == call # NoCall /\ call' = NoCall

(* The result has the shape and the elements of the definition.             *)
JudgeAs(kind, op, got, shape, want) ==
  /\ call = NoCall
  /\ call' = [op |-> op, kind |-> kind,
              right |-> got.shape = shape /\ \A c \in CoordsOf(shape) : Same(At(got, c), want[c])]
Judge(op, got, shape, want) == JudgeAs("value", op, got, shape, want)

(* A binary operation, told apart when an operand is not contiguous.        *)
BinaryKind(l, r) == IF is_contiguous(l) /\ is_contiguous(r) THEN "value" ELSE "strided_binary"

(* ------------------------------- inputs -------------------------------- *)

(* Values of both signs with ties, from a seed.                             *)
Value(seed, i) == (((seed * 5) + (i * 7) + ((i \div 3) * 4)) % 11) - 5
Seeded(shape, seed) == FromCells(shape, [i \in 0 .. numel(shape) - 1 |-> Num(Value(seed, i))])

(* Tensors of one shape in every layout that views can give them.           *)
Laid(shape, layout, seed) ==
  LET last == Len(shape)
  IN  CASE layout = "dense" -> Seeded(shape, seed)
        [] layout = "transposed" -> transpose(Seeded(Swapped(shape, 1, last), seed), 1, last)
        [] layout = "narrowed" -> narrow(Seeded([shape EXCEPT ![1] = @ + 1], seed), 1, 1, shape[1])
        [] layout = "sliced" -> slice(Seeded([shape EXCEPT ![last] = 2 * @], seed), last, 0, 2 * shape[last], 2)

Layout == {"dense", "transposed", "narrowed", "sliced"}

(* ----------------------------- elementwise ----------------------------- *)

Clamp(x, lo, hi) == Smaller(Larger(x, lo), hi)
Positive(x) == Whole(x) > 0

Activation(op, x) ==
  CASE op = "elu" -> IF Positive(x) THEN x ELSE Mult(Num(2), Minus(Exp(x), One))
    [] op = "softplus" -> IF Whole(x) > 20 THEN x ELSE Log(Plus(One, Exp(x)))
    [] op = "hardswish" -> Over(Mult(x, Clamp(Plus(x, Num(3)), Zero, Num(6))), Num(6))
    [] op = "hardtanh" -> Clamp(x, Num(-1), Num(2))

(* The scalar functions; trigonometric and error functions are left out.    *)
Scalar(op, x) ==
  CASE op = "neg" -> Neg(x)
    [] op = "abs" -> IF Whole(x) < 0 THEN Neg(x) ELSE x
    [] op = "exp" -> Exp(x)
    [] op = "log" -> Log(x)
    [] op = "sqrt" -> Sqrt(x)
    [] op = "relu" -> IF Positive(x) THEN x ELSE Mult(Zero, x)
    [] op = "sigmoid" -> Sigmoid(x)
    [] op = "tanh" -> Tanh(x)
    [] op = "silu" -> Over(x, Plus(One, Exp(Neg(x))))
    [] op = "leaky_relu" -> IF Positive(x) THEN x ELSE Mult(Num(3), x)
    [] op = "pow_scalar" -> Power(x, 3)
    [] OTHER -> Activation(op, x)

map_unary(op, t) ==
  LET read == IF Dense(t) THEN AsSlice(t) ELSE Elements(t)
  IN  FromCells(t.shape, [i \in DOMAIN read |-> Scalar(op, read[i])])

BinaryOp(op, a, b) ==
  CASE op = "add" -> Plus(a, b)
    [] op = "sub" -> Minus(a, b)
    [] op = "mul" -> Mult(a, b)
    [] op = "div" -> Over(a, b)
    [] op = "lt" -> IF Less(a, b) THEN One ELSE Zero
    [] op = "eq" -> IF Whole(a) = Whole(b) THEN One ELSE Zero

dispatch_binary(op, l, r) ==
  LET shape == broadcast_with(l.shape, r.shape)
      lhs == OperandOf(l, shape, Zipped(l, r))
      rhs == OperandOf(r, shape, Zipped(l, r))
  IN  FromCells(shape, [i \in DOMAIN lhs |-> BinaryOp(op, lhs[i], rhs[i])])

(* The element that broadcasting pairs with coordinate c.                   *)
Stretch(t, c) ==
  LET lead == Len(c) - Len(t.shape)
  IN  At(t, [axis \in DOMAIN t.shape |-> IF t.shape[axis] = 1 THEN 0 ELSE c[lead + axis]])

Unary(shape, layout) ==
  \E op \in {"neg", "abs", "relu", "leaky_relu", "exp", "sigmoid", "pow_scalar",
           "elu", "softplus", "hardswish", "hardtanh"} :
    LET t == Laid(shape, layout, 1)
    IN  Judge(op, map_unary(op, t), shape, [c \in CoordsOf(shape) |-> Scalar(op, At(t, c))])

Binary(a, b, la, lb) ==
  /\ Broadcastable(a, b)
  /\ \E op \in {"add", "sub", "mul", "lt", "eq"} :
       LET l == Laid(a, la, 1)
           r == Laid(b, lb, 2)
           shape == broadcast_with(a, b)
       IN  JudgeAs(BinaryKind(l, r), op, dispatch_binary(op, l, r), shape,
                 [c \in CoordsOf(shape) |-> BinaryOp(op, Stretch(l, c), Stretch(r, c))])

(* ------------------------------ reductions ----------------------------- *)

(* for v in buf: out[idx] = op(out[idx], v), in the order of the buffer.    *)
Accumulated(op, init, n_out, buf, at) ==
  LET combine(a, b) == CASE op = "sum" -> Plus(a, b)
                         [] op = "max" -> IF a = init THEN b ELSE Larger(a, b)
                         [] op = "min" -> IF a = init THEN b ELSE Smaller(a, b)
      after[i \in 0 .. Cardinality(DOMAIN buf)] ==
        IF i = 0 THEN [o \in 0 .. n_out - 1 |-> init]
        ELSE [after[i - 1] EXCEPT ![at[i - 1]] = combine(@, buf[i - 1])]
  IN  after[Cardinality(DOMAIN buf)]

Infinity == [v |-> -1, e |-> -1, d |-> <<>>]
Kept(shape, dims) == SelectSeq([i \in DOMAIN shape |-> i], LAMBDA axis : axis \notin dims)
Reduced(shape, dims, keepdim) ==
  IF keepdim THEN [axis \in DOMAIN shape |-> IF axis \in dims THEN 1 ELSE shape[axis]]
             ELSE [i \in DOMAIN Kept(shape, dims) |-> shape[Kept(shape, dims)[i]]]

reduce_dim(op, t, dims, keepdim) ==
  LET out == Reduced(t.shape, dims, keepdim)
      place(coords) == IF keepdim THEN [axis \in DOMAIN coords |-> IF axis \in dims THEN 0 ELSE coords[axis]]
                                  ELSE [i \in DOMAIN out |-> coords[Kept(t.shape, dims)[i]]]
      buf == Elements(t)
      at == [i \in DOMAIN buf |-> Dot(place(decode_coords(i, t.shape)), compute_contiguous_strides(out))]
  IN  FromCells(out, Accumulated(op, IF op = "sum" THEN Zero ELSE Infinity, numel(out), buf, at))

(* The path for one axis of a dense matrix: whole rows are added up.        *)
sum_dim_2d_f32(t, axis, keepdim) ==
  LET rows == t.shape[1]
      cols == t.shape[2]
      down == [c \in 0 .. cols - 1 |-> SumTo([r \in 0 .. rows - 1 |-> t.cells[(r * cols) + c]], rows)]
      across == [r \in 0 .. rows - 1 |-> SumTo([c \in 0 .. cols - 1 |-> t.cells[(r * cols) + c]], cols)]
  IN  IF axis = 1 THEN FromCells(IF keepdim THEN <<1, cols>> ELSE <<cols>>, down)
                  ELSE FromCells(IF keepdim THEN <<rows, 1>> ELSE <<rows>>, across)

sum_dim(t, dims, keepdim) ==
  IF Len(t.shape) = 2 /\ Cardinality(dims) = 1 /\ Dense(t)
  THEN sum_dim_2d_f32(t, CHOOSE axis \in dims : TRUE, keepdim)
  ELSE reduce_dim("sum", t, dims, keepdim)

mean_dim(t, dims, keepdim) ==
  LET s == reduce_dim("sum", t, dims, keepdim)
      n == numel([i \in DOMAIN Kept(t.shape, DOMAIN t.shape \ dims) |-> t.shape[Kept(t.shape, DOMAIN t.shape \ dims)[i]]])
  IN  [s EXCEPT !.cells = [i \in DOMAIN s.cells |-> Over(s.cells[i], Num(n))]]

(* Where the line of elements along `dim` through `linear` starts in a      *)
(* row-major buffer; its elements are Inner(shape, dim) apart.              *)
LineBase(linear, shape, dim) ==
  Dot(decode_coords(linear, [shape EXCEPT ![dim] = 1]), compute_contiguous_strides(shape))
Lines(shape, dim) == 0 .. (numel(shape) \div shape[dim]) - 1
Line(t, dim, linear) ==
  LET buf == Elements(t)
  IN  [k \in 0 .. t.shape[dim] - 1 |-> buf[LineBase(linear, t.shape, dim) + (k * Inner(t.shape, dim))]]

(* The first of the best: a later equal element does not replace it.        *)
FirstBest(line, n, better) ==
  LET best[k \in 1 .. n] == IF k = 1 THEN 0
                            ELSE IF better[line[k - 1], line[best[k - 1]]] THEN k - 1 ELSE best[k - 1]
  IN  best[n]

arg_reduce(op, t, dim, keepdim) ==
  LET better(line) == [p \in {line[k] : k \in DOMAIN line} \X {line[k] : k \in DOMAIN line} |->
                         IF op = "argmax" THEN Less(p[2], p[1]) ELSE Less(p[1], p[2])]
      out == [i \in Lines(t.shape, dim) |->
                LET line == Line(t, dim, i) IN Num(FirstBest(line, t.shape[dim], better(line)))]
  IN  FromCells(Reduced(t.shape, {dim}, keepdim), out)

(* Welford: the running mean and the running sum of squared deviations.     *)
welford_var(t, dim, unbiased, keepdim) ==
  LET n == t.shape[dim]
      denom == IF ~unbiased THEN n ELSE IF n > 1 THEN n - 1 ELSE 1
      run(line) == LET after[k \in 0 .. n] ==
                         IF k = 0 THEN [mean |-> Zero, m2 |-> Zero]
                         ELSE LET delta == Minus(line[k - 1], after[k - 1].mean)
                                  mean == Plus(after[k - 1].mean, Over(delta, Num(k)))
                              IN  [mean |-> mean, m2 |-> Plus(after[k - 1].m2, Mult(delta, Minus(line[k - 1], mean)))]
                   IN  after[n].m2
  IN  FromCells(Reduced(t.shape, {dim}, keepdim),
                [i \in Lines(t.shape, dim) |-> Over(run(Line(t, dim, i)), Num(denom))])

(* The buffer whose line number i along `dim` is rows[i].                   *)
Woven(shape, dim, rows) ==
  [x \in 0 .. numel(shape) - 1 |->
     LET spot == CHOOSE p \in Lines(shape, dim) \X (0 .. shape[dim] - 1) :
                   LineBase(p[1], shape, dim) + (p[2] * Inner(shape, dim)) = x
     IN  rows[spot[1]][spot[2]]]

cum_along(op, t, dim) ==
  LET acc(line) == [k \in DOMAIN line |-> IF op = "cumsum" THEN SumTo(line, k + 1) ELSE ProductTo(line, k + 1)]
  IN  FromCells(t.shape, Woven(t.shape, dim, [i \in Lines(t.shape, dim) |-> acc(Line(t, dim, i))]))

full_reduce(op, t) ==
  LET n == numel(t.shape)
      acc[i \in 0 .. n] ==
        IF i = 0 THEN IF op = "prod" THEN One ELSE IF op = "sum" THEN Zero ELSE Infinity
        ELSE LET x == Elements(t)[i - 1]
             IN  CASE op = "sum" -> Plus(acc[i - 1], x)
                   [] op = "prod" -> Mult(acc[i - 1], x)
                   [] op = "max" -> IF i = 1 THEN x ELSE Larger(acc[i - 1], x)
                   [] op = "min" -> IF i = 1 THEN x ELSE Smaller(acc[i - 1], x)
  IN  FromCells(<<>>, [i \in {0} |-> acc[n]])

mean(t) == LET s == full_reduce("sum", t)
           IN  [s EXCEPT !.cells[0] = Over(@, Num(numel(t.shape)))]

(* The coordinates that agree with c outside `dims`.                        *)
Fibre(t, dims, c, keepdim) ==
  {x \in CoordsOf(t.shape) :
     \A axis \in DOMAIN t.shape \ dims :
       x[axis] = IF keepdim THEN c[axis] ELSE c[CHOOSE i \in DOMAIN Kept(t.shape, dims) : Kept(t.shape, dims)[i] = axis]}

(* The sum over a set of coordinates.                                       *)
SumOver(t, coords) == FoldSet(LAMBDA c, acc : Plus(acc, At(t, c)), Zero, coords)
BestOf(op, t, coords) ==
  CHOOSE x \in {At(t, c) : c \in coords} :
    \A c \in coords : IF op \in {"max", "argmax"} THEN ~Less(x, At(t, c)) ELSE ~Less(At(t, c), x)
MeanOf(t, coords) == Over(SumOver(t, coords), Num(Cardinality(coords)))

SumDim(shape, layout) ==
  \E dims \in SUBSET DOMAIN shape \ {{}}, keepdim \in BOOLEAN, op \in {"sum", "mean"} :
    LET t == Laid(shape, layout, 1)
        out == Reduced(shape, dims, keepdim)
    IN  Judge(op, IF op = "sum" THEN sum_dim(t, dims, keepdim) ELSE mean_dim(t, dims, keepdim), out,
              [c \in CoordsOf(out) |-> LET f == Fibre(t, dims, c, keepdim)
                                       IN  IF op = "sum" THEN SumOver(t, f) ELSE MeanOf(t, f)])

BestDim(shape, layout) ==
  \E dim \in DOMAIN shape, keepdim \in BOOLEAN, op \in {"max", "min", "argmax", "argmin"} :
    LET t == Laid(shape, layout, 1)
        out == Reduced(shape, {dim}, keepdim)
        first(f) == LET best == {c \in f : Whole(At(t, c)) = Whole(BestOf(op, t, f))}
                    IN  Num(CHOOSE k \in 0 .. shape[dim] - 1 :
                              /\ \E c \in best : c[dim] = k
                              /\ \A c \in best : c[dim] >= k)
    IN  Judge(op, IF op \in {"max", "min"} THEN reduce_dim(op, t, {dim}, keepdim) ELSE arg_reduce(op, t, dim, keepdim), out,
              [c \in CoordsOf(out) |-> LET f == Fibre(t, {dim}, c, keepdim)
                                       IN  IF op \in {"max", "min"} THEN BestOf(op, t, f) ELSE first(f)])

VarDim(shape, layout) ==
  \E dim \in DOMAIN shape, keepdim \in BOOLEAN, unbiased \in BOOLEAN :
    LET t == Laid(shape, layout, 1)
        out == Reduced(shape, {dim}, keepdim)
        spread(f) == FoldSet(LAMBDA c, acc : Plus(acc, Power(Minus(At(t, c), MeanOf(t, f)), 2)), Zero, f)
        n == IF unbiased /\ shape[dim] > 1 THEN shape[dim] - 1 ELSE shape[dim]
    IN  Judge("var", welford_var(t, dim, unbiased, keepdim), out,
              [c \in CoordsOf(out) |-> Over(spread(Fibre(t, {dim}, c, keepdim)), Num(n))])

Cumulative(shape, layout) ==
  \E dim \in DOMAIN shape, op \in {"cumsum", "cumprod"} :
    LET t == Laid(shape, layout, 1)
        upto(c) == [k \in 0 .. c[dim] |-> At(t, [c EXCEPT ![dim] = k])]
    IN  Judge(op, cum_along(op, t, dim), shape,
              [c \in CoordsOf(shape) |-> IF op = "cumsum" THEN SumTo(upto(c), c[dim] + 1) ELSE ProductTo(upto(c), c[dim] + 1)])

FullReduce(shape, layout) ==
  \E op \in {"sum", "mean", "max", "min"} :
    LET t == Laid(shape, layout, 1)
        all == CoordsOf(shape)
    IN  Judge(op, IF op = "mean" THEN mean(t) ELSE full_reduce(op, t), <<>>,
              [c \in CoordsOf(<<>>) |-> IF op = "sum" THEN SumOver(t, all) ELSE IF op = "mean" THEN MeanOf(t, all) ELSE BestOf(op, t, all)])

(* ------------------------------- softmax ------------------------------- *)

MutSoftmaxRow(row, n, log_form) ==
  LET best[i \in 1 .. n] == IF i = 1 THEN row[0] ELSE Larger(best[i - 1], row[i - 1])
      sum == SumTo([i \in 0 .. n - 1 |-> Exp(Minus(row[i], best[i + 1]))], n)
  IN  [i \in 0 .. n - 1 |->
         IF log_form THEN Minus(Minus(row[i], best[n]), Log(sum)) ELSE Mult(Exp(Minus(row[i], best[n])), Recip(sum))]

(* The last axis of a dense tensor: the maximum and the sum in one pass,    *)
(* the sum rescaled when the maximum grows.                                 *)
softmax_row_online(row, n, log_form) ==
  LET pass[i \in 0 .. n] ==
        IF i = 0 THEN [mx |-> Infinity, sum |-> Zero]
        ELSE LET x == row[i - 1]
                 before == pass[i - 1]
                 grows == i = 1 \/ Less(before.mx, x)
                 mx == IF grows THEN x ELSE before.mx
                 kept == IF i = 1 THEN Zero ELSE IF grows THEN Mult(before.sum, Exp(Minus(before.mx, x))) ELSE before.sum
             IN  [mx |-> mx, sum |-> Plus(kept, Exp(Minus(x, mx)))]
  IN  [i \in 0 .. n - 1 |->
         LET shifted == Minus(row[i], pass[n].mx)
         IN  IF log_form THEN Minus(shifted, Log(pass[n].sum)) ELSE Mult(Exp(shifted), Recip(pass[n].sum))]

(* Any other axis or layout: a pass for the maximum and one for the sum.    *)
softmax_line(line, n, log_form) ==
  LET mx == CHOOSE x \in {line[k] : k \in DOMAIN line} : \A k \in DOMAIN line : ~Less(x, line[k])
      sumexp == SumTo([k \in DOMAIN line |-> Exp(Minus(line[k], mx))], n)
  IN  [k \in DOMAIN line |->
         IF log_form THEN Minus(Minus(line[k], mx), Log(sumexp)) ELSE Over(Exp(Minus(line[k], mx)), sumexp)]

softmax(t, dim, log_form) ==
  LET n == t.shape[dim]
      online == dim = Len(t.shape) /\ Dense(t)
  IN  FromCells(t.shape,
        IF online
        THEN [i \in 0 .. numel(t.shape) - 1 |->
                softmax_row_online([k \in 0 .. n - 1 |-> t.cells[((i \div n) * n) + k]], n, log_form)[i % n]]
        ELSE Woven(t.shape, dim, [i \in Lines(t.shape, dim) |-> softmax_line(Line(t, dim, i), n, log_form)]))

Softmax(shape, layout) ==
  \E dim \in DOMAIN shape, log_form \in BOOLEAN :
    LET t == Laid(shape, layout, 1)
        total(c) == SumTo([k \in 0 .. shape[dim] - 1 |-> Exp(At(t, [c EXCEPT ![dim] = k]))], shape[dim])
    IN  Judge("softmax", softmax(t, dim, log_form), shape,
              [c \in CoordsOf(shape) |-> IF log_form THEN Minus(At(t, c), Log(total(c))) ELSE Over(Exp(At(t, c)), total(c))])

(* ------------------------ shapes and indices --------------------------- *)

Flat(coords, shape) == Dot(coords, compute_contiguous_strides(shape))

(* Outer blocks in order, and in each the chunk of every tensor.            *)
cat(ts, dim) ==
  LET outer == Outer(ts[1].shape, dim)
      chunk(t, o) == LET len == t.shape[dim] * Inner(t.shape, dim)
                     IN  [i \in 1 .. len |-> Elements(t)[(o * len) + i - 1]]
      block(o) == FlattenSeq([i \in DOMAIN ts |-> chunk(ts[i], o)])
      all == FlattenSeq([o \in 1 .. outer |-> block(o - 1)])
      total == FoldLeft(LAMBDA acc, t : acc + t.shape[dim], 0, ts)
  IN  FromCells([ts[1].shape EXCEPT ![dim] = total], [i \in 0 .. Len(all) - 1 |-> all[i + 1]])

stack(ts, dim) == cat([i \in DOMAIN ts |-> view(contiguous(ts[i]), InsertAt(ts[i].shape, dim, 1))], dim)

split(t, split_size, dim) ==
  LET n == t.shape[dim]
      count == (n + split_size - 1) \div split_size
      start(i) == (i - 1) * split_size
      len(i) == IF n - start(i) < split_size THEN n - start(i) ELSE split_size
  IN  [i \in 1 .. count |-> contiguous(narrow(t, dim, start(i), len(i)))]

chunk(t, n_chunks, dim) ==
  LET size == (t.shape[dim] + n_chunks - 1) \div n_chunks
  IN  split(t, IF size > 1 THEN size ELSE 1, dim)

(* repeat, flip and roll: the flat source index of every output element.    *)
repeat(t, repeats) ==
  LET shape == [axis \in DOMAIN repeats |-> t.shape[axis] * repeats[axis]]
  IN  FromCells(shape, [i \in 0 .. numel(shape) - 1 |->
        Elements(t)[Flat([axis \in DOMAIN shape |-> decode_coords(i, shape)[axis] % t.shape[axis]], t.shape)]])

flip(t, dims) ==
  FromCells(t.shape, [i \in 0 .. numel(t.shape) - 1 |->
    Elements(t)[Flat([axis \in DOMAIN t.shape |->
       LET c == Coordinate(i, t.shape, axis) IN IF axis \in dims THEN t.shape[axis] - 1 - c ELSE c], t.shape)]])

roll(t, shifts, dim) ==
  LET n == t.shape[dim]
      s == shifts % n
  IN  FromCells(t.shape, [i \in 0 .. numel(t.shape) - 1 |->
        Elements(t)[Flat([decode_coords(i, t.shape) EXCEPT ![dim] = (@ + n - s) % n], t.shape)]])

(* The index tensors hold plain integers, here functions from flat index.   *)
gather(t, dim, shape, idx) ==
  FromCells(shape, [i \in 0 .. numel(shape) - 1 |->
    Elements(t)[Flat([decode_coords(i, shape) EXCEPT ![dim] = idx[i]], t.shape)]])

scatter(dst, dim, shape, idx, src, accumulate) ==
  LET n == numel(shape)
      after[i \in 0 .. n] ==
        IF i = 0 THEN Elements(dst)
        ELSE LET at == Flat([decode_coords(i - 1, shape) EXCEPT ![dim] = idx[i - 1]], dst.shape)
             IN  [after[i - 1] EXCEPT ![at] = IF accumulate THEN Plus(@, Elements(src)[i - 1]) ELSE Elements(src)[i - 1]]
  IN  FromCells(dst.shape, after[n])

index_select(t, dim, idx) ==
  LET shape == [t.shape EXCEPT ![dim] = Len(idx)]
  IN  FromCells(shape, [i \in 0 .. numel(shape) - 1 |->
        LET c == decode_coords(i, shape) IN Elements(t)[Flat([c EXCEPT ![dim] = idx[c[dim] + 1]], t.shape)]])

masked_fill(t, mask, value) ==
  FromCells(t.shape, [i \in 0 .. numel(t.shape) - 1 |-> IF mask[i] THEN value ELSE Elements(t)[i]])

where(mask, x, y) ==
  FromCells(x.shape, [i \in 0 .. numel(x.shape) - 1 |-> IF mask[i] THEN Elements(x)[i] ELSE Elements(y)[i]])

masked_select(t, mask) ==
  LET kept == SelectSeq([i \in 1 .. numel(t.shape) |-> i - 1], LAMBDA i : mask[i])
  IN  FromCells(<<Len(kept)>>, [i \in 0 .. Len(kept) - 1 |-> Elements(t)[kept[i + 1]]])

nonzero(t) ==
  LET kept == SelectSeq([i \in 1 .. numel(t.shape) |-> i - 1], LAMBDA i : Elements(t)[i].v # 0)
      rank == Len(t.shape)
  IN  FromCells(<<Len(kept), rank>>, [i \in 0 .. (Len(kept) * rank) - 1 |->
        Num(Coordinate(kept[(i \div rank) + 1], t.shape, (i % rank) + 1))])

Join(shape, layout) ==
  \E dim \in DOMAIN shape, other \in {1, 2} :
    LET a == Laid(shape, layout, 1)
        b == Laid([shape EXCEPT ![dim] = other], "dense", 2)
        out == [shape EXCEPT ![dim] = @ + other]
    IN  Judge("cat", cat(<<a, b>>, dim), out,
              [c \in CoordsOf(out) |-> IF c[dim] < shape[dim] THEN At(a, c) ELSE At(b, [c EXCEPT ![dim] = @ - shape[dim]])])

Stack(shape, layout) ==
  \E dim \in 1 .. Len(shape) + 1 :
    LET ts == <<Laid(shape, layout, 1), Laid(shape, "dense", 2)>>
        out == InsertAt(shape, dim, 2)
    IN  Judge("stack", stack(ts, dim), out, [c \in CoordsOf(out) |-> At(ts[c[dim] + 1], RemoveAt(c, dim))])

Chunks(shape, layout) ==
  \E dim \in DOMAIN shape, n_chunks \in {2, 3} :
    LET t == Laid(shape, layout, 1)
    IN  Judge("chunk", cat(chunk(t, n_chunks, dim), dim), shape, [c \in CoordsOf(shape) |-> At(t, c)])

Rearrange(shape, layout) ==
  LET t == Laid(shape, layout, 1)
  IN  \/ \E repeats \in [DOMAIN shape -> 1 .. 2] :
           LET out == [axis \in DOMAIN shape |-> shape[axis] * repeats[axis]]
           IN  Judge("repeat", repeat(t, repeats), out,
                     [c \in CoordsOf(out) |-> At(t, [axis \in DOMAIN shape |-> c[axis] % shape[axis]])])
      \/ \E dims \in SUBSET DOMAIN shape :
           Judge("flip", flip(t, dims), shape,
                 [c \in CoordsOf(shape) |->
                    At(t, [axis \in DOMAIN shape |-> IF axis \in dims THEN shape[axis] - 1 - c[axis] ELSE c[axis]])])
      \/ \E dim \in DOMAIN shape, shifts \in {-4, -1, 2} :
           Judge("roll", roll(t, shifts, dim), shape,
                 [c \in CoordsOf(shape) |-> At(t, [c EXCEPT ![dim] = (@ - shifts) % shape[dim]])])
      \/ \E a, b \in DOMAIN shape :
           Judge("transpose", contiguous(transpose(t, a, b)), Swapped(shape, a, b),
                 [c \in CoordsOf(Swapped(shape, a, b)) |-> At(t, Swapped(c, a, b))])

Index(shape, layout) ==
  LET t == Laid(shape, layout, 1)
      n == numel(shape)
  IN  \E dim \in DOMAIN shape :
        LET idx == [i \in 0 .. n - 1 |-> (i * 2) % shape[dim]]
            some == <<shape[dim] - 1, 0, shape[dim] - 1>>
            rows == [shape EXCEPT ![dim] = 3]
            src == Laid(shape, layout, 2)
            hits(c) == {x \in CoordsOf(shape) : [x EXCEPT ![dim] = idx[Flat(x, shape)]] = c}
            last(c) == CHOOSE x \in hits(c) : \A y \in hits(c) : Flat(y, shape) <= Flat(x, shape)
        IN  \/ Judge("gather", gather(t, dim, shape, idx), shape,
                      [c \in CoordsOf(shape) |-> At(t, [c EXCEPT ![dim] = idx[Flat(c, shape)]])])
            \/ Judge("scatter", scatter(t, dim, shape, idx, src, FALSE), shape,
                      [c \in CoordsOf(shape) |-> IF hits(c) = {} THEN At(t, c) ELSE At(src, last(c))])
            \/ Judge("scatter_add", scatter(t, dim, shape, idx, src, TRUE), shape,
                      [c \in CoordsOf(shape) |-> Plus(At(t, c), SumOver(src, hits(c)))])
            \/ Judge("index_select", index_select(t, dim, some), rows,
                      [c \in CoordsOf(rows) |-> At(t, [c EXCEPT ![dim] = some[@ + 1]])])

Mask(shape, layout) ==
  LET t == Laid(shape, layout, 1)
      u == Laid(shape, "dense", 2)
      mask == [i \in 0 .. numel(shape) - 1 |-> i % 3 # 1]
      chosen == {c \in CoordsOf(shape) : mask[Flat(c, shape)]}
      present == {c \in CoordsOf(shape) : At(t, c).v # 0}
      nth(set, i) == CHOOSE c \in set : Cardinality({x \in set : Flat(x, shape) < Flat(c, shape)}) = i
      pairs == <<Cardinality(present), Len(shape)>>
  IN  \/ Judge("masked_fill", masked_fill(t, mask, Num(9)), shape,
               [c \in CoordsOf(shape) |-> IF c \in chosen THEN Num(9) ELSE At(t, c)])
      \/ Judge("where", where(mask, t, u), shape,
               [c \in CoordsOf(shape) |-> IF c \in chosen THEN At(t, c) ELSE At(u, c)])
      \/ Judge("masked_select", masked_select(t, mask), <<Cardinality(chosen)>>,
               [c \in CoordsOf(<<Cardinality(chosen)>>) |-> At(t, nth(chosen, c[1]))])
      \/ Judge("nonzero", nonzero(t), pairs,
               [c \in CoordsOf(pairs) |-> Num(nth(present, c[1])[c[2] + 1])])

(* ------------------------------- products ------------------------------ *)

CONSTANT GemmMin  \* GEMM_DISPATCH_MIN: below it in any dimension, the naive loop

(* The naive loop walks both operands by their own strides and offsets.     *)
matmul_naive(l, r) ==
  LET m == l.shape[1]
      k == l.shape[2]
      n == r.shape[2]
  IN  FromCells(<<m, n>>, [x \in 0 .. (m * n) - 1 |->
        LET i == x \div n
            j == x % n
        IN  SumTo([kk \in 0 .. k - 1 |->
              Mult(l.cells[l.off + (i * l.strides[1]) + (kk * l.strides[2])],
                   r.cells[r.off + (kk * r.strides[1]) + (j * r.strides[2])])], k)])

(* What cblas_sgemm and gemm compute from row-major buffers with leading    *)
(* dimensions lda and ldb, either operand read transposed.                  *)
Gemm(m, n, k, a, lda, ta, b, ldb, tb) ==
  FromCells(<<m, n>>, [x \in 0 .. (m * n) - 1 |->
    LET i == x \div n
        j == x % n
    IN  SumTo([kk \in 0 .. k - 1 |-> Mult(a[IF ta THEN (kk * lda) + i ELSE (i * lda) + kk],
                                          b[IF tb THEN (j * ldb) + kk ELSE (kk * ldb) + j])], k)])

Buffer(t) == IF Dense(t) THEN AsSlice(t) ELSE Elements(t)

matmul(l, r) ==
  LET m == l.shape[1]
      k == l.shape[2]
      n == r.shape[2]
  IN  IF m < GemmMin \/ n < GemmMin \/ k < GemmMin
      THEN matmul_naive(l, r)
      ELSE Gemm(m, n, k, Buffer(l), k, FALSE, Buffer(r), n, FALSE)

(* On macOS the flags go to cblas; elsewhere, and for small products, the   *)
(* operands are transposed first.                                           *)
matmul_with_transposes(l, r, ta, tb, macos) ==
  LET m == l.shape[IF ta THEN 2 ELSE 1]
      k == l.shape[IF ta THEN 1 ELSE 2]
      n == r.shape[IF tb THEN 1 ELSE 2]
      flipped(t, yes) == IF yes THEN contiguous(transpose(t, 1, 2)) ELSE t
  IN  IF ~macos \/ m < GemmMin \/ n < GemmMin \/ k < GemmMin
      THEN matmul(flipped(l, ta), flipped(r, tb))
      ELSE Gemm(m, n, k, AsSlice(l), IF ta THEN m ELSE k, ta, AsSlice(r), IF tb THEN k ELSE n, tb)

(* A dense x is added to row by row; another goes through the binary        *)
(* operation with the bias written out for every row.                       *)
add_bias(x, bias) ==
  LET n == x.shape[2]
      wide == FromCells(x.shape, [i \in 0 .. numel(x.shape) - 1 |-> AsSlice(bias)[i % n]])
  IN  IF Dense(x)
      THEN FromCells(x.shape, [i \in 0 .. numel(x.shape) - 1 |-> Plus(x.cells[i], AsSlice(bias)[i % n])])
      ELSE dispatch_binary("add", x, wide)

matmul_with_bias(l, r, bias) == add_bias(matmul(l, r), bias)

bmm(l, r) ==
  LET b == l.shape[1]
      m == l.shape[2]
      k == l.shape[3]
      n == r.shape[3]
  IN  FromCells(<<b, m, n>>, [x \in 0 .. (b * m * n) - 1 |->
        LET bi == x \div (m * n)
            i == (x \div n) % m
            j == x % n
        IN  SumTo([kk \in 0 .. k - 1 |->
              Mult(AsSlice(l)[(bi * m * k) + (i * k) + kk], AsSlice(r)[(bi * k * n) + (kk * n) + j])], k)])

MutUnbroadcast(grad, target) ==
  LET pad == Len(grad.shape) - Len(target)
      reduced == IF pad = 0 THEN grad ELSE sum_dim(grad, 1 .. pad, FALSE)
  IN  FromCells(target, [i \in 0 .. numel(target) - 1 |-> AsSlice(reduced)[i]])

(* The gradient of a broadcast operand: summed over the axes that were      *)
(* stretched, then given the operand's shape.                               *)
unbroadcast_to(grad, target) ==
  LET pad == Len(grad.shape) - Len(target)
      padded == [axis \in DOMAIN grad.shape |-> IF axis <= pad THEN 1 ELSE target[axis - pad]]
      axes == {axis \in DOMAIN padded : padded[axis] = 1 /\ grad.shape[axis] > 1}
      reduced == IF axes = {} THEN grad ELSE sum_dim(grad, axes, TRUE)
  IN  IF grad.shape = target THEN grad
      ELSE IF reduced.shape = target THEN reduced ELSE FromCells(target, AsSlice(reduced))

einsum_unary(eq, t) ==
  LET n == t.shape[1]
      m == t.shape[Len(t.shape)]
  IN  CASE eq = "ij->i" -> FromCells(<<n>>, [i \in 0 .. n - 1 |-> SumTo([j \in 0 .. m - 1 |-> t.cells[(i * m) + j]], m)])
        [] eq = "ij->j" -> FromCells(<<m>>, [j \in 0 .. m - 1 |-> SumTo([i \in 0 .. n - 1 |-> t.cells[(i * m) + j]], n)])
        [] eq = "ii->" -> FromCells(<<>>, [x \in {0} |-> SumTo([i \in 0 .. n - 1 |-> t.cells[(i * n) + i]], n)])
        [] eq = "ii->i" -> FromCells(<<n>>, [i \in 0 .. n - 1 |-> t.cells[(i * n) + i]])

(* The product of two matrices, by rows and columns.                        *)
Products(l, r, ta, tb, k) ==
  [c \in CoordsOf(<<l.shape[IF ta THEN 2 ELSE 1], r.shape[IF tb THEN 1 ELSE 2]>>) |->
     SumTo([kk \in 0 .. k - 1 |-> Mult(At(l, IF ta THEN <<kk, c[1]>> ELSE <<c[1], kk>>),
                                       At(r, IF tb THEN <<c[2], kk>> ELSE <<kk, c[2]>>))], k)]

Matmul(m, k, n, la, lb) ==
  \E ta, tb, macos \in BOOLEAN :
    LET l == Laid(IF ta THEN <<k, m>> ELSE <<m, k>>, la, 1)
        r == Laid(IF tb THEN <<n, k>> ELSE <<k, n>>, lb, 2)
        large == m >= GemmMin /\ n >= GemmMin /\ k >= GemmMin
    IN  /\ (macos /\ large) => Dense(l) /\ Dense(r)
        /\ Judge("matmul", matmul_with_transposes(l, r, ta, tb, macos), <<m, n>>, Products(l, r, ta, tb, k))

AddBias(m, n, la) ==
  LET x == Laid(<<m, n>>, la, 1)
      bias == Laid(<<n>>, "dense", 2)
  IN  JudgeAs(BinaryKind(x, bias), "add_bias", add_bias(x, bias), <<m, n>>,
              [c \in CoordsOf(<<m, n>>) |-> Plus(At(x, c), At(bias, <<c[2]>>))])

Bmm(b, m, k, n) ==
  LET l == Laid(<<b, m, k>>, "dense", 1)
      r == Laid(<<b, k, n>>, "dense", 2)
  IN  Judge("bmm", bmm(l, r), <<b, m, n>>,
            [c \in CoordsOf(<<b, m, n>>) |->
               SumTo([kk \in 0 .. k - 1 |-> Mult(At(l, <<c[1], c[2], kk>>), At(r, <<c[1], kk, c[3]>>))], k)])

Einsum(n, m) ==
  LET t == Laid(<<n, m>>, "dense", 1)
  IN  \/ Judge("ij->i", einsum_unary("ij->i", t), <<n>>, [c \in CoordsOf(<<n>>) |-> SumOver(t, {x \in CoordsOf(t.shape) : x[1] = c[1]})])
      \/ Judge("ij->j", einsum_unary("ij->j", t), <<m>>, [c \in CoordsOf(<<m>>) |-> SumOver(t, {x \in CoordsOf(t.shape) : x[2] = c[1]})])
      \/ /\ n = m
         /\ \/ Judge("ii->", einsum_unary("ii->", t), <<>>, [c \in CoordsOf(<<>>) |-> SumOver(t, {x \in CoordsOf(t.shape) : x[1] = x[2]})])
            \/ Judge("ii->i", einsum_unary("ii->i", t), <<n>>, [c \in CoordsOf(<<n>>) |-> At(t, <<c[1], c[1]>>)])

CONSTANTS
  CpuShapes,   \* the shapes of the operands
  CpuGemms     \* the dimensions of the products

CpuNext ==
  \/ Return
  \/ \E shape \in CpuShapes, layout \in Layout :
       \/ Unary(shape, layout) \/ SumDim(shape, layout) \/ BestDim(shape, layout) \/ VarDim(shape, layout)
       \/ Cumulative(shape, layout) \/ FullReduce(shape, layout) \/ Softmax(shape, layout)
       \/ Join(shape, layout) \/ Stack(shape, layout) \/ Chunks(shape, layout)
       \/ Rearrange(shape, layout) \/ Index(shape, layout) \/ Mask(shape, layout)
  \/ \E a, b \in CpuShapes, la, lb \in Layout : Binary(a, b, la, lb)
  \/ \E g \in CpuGemms, la, lb \in Layout :
       Matmul(g[1], g[2], g[3], la, lb) \/ AddBias(g[1], g[2], la) \/ Bmm(2, g[1], g[2], g[3]) \/ Einsum(g[1], g[2])

(* Every kernel but the binary operations returns the tensor of its         *)
(* definition, whatever the layout of its operands and whichever of its     *)
(* paths it takes: the fast paths for dense tensors and large products      *)
(* agree with the general ones, and no flat index strays from the           *)
(* coordinate it stands for.  A binary operation, add_bias on a tensor that *)
(* is not dense among them, does so for contiguous operands: of another     *)
(* operand BinaryOpPlan reads the strides that its shape would have         *)
(* (iterator.rs:59), which BinaryReadsStrides shows to be wrong.            *)
KernelMatchesDefinition ==
  call # NoCall /\ call.kind \notin {"strided_binary", "gradient"} => call.right
=============================================================================
