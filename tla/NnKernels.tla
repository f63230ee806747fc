------------------------------ MODULE NnKernels ------------------------------
(***************************************************************************)
(* The CPU backend's convolution, normalisation, pooling, losses, CTC and  *)
(* dense factorisations.  The convolution, pooling and normalisation       *)
(* kernels address flat buffers in N C H W order; the factorisations are   *)
(* judged by the identities they promise.                                  *)
(***************************************************************************)
EXTENDS CpuKernels

(* The flat index of (a, b, y, x) in a buffer of four axes.                 *)
Flat4(shape, a, b, y, x) == (((((a * shape[2]) + b) * shape[3]) + y) * shape[4]) + x
Cell4(shape, i) == decode_coords(i, shape)
Range0(n) == 0 .. n - 1

(* ----------------------------- convolution ----------------------------- *)

(* The sum of term(x) over the elements of a finite set.                    *)
Total(S, term(_)) == FoldSet(LAMBDA x, acc : Plus(acc, term(x)), Zero, S)

conv_out(size, pad, k) == IF size + (2 * pad) < k THEN 1 ELSE size + (2 * pad) - k + 1

conv2d_forward(input, weight, bias, pad) ==
  LET s == input.shape
      k == weight.shape
      out == <<s[1], k[1], conv_out(s[3], pad, k[3]), conv_out(s[4], pad, k[4])>>
      in == AsSlice(input)
      w == AsSlice(weight)
      at(c) == LET inside == {q \in Range0(s[2]) \X Range0(k[3]) \X Range0(k[4]) :
                                /\ c[3] + q[2] >= pad /\ c[3] + q[2] < s[3] + pad
                                /\ c[4] + q[3] >= pad /\ c[4] + q[3] < s[4] + pad}
                   term(q) == Mult(in[Flat4(s, c[1], q[1], c[3] + q[2] - pad, c[4] + q[3] - pad)],
                                   w[Flat4(k, c[2], q[1], q[2], q[3])])
               IN  Plus(Total(inside, term), AsSlice(bias)[c[2]])
  IN  FromCells(out, [i \in Range0(numel(out)) |-> at(Cell4(out, i))])

conv2d_grad_input(grad, weight, shape, pad) ==
  LET o == grad.shape
      k == weight.shape
      at(c) == LET reached == {q \in Range0(k[1]) \X Range0(k[3]) \X Range0(k[4]) :
                                 /\ c[3] + pad - q[2] \in Range0(o[3])
                                 /\ c[4] + pad - q[3] \in Range0(o[4])}
                   term(q) == Mult(AsSlice(grad)[Flat4(o, c[1], q[1], c[3] + pad - q[2], c[4] + pad - q[3])],
                                   AsSlice(weight)[Flat4(k, q[1], c[2], q[2], q[3])])
               IN  Total(reached, term)
  IN  FromCells(shape, [i \in Range0(numel(shape)) |-> at(Cell4(shape, i))])

conv2d_grad_weight(input, grad, shape, pad) ==
  LET s == input.shape
      o == grad.shape
      at(c) == LET read == {q \in Range0(s[1]) \X Range0(o[3]) \X Range0(o[4]) :
                              /\ q[2] + c[3] - pad \in Range0(s[3])
                              /\ q[3] + c[4] - pad \in Range0(s[4])}
                   term(q) == Mult(AsSlice(input)[Flat4(s, q[1], c[2], q[2] + c[3] - pad, q[3] + c[4] - pad)],
                                   AsSlice(grad)[Flat4(o, q[1], c[1], q[2], q[3])])
               IN  Total(read, term)
  IN  FromCells(shape, [i \in Range0(numel(shape)) |-> at(Cell4(shape, i))])

(* -------------------------- batch normalisation ------------------------ *)

(* The flat indices of channel ci, and the mean over them.                  *)
Channel(shape, ci) == {i \in Range0(numel(shape)) : Cell4(shape, i)[2] = ci}
PerChannel(shape) == shape[1] * shape[3] * shape[4]

channel_mean(x, shape) ==
  [ci \in Range0(shape[2]) |-> LET term(i) == x[i]
                               IN  Over(Total(Channel(shape, ci), term), Num(PerChannel(shape)))]
channel_var(x, shape, mu) ==
  [ci \in Range0(shape[2]) |-> LET term(i) == Power(Minus(x[i], mu[ci]), 2)
                               IN  Over(Total(Channel(shape, ci), term), Num(PerChannel(shape)))]
inv_std(var, eps) == Recip(Sqrt(Plus(var, eps)))

batch_norm2d_forward(input, gamma, beta, eps) ==
  LET x == AsSlice(input)
      s == input.shape
      mu == channel_mean(x, s)
      var == channel_var(x, s, mu)
      at(i) == LET ci == Cell4(s, i)[2]
                   x_hat == Mult(Minus(x[i], mu[ci]), inv_std(var[ci], eps))
               IN  Plus(Mult(x_hat, AsSlice(gamma)[ci]), AsSlice(beta)[ci])
  IN  [out |-> FromCells(s, [i \in DOMAIN x |-> at(i)]),
       mean |-> FromCells(<<s[2]>>, mu), var |-> FromCells(<<s[2]>>, var)]

batch_norm2d_backward(grad, input, gamma, saved_mean, saved_var, eps) ==
  LET x == AsSlice(input)
      g == AsSlice(grad)
      s == input.shape
      m == Num(PerChannel(s))
      scale(ci) == inv_std(AsSlice(saved_var)[ci], eps)
      x_hat(i) == LET ci == Cell4(s, i)[2] IN Mult(Minus(x[i], AsSlice(saved_mean)[ci]), scale(ci))
      weighted(i) == Mult(g[i], x_hat(i))
      plain(i) == g[i]
      d_gamma == [ci \in Range0(s[2]) |-> Total(Channel(s, ci), weighted)]
      d_beta == [ci \in Range0(s[2]) |-> Total(Channel(s, ci), plain)]
      at(i) == LET ci == Cell4(s, i)[2]
                   coef == Over(Mult(AsSlice(gamma)[ci], scale(ci)), m)
               IN  Mult(coef, Minus(Minus(Mult(m, g[i]), d_beta[ci]), Mult(x_hat(i), d_gamma[ci])))
  IN  [input |-> FromCells(s, [i \in DOMAIN x |-> at(i)]),
       gamma |-> FromCells(<<s[2]>>, d_gamma), beta |-> FromCells(<<s[2]>>, d_beta)]

(* ------------------------------ max pooling ---------------------------- *)

(* The flat indices of a window in the order of the loops, and the first    *)
(* of its largest elements.                                                 *)
Window(s, c, kernel, stride) ==
  [q \in Range0(kernel[1] * kernel[2]) |->
     Flat4(s, c[1], c[2], (c[3] * stride[1]) + (q \div kernel[2]), (c[4] * stride[2]) + (q % kernel[2]))]

maxpool2d_forward(input, kernel, stride) ==
  LET s == input.shape
      x == AsSlice(input)
      out == <<s[1], s[2], ((s[3] - kernel[1]) \div stride[1]) + 1, ((s[4] - kernel[2]) \div stride[2]) + 1>>
      best(i) == LET window == Window(s, Cell4(out, i), kernel, stride)
                     upto[q \in DOMAIN window] ==
                       IF q = 0 THEN window[0]
                       ELSE IF Less(x[upto[q - 1]], x[window[q]]) THEN window[q] ELSE upto[q - 1]
                 IN  upto[(kernel[1] * kernel[2]) - 1]
      idx == [i \in Range0(numel(out)) |-> best(i)]
  IN  [out |-> FromCells(out, [i \in DOMAIN idx |-> x[idx[i]]]), idx |-> idx]

maxpool2d_backward(grad, idx, shape) ==
  FromCells(shape, [i \in Range0(numel(shape)) |->
    LET term(o) == AsSlice(grad)[o] IN Total({o \in DOMAIN idx : idx[o] = i}, term)])

(* -------------------------------- losses ------------------------------- *)

reduce_per_sample(per, n, reduction) ==
  FromCells(<<>>, [i \in {0} |-> IF reduction = "mean" THEN Over(SumTo(per, n), Num(n)) ELSE SumTo(per, n)])

(* The fused path for dense operands returns a vector of one element, the   *)
(* general one a scalar.                                                    *)
mse_loss(input, target, reduction) ==
  LET n == numel(input.shape)
      fused == reduction # "none" /\ Dense(input) /\ Dense(target)
      x == IF fused THEN AsSlice(input) ELSE Elements(input)
      t == IF fused THEN AsSlice(target) ELSE Elements(target)
      per == [i \in Range0(n) |-> Mult(Minus(x[i], t[i]), Minus(x[i], t[i]))]
  IN  IF reduction = "none" THEN FromCells(input.shape, per)
      ELSE IF fused THEN FromCells(<<1>>, reduce_per_sample(per, n, reduction).cells)
      ELSE reduce_per_sample(per, n, reduction)

(* A target class outside the row is an error; "none" is not accepted.      *)
nll_loss(log_probs, target, reduction) ==
  LET n == log_probs.shape[1]
      classes == log_probs.shape[2]
      per == [i \in Range0(n) |-> Neg(Elements(log_probs)[(i * classes) + target[i]])]
  IN  reduce_per_sample(per, n, reduction)

cross_entropy(input, target, reduction) == nll_loss(softmax(input, 2, TRUE), target, reduction)

bce_with_logits(input, target, reduction) ==
  LET n == numel(input.shape)
      x == Elements(input)
      t == Elements(target)
      size(a) == IF Whole(a) < 0 THEN Neg(a) ELSE a
      per == [i \in Range0(n) |-> Plus(Minus(Larger(x[i], Zero), Mult(x[i], t[i])),
                                       Log(Plus(One, Exp(Neg(size(x[i]))))))]
  IN  IF reduction = "none" THEN FromCells(input.shape, per) ELSE reduce_per_sample(per, n, reduction)

(* --------------------------------- CTC --------------------------------- *)

NegInf == [v |-> -2, e |-> -2, d |-> <<>>]
log_sum_exp(a, b) ==
  IF a = NegInf THEN b ELSE IF b = NegInf THEN a ELSE Plus(a, Log(Plus(One, Exp(Minus(b, a)))))
Shifted(a, b) == IF a = NegInf THEN NegInf ELSE Plus(a, b)

Blank == 0

(* One sample: lp is its log-probabilities, a buffer of t_b x c.            *)
ctc_loss_forward(lp, t_b, c, target) ==
  LET s_ext == (2 * Len(target)) + 1
      y_ext == [s \in Range0(s_ext) |-> IF s % 2 = 0 THEN Blank ELSE target[(s + 1) \div 2]]
      at(t, k) == lp[(t * c) + k]
      alpha[t \in Range0(t_b)] ==
        [s \in Range0(s_ext) |->
           IF t = 0 THEN IF s < 2 THEN at(0, y_ext[s]) ELSE NegInf
           ELSE LET stay == alpha[t - 1][s]
                    step == IF s > 0 THEN log_sum_exp(stay, alpha[t - 1][s - 1]) ELSE stay
                    skip == IF s > 1 /\ y_ext[s] # Blank /\ y_ext[s] # y_ext[s - 2]
                            THEN log_sum_exp(step, alpha[t - 1][s - 2]) ELSE step
                IN  Shifted(skip, at(t, y_ext[s]))]
      last == alpha[t_b - 1]
  IN  IF s_ext >= 2 THEN log_sum_exp(last[s_ext - 1], last[s_ext - 2]) ELSE last[s_ext - 1]

(* A labelling's collapse: repeats merged, then blanks dropped.             *)
Collapse(path) ==
  LET kept == SelectSeq([i \in DOMAIN path |-> i],
                        LAMBDA i : path[i] # Blank /\ (i = 1 \/ path[i] # path[i - 1]))
  IN  [i \in DOMAIN kept |-> path[kept[i]]]

(* ---------------------------- factorisations --------------------------- *)

Square(n, cell(_, _)) == FromCells(<<n, n>>, [i \in Range0(n * n) |-> cell(i \div n, i % n)])
Entry(t, i, j) == t.cells[(i * t.shape[2]) + j]

(* Gram-Schmidt: column j less its components along the earlier columns.    *)
(* A column of norm 0 leaves a zero column in Q.                            *)
qr(a) ==
  LET n == a.shape[1]
      dot(u, w) == SumTo([k \in Range0(n) |-> Mult(u[k], w[k])], n)
      col(j) == [k \in Range0(n) |-> Entry(a, k, j)]
      q[j \in Range0(n)] ==
        LET v == [k \in Range0(n) |->
                    Minus(col(j)[k], SumTo([i \in Range0(j) |-> Mult(dot(q[i].unit, col(j)), q[i].unit[k])], j))]
            norm == Sqrt(dot(v, v))
        IN  [norm |-> norm,
             unit |-> [k \in Range0(n) |-> IF norm.v = 0 THEN Zero ELSE Over(v[k], norm)]]
      upper(i, j) == IF i < j THEN dot(q[i].unit, col(j)) ELSE IF i = j THEN q[j].norm ELSE Zero
      unit(i, j) == q[j].unit[i]
  IN  [q |-> Square(n, unit), r |-> Square(n, upper)]

cholesky(a) ==
  LET n == a.shape[1]
      l[i \in Range0(n), j \in Range0(n)] ==
        IF j > i THEN Zero
        ELSE LET sum == SumTo([k \in Range0(j) |-> Mult(l[i, k], l[j, k])], j)
             IN  IF i = j THEN Sqrt(Minus(Entry(a, i, i), sum)) ELSE Over(Minus(Entry(a, i, j), sum), l[j, j])
      entry(i, j) == l[i, j]
  IN  Square(n, entry)

Magnitude(x) == IF Whole(x) < 0 THEN -Whole(x) ELSE Whole(x)

(* The row of the largest entry of column c, the first of equals.           *)
PivotRow(u, c, n) ==
  CHOOSE i \in c .. n - 1 : \A j \in c .. n - 1 : Magnitude(u[j][c]) < Magnitude(u[i][c]) \/ (Magnitude(u[j][c]) = Magnitude(u[i][c]) /\ i <= j)

Exchanged(f, c, i) == [f EXCEPT ![c] = f[i], ![i] = f[c]]

(* Column c eliminated below the diagonal, the factors kept in l.           *)
Eliminated(u, l, p, c, n) ==
  [u |-> [i \in Range0(n) |-> [j \in Range0(n) |-> IF i <= c \/ j < c THEN u[i][j]
                                                   ELSE Minus(u[i][j], Mult(Over(u[i][c], u[c][c]), u[c][j]))]],
   l |-> [i \in Range0(n) |-> IF i <= c THEN l[i] ELSE [l[i] EXCEPT ![c] = Over(u[i][c], u[c][c])]],
   p |-> p, ok |-> TRUE]

(* Rows of u, of the factors so far and of the permutation are exchanged    *)
(* together.                                                                *)
LuColumn(b, c, i, n) ==
  IF ~b.ok \/ b.u[i][c].v = 0 THEN [b EXCEPT !.ok = FALSE]
  ELSE Eliminated(Exchanged(b.u, c, i), Exchanged(b.l, c, i), Exchanged(b.p, c, i), c, n)

lu(a) ==
  LET n == a.shape[1]
      begin == [u |-> [i \in Range0(n) |-> [j \in Range0(n) |-> Entry(a, i, j)]],
                l |-> [i \in Range0(n) |-> [j \in Range0(n) |-> Zero]],
                p |-> [i \in Range0(n) |-> i], ok |-> TRUE]
      column(b, c) == LuColumn(b, c, PivotRow(b.u, c, n), n)
      step[k \in 0 .. n] == IF k = 0 THEN begin ELSE column(step[k - 1], k - 1)
      packed(f) == [l |-> FromCells(<<n, n>>, [i \in Range0(n * n) |-> IF i \div n = i % n THEN One ELSE f.l[i \div n][i % n]]),
                    u |-> FromCells(<<n, n>>, [i \in Range0(n * n) |-> f.u[i \div n][i % n]]),
                    p |-> f.p, ok |-> f.ok]
  IN  packed(step[n])

(* Forward, then backward substitution on each column of the permuted       *)
(* identity.                                                                *)
Substituted(f, n) ==
  LET y(col) == LET s[i \in Range0(n)] ==
                      Minus(IF f.p[i] = col THEN One ELSE Zero,
                            SumTo([j \in Range0(i) |-> Mult(Entry(f.l, i, j), s[j])], i))
                IN  s
      x(rhs) == LET s[i \in Range0(n)] ==
                      Over(Minus(rhs[i], SumTo([j \in Range0(n - 1 - i) |-> Mult(Entry(f.u, i, i + 1 + j), s[i + 1 + j])], n - 1 - i)),
                           Entry(f.u, i, i))
                IN  s
      columns == [col \in Range0(n) |-> x(y(col))]
  IN  FromCells(<<n, n>>, [i \in Range0(n * n) |-> columns[i % n][i \div n]])

inverse(a) == Substituted(lu(a), a.shape[1])

(* -------------------------------- calls -------------------------------- *)

CONSTANTS
  NnImages,   \* the N C H W shapes of the images
  NnKernels4, \* the weights of the convolutions, and the pooling windows
  NnMatrices  \* the matrices factored, as rows of integers

Conv2d(shape, kernel) ==
  \E pad \in 0 .. 1 :
    LET k == <<2, shape[2], kernel[1], kernel[2]>>
        t == Seeded(shape, 1)
        w == Seeded(k, 2)
        bias == Seeded(<<2>>, 3)
        out == <<shape[1], 2, shape[3] + (2 * pad) - kernel[1] + 1, shape[4] + (2 * pad) - kernel[2] + 1>>
        padded(n, c, y, x) == IF y \in Range0(shape[3]) /\ x \in Range0(shape[4]) THEN At(t, <<n, c, y, x>>) ELSE Zero
        term(c, q) == Mult(padded(c[1], q[1], c[3] + q[2] - pad, c[4] + q[3] - pad), At(w, <<c[2]>> \o q))
        taps == CoordsOf(Tail(k))
    IN  /\ shape[3] + (2 * pad) >= kernel[1] /\ shape[4] + (2 * pad) >= kernel[2]
        /\ Judge("conv2d", conv2d_forward(t, w, bias, pad), out,
                 [c \in CoordsOf(out) |-> Plus(FoldSet(LAMBDA q, acc : Plus(acc, term(c, q)), Zero, taps), At(bias, <<c[2]>>))])

MaxPool(shape, kernel) ==
  \E stride \in {<<1, 1>>, <<2, 2>>, <<2, 1>>} :
    LET t == Seeded(shape, 1)
        got == maxpool2d_forward(t, kernel, stride)
        span(c) == {c2 \in CoordsOf(shape) : /\ c2[1] = c[1] /\ c2[2] = c[2]
                                             /\ c2[3] - (c[3] * stride[1]) \in Range0(kernel[1])
                                             /\ c2[4] - (c[4] * stride[2]) \in Range0(kernel[2])}
    IN  /\ shape[3] >= kernel[1] /\ shape[4] >= kernel[2]
        /\ Judge("maxpool2d", got.out, got.out.shape,
                 [c \in CoordsOf(got.out.shape) |-> BestOf("max", t, span(c))])

Mse(shape, layout) ==
  \E reduction \in {"none", "mean", "sum"} :
    LET a == Laid(shape, layout, 1)
        b == Laid(shape, "dense", 2)
        got == mse_loss(a, b, reduction)
        square(c) == Power(Minus(At(a, c), At(b, c)), 2)
        all == Total(CoordsOf(shape), square)
    IN  Judge("mse", got, IF reduction = "none" THEN shape ELSE got.shape,
              [c \in CoordsOf(got.shape) |-> IF reduction = "none" THEN square(c)
                                             ELSE IF reduction = "sum" THEN all ELSE Over(all, Num(numel(shape)))])

Classify(shape, layout) ==
  LET t == Laid(shape, layout, 1)
      target == [i \in Range0(shape[1]) |-> (i + 1) % shape[2]]
      probability(i) == LET row == [k \in Range0(shape[2]) |-> Exp(At(t, <<i, k>>))]
                        IN  Over(row[target[i]], SumTo(row, shape[2]))
  IN  /\ Len(shape) = 2
      /\ Judge("cross_entropy", cross_entropy(t, target, "sum"), <<>>,
               [c \in CoordsOf(<<>>) |-> Neg(Log(ProductTo([i \in Range0(shape[1]) |-> probability(i)], shape[1])))])

Bce(shape, layout) ==
  LET t == Laid(shape, layout, 1)
      labels == FromCells(shape, [i \in Range0(numel(shape)) |-> Num(i % 2)])
      likelihood(c) == IF At(labels, c).v = 1 THEN Sigmoid(At(t, c)) ELSE Minus(One, Sigmoid(At(t, c)))
  IN  Judge("bce_with_logits", bce_with_logits(t, labels, "none"), shape,
            [c \in CoordsOf(shape) |-> Neg(Log(likelihood(c)))])

Ctc(target, t_b) ==
  LET c == 3
      p == [i \in Range0(t_b * c) |-> Num(3 + ((i * i) % 7))]
      paths == {path \in [1 .. t_b -> Range0(c)] : Collapse(path) = target}
      weight(path) == ProductTo([t \in Range0(t_b) |-> p[(t * c) + path[t + 1]]], t_b)
      got == ctc_loss_forward([i \in DOMAIN p |-> Log(p[i])], t_b, c, target)
  IN  IF paths = {}
      THEN call = NoCall /\ call' = [op |-> "ctc", kind |-> "value", right |-> got = NegInf]
      ELSE Judge("ctc", FromCells(<<>>, [i \in {0} |-> got]), <<>>, [x \in CoordsOf(<<>>) |-> Log(Total(paths, weight))])

Factor(rows) ==
  LET n == Len(rows)
      cell(i, j) == Num(rows[i + 1][j + 1])
      triangle(i, j) == IF j <= i THEN Num(1 + rows[i + 1][j + 1]) ELSE Zero
      same == [c \in CoordsOf(<<n, n>>) |-> IF c[1] = c[2] THEN One ELSE Zero]
      orthogonal == n = 2 /\ {rows[1][1], rows[2][1]} = {3, 4}
  IN  \E a \in {Square(n, cell)}, root \in {Square(n, triangle)} :
      \E f \in {lu(a)} :
        \/ f.ok /\ Judge("lu", matmul_naive(f.l, f.u), <<n, n>>, [c \in DOMAIN same |-> Entry(a, f.p[c[1]], c[2])])
        \/ f.ok /\ Judge("inverse", matmul_naive(a, inverse(a)), <<n, n>>, same)
        \/ \E spd \in {matmul_naive(root, transpose(root, 1, 2))} :
             Judge("cholesky", cholesky(FromCells(<<n, n>>, spd.cells)), <<n, n>>, [c \in DOMAIN same |-> At(root, c)])
        \/ /\ orthogonal
           /\ \E g \in {qr(a)} :
                \/ Judge("qr", matmul_naive(g.q, g.r), <<n, n>>, [c \in DOMAIN same |-> At(a, c)])
                \/ f.ok /\ Judge("orthonormal", matmul_naive(transpose(g.q, 1, 2), g.q), <<n, n>>, same)

NnNext ==
  \/ \E shape \in NnImages, kernel \in NnKernels4 : Conv2d(shape, kernel) \/ MaxPool(shape, kernel)
  \/ \E shape \in CpuShapes, layout \in Layout : Mse(shape, layout) \/ Classify(shape, layout) \/ Bce(shape, layout)
  \/ \E target \in {<<>>, <<1>>, <<1, 2>>, <<1, 1>>}, t_b \in 1 .. 3 : Ctc(target, t_b)
  \/ \E rows \in NnMatrices : Factor(rows)
=============================================================================
