------------------------------- MODULE GradOps -------------------------------
(***************************************************************************)
(* The differentiable operations (rustorch-autograd, ops.rs): each node's  *)
(* `apply`, written with the backend calls the code makes on the tensors   *)
(* the operation saved.  The forward kernels are run on numbers that carry *)
(* their derivatives, so that what a node returns can be compared with the *)
(* derivative of what the operation computed.                              *)
(***************************************************************************)
EXTENDS NnKernels

scalar(x) == FromCells(<<>>, [i \in {0} |-> x])
add_(l, r) == dispatch_binary("add", l, r)
sub_(l, r) == dispatch_binary("sub", l, r)
mul_(l, r) == dispatch_binary("mul", l, r)
div_(l, r) == dispatch_binary("div", l, r)
First(grad) == AsSlice(grad)[0]
Filled(shape, x) == FromCells(shape, [i \in Range0(numel(shape)) |-> x])

(* ------------------------- the nodes' apply ---------------------------- *)

AddBackward(grad, l, r) == <<unbroadcast_to(grad, l.shape), unbroadcast_to(grad, r.shape)>>
SubBackward(grad, l, r) == <<unbroadcast_to(grad, l.shape), unbroadcast_to(map_unary("neg", grad), r.shape)>>
MulBackward(grad, l, r) == <<unbroadcast_to(mul_(grad, r), l.shape), unbroadcast_to(mul_(grad, l), r.shape)>>
DivBackward(grad, l, r) ==
  LET g_rhs == map_unary("neg", div_(mul_(l, grad), mul_(r, r)))
  IN  <<unbroadcast_to(div_(grad, r), l.shape), unbroadcast_to(g_rhs, r.shape)>>

NegBackward(grad) == map_unary("neg", grad)
ReluBackward(grad, x) == mul_(grad, dispatch_binary("lt", scalar(Zero), x))
SigmoidBackward(grad, y) == mul_(grad, mul_(y, sub_(scalar(One), y)))
TanhBackward(grad, y) == mul_(grad, sub_(scalar(One), mul_(y, y)))
SiluBackward(grad, x) ==
  LET s == map_unary("sigmoid", x)
      inner == add_(scalar(One), mul_(x, sub_(scalar(One), s)))
  IN  mul_(grad, mul_(s, inner))
LeakyReluBackward(grad, x, slope) ==
  FromCells(x.shape, [i \in Range0(numel(x.shape)) |->
    Mult(AsSlice(grad)[i], IF Positive(AsSlice(x)[i]) THEN One ELSE slope)])
AbsBackward(grad, x) ==
  LET sign(v) == IF Positive(v) THEN One ELSE IF Whole(v) < 0 THEN Num(-1) ELSE Zero
  IN  FromCells(x.shape, [i \in Range0(numel(x.shape)) |-> Mult(AsSlice(grad)[i], sign(AsSlice(x)[i]))])
ExpBackward(grad, y) == mul_(grad, y)
LogBackward(grad, x) == div_(grad, x)
SqrtBackward(grad, y) == div_(grad, mul_(scalar(Num(2)), y))
PowScalarBackward(grad, x, n) ==
  LET xn1 == FromCells(x.shape, [i \in Range0(numel(x.shape)) |-> Power(Elements(x)[i], n - 1)])
  IN  mul_(grad, mul_(scalar(Num(n)), xn1))

SumBackward(grad, shape) == Filled(shape, First(grad))
MeanBackward(grad, shape) == Filled(shape, Over(First(grad), Num(numel(shape))))
MeanDimBackward(grad, shape, n_reduced) == mul_(grad, Filled(shape, Recip(Num(n_reduced))))
softmax_grad(grad, y, dim) ==
  mul_(y, sub_(grad, sum_dim(mul_(grad, y), {dim}, TRUE)))
SoftmaxBackward(grad, y, dim) == softmax_grad(grad, y, dim)
LogSoftmaxBackward(grad, y, dim) ==
  sub_(grad, mul_(map_unary("exp", y), sum_dim(grad, {dim}, TRUE)))

MatMulBackward(grad, l, r, macos) ==
  <<matmul_with_transposes(grad, r, FALSE, TRUE, macos), matmul_with_transposes(l, grad, TRUE, FALSE, macos)>>
AddBiasBackward(grad) == <<grad, sum_dim(grad, {1}, FALSE)>>
LinearBackward(grad, x, w, macos) ==
  <<matmul_with_transposes(grad, w, FALSE, TRUE, macos), matmul_with_transposes(x, grad, TRUE, FALSE, macos),
    sum_dim(grad, {1}, FALSE)>>

BmmBackward(grad, l, r) ==
  LET b == l.shape[1]
      m == l.shape[2]
      k == l.shape[3]
      n == r.shape[3]
      g == AsSlice(grad)
      da(x) == LET bi == x \div (m * k)
                   i == (x \div k) % m
                   kk == x % k
               IN  SumTo([j \in Range0(n) |-> Mult(g[(bi * m * n) + (i * n) + j], AsSlice(r)[(bi * k * n) + (kk * n) + j])], n)
      db(x) == LET bi == x \div (k * n)
                   kk == (x \div n) % k
                   j == x % n
               IN  SumTo([i \in Range0(m) |-> Mult(AsSlice(l)[(bi * m * k) + (i * k) + kk], g[(bi * m * n) + (i * n) + j])], m)
  IN  <<FromCells(<<b, m, k>>, [x \in Range0(b * m * k) |-> da(x)]),
        FromCells(<<b, k, n>>, [x \in Range0(b * k * n) |-> db(x)])>>

TransposeBackward(grad, d0, d1) == contiguous(transpose(grad, d0, d1))
ReshapeBackward(grad, shape) == FromCells(shape, AsSlice(grad))

(* Rows of the table are added to once for every index that picked them.    *)
IndexSelectBackward(grad, shape, idx) ==
  LET row == Inner(shape, 1)
      after[k \in 0 .. Len(idx)] ==
        IF k = 0 THEN [i \in Range0(numel(shape)) |-> Zero]
        ELSE [i \in Range0(numel(shape)) |->
                IF i \div row = idx[k] THEN Plus(after[k - 1][i], AsSlice(grad)[((k - 1) * row) + (i % row)])
                ELSE after[k - 1][i]]
  IN  FromCells(shape, after[Len(idx)])

(* `none` takes the first element of the gradient for every sample; the     *)
(* forward operation does not accept it.                                    *)
CrossEntropyBackward(grad, softmax_saved, target, reduction) ==
  LET n == softmax_saved.shape[1]
      classes == softmax_saved.shape[2]
      scale == IF reduction = "mean" THEN Over(First(grad), Num(n)) ELSE First(grad)
      hit(i) == i % classes = target[i \div classes]
  IN  FromCells(<<n, classes>>, [i \in Range0(n * classes) |->
        Mult(scale, IF hit(i) THEN Minus(AsSlice(softmax_saved)[i], One) ELSE AsSlice(softmax_saved)[i])])

NoGrad == FromCells(<<0>>, <<>>)

(* A gradient is computed for the operands that want one only; `none`       *)
(* leaves the upstream gradient out.                                        *)
MseBackward(grad, diff, reduction, wanted) ==
  LET n == numel(diff.shape)
      scale == CASE reduction = "mean" -> Over(Mult(First(grad), Num(2)), Num(n))
                 [] reduction = "sum" -> Mult(First(grad), Num(2))
                 [] reduction = "none" -> Num(2)
      g_x == mul_(diff, scalar(scale))
  IN  [k \in 1 .. 2 |-> IF k \notin wanted THEN NoGrad
                        ELSE IF k = 1 THEN g_x
                        ELSE IF 1 \in wanted THEN map_unary("neg", g_x) ELSE mul_(diff, scalar(Neg(scale)))]

Conv2dBackward(grad, input, weight, pad, has_bias) ==
  LET g == AsSlice(grad)
      term(i) == g[i]
      bias == FromCells(<<grad.shape[2]>>, [co \in Range0(grad.shape[2]) |-> Total(Channel(grad.shape, co), term)])
      both == <<conv2d_grad_input(grad, weight, input.shape, pad), conv2d_grad_weight(input, grad, weight.shape, pad)>>
  IN  IF has_bias THEN Append(both, bias) ELSE both

BatchNorm2dBackward(grad, input, gamma, forward, eps) ==
  LET d == batch_norm2d_backward(grad, input, gamma, forward.mean, forward.var, eps)
  IN  <<d.input, d.gamma, d.beta>>

(* -------------------------------- calls -------------------------------- *)

(* Operands whose elements are the variables number from + 1, ...           *)
Operand(shape, seed, kind, from, n) ==
  LET pick(i) == LET v == Value(seed, i)
                 IN  CASE kind = "any" -> v
                       [] kind = "nonzero" -> IF v = 0 THEN 6 ELSE v
                       [] kind = "square" -> (v * v) + IF v = 0 THEN 1 ELSE 0
  IN  FromCells(shape, [i \in Range0(numel(shape)) |-> Var(pick(i), from + i + 1, n)])

(* The elements of the operands before number k.                            *)
Preceding(shapes, k) ==
  LET upto[j \in 1 .. k] == IF j = 1 THEN 0 ELSE upto[j - 1] + numel(shapes[j - 1]) IN upto[k]

(* Operands that follow each other, each with its seed.                     *)
Operands(shapes, kinds) ==
  [k \in DOMAIN shapes |-> Operand(shapes[k], k, kinds[k], Preceding(shapes, k), Preceding(shapes, Len(shapes) + 1))]

Plain(t) == [t EXCEPT !.cells = [i \in DOMAIN t.cells |-> Const(t.cells[i])]]
Upstream(out) == Seeded(out.shape, 4)

(* The sum over the outputs of the upstream gradient times the derivative   *)
(* with respect to a variable.                                              *)
Chained(g, y, n, variable) ==
  LET sum[i \in 0 .. n] ==
        IF i = 0 THEN 0 ELSE (sum[i - 1] + (g[i - 1].v * Derivative(y[i - 1], variable))) % P
  IN  sum[n]

(* The gradient of every operand that wants one has the operand's shape and *)
(* is the derivative of the result; the others get none.                    *)
DifferentiatedFor(op, operands, wanted, out, grads) ==
  LET from(k) == Preceding([j \in DOMAIN operands |-> operands[j].shape], k)
      n == numel(out.shape)
      right(g, y) == \A k \in DOMAIN operands :
                       IF k \notin wanted THEN grads[k] = NoGrad
                       ELSE /\ grads[k].shape = operands[k].shape
                            /\ [i \in Range0(numel(grads[k].shape)) |-> Elements(grads[k])[i].v]
                                 = [i \in Range0(numel(grads[k].shape)) |-> Chained(g, y, n, from(k) + i + 1)]
  IN  /\ call = NoCall
      /\ \E g \in {Upstream(out).cells}, y \in {Elements(out)} :
           call' = [op |-> op, kind |-> "gradient", right |-> right(g, y)]

Differentiated(op, operands, out, grads) == DifferentiatedFor(op, operands, DOMAIN operands, out, grads)

(* One operand: the forward result out of t, and the node's gradient of it. *)
Unary1(op, t, out, grad) == Differentiated(op, <<t>>, out, <<grad>>)

DiffBinary(a, b) ==
  /\ Broadcastable(a, b)
  /\ \E op \in {"add", "sub", "mul", "div"} :
       LET ts == Operands(<<a, b>>, <<"any", "nonzero">>)
           out == dispatch_binary(op, ts[1], ts[2])
           l == Plain(ts[1])
           r == Plain(ts[2])
           g == Upstream(out)
       IN  Differentiated(op, ts, out,
             CASE op = "add" -> AddBackward(g, l, r) [] op = "sub" -> SubBackward(g, l, r)
               [] op = "mul" -> MulBackward(g, l, r) [] op = "div" -> DivBackward(g, l, r))

DiffUnary(shape) ==
  \E op \in {"neg", "relu", "sigmoid", "tanh", "silu", "leaky_relu", "abs", "exp", "log", "sqrt", "pow_scalar"} :
    LET t == Operands(<<shape>>, <<IF op \in {"log", "abs"} THEN "nonzero" ELSE IF op = "sqrt" THEN "square" ELSE "any">>)[1]
        out == map_unary(op, t)
        x == Plain(t)
        y == Plain(out)
        g == Upstream(out)
    IN  Unary1(op, t, out,
          CASE op = "neg" -> NegBackward(g) [] op = "relu" -> ReluBackward(g, x)
            [] op = "sigmoid" -> SigmoidBackward(g, y) [] op = "tanh" -> TanhBackward(g, y)
            [] op = "silu" -> SiluBackward(g, x) [] op = "leaky_relu" -> LeakyReluBackward(g, x, Num(3))
            [] op = "abs" -> AbsBackward(g, x) [] op = "exp" -> ExpBackward(g, y)
            [] op = "log" -> LogBackward(g, x) [] op = "sqrt" -> SqrtBackward(g, y)
            [] op = "pow_scalar" -> PowScalarBackward(g, x, 3))

DiffShape(shape) ==
  LET t == Operands(<<shape>>, <<"any">>)[1]
  IN  \/ LET out == full_reduce("sum", t) IN Unary1("sum", t, out, SumBackward(Upstream(out), shape))
      \/ LET out == mean(t) IN Unary1("mean", t, out, MeanBackward(Upstream(out), shape))
      \/ \E dims \in SUBSET DOMAIN shape \ {{}} :
           LET out == mean_dim(t, dims, TRUE)
           IN  Unary1("mean_dim", t, out, MeanDimBackward(Upstream(out), shape, numel([axis \in DOMAIN shape |-> IF axis \in dims THEN shape[axis] ELSE 1])))
      \/ \E dim \in DOMAIN shape :
           \/ LET out == softmax(t, dim, FALSE) IN Unary1("softmax", t, out, SoftmaxBackward(Upstream(out), Plain(out), dim))
           \/ LET out == softmax(t, dim, TRUE) IN Unary1("log_softmax", t, out, LogSoftmaxBackward(Upstream(out), Plain(out), dim))
      \/ \E d0, d1 \in DOMAIN shape :
           LET out == contiguous(transpose(t, d0, d1)) IN Unary1("transpose", t, out, TransposeBackward(Upstream(out), d0, d1))
      \/ LET out == FromCells(<<numel(shape)>>, AsSlice(t)) IN Unary1("reshape", t, out, ReshapeBackward(Upstream(out), shape))
      \/ LET idx == <<shape[1] - 1, 0, shape[1] - 1>>
             out == index_select(t, 1, idx)
         IN  Unary1("index_select", t, out, IndexSelectBackward(Upstream(out), shape, idx))

DiffProduct(m, k, n) ==
  \/ \E macos \in BOOLEAN :
       LET ts == Operands(<<<<m, k>>, <<k, n>>, <<n>>>>, <<"any", "any", "any">>)
           two == SubSeq(ts, 1, 2)
           plain == matmul(ts[1], ts[2])
           biased == matmul_with_bias(ts[1], ts[2], ts[3])
       IN  \/ Differentiated("matmul", two, plain, MatMulBackward(Upstream(plain), Plain(ts[1]), Plain(ts[2]), macos))
           \/ Differentiated("linear", ts, biased, LinearBackward(Upstream(biased), Plain(ts[1]), Plain(ts[2]), macos))
  \/ LET ts == Operands(<<<<m, n>>, <<n>>>>, <<"any", "any">>)
         out == add_bias(ts[1], ts[2])
     IN  Differentiated("add_bias", ts, out, AddBiasBackward(Upstream(out)))
  \/ LET ts == Operands(<<<<2, m, k>>, <<2, k, n>>>>, <<"any", "any">>)
         out == bmm(ts[1], ts[2])
     IN  Differentiated("bmm", ts, out, BmmBackward(Upstream(out), Plain(ts[1]), Plain(ts[2])))

DiffLoss(shape) ==
  \E reduction \in {"mean", "sum"} :
    \/ \E wanted \in SUBSET {1, 2} :
         LET ts == Operands(<<shape, shape>>, <<"any", "any">>)
             out == mse_loss(ts[1], ts[2], reduction)
             diff == Plain(sub_(ts[1], ts[2]))
         IN  DifferentiatedFor("mse", ts, wanted, out, MseBackward(Upstream(out), diff, reduction, wanted))
    \/ LET t == Operands(<<shape>>, <<"any">>)[1]
           target == [i \in Range0(shape[1]) |-> (i + 1) % shape[2]]
           out == cross_entropy(t, target, reduction)
       IN  /\ Len(shape) = 2
           /\ Unary1("cross_entropy", t, out, CrossEntropyBackward(Upstream(out), Plain(softmax(t, 2, FALSE)), target, reduction))

DiffImage(shape, kernel) ==
  \/ \E pad \in 0 .. 1, has_bias \in BOOLEAN :
       LET k == <<2, shape[2], kernel[1], kernel[2]>>
           all == Operands(<<shape, k, <<2>>>>, <<"any", "any", "any">>)
           ts == IF has_bias THEN all ELSE SubSeq(all, 1, 2)
           out == conv2d_forward(all[1], all[2], IF has_bias THEN all[3] ELSE Filled(<<2>>, Zero), pad)
       IN  /\ shape[3] + (2 * pad) >= kernel[1] /\ shape[4] + (2 * pad) >= kernel[2]
           /\ Differentiated("conv2d", ts, out, Conv2dBackward(Upstream(out), Plain(all[1]), Plain(all[2]), pad, has_bias))
  \/ \E stride \in {<<1, 1>>, <<2, 1>>} :
       LET t == Operands(<<shape>>, <<"any">>)[1]
           f == maxpool2d_forward(t, kernel, stride)
       IN  /\ shape[3] >= kernel[1] /\ shape[4] >= kernel[2]
           /\ Unary1("max_pool2d", t, f.out, maxpool2d_backward(Upstream(f.out), f.idx, shape))
  \/ \E eps \in 1 .. 9 :
       LET c == shape[2]
           ts == Operands(<<shape, <<c>>, <<c>>>>, <<"any", "nonzero", "any">>)
           var == channel_var(AsSlice(ts[1]), shape, channel_mean(AsSlice(ts[1]), shape))
           f == batch_norm2d_forward(ts[1], ts[2], ts[3], Num(eps))
           saved == [mean |-> Plain(f.mean), var |-> Plain(f.var)]
       IN  /\ \A ci \in Range0(c) : Plus(var[ci], Num(eps)).v \in DOMAIN Roots \ {0}
           /\ Differentiated("batch_norm2d", ts, f.out, BatchNorm2dBackward(Upstream(f.out), Plain(ts[1]), Plain(ts[2]), saved, Num(eps)))

(* l2_normalize is composed of the operations above.                        *)
l2_normalize_with_eps(t, dim, eps) ==
  LET square == mul_(t, t)
      sum_sq == mul_(mean_dim(square, {dim}, TRUE), scalar(Num(t.shape[dim])))
  IN  div_(t, map_unary("sqrt", add_(sum_sq, scalar(eps))))

Normalize ==
  LET t == FromCells(<<2, 2>>, [i \in Range0(4) |-> Num(<<3, 4, 0, 5>>[i + 1])])
      want == [c \in CoordsOf(<<2, 2>>) |-> Over(At(t, c), Num(6))]
  IN  Judge("l2_normalize", l2_normalize_with_eps(t, 2, Num(11)), <<2, 2>>, want)

GradNext ==
  \/ \E a, b \in CpuShapes : DiffBinary(a, b)
  \/ \E shape \in CpuShapes : DiffUnary(shape) \/ DiffShape(shape) \/ DiffLoss(shape)
  \/ \E g \in CpuGemms : DiffProduct(g[1], g[2], g[3])
  \/ \E shape \in NnImages, kernel \in NnKernels4 : DiffImage(shape, kernel)
  \/ Normalize

(* What a node's apply returns is the gradient: of each operand's shape,    *)
(* whatever was broadcast, reduced or padded on the way, and equal to the   *)
(* derivative of the forward kernel chained with the upstream gradient.     *)
BackwardIsDerivative == call # NoCall /\ call.kind = "gradient" => call.right
=============================================================================
