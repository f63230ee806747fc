------------------------------ MODULE Numbers ------------------------------
(***************************************************************************)
(* The scalars of the tensor models: real arithmetic without rounding, on  *)
(* a finite domain, with derivatives.  A number is                         *)
(*   v   its value modulo the prime P, -1 when it is a logarithm's;        *)
(*   e   its value modulo P - 1, for exponentials, -1 when not an integer; *)
(*   d   its derivatives with respect to the variables of the call, modulo *)
(*       P, or <<>> for a constant.                                        *)
(* Sums, products and quotients of reals go over to both moduli, and       *)
(* exponentials do too, because G generates the multiplicative group: an   *)
(* identity of the reals holds here, and a formula that is not an identity *)
(* fails for most values.  Comparisons read v as a number around 0.        *)
(***************************************************************************)
EXTENDS Integers, Sequences

P == 107
G == 2  \* a generator of the multiplicative group modulo P

Inverses == [x \in 1 .. P - 1 |-> CHOOSE y \in 1 .. P - 1 : (x * y) % P = 1]
Powers == LET pow[k \in 0 .. P - 2] == IF k = 0 THEN 1 ELSE (G * pow[k - 1]) % P IN pow
Logarithms == [x \in 1 .. P - 1 |-> CHOOSE k \in 0 .. P - 2 : Powers[k] = x]
Roots == [x \in {(y * y) % P : y \in 0 .. P - 1} |-> CHOOSE y \in 0 .. P \div 2 : (y * y) % P = x]

Num(k) == [v |-> k % P, e |-> k % (P - 1), d |-> <<>>]
Zero == Num(0)
One == Num(1)

(* The variable number i of n, with value k.                                *)
Var(k, i, n) == [Num(k) EXCEPT !.d = [j \in 1 .. n |-> IF j = i THEN 1 ELSE 0]]

Const(x) == [x EXCEPT !.d = <<>>]

Sum2(d, c) == IF d = <<>> THEN c ELSE IF c = <<>> THEN d ELSE [i \in DOMAIN d |-> (d[i] + c[i]) % P]
Times(k, d) == [i \in DOMAIN d |-> (k * d[i]) % P]

Known(x, y, k, modulus) == IF x < 0 \/ y < 0 THEN -1 ELSE k % modulus

Plus(x, y) == [v |-> Known(x.v, y.v, x.v + y.v, P), e |-> Known(x.e, y.e, x.e + y.e, P - 1), d |-> Sum2(x.d, y.d)]
Neg(x) == [v |-> Known(x.v, 0, -x.v, P), e |-> Known(x.e, 0, -x.e, P - 1), d |-> Times(P - 1, x.d)]
Minus(x, y) == Plus(x, Neg(y))
Mult(x, y) == [v |-> Known(x.v, y.v, x.v * y.v, P), e |-> Known(x.e, y.e, x.e * y.e, P - 1),
               d |-> Sum2(Times(y.v, x.d), Times(x.v, y.d))]
Recip(x) == LET r == Inverses[x.v] IN [v |-> r, e |-> -1, d |-> Times(-(r * r), x.d)]
Over(x, y) == Mult(x, Recip(y))
Exp(x) == LET y == Powers[x.e] IN [v |-> y, e |-> -1, d |-> Times(y, x.d)]
Log(x) == [v |-> -1, e |-> Logarithms[x.v], d |-> Times(Inverses[x.v], x.d)]
Sqrt(x) == LET r == Roots[x.v] IN [v |-> r, e |-> -1, d |-> Times(Inverses[(2 * r) % P], x.d)]
Tanh(x) == LET y == Exp(Plus(x, x)) IN Over(Minus(y, One), Plus(y, One))
Sigmoid(x) == Over(One, Plus(One, Exp(Neg(x))))
Power(x, n) == LET p[k \in 0 .. n] == IF k = 0 THEN One ELSE Mult(x, p[k - 1]) IN p[n]

(* The value as an integer around 0.                                        *)
Whole(x) == IF x.v > P \div 2 THEN x.v - P ELSE x.v
Less(x, y) == Whole(x) < Whole(y)
Larger(x, y) == IF Less(x, y) THEN y ELSE x
Smaller(x, y) == IF Less(y, x) THEN y ELSE x

(* The sum, product and largest of f[0], ..., f[n - 1].                     *)
SumTo(f, n) == LET s[i \in 0 .. n] == IF i = 0 THEN Zero ELSE Plus(s[i - 1], f[i - 1]) IN s[n]
ProductTo(f, n) == LET s[i \in 0 .. n] == IF i = 0 THEN One ELSE Mult(s[i - 1], f[i - 1]) IN s[n]

Derivative(x, i) == IF x.d = <<>> THEN 0 ELSE x.d[i]

(* Equal wherever both are known.                                           *)
Agree(a, b) == a = b \/ a < 0 \/ b < 0
Same(x, y) ==
  /\ Agree(x.v, y.v)
  /\ Agree(x.e, y.e)
  /\ \A i \in DOMAIN x.d \cup DOMAIN y.d : Derivative(x, i) = Derivative(y, i)
=============================================================================
