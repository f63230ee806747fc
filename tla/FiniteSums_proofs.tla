-------------------------- MODULE FiniteSums_proofs --------------------------
(***************************************************************************)
(* Facts the proofs of several components rest on: sets of naturals have   *)
(* a least element, which stands in for induction; finite ones have a      *)
(* greatest; and a sum over a finite set may be taken apart at any of its  *)
(* elements, whichever order SumFunctionOnSet adds them in.                *)
(***************************************************************************)
EXTENDS FiniteSetsExt, FiniteSetTheorems, WellFoundedInduction, TLAPS

LEMMA Least ==
  ASSUME NEW T \in SUBSET Nat, T # {}
  PROVE  \E m \in T : \A k \in T : m <= k
  <1> DEFINE R == OpToRel(<, Nat)
  <1>1. IsWellFoundedOn(R, Nat)
    BY NatLessThanWellFounded
  <1>2. \A k, m \in Nat : k < m => <<k, m>> \in R
    BY DEF OpToRel
  <1> HIDE DEF R
  <1>3. PICK m \in T : \A k \in T : ~(<<k, m>> \in R)
    BY <1>1, WFMin
  <1>4. ASSUME NEW k \in T PROVE m <= k
    <2>1. m \in Nat /\ k \in Nat
      BY <1>3
    <2>2. ~(k < m)
      BY <1>2, <1>3, <2>1
    <2> QED
      BY <2>1, <2>2
  <1> QED
    BY <1>4

LEMMA MinOf ==
  ASSUME NEW T \in SUBSET Nat, T # {}
  PROVE  Min(T) \in T
  BY Least DEF Min

LEMMA MaxOf ==
  ASSUME NEW n \in Nat, NEW T \in SUBSET (0 .. n), T # {}
  PROVE  Max(T) \in T /\ \A k \in T : k <= Max(T)
  <1> DEFINE U == {n - k : k \in T}
  <1>1. U \in SUBSET Nat /\ U # {}
    <2>1. ASSUME NEW k \in T PROVE n - k \in Nat
      <3>1. k \in 0 .. n
        OBVIOUS
      <3> QED
        BY <3>1
    <2> QED
      BY <2>1
  <1>2. PICK u \in U : \A v \in U : u <= v
    BY <1>1, Least
  <1>3. PICK m \in T : u = n - m
    BY <1>2
  <1>4. \A k \in T : m >= k
    <2> TAKE k \in T
    <2>1. n - m <= n - k
      BY <1>2, <1>3
    <2>2. m \in 0 .. n /\ k \in 0 .. n
      OBVIOUS
    <2> QED
      BY <2>1, <2>2
  <1>5. Max(T) \in T /\ \A k \in T : Max(T) >= k
    BY <1>3, <1>4 DEF Max
  <1>6. T \subseteq Nat
    OBVIOUS
  <1> QED
    BY <1>5, <1>6

LEMMA MaxOfTwo ==
  ASSUME NEW a \in Nat, NEW b \in Nat
  PROVE  Max({a, b}) \in {a, b} /\ a <= Max({a, b}) /\ b <= Max({a, b})
  <1>1. \E x \in {a, b} : \A y \in {a, b} : x >= y
    OBVIOUS
  <1>2. Max({a, b}) \in {a, b} /\ \A y \in {a, b} : Max({a, b}) >= y
    BY <1>1 DEF Max
  <1> QED
    BY <1>2

(* A family of subsets of a finite set has one that contains no other.     *)
LEMMA SmallestSet ==
  ASSUME NEW U, IsFiniteSet(U), NEW F \in SUBSET (SUBSET U), F # {}
  PROVE  \E S \in F : \A V \in F : V \subseteq S => V = S
  <1> DEFINE N == {Cardinality(S) : S \in F}
  <1>1. \A S \in F : IsFiniteSet(S) /\ Cardinality(S) \in Nat
    BY FS_Subset, FS_CardinalityType
  <1>2. PICK n \in N : \A k \in N : n <= k
    <2>1. N \in SUBSET Nat /\ N # {}
      BY <1>1
    <2> QED
      BY <2>1, Least
  <1>3. PICK S \in F : n = Cardinality(S)
    BY <1>2
  <1>4. ASSUME NEW V \in F, V \subseteq S PROVE V = S
    <2>1. Cardinality(V) <= Cardinality(S) /\ (Cardinality(S) = Cardinality(V) => S = V)
      BY <1>1, <1>4, FS_Subset
    <2>2. Cardinality(S) <= Cardinality(V)
      BY <1>2, <1>3
    <2>3. Cardinality(S) \in Nat /\ Cardinality(V) \in Nat
      BY <1>1
    <2> QED
      BY <2>1, <2>2, <2>3
  <1> QED
    BY <1>4

(* Of finitely many integers one is the greatest.                          *)
LEMMA Greatest ==
  ASSUME NEW S, IsFiniteSet(S), S # {}, NEW v, \A x \in S : v[x] \in Int
  PROVE  \E m \in S : \A k \in S : v[k] <= v[m]
  <1> DEFINE F == {V \in SUBSET S : V # {} /\ ~\E m \in V : \A k \in V : v[k] <= v[m]}
  <1> SUFFICES ASSUME F # {} PROVE FALSE
    OBVIOUS
  <1>1. F \in SUBSET (SUBSET S)
    OBVIOUS
  <1>2. PICK V \in F : \A W \in F : W \subseteq V => W = V
    <2> HIDE DEF F
    <2> QED
      BY <1>1, SmallestSet
  <1>3. PICK x \in V : TRUE
    OBVIOUS
  <1>4. V \ {x} \notin F /\ V \ {x} \in SUBSET S /\ \A k \in V : v[k] \in Int
    BY <1>2, <1>3
  <1>5. CASE V \ {x} = {}
    <2>1. \A k \in V : k = x
      BY <1>5
    <2>2. \A k \in V : v[k] <= v[x]
      BY <1>3, <1>4, <2>1
    <2> QED
      BY <1>2, <1>3, <2>2
  <1>6. CASE V \ {x} # {}
    <2>1. PICK m \in V \ {x} : \A k \in V \ {x} : v[k] <= v[m]
      BY <1>4, <1>6
    <2>2. CASE v[x] <= v[m]
      <3>1. \A k \in V : v[k] <= v[m]
        BY <2>1, <2>2
      <3> QED
        BY <1>2, <2>1, <3>1
    <2>3. CASE v[m] <= v[x]
      <3>1. \A k \in V : v[k] <= v[x]
        BY <1>3, <1>4, <2>1, <2>3
      <3> QED
        BY <1>2, <1>3, <3>1
    <2> QED
      BY <1>3, <1>4, <2>1, <2>2, <2>3
  <1> QED
    BY <1>5, <1>6

LEMMA MaxOfFinite ==
  ASSUME NEW T, T \subseteq Nat, IsFiniteSet(T), T # {}
  PROVE  Max(T) \in T /\ \A k \in T : k <= Max(T)
  <1> DEFINE v == [x \in T |-> x]
  <1>1. \A x \in T : v[x] = x /\ v[x] \in Int
    OBVIOUS
  <1> HIDE DEF v
  <1>2. \E m \in T : \A k \in T : v[k] <= v[m]
    BY <1>1, Greatest
  <1>3. \E m \in T : \A k \in T : m >= k
    BY <1>1, <1>2
  <1>4. Max(T) \in T /\ \A k \in T : Max(T) >= k
    BY <1>3 DEF Max
  <1> QED
    BY <1>4

-----------------------------------------------------------------------------
(* g gives the sum over every subset of S, as Folds adds it up.            *)
Sums(f, S, g) ==
  g = [s \in SUBSET S |-> IF s = {} THEN 0
                          ELSE f[CHOOSE x \in s : TRUE] + g[s \ {CHOOSE x \in s : TRUE}]]

LEMMA SumsFold ==
  ASSUME NEW f, NEW S
  PROVE  SumFunctionOnSet(f, S) = (CHOOSE g : Sums(f, S, g))[S]
  BY DEF SumFunctionOnSet, FoldFunctionOnSet, MapThenFoldSet, Sums

(* Every finite set has such a g, built up by the size of the subset.      *)
LEMMA SumsExist ==
  ASSUME NEW f, NEW S, IsFiniteSet(S)
  PROVE  \E g : Sums(f, S, g)
  <1> DEFINE first(s) == CHOOSE x \in s : TRUE
             value(g, s) == IF s = {} THEN 0 ELSE f[first(s)] + g[s \ {first(s)}]
             upTo(n, g) == \A s \in SUBSET S : Cardinality(s) <= n => g[s] = value(g, s)
             None == {n \in Nat : ~\E g : g = [s \in SUBSET S |-> g[s]] /\ upTo(n, g)}
  <1>1. \A s \in SUBSET S : /\ Cardinality(s) \in Nat /\ (Cardinality(s) = 0 => s = {})
                            /\ s # {} => /\ first(s) \in s /\ s \ {first(s)} \in SUBSET S
                                         /\ Cardinality(s \ {first(s)}) = Cardinality(s) - 1
    <2> TAKE s \in SUBSET S
    <2>1. IsFiniteSet(s)
      BY FS_Subset
    <2>2. s # {} => first(s) \in s
      OBVIOUS
    <2> QED
      BY <2>1, <2>2, FS_CardinalityType, FS_EmptySet, FS_RemoveElement
  <1> HIDE DEF first
  <1>2. None = {}
    <2> SUFFICES ASSUME None # {} PROVE FALSE
      OBVIOUS
    <2>1. None \in SUBSET Nat
      OBVIOUS
    <2>2. PICK n \in None : \A k \in None : n <= k
      <3> HIDE DEF None
      <3> QED
        BY <2>1, Least
    <2>3. CASE n = 0
      <3> DEFINE g == [s \in SUBSET S |-> 0]
      <3>1. ASSUME NEW s \in SUBSET S, Cardinality(s) <= 0 PROVE s = {}
        <4>1. PICK c \in Nat : c = Cardinality(s)
          BY <1>1
        <4>2. c = 0
          BY <3>1, <4>1
        <4> QED
          BY <1>1, <4>1, <4>2
      <3>2. g = [s \in SUBSET S |-> g[s]] /\ upTo(0, g)
        BY <3>1
      <3> QED
        BY <2>2, <2>3, <3>2
    <2>4. CASE n # 0
      <3>1. n \in Nat /\ n - 1 \in Nat /\ n - 1 \notin None
        <4> HIDE DEF None
        <4> QED
          BY <2>1, <2>2, <2>4
      <3>2. PICK h : h = [s \in SUBSET S |-> h[s]] /\ upTo(n - 1, h)
        BY <3>1
      <3> DEFINE g == [s \in SUBSET S |-> IF Cardinality(s) = n THEN value(h, s) ELSE h[s]]
      <3>3. ASSUME NEW s \in SUBSET S, Cardinality(s) <= n PROVE g[s] = value(g, s)
        <4>1. s # {} => g[s \ {first(s)}] = h[s \ {first(s)}]
          BY <1>1, <3>1, <3>3
        <4>2. value(g, s) = value(h, s)
          BY <4>1
        <4>3. CASE Cardinality(s) = n
          BY <4>2, <4>3
        <4>4. CASE Cardinality(s) # n
          <5>1. Cardinality(s) <= n - 1
            <6>1. PICK c \in Nat : c = Cardinality(s)
              BY <1>1
            <6>2. c <= n - 1
              BY <3>1, <3>3, <4>4, <6>1
            <6> QED
              BY <6>1, <6>2
          <5>2. g[s] = h[s] /\ h[s] = value(h, s)
            BY <3>2, <4>4, <5>1
          <5> QED
            BY <4>2, <5>2
        <4> QED
          BY <4>3, <4>4
      <3>4. g = [s \in SUBSET S |-> g[s]]
        OBVIOUS
      <3> HIDE DEF g, value
      <3>5. upTo(n, g)
        BY <3>3
      <3> QED
        BY <2>2, <3>1, <3>4, <3>5
    <2> QED
      BY <2>3, <2>4
  <1>3. Cardinality(S) \in Nat /\ \A s \in SUBSET S : Cardinality(s) <= Cardinality(S)
    BY FS_CardinalityType, FS_Subset
  <1>4. PICK g : g = [s \in SUBSET S |-> g[s]] /\ upTo(Cardinality(S), g)
    BY <1>2, <1>3
  <1>5. \A s \in SUBSET S : g[s] = value(g, s)
    BY <1>3, <1>4
  <1>6. g = [s \in SUBSET S |-> value(g, s)]
    BY <1>4, <1>5
  <1> QED
    BY <1>6 DEF Sums, first

(* Sums agree on common subsets, where the functions summed do.            *)
LEMMA SumsAgree ==
  ASSUME NEW e, NEW f, NEW S, NEW T, NEW g, NEW h, IsFiniteSet(S),
         Sums(e, S, g), Sums(f, T, h), NEW U \in SUBSET S, U \subseteq T,
         \A x \in U : e[x] = f[x]
  PROVE  g[U] = h[U]
  <1> DEFINE F == {V \in SUBSET U : g[V] # h[V]}
  <1> SUFFICES ASSUME F # {} PROVE FALSE
    OBVIOUS
  <1>1. IsFiniteSet(U) /\ F \in SUBSET (SUBSET U)
    BY FS_Subset
  <1>2. PICK V \in F : \A W \in F : W \subseteq V => W = V
    <2> HIDE DEF F
    <2> QED
      BY <1>1, SmallestSet
  <1> DEFINE x == CHOOSE y \in V : TRUE
  <1>3. V \in SUBSET S /\ V \in SUBSET T /\ g[V] # h[V]
    BY <1>2
  <1>4. /\ g[V] = IF V = {} THEN 0 ELSE e[x] + g[V \ {x}]
        /\ h[V] = IF V = {} THEN 0 ELSE f[x] + h[V \ {x}]
    BY <1>3 DEF Sums
  <1>5. CASE V = {}
    BY <1>3, <1>4, <1>5
  <1>6. CASE V # {}
    <2>1. x \in V
      BY <1>6
    <2> HIDE DEF x
    <2>2. e[x] = f[x]
      BY <1>2, <2>1
    <2>3. V \ {x} \notin F /\ V \ {x} \in SUBSET U
      BY <1>2, <2>1
    <2>4. g[V \ {x}] = h[V \ {x}]
      BY <2>3
    <2> QED
      BY <1>3, <1>4, <1>6, <2>2, <2>4
  <1> QED
    BY <1>5, <1>6

(* Sums of functions that agree are equal.                                 *)
LEMMA SumAgrees ==
  ASSUME NEW S, IsFiniteSet(S), NEW e, NEW f, \A x \in S : e[x] = f[x]
  PROVE  SumFunctionOnSet(e, S) = SumFunctionOnSet(f, S)
  <1>1. PICK g : g = CHOOSE k : Sums(e, S, k)
    OBVIOUS
  <1>2. PICK h : h = CHOOSE k : Sums(f, S, k)
    OBVIOUS
  <1>3. Sums(e, S, g) /\ Sums(f, S, h)
    BY <1>1, <1>2, SumsExist
  <1>4. g[S] = h[S]
    BY <1>3, SumsAgree
  <1> QED
    BY <1>1, <1>2, <1>4, SumsFold

(* A sum over a part of S is the entry of the table over S.                *)
LEMMA SumEntry ==
  ASSUME NEW S, IsFiniteSet(S), NEW f, NEW g, Sums(f, S, g), NEW U \in SUBSET S
  PROVE  SumFunctionOnSet(f, U) = g[U]
  <1>1. IsFiniteSet(U)
    BY FS_Subset
  <1>2. PICK h : h = CHOOSE k : Sums(f, U, k)
    OBVIOUS
  <1>3. Sums(f, U, h)
    BY <1>1, <1>2, SumsExist
  <1>4. h[U] = g[U]
    BY <1>1, <1>3, SumsAgree
  <1> QED
    BY <1>2, <1>4, SumsFold

LEMMA SumEmpty ==
  ASSUME NEW f
  PROVE  SumFunctionOnSet(f, {}) = 0
  <1>1. PICK g : Sums(f, {}, g)
    BY SumsExist, FS_EmptySet
  <1>2. SumFunctionOnSet(f, {}) = g[{}]
    BY <1>1, SumEntry, FS_EmptySet
  <1> QED
    BY <1>1, <1>2 DEF Sums

(* Integers may be added up in any order.                                  *)
LEMMA SumRemove ==
  ASSUME NEW S, IsFiniteSet(S), NEW f, \A x \in S : f[x] \in Int
  PROVE  /\ SumFunctionOnSet(f, S) \in Int
         /\ \A x \in S : SumFunctionOnSet(f, S) = f[x] + SumFunctionOnSet(f, S \ {x})
  <1>1. PICK g : Sums(f, S, g)
    BY SumsExist
  <1>2. \A V \in SUBSET S : SumFunctionOnSet(f, V) = g[V]
    BY <1>1, SumEntry
  <1> DEFINE Good(V) == g[V] \in Int /\ \A x \in V : g[V] = f[x] + g[V \ {x}]
             F == {V \in SUBSET S : ~Good(V)}
  <1>3. F = {}
    <2> SUFFICES ASSUME F # {} PROVE FALSE
      OBVIOUS
    <2>1. F \in SUBSET (SUBSET S)
      OBVIOUS
    <2>2. PICK V \in F : \A W \in F : W \subseteq V => W = V
      <3> HIDE DEF F
      <3> QED
        BY <2>1, SmallestSet
    <2>3. V \in SUBSET S /\ ~Good(V) /\ \A W \in SUBSET V : W # V => Good(W)
      BY <2>2
    <2>4. CASE V = {}
      BY <1>1, <2>3, <2>4 DEF Sums
    <2>5. CASE V # {}
      <3>1. PICK c \in V : c = CHOOSE y \in V : TRUE
        BY <2>5
      <3>2. g[V] = f[c] + g[V \ {c}]
        BY <1>1, <2>3, <2>5, <3>1 DEF Sums
      <3>3. f[c] \in Int /\ g[V \ {c}] \in Int
        <4>1. Good(V \ {c})
          BY <2>3, <3>1
        <4> QED
          BY <2>3, <4>1
      <3>4. ASSUME NEW x \in V PROVE g[V] = f[x] + g[V \ {x}]
        <4>1. CASE x = c
          BY <3>2, <4>1
        <4>2. CASE x # c
          <5>1. Good(V \ {c}) /\ Good(V \ {x}) /\ Good((V \ {c}) \ {x})
            BY <2>3, <3>1
          <5>2. (V \ {c}) \ {x} = (V \ {x}) \ {c}
            OBVIOUS
          <5>3. g[V \ {c}] = f[x] + g[(V \ {c}) \ {x}]
            BY <4>2, <5>1
          <5>4. g[V \ {x}] = f[c] + g[(V \ {c}) \ {x}]
            BY <3>1, <4>2, <5>1, <5>2
          <5>5. f[x] \in Int /\ g[(V \ {c}) \ {x}] \in Int
            BY <2>3, <5>1
          <5> QED
            BY <3>2, <3>3, <5>3, <5>4, <5>5
        <4> QED
          BY <4>1, <4>2
      <3>5. Good(V)
        BY <3>2, <3>3, <3>4
      <3> QED
        BY <2>3, <3>5
    <2> QED
      BY <2>4, <2>5
  <1>4. Good(S)
    BY <1>3
  <1>5. \A x \in S : SumFunctionOnSet(f, S \ {x}) = g[S \ {x}]
    BY <1>2
  <1> QED
    BY <1>2, <1>4, <1>5

(* Sums of naturals are naturals, and bounded by the largest term.         *)
LEMMA SumBounded ==
  ASSUME NEW S, IsFiniteSet(S), NEW f, NEW m \in Nat, \A x \in S : f[x] \in 0 .. m
  PROVE  /\ SumFunctionOnSet(f, S) \in Nat
         /\ SumFunctionOnSet(f, S) <= Cardinality(S) * m
  <1> DEFINE Good(V) == /\ SumFunctionOnSet(f, V) \in Nat
                        /\ SumFunctionOnSet(f, V) <= Cardinality(V) * m
             F == {V \in SUBSET S : ~Good(V)}
  <1> SUFFICES ASSUME F # {} PROVE FALSE
    OBVIOUS
  <1>1. F \in SUBSET (SUBSET S)
    OBVIOUS
  <1>2. PICK V \in F : \A W \in F : W \subseteq V => W = V
    <2> HIDE DEF F
    <2> QED
      BY <1>1, SmallestSet
  <1>3. V \in SUBSET S /\ ~Good(V) /\ IsFiniteSet(V)
    BY <1>2, FS_Subset
  <1>4. CASE V = {}
    <2>1. SumFunctionOnSet(f, V) = 0 /\ Cardinality(V) = 0
      BY <1>4, SumEmpty, FS_EmptySet
    <2> QED
      BY <1>3, <2>1
  <1>5. CASE V # {}
    <2>1. PICK x \in V : TRUE
      BY <1>5
    <2>2. Good(V \ {x}) /\ f[x] \in 0 .. m
      BY <1>2, <1>3, <2>1
    <2>3. SumFunctionOnSet(f, V) = f[x] + SumFunctionOnSet(f, V \ {x})
      <3>1. \A y \in V : f[y] \in Int
        BY <1>3
      <3> QED
        BY <1>3, <2>1, <3>1, SumRemove
    <2>4. Cardinality(V \ {x}) = Cardinality(V) - 1 /\ Cardinality(V) \in Nat
      BY <1>3, <2>1, FS_RemoveElement, FS_CardinalityType
    <2>5. (Cardinality(V) - 1) * m = Cardinality(V) * m - m
      BY <2>4
    <2>6. Cardinality(V) * m \in Int
      BY <2>4
    <2>7. Good(V)
      BY <2>2, <2>3, <2>4, <2>5, <2>6
    <2> QED
      BY <1>3, <2>7
  <1> QED
    BY <1>4, <1>5

(* Changing one term changes the sum by as much.                           *)
LEMMA SumChange ==
  ASSUME NEW S, IsFiniteSet(S), NEW e, NEW f, NEW x \in S,
         \A y \in S : e[y] \in Int /\ f[y] \in Int,
         \A y \in S \ {x} : e[y] = f[y]
  PROVE  /\ SumFunctionOnSet(e, S) \in Int /\ SumFunctionOnSet(f, S) \in Int
         /\ SumFunctionOnSet(f, S) - f[x] = SumFunctionOnSet(e, S) - e[x]
  <1>1. /\ SumFunctionOnSet(e, S) = e[x] + SumFunctionOnSet(e, S \ {x})
        /\ SumFunctionOnSet(f, S) = f[x] + SumFunctionOnSet(f, S \ {x})
    BY SumRemove
  <1>2. IsFiniteSet(S \ {x})
    BY FS_RemoveElement
  <1>3. SumFunctionOnSet(e, S \ {x}) = SumFunctionOnSet(f, S \ {x})
    BY <1>2, SumAgrees
  <1>4. SumFunctionOnSet(f, S \ {x}) \in Int
    BY <1>2, SumRemove
  <1> QED
    BY <1>1, <1>3, <1>4

(* What two terms exchange does not change the sum.                        *)
LEMMA SumTransfer ==
  ASSUME NEW S, IsFiniteSet(S), NEW e, NEW f, NEW x \in S, NEW y \in S, x # y,
         \A z \in S : e[z] \in Int /\ f[z] \in Int,
         \A z \in S \ {x, y} : e[z] = f[z], e[x] + e[y] = f[x] + f[y]
  PROVE  SumFunctionOnSet(e, S) = SumFunctionOnSet(f, S)
  <1>1. PICK T : T = S \ {x}
    OBVIOUS
  <1>2. IsFiniteSet(T) /\ y \in T /\ \A z \in T : z \in S
    BY <1>1, FS_RemoveElement
  <1>3. /\ SumFunctionOnSet(e, S) = e[x] + SumFunctionOnSet(e, T)
        /\ SumFunctionOnSet(f, S) = f[x] + SumFunctionOnSet(f, T)
    BY <1>1, SumRemove
  <1>4. \A z \in T \ {y} : e[z] = f[z]
    BY <1>1
  <1>5. /\ SumFunctionOnSet(e, T) \in Int /\ SumFunctionOnSet(f, T) \in Int
        /\ SumFunctionOnSet(f, T) - f[y] = SumFunctionOnSet(e, T) - e[y]
    BY <1>2, <1>4, SumChange
  <1>6. e[x] \in Int /\ e[y] \in Int /\ f[x] \in Int /\ f[y] \in Int
    OBVIOUS
  <1>7. e[x] + e[y] = f[x] + f[y]
    OBVIOUS
  <1> QED
    BY <1>3, <1>5, <1>6, <1>7

(* The sum over what is left when some terms are dropped.                  *)
LEMMA SumSplit ==
  ASSUME NEW S, IsFiniteSet(S), NEW f, \A x \in S : f[x] \in Int, NEW U \in SUBSET S
  PROVE  SumFunctionOnSet(f, S \ U) = SumFunctionOnSet(f, S) - SumFunctionOnSet(f, U)
  <1> DEFINE Good(V) == SumFunctionOnSet(f, S \ V) = SumFunctionOnSet(f, S) - SumFunctionOnSet(f, V)
             F == {V \in SUBSET S : ~Good(V)}
  <1> SUFFICES ASSUME F # {} PROVE FALSE
    OBVIOUS
  <1>1. F \in SUBSET (SUBSET S)
    OBVIOUS
  <1>2. PICK V \in F : \A W \in F : W \subseteq V => W = V
    <2> HIDE DEF F
    <2> QED
      BY <1>1, SmallestSet
  <1>3. V \in SUBSET S /\ ~Good(V)
    BY <1>2
  <1>4. ASSUME NEW W \in SUBSET S
        PROVE  /\ IsFiniteSet(W) /\ SumFunctionOnSet(f, W) \in Int
               /\ \A x \in W : SumFunctionOnSet(f, W) = f[x] + SumFunctionOnSet(f, W \ {x})
    <2>1. IsFiniteSet(W)
      BY FS_Subset
    <2>2. \A x \in W : f[x] \in Int
      OBVIOUS
    <2> QED
      BY <2>1, <2>2, SumRemove
  <1>5. CASE V = {}
    <2>1. S \ V = S /\ SumFunctionOnSet(f, V) = 0
      BY <1>5, SumEmpty
    <2>2. SumFunctionOnSet(f, S) \in Int
      BY SumRemove
    <2>3. SumFunctionOnSet(f, S \ V) = SumFunctionOnSet(f, S)
      BY <2>1
    <2>4. Good(V)
      BY <2>1, <2>2, <2>3
    <2> QED
      BY <1>3, <2>4
  <1>6. CASE V # {}
    <2>1. PICK x \in V : TRUE
      BY <1>6
    <2>2. PICK W : W = V \ {x}
      OBVIOUS
    <2>3. W \in SUBSET S /\ W \subseteq V /\ W # V
      BY <1>3, <2>1, <2>2
    <2>4. SumFunctionOnSet(f, S \ W) = SumFunctionOnSet(f, S) - SumFunctionOnSet(f, W)
      BY <1>2, <2>3
    <2>5. (S \ W) \ {x} = S \ V /\ x \in S \ W /\ x \in S
      BY <1>3, <2>1, <2>2
    <2>6. SumFunctionOnSet(f, S \ W) = f[x] + SumFunctionOnSet(f, S \ V)
      <3>1. PICK R : R = S \ W
        OBVIOUS
      <3>2. R \in SUBSET S /\ x \in R
        BY <2>5, <3>1
      <3>3. SumFunctionOnSet(f, R) = f[x] + SumFunctionOnSet(f, R \ {x})
        BY <1>4, <3>2
      <3>4. R \ {x} = S \ V
        BY <2>5, <3>1
      <3> QED
        BY <3>1, <3>3, <3>4
    <2>7. SumFunctionOnSet(f, V) = f[x] + SumFunctionOnSet(f, W)
      BY <1>3, <1>4, <2>1, <2>2
    <2>8. /\ SumFunctionOnSet(f, S) \in Int /\ SumFunctionOnSet(f, W) \in Int
          /\ SumFunctionOnSet(f, S \ V) \in Int /\ f[x] \in Int
      BY <1>4, <2>3, <2>5
    <2>9. Good(V)
      BY <2>4, <2>6, <2>7, <2>8
    <2> QED
      BY <1>3, <2>9
  <1> QED
    BY <1>5, <1>6

(* A term divided between two.                                             *)
LEMMA SumDivided ==
  ASSUME NEW S, NEW U, IsFiniteSet(S), NEW e, NEW f, NEW x \in S, NEW y \in U, y \notin S,
         \A z \in S : e[z] \in Int /\ f[z] \in Int, f[y] \in Int, U = S \cup {y},
         \A z \in S \ {x} : e[z] = f[z], e[x] = f[x] + f[y]
  PROVE  SumFunctionOnSet(f, U) = SumFunctionOnSet(e, S)
  <1>1. PICK T : T = S \ {x}
    OBVIOUS
  <1>2. /\ IsFiniteSet(T) /\ U \ {y} = S /\ IsFiniteSet(U)
        /\ (\A z \in U : f[z] \in Int) /\ (\A z \in S : e[z] \in Int) /\ (\A z \in S : f[z] \in Int)
        /\ (\A z \in T : f[z] \in Int) /\ (\A z \in T : e[z] = f[z])
    BY <1>1, FS_RemoveElement, FS_AddElement
  <1>3. SumFunctionOnSet(f, U) = f[y] + SumFunctionOnSet(f, S)
    <2>1. SumFunctionOnSet(f, U) = f[y] + SumFunctionOnSet(f, U \ {y})
      BY <1>2, SumRemove
    <2> QED
      BY <1>2, <2>1
  <1>4. SumFunctionOnSet(f, S) = f[x] + SumFunctionOnSet(f, T)
    BY <1>1, <1>2, SumRemove
  <1>5. SumFunctionOnSet(e, S) = e[x] + SumFunctionOnSet(e, T)
    BY <1>1, <1>2, SumRemove
  <1>6. SumFunctionOnSet(e, T) = SumFunctionOnSet(f, T)
    BY <1>2, SumAgrees
  <1>7. SumFunctionOnSet(f, T) \in Int
    BY <1>2, SumRemove
  <1>8. f[x] \in Int /\ f[y] \in Int /\ e[x] = f[x] + f[y]
    BY <1>2
  <1> QED
    BY <1>3, <1>4, <1>5, <1>6, <1>7, <1>8

LEMMA SumSingle ==
  ASSUME NEW f, NEW x, f[x] \in Int
  PROVE  SumFunctionOnSet(f, {x}) = f[x]
  <1>1. IsFiniteSet({x}) /\ {x} \ {x} = {} /\ \A y \in {x} : f[y] \in Int
    BY FS_Singleton
  <1>2. SumFunctionOnSet(f, {x}) = f[x] + SumFunctionOnSet(f, {x} \ {x})
    BY <1>1, SumRemove
  <1>3. SumFunctionOnSet(f, {x} \ {x}) = 0
    BY <1>1, SumEmpty
  <1> QED
    BY <1>2, <1>3
=============================================================================
