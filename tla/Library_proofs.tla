---------------------------- MODULE Library_proofs ----------------------------
(***************************************************************************)
(* Two components of the library.                                          *)
(* The memory planner: for every op DAG, every size and alignment and      *)
(* every choice of hints, the schedule is a topological order, a reported  *)
(* cycle is one, no live tensor is overwritten, and every tensor fits its  *)
(* slot.                                                                   *)
(* A training process: for every optimizer, device, clipping, loss scale   *)
(* and schedule, wherever gradients overflow and the process crashes, each *)
(* parameter has the value of its optimizer's recurrence.                  *)
(***************************************************************************)
EXTENDS MemoryPlanner, Training, SequenceTheorems, FiniteSums_proofs

-----------------------------------------------------------------------------
(* Numbers.                                                                *)
LEMMA Multiple ==
  ASSUME NEW q \in Nat, NEW a \in Nat \ {0}
  PROVE  (q * a) % a = 0
  OBVIOUS

LEMMA Division ==
  ASSUME NEW n \in Nat, NEW a \in Nat \ {0}
  PROVE  n \div a \in Nat /\ a * (n \div a) + (n % a) = n /\ n % a \in 0 .. a - 1
  OBVIOUS

LEMMA RoundedUp ==
  ASSUME NEW n \in Nat, NEW a \in Nat \ {0}
  PROVE  RoundUp(n, a) \in Nat /\ n <= RoundUp(n, a) /\ RoundUp(n, a) % a = 0
  <1> DEFINE m == n + a - 1
             q == m \div a
  <1>1. m \in Nat
    OBVIOUS
  <1>2. q \in Nat /\ a * q + (m % a) = m /\ m % a \in 0 .. a - 1
    BY <1>1, Division
  <1> HIDE DEF q
  <1>3. q * a \in Nat /\ q * a = a * q
    BY <1>2
  <1>4. q * a >= n
    BY <1>2, <1>3
  <1>5. (q * a) % a = 0
    BY <1>2, Multiple
  <1> QED
    BY <1>3, <1>4, <1>5 DEF RoundUp, q

-----------------------------------------------------------------------------
(* The schedule.                                                           *)
Phases == {"reorder", "cycle", "inplace", "place", "done", "over"}

OrderTypes ==
  /\ reads \in [Op -> SUBSET Tensor] /\ kind \in [Op -> Kind]
  /\ phase \in Phases
  /\ sched \in Seq(Op)

(* All ops are scheduled once reorder has succeeded.                       *)
Complete == phase \in {"inplace", "place", "done", "over"} => ToSet(sched) = Op

OrderInv == OrderTypes /\ Complete /\ TopologicalOrder

LEMMA OrderInit == Init => OrderInv
  <1> SUFFICES ASSUME Init PROVE OrderInv
    OBVIOUS
  <1>1. sched = <<>> /\ DOMAIN sched = {} /\ sched \in Seq(Op) /\ phase = "reorder"
    BY DEF Init
  <1> QED
    BY <1>1 DEF Init, OrderInv, OrderTypes, Complete, TopologicalOrder, Phases

(* An op that is ready reads what is already scheduled.                    *)
LEMMA OrderPick ==
  ASSUME OrderInv, NEW o \in Op, Pick(o)
  PROVE  OrderInv'
  <1>1. /\ sched \in Seq(Op) /\ Len(sched) \in Nat /\ DOMAIN sched = 1 .. Len(sched)
        /\ phase = "reorder" /\ phase' = phase /\ reads' = reads /\ kind' = kind
        /\ o \notin ToSet(sched) /\ reads[o] \subseteq Ext \cup ToSet(sched)
        /\ sched' = Append(sched, o)
    BY LenProperties DEF OrderInv, OrderTypes, Pick, Ready, Unscheduled, Produced, dagVars
  <1>2. /\ sched' \in Seq(Op) /\ DOMAIN sched' = 1 .. Len(sched) + 1
        /\ sched'[Len(sched) + 1] = o
        /\ \A p \in 1 .. Len(sched) : sched'[p] = sched[p]
    BY <1>1, AppendProperties
  <1>3. Op \cap Ext = {}
    BY PlannerAssumption DEF Op, Ext
  <1>4. ASSUME NEW p \in DOMAIN sched'
        PROVE  /\ \A q \in DOMAIN sched' : sched'[q] = sched'[p] => q = p
               /\ \A t \in reads'[sched'[p]] \cap Op : \E q \in 1 .. (p - 1) : sched'[q] = t
    <2>1. CASE p = Len(sched) + 1
      <3>1. \A q \in 1 .. Len(sched) : sched[q] # o
        BY <1>1 DEF ToSet
      <3>2. \A t \in reads[o] \cap Op : \E q \in 1 .. Len(sched) : sched[q] = t
        BY <1>1, <1>3 DEF ToSet
      <3>3. (Len(sched) + 1) - 1 = Len(sched)
        BY <1>1
      <3> QED
        BY <1>1, <1>2, <2>1, <3>1, <3>2, <3>3
    <2>2. CASE p \in 1 .. Len(sched)
      <3>1. \A q \in 1 .. Len(sched) : sched[q] = sched[p] => q = p
        BY <1>1, <2>2 DEF OrderInv, TopologicalOrder
      <3>2. sched[p] # o
        BY <1>1, <2>2 DEF ToSet
      <3>3. \A t \in reads[sched[p]] \cap Op : \E q \in 1 .. (p - 1) : sched[q] = t
        BY <1>1, <2>2 DEF OrderInv, TopologicalOrder
      <3>4. \A q \in 1 .. (p - 1) : q \in 1 .. Len(sched)
        BY <1>1, <2>2
      <3> QED
        BY <1>1, <1>2, <2>2, <3>1, <3>2, <3>3, <3>4
    <2> QED
      BY <1>1, <1>2, <2>1, <2>2
  <1>5. TopologicalOrder'
    BY <1>1, <1>4 DEF TopologicalOrder
  <1> QED
    BY <1>1, <1>2, <1>5 DEF OrderInv, OrderTypes, Complete, Phases

(* When no op is ready, each unscheduled op reads from an unscheduled one. *)
LEMMA OrderStuck ==
  ASSUME OrderInv, Stuck
  PROVE  OrderInv'
  <1>1. UNCHANGED <<reads, kind, sched>> /\ phase' = "cycle" /\ Unscheduled # {} /\ Ready = {}
    BY DEF Stuck, dagVars
  <1>2. ASSUME NEW o \in Unscheduled PROVE reads[o] \cap Unscheduled # {}
    <2>1. PICK t \in reads[o] : t \notin Produced
      BY <1>1, <1>2 DEF Ready
    <2>2. t \in Op
      BY <2>1 DEF OrderInv, OrderTypes, Unscheduled, Produced, Tensor
    <2> QED
      BY <2>1, <2>2 DEF Unscheduled, Produced
  <1>3. Unscheduled \in (SUBSET Op) \ {{}}
    BY <1>1 DEF Unscheduled
  <1>4. \E s \in (SUBSET Op) \ {{}} : \A o \in s : reads[o] \cap s # {}
    BY <1>2, <1>3
  <1> QED
    BY <1>1, <1>4 DEF OrderInv, OrderTypes, Complete, TopologicalOrder, Phases

LEMMA OrderStep == OrderInv /\ [Next]_vars => OrderInv'
  <1> SUFFICES ASSUME OrderInv, [Next]_vars PROVE OrderInv'
    OBVIOUS
  <1>1. CASE \E o \in Op : Pick(o)
    BY <1>1, OrderPick
  <1>2. CASE Stuck
    BY <1>2, OrderStuck
  <1>3. CASE Analyse
    <2>1. UNCHANGED <<reads, kind, sched>> /\ phase' = "inplace" /\ Unscheduled = {}
      BY <1>3 DEF Analyse, dagVars
    <2>2. ToSet(sched) \subseteq Op
      BY ElementOfSeq, LenProperties DEF OrderInv, OrderTypes, ToSet
    <2>3. ToSet(sched) = Op
      BY <2>1, <2>2 DEF Unscheduled
    <2> QED
      BY <2>1, <2>3 DEF OrderInv, OrderTypes, Complete, TopologicalOrder, Phases
  <1>4. CASE \E h \in Hint : Accept(h)
    BY <1>4 DEF Accept, dagVars, OrderInv, OrderTypes, Complete, TopologicalOrder
  <1>5. CASE Rewrite
    BY <1>5 DEF Rewrite, dagVars, OrderInv, OrderTypes, Complete, TopologicalOrder, Phases
  <1>6. CASE \E t \in Tensor : Place(t)
    BY <1>6 DEF Place, dagVars, OrderInv, OrderTypes, Complete, TopologicalOrder
  <1>7. CASE Stitch
    BY <1>7 DEF Stitch, Outcome, dagVars, OrderInv, OrderTypes, Complete, TopologicalOrder, Phases
  <1>8. CASE UNCHANGED vars
    <2>1. UNCHANGED <<reads, kind, phase, sched>>
      BY <1>8 DEF vars
    <2> QED
      BY <2>1 DEF OrderInv, OrderTypes, Complete, TopologicalOrder
  <1> QED
    BY <1>1, <1>2, <1>3, <1>4, <1>5, <1>6, <1>7, <1>8 DEF Next

(* Whatever the DAG and the sizes, reorder runs every op once and after    *)
(* what it reads, and reports a cycle only when there is one (reorder.rs,  *)
(* reorder).                                                               *)
THEOREM ScheduleIsTopological == Spec => []TopologicalOrder
  <1>1. OrderInv => TopologicalOrder
    BY DEF OrderInv
  <1> QED
    BY <1>1, OrderInit, OrderStep, PTL DEF Spec
-----------------------------------------------------------------------------
(* The plan.                                                               *)
Aligns == {k.align : k \in Kind} \cup {1}

(* The interval of a tensor whose slot t takes over is in t's place.       *)
Owner(t) == IF t \in DOMAIN alias THEN alias[t] ELSE t

Covers(a, b) ==
  /\ a.def <= b.def /\ b.last_use <= a.last_use
  /\ b.bytes <= a.bytes /\ b.align <= a.align

Interval == [def : Nat, last_use : Nat, bytes : Nat, align : Aligns]
Slot     == [bytes : Nat, align : Aligns, tenants : SUBSET Tensor]

(* Nothing is packed before the table is rewritten.                        *)
Untouched ==
  phase \in {"reorder", "cycle", "inplace"} => alias = Empty /\ slots = <<>> /\ slotOf = Empty

(* The hints accepted so far share no tensor, and each one's input is last *)
(* used at the hint's step.                                                *)
HintsDisjoint ==
  /\ phase \in {"reorder", "cycle"} => safe = {}
  /\ phase = "inplace" =>
       /\ table = [t \in Registered |-> Lifetime(t)]
       /\ \A h \in safe : h \in Hint /\ Apply(h)
       /\ \A g, h \in safe : Touched(g) \cap Touched(h) # {} => g = h

(* An aliased output reads its owner, owns nothing itself, shares its      *)
(* owner with no other output, and no reader of the owner comes after it.  *)
Aliased ==
  /\ DOMAIN alias \subseteq Op
  /\ \A o \in DOMAIN alias :
       /\ alias[o] \in reads[o]
       /\ alias[o] \notin DOMAIN alias
       /\ HintsFit => \A x \in Op : alias[o] \in reads[x] => Pos(x) <= Pos(o)
  /\ \A o, p \in DOMAIN alias : alias[o] = alias[p] => o = p

(* The rewritten table keeps an interval for every tensor, its owner's,    *)
(* and that interval covers the tensor's own.                              *)
Covered ==
  /\ DOMAIN table = Registered \ DOMAIN alias
  /\ \A t \in DOMAIN table : table[t] \in Interval
  /\ \A t \in Registered : Owner(t) \in DOMAIN table /\ Covers(table[Owner(t)], Lifetime(t))

(* Tenants of one slot live at different times and fit it.                 *)
Packed ==
  /\ slots \in Seq(Slot)
  /\ slotOf \in [DOMAIN slotOf -> DOMAIN slots]
  /\ \A s \in DOMAIN slots :
       /\ slots[s].tenants = {t \in DOMAIN slotOf : slotOf[t] = s}
       /\ slots[s].bytes % slots[s].align = 0
  /\ \A t \in DOMAIN slotOf \cap DOMAIN table :
       /\ table[t].bytes <= slots[slotOf[t]].bytes /\ table[t].align <= slots[slotOf[t]].align
       /\ \A u \in DOMAIN slotOf \cap DOMAIN table :
            slotOf[u] = slotOf[t] /\ u # t => ~Overlaps(table[u], table[t])

(* Until Stitch every placed tensor is its own owner; then all are placed. *)
Placed ==
  /\ phase = "place" => DOMAIN slotOf \subseteq DOMAIN table
  /\ phase \in {"done", "over"} => DOMAIN slotOf = Registered
  /\ \A t \in DOMAIN slotOf : Owner(t) \in DOMAIN slotOf /\ slotOf[t] = slotOf[Owner(t)]

PlanInv ==
  /\ OrderInv /\ Untouched /\ HintsDisjoint
  /\ phase \in {"place", "done", "over"} => Aliased /\ Covered /\ Packed /\ Placed

(* Alignments divide one another, the smaller the larger.                  *)
LEMMA AlignsDivide ==
  /\ Aligns \subseteq Nat \ {0}
  /\ \A a, b \in Aligns : a <= b => b % a = 0
  <1>1. Aligns \subseteq Nat \ {0}
    BY PlannerAssumption DEF Aligns
  <1>2. ASSUME NEW a \in Aligns, NEW b \in Aligns, a <= b PROVE b % a = 0
    <2>1. CASE a = 1
      <3>1. b \in Nat
        BY <1>1
      <3> QED
        BY <2>1, <3>1
    <2>2. CASE a # 1 /\ b = 1
      BY <1>1, <1>2, <2>2
    <2>3. CASE a # 1 /\ b # 1
      <3>1. PICK j \in Kind : a = j.align
        BY <2>3 DEF Aligns
      <3>2. PICK k \in Kind : b = k.align
        BY <2>3 DEF Aligns
      <3> QED
        BY <1>2, <3>1, <3>2, PlannerAssumption
    <2> QED
      BY <2>1, <2>2, <2>3
  <1> QED
    BY <1>1, <1>2

(* Every op of a complete schedule has one position.                       *)
LEMMA PosOf ==
  ASSUME OrderInv, ToSet(sched) = Op, NEW o \in Op
  PROVE  Pos(o) \in 1 .. Len(sched) /\ sched[Pos(o)] = o
  <1>1. DOMAIN sched = 1 .. Len(sched)
    BY LenProperties DEF OrderInv, OrderTypes
  <1>2. \E p \in DOMAIN sched : sched[p] = o
    BY <1>1 DEF ToSet
  <1> QED
    BY <1>1, <1>2 DEF Pos

(* A tensor lives from where it is produced to its last reader.            *)
LEMMA LifetimeIs ==
  ASSUME OrderInv, ToSet(sched) = Op, NEW t \in Tensor
  PROVE  /\ Lifetime(t) \in Interval
         /\ Lifetime(t).def <= Lifetime(t).last_use
         /\ t \in Op => /\ Lifetime(t).def = Pos(t)
                        /\ Lifetime(t).bytes = kind[t].bytes
                        /\ Lifetime(t).align = kind[t].align
         /\ t \notin Op => Lifetime(t).bytes = 0 /\ Lifetime(t).align = 1
         /\ \A o \in Op : t \in reads[o] => /\ Lifetime(t).def <= Pos(o)
                                            /\ Pos(o) <= Lifetime(t).last_use
                                            /\ t \in Op => Pos(t) < Pos(o)
  <1> DEFINE def  == IF t \in Op THEN Pos(t) ELSE 1
             uses == {Pos(o) : o \in {x \in Op : t \in reads[x]}}
             n    == Len(sched) + 1
  <1>1. Len(sched) \in Nat /\ n \in Nat
    BY LenProperties DEF OrderInv, OrderTypes
  <1>2. \A o \in Op : Pos(o) \in 1 .. Len(sched) /\ sched[Pos(o)] = o
    BY PosOf
  <1>3. def \in 1 .. n
    BY <1>1, <1>2
  <1>4. uses \subseteq 1 .. n
    BY <1>1, <1>2
  <1>5. {def} \cup uses \in SUBSET (0 .. n) /\ {def} \cup uses # {}
    BY <1>1, <1>3, <1>4
  <1>6. Max({def} \cup uses) \in {def} \cup uses /\ \A k \in {def} \cup uses : k <= Max({def} \cup uses)
    BY <1>1, <1>5, MaxOf
  <1>7. ASSUME NEW o \in Op, t \in reads[o] PROVE def <= Pos(o) /\ (t \in Op => Pos(t) < Pos(o))
    <2>1. CASE t \in Op
      <3>1. Pos(o) \in DOMAIN sched /\ DOMAIN sched = 1 .. Len(sched)
        BY <1>2, LenProperties DEF OrderInv, OrderTypes
      <3>2. PICK q \in 1 .. (Pos(o) - 1) : sched[q] = t
        BY <1>2, <1>7, <2>1, <3>1 DEF OrderInv, TopologicalOrder
      <3>3. q \in DOMAIN sched /\ q < Pos(o)
        BY <1>1, <1>2, <3>1, <3>2
      <3>4. q = Pos(t)
        BY <1>2, <2>1, <3>1, <3>2, <3>3 DEF OrderInv, TopologicalOrder
      <3>5. Pos(t) < Pos(o) /\ Pos(t) \in Nat /\ Pos(o) \in Nat
        BY <1>2, <2>1, <3>3, <3>4
      <3> QED
        BY <2>1, <3>5
    <2>2. CASE t \notin Op
      BY <1>2, <2>2
    <2> QED
      BY <2>1, <2>2
  <1>8. ASSUME NEW o \in Op, t \in reads[o] PROVE Pos(o) \in uses
    BY <1>8
  <1> HIDE DEF uses
  <1>9. /\ Lifetime(t).def = def /\ Lifetime(t).last_use = Max({def} \cup uses)
        /\ Lifetime(t) = [def |-> def, last_use |-> Max({def} \cup uses),
             bytes |-> IF t \in Op THEN kind[t].bytes ELSE 0,
             align |-> IF t \in Op THEN kind[t].align ELSE 1]
    BY DEF Lifetime, uses
  <1>10. t \in Op => kind[t] \in Kind /\ kind[t].bytes \in Nat
    BY PlannerAssumption DEF OrderInv, OrderTypes
  <1> HIDE DEF def, n
  <1>11. Max({def} \cup uses) \in Nat /\ def \in Nat /\ def <= Max({def} \cup uses)
    <2>1. \A k \in {def} \cup uses : k \in Nat
      BY <1>1, <1>5
    <2> QED
      BY <1>6, <2>1
  <1>12. Lifetime(t) \in Interval
    BY <1>9, <1>10, <1>11 DEF Interval, Aligns
  <1> QED
    BY <1>6, <1>7, <1>8, <1>9, <1>11, <1>12 DEF def

(* The schedule and the sizes fix the lifetimes.                           *)
LEMMA LifetimesKept ==
  ASSUME UNCHANGED <<reads, kind, sched>>
  PROVE  /\ Registered' = Registered
         /\ \A o : Pos(o)' = Pos(o)
         /\ \A t : Lifetime(t)' = Lifetime(t)
  <1>1. \A o : Pos(o)' = Pos(o)
    BY DEF Pos
  <1>2. Registered' = Registered
    BY DEF Registered
  <1>3. ASSUME NEW t PROVE Lifetime(t)' = Lifetime(t)
    BY DEF Lifetime, Pos
  <1> QED
    BY <1>1, <1>2, <1>3

LEMMA HintsKept ==
  ASSUME UNCHANGED <<reads, kind, sched, table>>
  PROVE  Hint' = Hint /\ \A h : Apply(h)' = Apply(h)
  <1>1. \A o : Pos(o)' = Pos(o)
    BY LifetimesKept
  <1>2. Hint' = Hint
    BY <1>1 DEF Hint
  <1> QED
    BY <1>2 DEF Apply

LEMMA PlanInit == Init => PlanInv
  <1> SUFFICES ASSUME Init PROVE PlanInv
    OBVIOUS
  <1>1. OrderInv
    BY OrderInit
  <1> QED
    BY <1>1 DEF Init, PlanInv, Untouched, HintsDisjoint

LEMMA PlanReorder ==
  ASSUME PlanInv, OrderInv', phase = "reorder", phase' \in {"reorder", "cycle"},
         UNCHANGED <<safe, alias, slots, slotOf>>
  PROVE  PlanInv'
  BY DEF PlanInv, Untouched, HintsDisjoint

LEMMA PlanAnalyse ==
  ASSUME PlanInv, OrderInv', Analyse
  PROVE  PlanInv'
  <1>1. /\ UNCHANGED <<reads, kind, sched>> /\ UNCHANGED <<safe, alias, slots, slotOf>>
        /\ phase = "reorder" /\ phase' = "inplace" /\ table' = [t \in Registered |-> Lifetime(t)]
    BY DEF Analyse, dagVars
  <1>2. table' = [t \in Registered' |-> Lifetime(t)']
    BY <1>1, LifetimesKept
  <1>3. safe' = {}
    BY <1>1 DEF PlanInv, HintsDisjoint
  <1>4. HintsDisjoint'
    BY <1>1, <1>2, <1>3 DEF HintsDisjoint
  <1> QED
    BY <1>1, <1>4 DEF PlanInv, Untouched

LEMMA PlanAccept ==
  ASSUME PlanInv, OrderInv', NEW h \in Hint, Accept(h)
  PROVE  PlanInv'
  <1>1. /\ UNCHANGED <<reads, kind, sched, table>> /\ UNCHANGED <<phase, alias, slots, slotOf>>
        /\ phase = "inplace" /\ safe' = safe \cup {h} /\ Apply(h)
        /\ \A g \in safe : Touched(h) \cap Touched(g) = {}
    BY DEF Accept, dagVars
  <1>2. HintsDisjoint /\ Untouched
    BY DEF PlanInv
  <1>3. table' = [t \in Registered' |-> Lifetime(t)']
    BY <1>1, <1>2, LifetimesKept DEF HintsDisjoint
  <1>4. \A g \in safe' : g \in Hint' /\ Apply(g)'
    BY <1>1, <1>2, HintsKept DEF HintsDisjoint
  <1>5. \A g, k \in safe' : Touched(g) \cap Touched(k) # {} => g = k
    BY <1>1, <1>2 DEF HintsDisjoint
  <1>6. HintsDisjoint'
    BY <1>1, <1>3, <1>4, <1>5 DEF HintsDisjoint
  <1> QED
    BY <1>1, <1>2, <1>6 DEF PlanInv, Untouched

(* The merged interval of a hint's input covers the output's as well.      *)
LEMMA MergedCovers ==
  ASSUME NEW a \in Interval, NEW b \in Interval, a.def <= b.def
  PROVE  Merged(a, b) \in Interval /\ Covers(Merged(a, b), a) /\ Covers(Merged(a, b), b)
  <1> DEFINE m == Merged(a, b)
  <1>1. /\ a.def \in Nat /\ a.last_use \in Nat /\ a.bytes \in Nat /\ a.align \in Aligns /\ a.align \in Nat
        /\ b.def \in Nat /\ b.last_use \in Nat /\ b.bytes \in Nat /\ b.align \in Aligns /\ b.align \in Nat
    BY AlignsDivide DEF Interval
  <1>2. m.def = a.def
    BY DEF Merged
  <1>3. m.last_use \in Nat /\ a.last_use <= m.last_use /\ b.last_use <= m.last_use
    BY <1>1, MaxOfTwo DEF Merged
  <1>4. m.bytes \in Nat /\ a.bytes <= m.bytes /\ b.bytes <= m.bytes
    BY <1>1, MaxOfTwo DEF Merged
  <1>5. m.align \in Aligns /\ a.align <= m.align /\ b.align <= m.align
    BY <1>1, MaxOfTwo DEF Merged
  <1>6. m = [def |-> m.def, last_use |-> m.last_use, bytes |-> m.bytes, align |-> m.align]
    BY DEF Merged
  <1> HIDE DEF m
  <1>7. m \in Interval
    BY <1>1, <1>2, <1>3, <1>4, <1>5, <1>6 DEF Interval
  <1>8. Covers(m, a) /\ Covers(m, b)
    BY <1>1, <1>2, <1>3, <1>4, <1>5 DEF Covers
  <1> QED
    BY <1>7, <1>8 DEF m

(* Accepted hints share no tensor, so each output has one owner that stays *)
(* in the table with the merged interval.                                  *)
LEMMA PlanRewrite ==
  ASSUME PlanInv, OrderInv', Rewrite
  PROVE  PlanInv'
  <1> DEFINE outs == {h.output : h \in safe}
  <1>1. /\ UNCHANGED <<reads, kind, sched>> /\ UNCHANGED <<safe, slots, slotOf>>
        /\ phase = "inplace" /\ phase' = "place"
        /\ table' = [t \in DOMAIN table \ outs |->
                       IF \E h \in safe : h.input = t
                       THEN Merged(table[t], table[(CHOOSE h \in safe : h.input = t).output])
                       ELSE table[t]]
        /\ alias' = [o \in outs |-> (CHOOSE h \in safe : h.output = o).input]
    BY DEF Rewrite, dagVars
  <1>2. OrderInv /\ ToSet(sched) = Op /\ slots = <<>> /\ slotOf = Empty
    BY <1>1 DEF PlanInv, OrderInv, Complete, Untouched
  <1>3. /\ table = [t \in Registered |-> Lifetime(t)]
        /\ \A h \in safe : h \in Hint /\ Apply(h)
        /\ \A g, h \in safe : Touched(g) \cap Touched(h) # {} => g = h
    BY <1>1 DEF PlanInv, HintsDisjoint
  <1>4. \A h \in safe : /\ h.input \in Tensor /\ h.output \in Op /\ h.input \in reads[h.output]
                        /\ HintsFit => h.step = Pos(h.output)
    BY <1>3 DEF Hint
  <1>5. \A h \in safe : /\ h.input \in Registered /\ h.output \in Registered
                        /\ Lifetime(h.input).last_use = h.step
    BY <1>3 DEF Apply
  <1>6. \A g, h \in safe : g.input = h.input \/ g.output = h.output \/ g.input = h.output => g = h
    BY <1>3 DEF Touched
  <1>7. Registered \subseteq Tensor /\ Op \subseteq Registered
    BY DEF Registered, Tensor
  <1>8. \A t \in Tensor : /\ Lifetime(t) \in Interval
                          /\ \A o \in Op : t \in reads[o] => /\ Lifetime(t).def <= Pos(o)
                                                             /\ Pos(o) <= Lifetime(t).last_use
                                                             /\ t \in Op => Pos(t) < Pos(o)
    BY <1>2, LifetimeIs
  <1>9. \A o \in Op : Lifetime(o).def = Pos(o) /\ Pos(o) \in Nat /\ o \in Tensor
    BY <1>2, <1>7, LifetimeIs, PosOf
  <1>10. \A g, h \in safe : g.input # h.output
    BY <1>4, <1>6, <1>8, <1>9
  <1>11. ASSUME NEW h \in safe
         PROVE  /\ (CHOOSE g \in safe : g.output = h.output) = h
                /\ (CHOOSE g \in safe : g.input = h.input) = h
    BY <1>6
  <1>12. DOMAIN alias' = outs /\ \A h \in safe : h.output \in outs /\ alias'[h.output] = h.input
    <2>1. DOMAIN alias' = outs
      BY <1>1
    <2>2. ASSUME NEW h \in safe PROVE h.output \in outs /\ alias'[h.output] = h.input
      <3>1. h.output \in outs
        OBVIOUS
      <3>2. alias'[h.output] = (CHOOSE g \in safe : g.output = h.output).input
        BY <1>1, <3>1
      <3> QED
        BY <1>11, <3>1, <3>2
    <2> QED
      BY <2>1, <2>2
  <1>13. /\ DOMAIN table' = Registered \ outs
         /\ \A h \in safe : h.input \in Registered \ outs
    BY <1>1, <1>3, <1>5, <1>10
  <1>14. ASSUME NEW h \in safe
         PROVE  table'[h.input] = Merged(Lifetime(h.input), Lifetime(h.output))
    <2>1. h.input \in DOMAIN table \ outs
      BY <1>1, <1>13
    <2>2. table'[h.input] = Merged(table[h.input], table[(CHOOSE g \in safe : g.input = h.input).output])
      BY <1>1, <2>1
    <2>3. (CHOOSE g \in safe : g.input = h.input) = h
      BY <1>11
    <2>4. table'[h.input] = Merged(table[h.input], table[h.output])
      BY <2>2, <2>3
    <2> QED
      BY <1>3, <1>5, <2>4
  <1>15. ASSUME NEW t \in Registered \ outs, \A h \in safe : h.input # t
         PROVE  table'[t] = Lifetime(t)
    BY <1>1, <1>3, <1>15
  <1>16. /\ Registered' = Registered
         /\ \A o : Pos(o)' = Pos(o)
         /\ \A t : Lifetime(t)' = Lifetime(t)
    BY <1>1, LifetimesKept
  <1> HIDE DEF outs
  <1>17. \A o \in outs : \E h \in safe : o = h.output
    BY DEF outs
  <1>18. Aliased'
    <2>1. ASSUME NEW h \in safe, NEW x \in Op, HintsFit, h.input \in reads[x]
          PROVE  Pos(x) <= Pos(h.output)
      BY <1>4, <1>5, <1>8, <2>1
    <2>2. DOMAIN alias' \subseteq Op
      BY <1>4, <1>12, <1>17
    <2>3. ASSUME NEW o \in DOMAIN alias'
          PROVE  /\ alias'[o] \in reads'[o]
                 /\ alias'[o] \notin DOMAIN alias'
                 /\ HintsFit => \A x \in Op : alias'[o] \in reads'[x] => Pos(x)' <= Pos(o)'
      <3>1. PICK h \in safe : o = h.output
        BY <1>12, <1>17
      <3>2. alias'[o] = h.input
        BY <1>12, <3>1
      <3>3. alias'[o] \in reads[o] /\ alias'[o] \notin outs
        BY <1>4, <1>13, <3>1, <3>2
      <3>4. HintsFit => \A x \in Op : alias'[o] \in reads[x] => Pos(x) <= Pos(o)
        BY <2>1, <3>1, <3>2
      <3> QED
        BY <1>1, <1>12, <1>16, <3>3, <3>4
    <2>4. \A o, p \in DOMAIN alias' : alias'[o] = alias'[p] => o = p
      BY <1>6, <1>12, <1>17
    <2> QED
      BY <2>2, <2>3, <2>4 DEF Aliased
  <1>19. \A a \in Interval : Covers(a, a)
    <2> TAKE a \in Interval
    <2>1. a.def \in Nat /\ a.last_use \in Nat /\ a.bytes \in Nat /\ a.align \in Nat
      BY AlignsDivide DEF Interval
    <2> QED
      BY <2>1 DEF Covers
  <1>20. \A h \in safe : /\ Merged(Lifetime(h.input), Lifetime(h.output)) \in Interval
                         /\ Covers(Merged(Lifetime(h.input), Lifetime(h.output)), Lifetime(h.input))
                         /\ Covers(Merged(Lifetime(h.input), Lifetime(h.output)), Lifetime(h.output))
    <2> TAKE h \in safe
    <2>1. /\ Lifetime(h.input) \in Interval /\ Lifetime(h.output) \in Interval
          /\ Lifetime(h.input).def <= Lifetime(h.output).def
      BY <1>4, <1>8, <1>9
    <2> QED
      BY <2>1, MergedCovers
  <1>21. Covered'
    <2>1. DOMAIN table' = Registered' \ DOMAIN alias'
      BY <1>12, <1>13, <1>16
    <2>2. ASSUME NEW t \in DOMAIN table'
          PROVE  table'[t] \in Interval /\ Covers(table'[t], Lifetime(t))
      <3>1. CASE \E h \in safe : h.input = t
        BY <1>14, <1>20, <3>1
      <3>2. CASE \A h \in safe : h.input # t
        BY <1>7, <1>8, <1>13, <1>15, <1>19, <2>2, <3>2
      <3> QED
        BY <3>1, <3>2
    <2>3. ASSUME NEW t \in Registered
          PROVE  Owner(t)' \in DOMAIN table' /\ Covers(table'[Owner(t)'], Lifetime(t))
      <3>1. CASE t \in outs
        <4>1. PICK h \in safe : t = h.output
          BY <1>17, <3>1
        <4>2. Owner(t)' = h.input
          BY <1>12, <3>1, <4>1 DEF Owner
        <4> QED
          BY <1>13, <1>14, <1>20, <4>1, <4>2
      <3>2. CASE t \notin outs
        <4>1. Owner(t)' = t /\ t \in DOMAIN table'
          BY <1>12, <1>13, <3>2 DEF Owner
        <4> QED
          BY <2>2, <4>1
      <3> QED
        BY <3>1, <3>2
    <2> QED
      BY <1>16, <2>1, <2>2, <2>3 DEF Covered
  <1>22. DOMAIN slotOf' = {} /\ slots' = <<>> /\ DOMAIN slots' = {}
    BY <1>1, <1>2 DEF Empty
  <1>23. slotOf' \in [DOMAIN slotOf' -> DOMAIN slots']
    BY <1>1, <1>2 DEF Empty
  <1>24. slots' \in Seq(Slot)
    BY <1>22
  <1>25. Packed'
    BY <1>22, <1>23, <1>24 DEF Packed
  <1>26. Placed'
    BY <1>1, <1>22 DEF Placed
  <1> QED
    BY <1>1, <1>18, <1>21, <1>25, <1>26 DEF PlanInv, Untouched, HintsDisjoint

(* A slot grows to a multiple of the larger alignment, and never shrinks.  *)
LEMMA SlotGrows ==
  ASSUME NEW r \in Slot, NEW t \in Tensor, table[t] \in Interval
  PROVE  /\ WithTenant(r, t) \in Slot /\ WithTenant(r, t).tenants = r.tenants \cup {t}
         /\ r.bytes <= WithTenant(r, t).bytes /\ table[t].bytes <= WithTenant(r, t).bytes
         /\ r.align <= WithTenant(r, t).align /\ table[t].align <= WithTenant(r, t).align
         /\ WithTenant(r, t).bytes % WithTenant(r, t).align = 0
  <1> DEFINE align == Max({r.align, table[t].align})
             need  == Max({r.bytes, table[t].bytes})
             bytes == RoundUp(need, align)
  <1>1. /\ r.bytes \in Nat /\ r.align \in Aligns /\ r.align \in Nat /\ r.tenants \subseteq Tensor
        /\ table[t].bytes \in Nat /\ table[t].align \in Aligns /\ table[t].align \in Nat
    BY AlignsDivide DEF Slot, Interval
  <1>2. align \in Aligns /\ r.align <= align /\ table[t].align <= align
    BY <1>1, MaxOfTwo
  <1>3. need \in Nat /\ r.bytes <= need /\ table[t].bytes <= need
    BY <1>1, MaxOfTwo
  <1> HIDE DEF need, align
  <1>4. align \in Nat \ {0}
    BY <1>2, AlignsDivide
  <1>5. bytes \in Nat /\ need <= bytes /\ bytes % align = 0
    BY <1>3, <1>4, RoundedUp
  <1>6. WithTenant(r, t) = [bytes |-> bytes, align |-> align, tenants |-> r.tenants \cup {t}]
    BY DEF WithTenant, need, align
  <1> HIDE DEF bytes
  <1>7. WithTenant(r, t) \in Slot
    BY <1>1, <1>2, <1>5, <1>6 DEF Slot
  <1> QED
    BY <1>1, <1>2, <1>3, <1>5, <1>6, <1>7

LEMMA SlotStarts ==
  ASSUME NEW t \in Tensor, table[t] \in Interval
  PROVE  /\ NewSlot(t) \in Slot /\ NewSlot(t).tenants = {t}
         /\ table[t].bytes <= NewSlot(t).bytes /\ table[t].align = NewSlot(t).align
         /\ NewSlot(t).bytes % NewSlot(t).align = 0
  <1> DEFINE bytes == RoundUp(table[t].bytes, table[t].align)
  <1>1. table[t].bytes \in Nat /\ table[t].align \in Aligns /\ table[t].align \in Nat \ {0}
    BY AlignsDivide DEF Interval
  <1>2. bytes \in Nat /\ table[t].bytes <= bytes /\ bytes % table[t].align = 0
    BY <1>1, RoundedUp
  <1>3. NewSlot(t) = [bytes |-> bytes, align |-> table[t].align, tenants |-> {t}]
    BY DEF NewSlot
  <1> HIDE DEF bytes
  <1> QED
    BY <1>1, <1>2, <1>3 DEF Slot

(* A tensor joins the first slot none of whose tenants it overlaps.        *)
LEMMA PlanPlace ==
  ASSUME PlanInv, OrderInv', NEW t \in Tensor, Place(t)
  PROVE  PlanInv'
  <1> DEFINE fits == {r \in DOMAIN slots : Fits(r, t)}
             s    == IF fits = {} THEN Len(slots) + 1 ELSE Min(fits)
  <1>1. /\ UNCHANGED <<reads, kind, sched>> /\ UNCHANGED <<phase, table, safe, alias>>
        /\ phase = "place"
        /\ t \in DOMAIN table \ DOMAIN slotOf
        /\ slots' = IF fits = {} THEN Append(slots, NewSlot(t))
                    ELSE [slots EXCEPT ![s] = WithTenant(slots[s], t)]
        /\ slotOf' = [u \in DOMAIN slotOf \cup {t} |-> IF u = t THEN s ELSE slotOf[u]]
    BY DEF Place, Unplaced, dagVars
  <1>2. Aliased /\ Covered /\ Packed /\ Placed
    BY <1>1 DEF PlanInv
  <1>3. /\ slots \in Seq(Slot) /\ slotOf \in [DOMAIN slotOf -> DOMAIN slots]
        /\ \A r \in DOMAIN slots : /\ slots[r].tenants = {u \in DOMAIN slotOf : slotOf[u] = r}
                                   /\ slots[r].bytes % slots[r].align = 0
        /\ DOMAIN slotOf \subseteq DOMAIN table /\ table[t] \in Interval
    BY <1>1, <1>2 DEF Packed, Placed, Covered
  <1>4. Len(slots) \in Nat /\ DOMAIN slots = 1 .. Len(slots)
    BY <1>3, LenProperties
  <1>5. \A r \in DOMAIN slots : /\ slots[r] \in Slot
                                /\ slots[r].bytes \in Nat /\ slots[r].align \in Nat
    <2>1. \A r \in DOMAIN slots : slots[r] \in Slot
      BY <1>3, <1>4, ElementOfSeq
    <2> QED
      BY <2>1, AlignsDivide DEF Slot
  <1>6. /\ slots' \in Seq(Slot) /\ s \in DOMAIN slots' /\ DOMAIN slots \subseteq DOMAIN slots'
        /\ \A r \in DOMAIN slots' : r # s => r \in DOMAIN slots /\ slots'[r] = slots[r]
        /\ slots'[s].tenants = {u \in DOMAIN slotOf : slotOf[u] = s} \cup {t}
        /\ slots'[s].bytes % slots'[s].align = 0
        /\ table[t].bytes <= slots'[s].bytes /\ table[t].align <= slots'[s].align
        /\ \A u \in DOMAIN slotOf : slotOf[u] = s => /\ ~Overlaps(table[u], table[t])
                                                     /\ slots[s].bytes <= slots'[s].bytes
                                                     /\ slots[s].align <= slots'[s].align
    <2>1. CASE fits = {}
      <3>1. s = Len(slots) + 1 /\ slots' = Append(slots, NewSlot(t))
        BY <1>1, <2>1
      <3>2. /\ NewSlot(t) \in Slot /\ NewSlot(t).tenants = {t}
            /\ table[t].bytes <= NewSlot(t).bytes /\ table[t].align = NewSlot(t).align
            /\ NewSlot(t).bytes % NewSlot(t).align = 0
        BY <1>3, SlotStarts
      <3>3. /\ slots' \in Seq(Slot) /\ DOMAIN slots' = 1 .. Len(slots) + 1
            /\ slots'[s] = NewSlot(t) /\ \A r \in 1 .. Len(slots) : slots'[r] = slots[r]
        BY <1>3, <1>4, <3>1, <3>2, AppendProperties
      <3> HIDE DEF s
      <3>4. \A u \in DOMAIN slotOf : slotOf[u] # s
        BY <1>3, <1>4, <3>1
      <3>5. s \in DOMAIN slots' /\ DOMAIN slots \subseteq DOMAIN slots'
        BY <1>4, <3>1, <3>3
      <3>6. \A r \in DOMAIN slots' : r # s => r \in DOMAIN slots
        BY <1>4, <3>1, <3>3
      <3>7. NewSlot(t).align \in Nat
        BY <3>2, AlignsDivide DEF Slot
      <3> QED
        BY <1>4, <3>2, <3>3, <3>4, <3>5, <3>6, <3>7
    <2>2. CASE fits # {}
      <3>1. s = Min(fits) /\ fits \in SUBSET Nat /\ fits \subseteq DOMAIN slots
        BY <1>4, <2>2
      <3>2. s \in fits
        BY <2>2, <3>1, MinOf
      <3>3. s \in DOMAIN slots /\ Fits(s, t)
        BY <3>2
      <3> HIDE DEF s
      <3>4. slots' = [slots EXCEPT ![s] = WithTenant(slots[s], t)]
        BY <1>1, <2>2
      <3>5. PICK r \in Slot : r = slots[s]
        BY <1>5, <3>3
      <3>6. /\ WithTenant(r, t) \in Slot /\ WithTenant(r, t).tenants = r.tenants \cup {t}
            /\ r.bytes <= WithTenant(r, t).bytes /\ table[t].bytes <= WithTenant(r, t).bytes
            /\ r.align <= WithTenant(r, t).align /\ table[t].align <= WithTenant(r, t).align
            /\ WithTenant(r, t).bytes % WithTenant(r, t).align = 0
        BY <1>3, SlotGrows
      <3>7. slots'[s] = WithTenant(r, t) /\ DOMAIN slots' = DOMAIN slots
        BY <3>3, <3>4, <3>5
      <3>8. slots' \in Seq(Slot)
        BY <1>3, <1>4, <3>3, <3>4, <3>5, <3>6, ExceptSeq
      <3>9. \A q \in DOMAIN slots' : q # s => q \in DOMAIN slots /\ slots'[q] = slots[q]
        BY <3>4, <3>7
      <3>10. \A u \in DOMAIN slotOf : slotOf[u] = s => ~Overlaps(table[u], table[t])
        BY <1>3, <3>3 DEF Fits
      <3>11. r.tenants = {u \in DOMAIN slotOf : slotOf[u] = s}
        BY <1>3, <3>3, <3>5
      <3> QED
        BY <3>3, <3>5, <3>6, <3>7, <3>8, <3>9, <3>10, <3>11
    <2> QED
      BY <2>1, <2>2
  <1> HIDE DEF s
  <1>7. /\ DOMAIN slotOf' = DOMAIN slotOf \cup {t} /\ slotOf'[t] = s
        /\ \A u \in DOMAIN slotOf : slotOf'[u] = slotOf[u] /\ u # t /\ slotOf[u] \in DOMAIN slots
    BY <1>1, <1>3
  <1>8. slotOf' \in [DOMAIN slotOf' -> DOMAIN slots']
    <2>1. \A u \in DOMAIN slotOf' : slotOf'[u] \in DOMAIN slots'
      BY <1>6, <1>7
    <2>2. slotOf' = [u \in DOMAIN slotOf' |-> slotOf'[u]]
      BY <1>1, <1>7
    <2> QED
      BY <2>1, <2>2
  <1>9. ASSUME NEW r \in DOMAIN slots'
        PROVE  /\ slots'[r].tenants = {u \in DOMAIN slotOf' : slotOf'[u] = r}
               /\ slots'[r].bytes % slots'[r].align = 0
    <2>1. CASE r = s
      BY <1>6, <1>7, <2>1
    <2>2. CASE r # s
      BY <1>3, <1>6, <1>7, <2>2
    <2> QED
      BY <2>1, <2>2
  <1>10. ASSUME NEW a \in DOMAIN slotOf'
         PROVE  table[a].bytes <= slots'[slotOf'[a]].bytes /\ table[a].align <= slots'[slotOf'[a]].align
    <2>1. CASE a = t
      BY <1>6, <1>7, <2>1
    <2>2. CASE a # t
      <3>1. a \in DOMAIN slotOf /\ slotOf'[a] = slotOf[a] /\ slotOf[a] \in DOMAIN slots
        BY <1>7, <2>2
      <3>2. /\ table[a].bytes <= slots[slotOf[a]].bytes /\ table[a].align <= slots[slotOf[a]].align
            /\ table[a] \in Interval
        BY <1>2, <1>3, <3>1 DEF Packed, Covered
      <3>3. CASE slotOf[a] # s
        BY <1>6, <3>1, <3>2, <3>3
      <3>4. CASE slotOf[a] = s
        <4>1. slots[s].bytes <= slots'[s].bytes /\ slots[s].align <= slots'[s].align
          BY <1>6, <3>1, <3>4
        <4>2. /\ slots'[s].bytes \in Nat /\ slots'[s].align \in Nat
              /\ table[a].bytes \in Nat /\ table[a].align \in Nat
          <5>1. slots'[s] \in Slot
            BY <1>6, LenProperties, ElementOfSeq
          <5> QED
            BY <3>2, <5>1, AlignsDivide DEF Slot, Interval
        <4> QED
          BY <1>5, <3>1, <3>2, <3>4, <4>1, <4>2
      <3> QED
        BY <3>3, <3>4
    <2> QED
      BY <2>1, <2>2
  <1>11. ASSUME NEW a \in DOMAIN slotOf', NEW b \in DOMAIN slotOf', slotOf'[b] = slotOf'[a], b # a
         PROVE  ~Overlaps(table[b], table[a])
    <2>1. CASE a = t
      BY <1>6, <1>7, <1>11, <2>1
    <2>2. CASE b = t
      <3>1. ~Overlaps(table[a], table[b])
        BY <1>6, <1>7, <1>11, <2>2
      <3> QED
        BY <3>1 DEF Overlaps
    <2>3. CASE a # t /\ b # t
      BY <1>2, <1>3, <1>7, <1>11, <2>3 DEF Packed
    <2> QED
      BY <2>1, <2>2, <2>3
  <1>12. DOMAIN slotOf' \subseteq DOMAIN table
    BY <1>1, <1>3, <1>7
  <1>13. Packed'
    BY <1>1, <1>6, <1>8, <1>9, <1>10, <1>11, <1>12, ZenonT(30) DEF Packed
  <1>14. /\ Registered' = Registered
         /\ \A o : Pos(o)' = Pos(o)
         /\ \A u : Lifetime(u)' = Lifetime(u)
         /\ \A u : Owner(u)' = Owner(u)
    BY <1>1, LifetimesKept DEF Owner
  <1>15. Aliased' /\ Covered'
    BY <1>1, <1>2, <1>14 DEF Aliased, Covered
  <1>16. \A u \in DOMAIN table : Owner(u) = u
    BY <1>2 DEF Owner, Covered
  <1>17. Placed'
    BY <1>1, <1>12, <1>14, <1>16 DEF Placed
  <1> QED
    BY <1>1, <1>13, <1>15, <1>17 DEF PlanInv, Untouched, HintsDisjoint

(* The aliased outputs join their owners, which keep their slots.          *)
LEMMA PlanStitch ==
  ASSUME PlanInv, OrderInv', Stitch
  PROVE  PlanInv'
  <1>1. /\ UNCHANGED <<reads, kind, sched>> /\ UNCHANGED <<table, safe, alias>>
        /\ phase = "place" /\ phase' \in {"done", "over"}
        /\ DOMAIN table \subseteq DOMAIN slotOf
        /\ slotOf' = [t \in DOMAIN slotOf \cup DOMAIN alias |->
                        IF t \in DOMAIN alias THEN slotOf[alias[t]] ELSE slotOf[t]]
        /\ slots' = [s \in DOMAIN slots |->
                       [slots[s] EXCEPT !.tenants = @ \cup {o \in DOMAIN alias : slotOf[alias[o]] = s}]]
    BY DEF Stitch, Outcome, Unplaced, dagVars
  <1>2. Aliased /\ Covered /\ Packed /\ Placed
    BY <1>1 DEF PlanInv
  <1>3. DOMAIN slotOf = DOMAIN table /\ slotOf \in [DOMAIN table -> DOMAIN slots]
    BY <1>1, <1>2 DEF Placed, Packed
  <1>4. /\ DOMAIN alias \subseteq Op /\ \A o \in DOMAIN alias : alias[o] \in DOMAIN table
        /\ DOMAIN table \cap DOMAIN alias = {} /\ DOMAIN table \cup DOMAIN alias = Registered
    <2>1. DOMAIN alias \subseteq Registered
      BY <1>2 DEF Aliased, Registered
    <2> QED
      BY <1>2, <2>1 DEF Aliased, Covered, Owner
  <1>5. /\ DOMAIN slotOf' = Registered
        /\ \A t \in DOMAIN table : slotOf'[t] = slotOf[t]
        /\ \A t \in DOMAIN alias : slotOf'[t] = slotOf[alias[t]]
    BY <1>1, <1>3, <1>4
  <1>6. /\ slots \in Seq(Slot) /\ Len(slots) \in Nat /\ DOMAIN slots = 1 .. Len(slots)
        /\ \A s \in DOMAIN slots : /\ slots[s].tenants = {t \in DOMAIN slotOf : slotOf[t] = s}
                                   /\ slots[s].bytes % slots[s].align = 0
    BY <1>2, LenProperties DEF Packed
  <1>7. ASSUME NEW s \in DOMAIN slots
        PROVE  /\ slots'[s] \in Slot
               /\ slots'[s].bytes = slots[s].bytes /\ slots'[s].align = slots[s].align
               /\ slots'[s].tenants = slots[s].tenants \cup {o \in DOMAIN alias : slotOf[alias[o]] = s}
    <2>1. slots[s] \in Slot
      BY <1>6, ElementOfSeq
    <2>2. {o \in DOMAIN alias : slotOf[alias[o]] = s} \subseteq Tensor
      BY <1>4 DEF Tensor
    <2> QED
      BY <1>1, <2>1, <2>2 DEF Slot
  <1>8. DOMAIN slots' = DOMAIN slots
    BY <1>1
  <1>9. slots' \in Seq(Slot)
    <2>1. slots' = [s \in 1 .. Len(slots) |-> slots'[s]]
      BY <1>1, <1>6
    <2> QED
      BY <1>6, <1>7, <2>1, IsASeq
  <1>10. slotOf' \in [DOMAIN slotOf' -> DOMAIN slots']
    <2>1. \A t \in DOMAIN slotOf' : slotOf'[t] \in DOMAIN slots'
      BY <1>3, <1>4, <1>5, <1>8
    <2>2. slotOf' = [t \in DOMAIN slotOf' |-> slotOf'[t]]
      BY <1>1
    <2> QED
      BY <2>1, <2>2
  <1>11. ASSUME NEW s \in DOMAIN slots'
         PROVE  /\ slots'[s].tenants = {t \in DOMAIN slotOf' : slotOf'[t] = s}
                /\ slots'[s].bytes % slots'[s].align = 0
    BY <1>3, <1>4, <1>5, <1>6, <1>7, <1>8
  <1>12. ASSUME NEW t \in DOMAIN table
         PROVE  /\ table[t].bytes <= slots'[slotOf'[t]].bytes /\ table[t].align <= slots'[slotOf'[t]].align
                /\ \A u \in DOMAIN table : slotOf'[u] = slotOf'[t] /\ u # t => ~Overlaps(table[u], table[t])
    <2>1. /\ table[t].bytes <= slots[slotOf[t]].bytes /\ table[t].align <= slots[slotOf[t]].align
          /\ \A u \in DOMAIN table : slotOf[u] = slotOf[t] /\ u # t => ~Overlaps(table[u], table[t])
      BY <1>2, <1>3 DEF Packed
    <2>2. slotOf'[t] = slotOf[t] /\ slotOf[t] \in DOMAIN slots
      BY <1>3, <1>5
    <2>3. slots'[slotOf[t]].bytes = slots[slotOf[t]].bytes /\ slots'[slotOf[t]].align = slots[slotOf[t]].align
      BY <1>7, <2>2
    <2> QED
      BY <1>5, <2>1, <2>2, <2>3
  <1>13. DOMAIN slotOf' \cap DOMAIN table = DOMAIN table
    BY <1>4, <1>5
  <1>14. Packed'
    BY <1>1, <1>9, <1>10, <1>11, <1>12, <1>13 DEF Packed
  <1>15. /\ Registered' = Registered
         /\ \A o : Pos(o)' = Pos(o)
         /\ \A u : Lifetime(u)' = Lifetime(u)
         /\ \A u : Owner(u)' = Owner(u)
    BY <1>1, LifetimesKept DEF Owner
  <1>16. Aliased' /\ Covered'
    BY <1>1, <1>2, <1>15 DEF Aliased, Covered
  <1>17. \A t \in Registered : Owner(t) \in DOMAIN table /\ slotOf'[t] = slotOf'[Owner(t)]
    BY <1>4, <1>5 DEF Owner
  <1>18. Placed'
    BY <1>1, <1>4, <1>5, <1>15, <1>17 DEF Placed
  <1> QED
    BY <1>1, <1>14, <1>16, <1>18 DEF PlanInv, Untouched, HintsDisjoint

LEMMA PlanStep == PlanInv /\ [Next]_vars => PlanInv'
  <1> SUFFICES ASSUME PlanInv, [Next]_vars PROVE PlanInv'
    OBVIOUS
  <1>0. OrderInv /\ OrderInv'
    BY OrderStep DEF PlanInv
  <1>1. CASE \E o \in Op : Pick(o)
    <2>1. phase = "reorder" /\ phase' = "reorder" /\ UNCHANGED <<safe, alias, slots, slotOf>>
      BY <1>1 DEF Pick
    <2> QED
      BY <1>0, <2>1, PlanReorder
  <1>2. CASE Stuck
    <2>1. phase = "reorder" /\ phase' = "cycle" /\ UNCHANGED <<safe, alias, slots, slotOf>>
      BY <1>2 DEF Stuck
    <2> QED
      BY <1>0, <2>1, PlanReorder
  <1>3. CASE Analyse
    BY <1>0, <1>3, PlanAnalyse
  <1>4. CASE \E h \in Hint : Accept(h)
    BY <1>0, <1>4, PlanAccept
  <1>5. CASE Rewrite
    BY <1>0, <1>5, PlanRewrite
  <1>6. CASE \E t \in Tensor : Place(t)
    BY <1>0, <1>6, PlanPlace
  <1>7. CASE Stitch
    BY <1>0, <1>7, PlanStitch
  <1>8. CASE UNCHANGED vars
    <2>1. UNCHANGED <<reads, kind, sched, table>> /\ UNCHANGED <<phase, safe, alias, slots, slotOf>>
      BY <1>8 DEF vars
    <2>2. /\ Registered' = Registered
          /\ \A o : Pos(o)' = Pos(o)
          /\ \A u : Lifetime(u)' = Lifetime(u)
          /\ \A u : Owner(u)' = Owner(u)
      BY <2>1, LifetimesKept DEF Owner
    <2>3. Untouched' /\ (HintsDisjoint => HintsDisjoint')
      BY <2>1, <2>2, HintsKept DEF PlanInv, Untouched, HintsDisjoint
    <2>4. (Aliased => Aliased') /\ (Covered => Covered') /\ (Placed => Placed')
      BY <2>1, <2>2 DEF Aliased, Covered, Placed
    <2>5. Packed => Packed'
      BY <2>1 DEF Packed
    <2> QED
      BY <1>0, <2>1, <2>3, <2>4, <2>5 DEF PlanInv
  <1> QED
    BY <1>1, <1>2, <1>3, <1>4, <1>5, <1>6, <1>7, <1>8 DEF Next

(* Whatever the DAG, the sizes and the hints, every tensor fits its slot   *)
(* in size and alignment, before and after the stitching (allocator.rs,    *)
(* Slot::add and plan; inplace.rs, plan_with_inplace).                     *)
THEOREM TensorsFitTheirSlots == Spec => []SlotsHoldTenants
  <1>1. PlanInv => SlotsHoldTenants
    <2> SUFFICES ASSUME PlanInv, NEW t \in DOMAIN slotOf
                 PROVE  LET s == slots[slotOf[t]]
                            k == IF t \in Op THEN kind[t] ELSE [bytes |-> 0, align |-> 1]
                        IN /\ k.bytes <= s.bytes /\ s.align % k.align = 0
                           /\ s.bytes % s.align = 0
      BY DEF SlotsHoldTenants
    <2>1. phase \in {"place", "done", "over"}
      BY DEF PlanInv, Untouched, OrderInv, OrderTypes, Phases, Empty
    <2>2. OrderInv /\ ToSet(sched) = Op /\ Aliased /\ Covered /\ Packed /\ Placed
      BY <2>1 DEF PlanInv, OrderInv, Complete
    <2>3. t \in Registered /\ t \in Tensor
      BY <2>1, <2>2 DEF Covered, Placed, Registered, Tensor
    <2>4. /\ Owner(t) \in DOMAIN slotOf \cap DOMAIN table /\ slotOf[t] = slotOf[Owner(t)]
          /\ Covers(table[Owner(t)], Lifetime(t)) /\ table[Owner(t)] \in Interval
      BY <2>2, <2>3 DEF Covered, Placed
    <2> DEFINE s == slots[slotOf[t]]
               k == IF t \in Op THEN kind[t] ELSE [bytes |-> 0, align |-> 1]
    <2>5. slotOf[t] \in DOMAIN slots /\ s \in Slot /\ s.bytes % s.align = 0
      <3>1. slotOf[t] \in DOMAIN slots /\ DOMAIN slots = 1 .. Len(slots)
        BY <2>2, LenProperties DEF Packed
      <3> QED
        BY <2>2, <3>1, ElementOfSeq DEF Packed
    <2>6. table[Owner(t)].bytes <= s.bytes /\ table[Owner(t)].align <= s.align
      BY <2>2, <2>4 DEF Packed
    <2>7. Lifetime(t).bytes = k.bytes /\ Lifetime(t).align = k.align /\ Lifetime(t) \in Interval
      BY <2>2, <2>3, LifetimeIs
    <2>8. k.bytes \in Nat /\ k.align \in Aligns
      <3>1. Lifetime(t).bytes \in Nat /\ Lifetime(t).align \in Aligns
        BY <2>7 DEF Interval
      <3> QED
        BY <2>7, <3>1
    <2>9. /\ s.bytes \in Nat /\ s.align \in Aligns
          /\ table[Owner(t)].bytes \in Nat /\ table[Owner(t)].align \in Aligns
      BY <2>4, <2>5 DEF Slot, Interval
    <2> HIDE DEF s, k
    <2>10. k.bytes <= table[Owner(t)].bytes /\ k.align <= table[Owner(t)].align
      BY <2>4, <2>7 DEF Covers
    <2>11. k.bytes <= s.bytes /\ k.align <= s.align
      <3>1. k.align \in Nat /\ s.align \in Nat /\ table[Owner(t)].align \in Nat
        BY <2>8, <2>9, AlignsDivide
      <3>2. k.bytes <= s.bytes
        BY <2>6, <2>8, <2>9, <2>10
      <3>3. k.align <= s.align
        BY <2>6, <2>10, <3>1
      <3> QED
        BY <3>2, <3>3
    <2>12. s.align % k.align = 0
      BY <2>8, <2>9, <2>11, AlignsDivide
    <2> QED
      BY <2>5, <2>11, <2>12 DEF s, k
  <1> QED
    BY <1>1, PlanInit, PlanStep, PTL DEF Spec

(* When the hints name the steps the schedule gives their ops, no op       *)
(* writes into the slot of a tensor that an op still reads (allocator.rs,  *)
(* plan; inplace.rs, evaluate_hint and plan_with_inplace).                 *)
THEOREM LiveTensorsKeepTheirSlots == ASSUME HintsFit PROVE Spec => []PlanIsSound
  <1>1. PlanInv => PlanIsSound
    <2> SUFFICES ASSUME PlanInv, phase \in {"done", "over"}, NEW o \in Op,
                        NEW t \in reads[o] \cap Op, NEW w \in Op, Overwrites(w, t, o)
                 PROVE  FALSE
      BY DEF PlanIsSound
    <2>1. OrderInv /\ ToSet(sched) = Op /\ Aliased /\ Covered /\ Packed /\ Placed
      BY DEF PlanInv, OrderInv, Complete
    <2>2. t \in Registered /\ w \in Registered /\ t \in Tensor /\ w \in Tensor /\ DOMAIN slotOf = Registered
      BY <2>1 DEF Registered, Tensor, Placed
    <2>3. /\ Pos(t) \in Nat /\ Pos(w) \in Nat /\ Pos(o) \in Nat
          /\ Lifetime(t).def = Pos(t) /\ Lifetime(w).def = Pos(w)
          /\ Lifetime(t) \in Interval /\ Lifetime(w) \in Interval
          /\ Pos(o) <= Lifetime(t).last_use /\ Pos(w) <= Lifetime(w).last_use
      <3>1. Pos(t) \in Nat /\ Pos(w) \in Nat /\ Pos(o) \in Nat
        BY <2>1, PosOf
      <3>2. Lifetime(t) \in Interval /\ Lifetime(t).def = Pos(t) /\ Pos(o) <= Lifetime(t).last_use
        BY <2>1, <2>2, LifetimeIs
      <3>3. Lifetime(w) \in Interval /\ Lifetime(w).def = Pos(w) /\ Lifetime(w).def <= Lifetime(w).last_use
        BY <2>1, <2>2, LifetimeIs
      <3> QED
        BY <3>1, <3>2, <3>3
    <2>4. /\ w # t /\ slotOf[w] = slotOf[t] /\ Pos(t) < Pos(w) /\ Pos(w) <= Pos(o)
          /\ Pos(w) < Pos(o) \/ (w = o /\ (o \notin DOMAIN alias \/ alias[o] # t))
      BY <2>3 DEF Overwrites
    <2> DEFINE a == Owner(t)
               b == Owner(w)
    <2>5. /\ a \in DOMAIN slotOf \cap DOMAIN table /\ b \in DOMAIN slotOf \cap DOMAIN table
          /\ slotOf[a] = slotOf[b]
          /\ Covers(table[a], Lifetime(t)) /\ Covers(table[b], Lifetime(w))
          /\ table[a] \in Interval /\ table[b] \in Interval
      BY <2>1, <2>2, <2>4 DEF Covered, Placed
    <2>6. CASE a # b
      <3> HIDE DEF a, b
      <3>1. ~Overlaps(table[b], table[a])
        BY <2>1, <2>5, <2>6 DEF Packed
      <3>2. /\ table[a].def \in Nat /\ table[a].last_use \in Nat
            /\ table[b].def \in Nat /\ table[b].last_use \in Nat
            /\ Lifetime(t).last_use \in Nat /\ Lifetime(w).last_use \in Nat
        BY <2>3, <2>5 DEF Interval
      <3>3. /\ table[a].def <= Pos(t) /\ Lifetime(t).last_use <= table[a].last_use
            /\ table[b].def <= Pos(w) /\ Lifetime(w).last_use <= table[b].last_use
        BY <2>3, <2>5 DEF Covers
      <3>4. table[a].def <= table[b].last_use /\ table[b].def <= table[a].last_use
        BY <2>3, <2>4, <3>2, <3>3
      <3> QED
        BY <3>1, <3>4 DEF Overlaps
    <2>7. CASE a = b
      <3>1. CASE t \in DOMAIN alias /\ w \in DOMAIN alias
        BY <2>1, <2>4, <2>7, <3>1 DEF Aliased, Owner
      <3>2. CASE t \in DOMAIN alias /\ w \notin DOMAIN alias
        <4>1. w \in reads[t]
          BY <2>1, <2>7, <3>2 DEF Aliased, Owner
        <4>2. Pos(w) < Pos(t)
          BY <2>1, <2>2, <4>1, LifetimeIs
        <4> QED
          BY <2>3, <2>4, <4>2
      <3>3. CASE t \notin DOMAIN alias /\ w \in DOMAIN alias
        <4>1. alias[w] = t
          BY <2>7, <3>3 DEF Owner
        <4>2. Pos(o) <= Pos(w)
          BY <2>1, <3>3, <4>1 DEF Aliased
        <4> QED
          BY <2>3, <2>4, <3>3, <4>1, <4>2
      <3>4. CASE t \notin DOMAIN alias /\ w \notin DOMAIN alias
        BY <2>4, <2>7, <3>4 DEF Owner
      <3> QED
        BY <3>1, <3>2, <3>3, <3>4
    <2> QED
      BY <2>6, <2>7
  <1> QED
    BY <1>1, PlanInit, PlanStep, PTL DEF Spec

-----------------------------------------------------------------------------
(* Training: sequences and formulas.                                       *)

(* Folding a decayed value into a gradient makes a pair.                   *)
LEMMA Pair ==
  ASSUME NEW c, NEW x
  PROVE  Append(<<c>>, x) = <<c, x>>
  <1>1. PICK S : S = {c, x}
    OBVIOUS
  <1>2. <<c>> \in Seq(S) /\ <<c, x>> \in Seq(S) /\ x \in S
    BY <1>1
  <1>3. PICK a : a = Append(<<c>>, x)
    OBVIOUS
  <1>4. /\ a \in Seq(S) /\ Len(a) = 2
        /\ a[1] = c /\ a[2] = x
    <2>1. Len(<<c>>) = 1 /\ <<c>>[1] = c
      OBVIOUS
    <2>2. /\ a \in Seq(S) /\ Len(a) = Len(<<c>>) + 1
          /\ \A i \in 1 .. Len(<<c>>) : a[i] = <<c>>[i]
          /\ a[Len(<<c>>) + 1] = x
      BY <1>2, <1>3, AppendProperties
    <2> QED
      BY <2>1, <2>2
  <1>5. PICK b : b = <<c, x>>
    OBVIOUS
  <1>6. b \in Seq(S) /\ Len(b) = 2 /\ b[1] = c /\ b[2] = x
    BY <1>2, <1>5
  <1>7. \A i \in 1 .. Len(a) : a[i] = b[i]
    BY <1>4, <1>6
  <1>8. a = b
    BY <1>4, <1>6, <1>7, SeqEqual
  <1> QED
    BY <1>3, <1>5, <1>8

Lengthened(f, g, n) == g = Append(f, g[n]) /\ Front(g) = f

(* A sequence that agrees with another but for one more place is that      *)
(* other with its last entry appended, and its front is the other.         *)
LEMMA AppendTo ==
  ASSUME NEW N \in Nat, NEW n \in Nat, n = N + 1, NEW S, NEW f \in [1 .. N -> S], NEW g \in [1 .. n -> S],
         \A l \in 1 .. N : f[l] = g[l]
  PROVE  Lengthened(f, g, n)
  <1>3. \A l \in 1 .. n : g[l] \in S
    OBVIOUS
  <1>5. f \in Seq(S) /\ g \in Seq(S)
    BY SeqDef
  <1>6. Len(f) = N /\ Len(g) = n
    BY <1>5, LenProperties
  <1>7. PICK e : e = g[n]
    OBVIOUS
  <1>8. PICK a : a = Append(f, e)
    OBVIOUS
  <1>9. /\ a \in Seq(S) /\ Len(a) = n
        /\ \A i \in 1 .. N : a[i] = f[i]
        /\ a[n] = e
    <2>1. e \in S
      BY <1>3, <1>7
    <2> QED
      BY <1>5, <1>6, <1>8, <2>1, AppendProperties
  <1>10. \A i \in 1 .. Len(a) : a[i] = g[i]
    BY <1>6, <1>7, <1>9
  <1>11. a = g
    BY <1>5, <1>6, <1>9, <1>10, SeqEqual
  <1>12. PICK q : q = SubSeq(g, 1, N)
    OBVIOUS
  <1>13. q \in Seq(S) /\ Len(q) = N /\ \A i \in 1 .. N : q[i] = g[i]
    <2>1. \A i \in 1 .. N : g[i] \in S
      BY <1>3
    <2>2. /\ q \in Seq(S)
          /\ Len(q) = IF 1 <= N THEN N - 1 + 1 ELSE 0
          /\ \A i \in 1 .. N - 1 + 1 : q[i] = g[1 + i - 1]
      BY <1>12, <2>1, SubSeqProperties
    <2> QED
      BY <2>2
  <1>14. \A i \in 1 .. Len(q) : q[i] = f[i]
    BY <1>13
  <1>15. q = f
    BY <1>5, <1>6, <1>13, <1>14, SeqEqual
  <1>16. Front(g) = f
    <2>1. Len(g) - 1 = N
      BY <1>6
    <2> QED
      BY <1>12, <1>15, <2>1 DEF Front
  <1> QED
    BY <1>7, <1>8, <1>11, <1>16 DEF Lengthened

(* The buffers of each rule, which all hold the same moment: the gradients *)
(* folded in plainly, or with the values that they decay.                  *)
Names(s, i) ==
  CASE s.rule = "sgd" -> {}
    [] s.rule \in {"momentum", "nesterov"} -> {"velocity"}
    [] s.rule \in {"adam", "adamw", "nadam", "radam"} -> {"m", "v"}
    [] s.rule = "adamax" -> {"m", "u"}
    [] s.rule = "adagrad" -> {"acc"}
    [] s.rule = "rmsprop" -> {"v"}
    [] s.rule = "lion" -> {"m"}
    [] s.rule = "adafactor" -> IF i = 1 THEN {"r", "c"} ELSE {"v"}

Raw(s) == s.rule \in {"lion", "adafactor"}
Effect(s, g, p) == IF s.decay /\ s.rule \notin {"adamw", "lion"} THEN <<g, p>> ELSE <<g>>
Holds(bufs, names, F) == \A b \in names : Held(bufs, b) = F

(* take() finds the buffer that a step just stored.                        *)
LEMMA HeldAre ==
  ASSUME NEW a
  PROVE  /\ Held([velocity |-> a], "velocity") = a
         /\ Held([acc |-> a], "acc") = a
         /\ Held([v |-> a], "v") = a
         /\ Held([m |-> a], "m") = a
         /\ Held([m |-> a, v |-> a], "m") = a
         /\ Held([m |-> a, v |-> a], "v") = a
         /\ Held([m |-> a, u |-> a], "m") = a
         /\ Held([m |-> a, u |-> a], "u") = a
         /\ Held([r |-> a, c |-> a], "r") = a
         /\ Held([r |-> a, c |-> a], "c") = a
  BY DEF Held

(* AdamW and RAdam append to their update the value that they decay, or    *)
(* their second moment.                                                    *)
LEMMA Joined ==
  ASSUME NEW a, NEW b, NEW c
  PROVE  <<a, b>> \o <<c>> = <<a, b, c>> /\ <<a, b>> \o <<c, c>> = <<a, b, c, c>>
  <1>1. PICK S : S = {a, b, c}
    OBVIOUS
  <1>2. PICK x : x = <<a, b>>
    OBVIOUS
  <1>3. x \in Seq(S) /\ Len(x) = 2 /\ x[1] = a /\ x[2] = b
    BY <1>1, <1>2
  <1>4. <<a, b>> \o <<c>> = <<a, b, c>>
    <2>1. PICK y : y = <<c>>
      OBVIOUS
    <2>2. y \in Seq(S) /\ Len(y) = 1 /\ y[1] = c
      BY <1>1, <2>1
    <2>3. PICK z : z = x \o y
      OBVIOUS
    <2>4. z \in Seq(S) /\ Len(z) = 3 /\ \A i \in 1 .. 3 : z[i] = IF i <= 2 THEN x[i] ELSE y[i - 2]
      BY <1>3, <2>2, <2>3, ConcatProperties
    <2>5. PICK w : w = <<a, b, c>>
      OBVIOUS
    <2>6. w \in Seq(S) /\ Len(w) = 3 /\ w[1] = a /\ w[2] = b /\ w[3] = c
      BY <1>1, <2>5
    <2>7. z[1] = a /\ z[2] = b /\ z[3] = c
      BY <1>3, <2>2, <2>4
    <2>8. \A i \in 1 .. Len(z) : z[i] = w[i]
      BY <2>4, <2>6, <2>7
    <2>9. z = w
      BY <2>4, <2>6, <2>8, SeqEqual
    <2> QED
      BY <1>2, <2>1, <2>3, <2>5, <2>9
  <1>5. <<a, b>> \o <<c, c>> = <<a, b, c, c>>
    <2>1. PICK y : y = <<c, c>>
      OBVIOUS
    <2>2. y \in Seq(S) /\ Len(y) = 2 /\ y[1] = c /\ y[2] = c
      BY <1>1, <2>1
    <2>3. PICK z : z = x \o y
      OBVIOUS
    <2>4. z \in Seq(S) /\ Len(z) = 4 /\ \A i \in 1 .. 4 : z[i] = IF i <= 2 THEN x[i] ELSE y[i - 2]
      BY <1>3, <2>2, <2>3, ConcatProperties
    <2>5. PICK w : w = <<a, b, c, c>>
      OBVIOUS
    <2>6. w \in Seq(S) /\ Len(w) = 4 /\ w[1] = a /\ w[2] = b /\ w[3] = c /\ w[4] = c
      BY <1>1, <2>5
    <2>7. z[1] = a /\ z[2] = b /\ z[3] = c /\ z[4] = c
      BY <1>3, <2>2, <2>4
    <2>8. \A i \in 1 .. Len(z) : z[i] = w[i]
      BY <2>4, <2>6, <2>7
    <2>9. z = w
      BY <2>4, <2>6, <2>8, SeqEqual
    <2> QED
      BY <1>2, <2>1, <2>3, <2>5, <2>9
  <1> QED
    BY <1>4, <1>5

(* The formula of every rule: with buffers that hold the moment F, the     *)
(* source's step of Sgd, cpu_adamw_kernel, NAdam and the others appends    *)
(* the update of the definition and leaves buffers that hold the next      *)
(* moment.                                                                 *)
LEMMA RuleFollows ==
  ASSUME setup \in Setups, NEW i, NEW p, NEW g, NEW bufs, NEW t, NEW u, NEW F, NEW plain, NEW all,
         Holds(bufs, Names(setup, i), F), opt.lr = Rate(setup, u), setup.rule \in Counting => t = u,
         Raw(setup) => plain = Append(F, <<g>>) /\ Front(plain) = F,
         ~Raw(setup) => all = Append(F, Effect(setup, g, p))
  PROVE  /\ Rule(i, p, g, bufs, t).value =
              Append(p, Formula(setup, i, u, p, g, plain, Effect(setup, g, p), all))
         /\ Holds(Rule(i, p, g, bufs, t).bufs, Names(setup, i), IF Raw(setup) THEN plain ELSE all)
  <1> DEFINE eff == Effect(setup, g, p)
             lr == Rate(setup, u)
             shrink == IF setup.decay THEN <<p>> ELSE <<>>
             R == Rule(i, p, g, bufs, t)
             update == Formula(setup, i, u, p, g, plain, eff, all)
             moments == IF Raw(setup) THEN plain ELSE all
  <1>1. setup.rule \in {"sgd", "momentum", "nesterov", "adam", "adamw", "nadam", "radam", "adamax", "adagrad", "rmsprop",
                "lion", "adafactor"}
    BY TrainAssumption DEF TrainAssumption
  <1>2. \A v, b : Stepped(p, v, b).value = Append(p, v) /\ Stepped(p, v, b).bufs = b
    BY DEF Stepped
  <1>12. \A b : R = Stepped(p, update, b) /\ Holds(b, Names(setup, i), moments) =>
                 R.value = Append(p, update) /\ Holds(R.bufs, Names(setup, i), moments)
    BY <1>2
  <1> HIDE DEF moments, R, update
  <1> SUFFICES R.value = Append(p, update) /\ Holds(R.bufs, Names(setup, i), moments)
    BY DEF R, update, moments
  <1>3. setup.rule \notin {"adamw", "lion"} => Effective(g, p) = eff
    BY DEF Effective, Effect
  <1>4. CASE setup.rule \in {"sgd", "momentum", "nesterov"}
    <2>1. all = Append(F, eff)
      BY <1>4 DEF Raw
    <2>2. Rule(i, p, g, bufs, t) = Sgd(p, g, bufs)
      BY <1>4 DEF Rule
    <2>3. CASE setup.rule = "sgd"
      <3>1. Sgd(p, g, bufs) = Stepped(p, <<opt.lr, eff>>, bufs)
        BY <1>3, <2>3 DEF Sgd
      <3>2. Formula(setup, i, u, p, g, plain, eff, all) = <<lr, eff>>
        BY <2>3 DEF Formula
      <3>3. Names(setup, i) = {}
        BY <2>3 DEF Names
      <3>8. R = Stepped(p, update, bufs)
        BY <2>2, <3>1, <3>2, <3>3 DEF R, update
      <3>9. Holds(bufs, Names(setup, i), moments)
        BY <2>2, <3>1, <3>2, <3>3 DEF Holds, moments
      <3> QED
        BY <1>12, <3>8, <3>9
    <2>4. CASE setup.rule = "momentum"
      <3>1. Names(setup, i) = {"velocity"} /\ ~Raw(setup)
        BY <2>4 DEF Names, Raw
      <3>2. Held(bufs, "velocity") = F
        BY <3>1 DEF Holds
      <3>3. Sgd(p, g, bufs) = Stepped(p, <<opt.lr, all>>, [velocity |-> all])
        BY <1>3, <2>1, <2>4, <3>2 DEF Sgd
      <3>4. Formula(setup, i, u, p, g, plain, eff, all) = <<lr, all>>
        BY <2>4 DEF Formula
      <3>8. R = Stepped(p, update, [velocity |-> all])
        BY <2>2, <3>1, <3>3, <3>4 DEF R, update
      <3>9. Holds([velocity |-> all], Names(setup, i), moments)
        BY <2>2, <3>1, <3>3, <3>4, HeldAre DEF Holds, moments
      <3> QED
        BY <1>12, <3>8, <3>9
    <2>5. CASE setup.rule = "nesterov"
      <3>1. Names(setup, i) = {"velocity"} /\ ~Raw(setup)
        BY <2>5 DEF Names, Raw
      <3>2. Held(bufs, "velocity") = F
        BY <3>1 DEF Holds
      <3>3. Sgd(p, g, bufs) = Stepped(p, <<opt.lr, eff, all>>, [velocity |-> all])
        BY <1>3, <2>1, <2>5, <3>2 DEF Sgd
      <3>4. Formula(setup, i, u, p, g, plain, eff, all) = <<lr, eff, all>>
        BY <2>5 DEF Formula
      <3>8. R = Stepped(p, update, [velocity |-> all])
        BY <2>2, <3>1, <3>3, <3>4 DEF R, update
      <3>9. Holds([velocity |-> all], Names(setup, i), moments)
        BY <2>2, <3>1, <3>3, <3>4, HeldAre DEF Holds, moments
      <3> QED
        BY <1>12, <3>8, <3>9
    <2> QED
      BY <1>4, <2>3, <2>4, <2>5
  <1>5. CASE setup.rule \in {"adam", "adamw", "nadam", "radam"}
    <2>1. Names(setup, i) = {"m", "v"} /\ ~Raw(setup) /\ t = u /\ all = Append(F, eff)
      BY <1>5 DEF Names, Raw, Counting
    <2>2. Held(bufs, "m") = F /\ Held(bufs, "v") = F
      BY <2>1 DEF Holds
    <2>3. Moments(bufs, eff) = [m |-> all, v |-> all]
      BY <2>1, <2>2 DEF Moments
    <2>4. Moments(bufs, eff).m = all /\ Moments(bufs, eff).v = all
      BY <2>3
    <2>5. Holds([m |-> all, v |-> all], Names(setup, i), all)
      BY <2>1, HeldAre DEF Holds
    <2>6. CASE setup.rule \in {"adam", "adamw"}
      <3>1. (IF setup.rule = "adamw" THEN <<g>> ELSE Effective(g, p)) = eff
        BY <1>3, <2>6 DEF Effect
      <3>2. Rule(i, p, g, bufs, t) =
              Stepped(p, <<opt.lr, all, all, t>> \o (IF setup.rule = "adamw" /\ setup.decay THEN <<p>> ELSE <<>>),
                      [m |-> all, v |-> all])
        <4>1. Rule(i, p, g, bufs, t) = cpu_adamw_kernel(p, g, bufs, t)
          BY <2>6 DEF Rule
        <4> QED
          BY <2>3, <2>4, <3>1, <4>1 DEF cpu_adamw_kernel
      <3>3. CASE setup.rule = "adamw"
        <4>1. Formula(setup, i, u, p, g, plain, eff, all) = <<lr, all, all, u>> \o shrink
          BY <3>3 DEF Formula
        <4>2. Rule(i, p, g, bufs, t) = Stepped(p, <<lr, all, all, u>> \o shrink, [m |-> all, v |-> all])
          BY <2>1, <3>2, <3>3
        <4>8. R = Stepped(p, update, [m |-> all, v |-> all])
          BY <2>1, <2>5, <4>1, <4>2 DEF R, update
        <4>9. Holds([m |-> all, v |-> all], Names(setup, i), moments)
          BY <2>1, <2>5, <4>1, <4>2 DEF Holds, moments
        <4> QED
          BY <1>12, <4>8, <4>9
      <3>4. CASE setup.rule = "adam"
        <4>1. Formula(setup, i, u, p, g, plain, eff, all) = <<lr, all, all, u>>
          BY <3>4 DEF Formula
        <4>2. <<lr, all, all, u>> \o <<>> = <<lr, all, all, u>>
          BY ConcatEmptySeq, IsASeq
        <4>3. Rule(i, p, g, bufs, t) = Stepped(p, <<lr, all, all, u>>, [m |-> all, v |-> all])
          BY <2>1, <3>2, <3>4, <4>2
        <4>8. R = Stepped(p, update, [m |-> all, v |-> all])
          BY <2>1, <2>5, <4>1, <4>3 DEF R, update
        <4>9. Holds([m |-> all, v |-> all], Names(setup, i), moments)
          BY <2>1, <2>5, <4>1, <4>3 DEF Holds, moments
        <4> QED
          BY <1>12, <4>8, <4>9
      <3> QED
        BY <2>6, <3>3, <3>4
    <2>7. CASE setup.rule = "nadam"
      <3>1. Rule(i, p, g, bufs, t) = Stepped(p, <<opt.lr, all, eff, all, t>>, [m |-> all, v |-> all])
        <4>1. Rule(i, p, g, bufs, t) = NAdam(p, g, bufs, t) /\ Effective(g, p) = eff
          BY <1>3, <2>7 DEF Rule
        <4> QED
          BY <2>3, <2>4, <4>1 DEF NAdam
      <3>2. Formula(setup, i, u, p, g, plain, eff, all) = <<lr, all, eff, all, u>>
        BY <2>7 DEF Formula
      <3>8. R = Stepped(p, update, [m |-> all, v |-> all])
        BY <2>1, <2>5, <3>1, <3>2 DEF R, update
      <3>9. Holds([m |-> all, v |-> all], Names(setup, i), moments)
        BY <2>1, <2>5, <3>1, <3>2 DEF Holds, moments
      <3> QED
        BY <1>12, <3>8, <3>9
    <2>8. CASE setup.rule = "radam"
      <3>1. Rule(i, p, g, bufs, t) =
              Stepped(p, <<opt.lr, all, t>> \o (IF t >= RectifiedFrom THEN <<all>> ELSE <<>>), [m |-> all, v |-> all])
        <4>1. Rule(i, p, g, bufs, t) = RAdam(p, g, bufs, t) /\ Effective(g, p) = eff
          BY <1>3, <2>8 DEF Rule
        <4> QED
          BY <2>3, <2>4, <4>1 DEF RAdam
      <3>2. Formula(setup, i, u, p, g, plain, eff, all) = <<lr, all, u>> \o (IF u >= RectifiedFrom THEN <<all>> ELSE <<>>)
        BY <2>8 DEF Formula
      <3>8. R = Stepped(p, update, [m |-> all, v |-> all])
        BY <2>1, <2>5, <3>1, <3>2 DEF R, update
      <3>9. Holds([m |-> all, v |-> all], Names(setup, i), moments)
        BY <2>1, <2>5, <3>1, <3>2 DEF Holds, moments
      <3> QED
        BY <1>12, <3>8, <3>9
    <2> QED
      BY <1>5, <2>6, <2>7, <2>8
  <1>6. CASE setup.rule = "adamax"
    <2>1. Names(setup, i) = {"m", "u"} /\ ~Raw(setup) /\ t = u /\ all = Append(F, eff)
      BY <1>6 DEF Names, Raw, Counting
    <2>2. Held(bufs, "m") = F /\ Held(bufs, "u") = F
      BY <2>1 DEF Holds
    <2>3. Rule(i, p, g, bufs, t) = Adamax(p, g, bufs, t) /\ Effective(g, p) = eff
      BY <1>3, <1>6 DEF Rule
    <2>4. Rule(i, p, g, bufs, t) = Stepped(p, <<opt.lr, all, all, t>>, [m |-> all, u |-> all])
      BY <2>1, <2>2, <2>3 DEF Adamax
    <2>5. Formula(setup, i, u, p, g, plain, eff, all) = <<lr, all, all, u>>
      BY <1>6 DEF Formula
    <2>8. R = Stepped(p, update, [m |-> all, u |-> all])
      BY <2>1, <2>4, <2>5 DEF R, update
    <2>9. Holds([m |-> all, u |-> all], Names(setup, i), moments)
      BY <2>1, <2>4, <2>5, HeldAre DEF Holds, moments
    <2> QED
      BY <1>12, <2>8, <2>9
  <1>7. CASE setup.rule \in {"adagrad", "rmsprop"}
    <2>1. ~Raw(setup) /\ all = Append(F, eff) /\ Effective(g, p) = eff
      BY <1>3, <1>7 DEF Raw
    <2>2. Formula(setup, i, u, p, g, plain, eff, all) = <<lr, eff, all>>
      BY <1>7 DEF Formula
    <2>3. CASE setup.rule = "adagrad"
      <3>1. Names(setup, i) = {"acc"}
        BY <2>3 DEF Names
      <3>2. Held(bufs, "acc") = F
        BY <3>1 DEF Holds
      <3>3. Rule(i, p, g, bufs, t) = Adagrad(p, g, bufs)
        BY <2>3 DEF Rule
      <3>4. Rule(i, p, g, bufs, t) = Stepped(p, <<opt.lr, eff, all>>, [acc |-> all])
        BY <2>1, <3>2, <3>3 DEF Adagrad
      <3>8. R = Stepped(p, update, [acc |-> all])
        BY <2>1, <2>2, <3>1, <3>4 DEF R, update
      <3>9. Holds([acc |-> all], Names(setup, i), moments)
        BY <2>1, <2>2, <3>1, <3>4, HeldAre DEF Holds, moments
      <3> QED
        BY <1>12, <3>8, <3>9
    <2>4. CASE setup.rule = "rmsprop"
      <3>1. Names(setup, i) = {"v"}
        BY <2>4 DEF Names
      <3>2. Held(bufs, "v") = F
        BY <3>1 DEF Holds
      <3>3. Rule(i, p, g, bufs, t) = RMSprop(p, g, bufs)
        BY <2>4 DEF Rule
      <3>4. Rule(i, p, g, bufs, t) = Stepped(p, <<opt.lr, eff, all>>, [v |-> all])
        BY <2>1, <3>2, <3>3 DEF RMSprop
      <3>8. R = Stepped(p, update, [v |-> all])
        BY <2>1, <2>2, <3>1, <3>4 DEF R, update
      <3>9. Holds([v |-> all], Names(setup, i), moments)
        BY <2>1, <2>2, <3>1, <3>4, HeldAre DEF Holds, moments
      <3> QED
        BY <1>12, <3>8, <3>9
    <2> QED
      BY <1>7, <2>3, <2>4
  <1>8. CASE setup.rule = "lion"
    <2>1. Names(setup, i) = {"m"} /\ Raw(setup) /\ plain = Append(F, <<g>>) /\ Front(plain) = F
      BY <1>8 DEF Names, Raw
    <2>2. Held(bufs, "m") = F
      BY <2>1 DEF Holds
    <2>3. Rule(i, p, g, bufs, t) = Lion(p, g, bufs)
      BY <1>8 DEF Rule
    <2>4. Rule(i, p, g, bufs, t) = Stepped(p, <<opt.lr, F, g>> \o shrink, [m |-> plain])
      BY <2>1, <2>2, <2>3 DEF Lion
    <2>5. Formula(setup, i, u, p, g, plain, eff, all) = <<lr, F, g>> \o shrink
      BY <1>8, <2>1 DEF Formula
    <2>8. R = Stepped(p, update, [m |-> plain])
      BY <2>1, <2>4, <2>5 DEF R, update
    <2>9. Holds([m |-> plain], Names(setup, i), moments)
      BY <2>1, <2>4, <2>5, HeldAre DEF Holds, moments
    <2> QED
      BY <1>12, <2>8, <2>9
  <1>9. CASE setup.rule = "adafactor"
    <2>1. Raw(setup) /\ plain = Append(F, <<g>>) /\ Effective(g, p) = eff
      BY <1>3, <1>9 DEF Raw
    <2>2. Rule(i, p, g, bufs, t) = Adafactor(i, p, g, bufs)
      BY <1>9 DEF Rule
    <2>3. Formula(setup, i, u, p, g, plain, eff, all) = <<lr, eff>> \o (IF i = 1 THEN <<plain, plain>> ELSE <<plain>>)
      BY <1>9 DEF Formula
    <2>4. CASE i = 1
      <3>1. Names(setup, i) = {"r", "c"}
        BY <1>9, <2>4 DEF Names
      <3>2. Held(bufs, "r") = F /\ Held(bufs, "c") = F
        BY <3>1 DEF Holds
      <3>3. Rule(i, p, g, bufs, t) = Stepped(p, <<opt.lr, eff, plain, plain>>, [r |-> plain, c |-> plain])
        BY <2>1, <2>2, <2>4, <3>2 DEF Adafactor
      <3>4. <<lr, eff>> \o <<plain, plain>> = <<lr, eff, plain, plain>>
        BY Joined
      <3>8. R = Stepped(p, update, [r |-> plain, c |-> plain])
        BY <2>1, <2>3, <2>4, <3>1, <3>3, <3>4 DEF R, update
      <3>9. Holds([r |-> plain, c |-> plain], Names(setup, i), moments)
        BY <2>1, <2>3, <2>4, <3>1, <3>3, <3>4, HeldAre DEF Holds, moments
      <3> QED
        BY <1>12, <3>8, <3>9
    <2>5. CASE i # 1
      <3>1. Names(setup, i) = {"v"}
        BY <1>9, <2>5 DEF Names
      <3>2. Held(bufs, "v") = F
        BY <3>1 DEF Holds
      <3>3. Rule(i, p, g, bufs, t) = Stepped(p, <<opt.lr, eff, plain>>, [v |-> plain])
        BY <2>1, <2>2, <2>5, <3>2 DEF Adafactor
      <3>4. <<lr, eff>> \o <<plain>> = <<lr, eff, plain>>
        BY Joined
      <3>8. R = Stepped(p, update, [v |-> plain])
        BY <2>1, <2>3, <2>5, <3>1, <3>3, <3>4 DEF R, update
      <3>9. Holds([v |-> plain], Names(setup, i), moments)
        BY <2>1, <2>3, <2>5, <3>1, <3>3, <3>4, HeldAre DEF Holds, moments
      <3> QED
        BY <1>12, <3>8, <3>9
    <2> QED
      BY <2>4, <2>5
  <1> QED
    BY <1>1, <1>4, <1>5, <1>6, <1>7, <1>8, <1>9

-----------------------------------------------------------------------------
(* Where the gradients of a parameter come in a history.                   *)
Entry == [grads : [Param -> Int], ok : BOOLEAN]
Times(h, i) == Len(Reached(h, i))

(* A later element is not up to an earlier place.                          *)
LEMMA UpToSame ==
  ASSUME NEW n \in Nat, NEW m \in Nat, m = n + 1, NEW S \in SUBSET (1 .. n), NEW T, T = S \cup {m}
  PROVE  \A k \in 1 .. n : UpTo(T, k) = UpTo(S, k)
  <1> SUFFICES ASSUME NEW k \in 1 .. n PROVE UpTo(T, k) = UpTo(S, k)
    OBVIOUS
  <1>1. {l \in T : l <= k} = {l \in S : l <= k}
    OBVIOUS
  <1> QED
    BY <1>1 DEF UpTo

(* The last element of a set is counted last.                              *)
LEMMA UpToGrows ==
  ASSUME NEW n \in Nat, NEW m \in Nat, m = n + 1, NEW S \in SUBSET (1 .. n), NEW T, T = S \cup {m}
  PROVE  /\ Cardinality(S) \in Nat /\ Cardinality(T) = Cardinality(S) + 1
         /\ \A k \in 1 .. n : UpTo(T, k) = UpTo(S, k) /\ UpTo(S, k) \in Nat /\ UpTo(S, k) <= Cardinality(S)
         /\ UpTo(T, m) = Cardinality(T)
  <1>1. IsFiniteSet(S) /\ m \notin S
    <2>1. IsFiniteSet(1 .. n) /\ m \notin 1 .. n
      BY FS_Interval
    <2> QED
      BY <2>1, FS_Subset
  <1>2. Cardinality(S) \in Nat /\ Cardinality(T) = Cardinality(S) + 1
    BY <1>1, FS_CardinalityType, FS_AddElement
  <1>3. ASSUME NEW k \in 1 .. n
        PROVE  UpTo(T, k) = UpTo(S, k) /\ UpTo(S, k) \in Nat /\ UpTo(S, k) <= Cardinality(S)
    <2>1. {l \in T : l <= k} = {l \in S : l <= k}
      OBVIOUS
    <2>2. {l \in S : l <= k} \in SUBSET S
      OBVIOUS
    <2>3. Cardinality({l \in S : l <= k}) \in Nat /\ Cardinality({l \in S : l <= k}) <= Cardinality(S)
      BY <1>1, <2>2, FS_Subset, FS_CardinalityType
    <2> QED
      BY <2>1, <2>3 DEF UpTo
  <1>4. UpTo(T, m) = Cardinality(T)
    <2>1. \A l \in T : l <= m
      <3>1. \A l \in 1 .. n : l <= m
        OBVIOUS
      <3>2. m <= m /\ \A l \in T : l \in 1 .. n \/ l = m
        OBVIOUS
      <3> QED
        BY <3>1, <3>2
    <2>2. {l \in T : l <= m} = T
      BY <2>1
    <2> QED
      BY <2>2 DEF UpTo
  <1> QED
    BY <1>2, <1>3, <1>4

(* A new last element takes the next rank; the others keep theirs.         *)
LEMMA RanksGrow ==
  ASSUME NEW n \in Nat, NEW m \in Nat, m = n + 1, NEW S \in SUBSET (1 .. n), NEW T, T = S \cup {m}
  PROVE  /\ \A j \in 1 .. Cardinality(S) : Ranked(T, j) = Ranked(S, j)
         /\ Ranked(T, Cardinality(T)) = {m}
  <1>1. /\ Cardinality(S) \in Nat /\ Cardinality(T) = Cardinality(S) + 1
        /\ \A k \in S : UpTo(T, k) = UpTo(S, k) /\ UpTo(S, k) \in Nat /\ UpTo(S, k) <= Cardinality(S)
        /\ UpTo(T, m) = Cardinality(T)
    BY UpToGrows
  <1>4. m \in T /\ m \notin S /\ \A k \in T : k # m => k \in S
    <2>1. m \notin 1 .. n
      OBVIOUS
    <2> QED
      BY <2>1
  <1>2. ASSUME NEW j \in 1 .. Cardinality(S) PROVE Ranked(T, j) = Ranked(S, j)
    <2>1. \A k \in T : UpTo(T, k) = j <=> k \in S /\ UpTo(S, k) = j
      <3>1. UpTo(T, m) # j
        BY <1>1
      <3> QED
        BY <1>1, <1>4, <3>1
    <2> QED
      BY <2>1 DEF Ranked
  <1>3. Ranked(T, Cardinality(T)) = {m}
    <2>1. \A k \in T : UpTo(T, k) = Cardinality(T) <=> k = m
      <3>1. \A k \in S : UpTo(T, k) # Cardinality(T)
        BY <1>1
      <3> QED
        BY <1>1, <1>4, <3>1
    <2> QED
      BY <1>4, <2>1 DEF Ranked
  <1> QED
    BY <1>2, <1>3

(* What one more iteration adds to the steps that were not skipped, and to *)
(* those in which parameter i has a gradient.                              *)
LEMMA CleanGrows ==
  ASSUME NEW h \in Seq(Entry), NEW e \in Entry, NEW i \in Param
  PROVE  /\ Clean(h) \in SUBSET (1 .. Len(h))
         /\ Clean(Append(h, e)) = Clean(h) \cup (IF e.ok THEN {Len(h) + 1} ELSE {})
         /\ Hits(h, i) \in SUBSET Clean(h)
         /\ Hits(Append(h, e), i) = Hits(h, i) \cup (IF e.ok /\ e.grads[i] # 0 THEN {Len(h) + 1} ELSE {})
  <1>1. PICK n \in Nat : n = Len(h)
    OBVIOUS
  <1>2. PICK h2 : h2 = Append(h, e)
    OBVIOUS
  <1>3. Len(h2) = n + 1 /\ (\A k \in 1 .. n : h2[k] = h[k]) /\ h2[n + 1] = e
    BY <1>1, <1>2, AppendProperties
  <1>4. \A k \in 1 .. n + 1 : k \in 1 .. n \/ k = n + 1
    OBVIOUS
  <1>5. Clean(h2) = Clean(h) \cup (IF e.ok THEN {n + 1} ELSE {})
    <2>1. \A k : k \in Clean(h2) <=> k \in Clean(h) \/ (e.ok /\ k = n + 1)
      BY <1>1, <1>3, <1>4 DEF Clean
    <2> QED
      BY <2>1
  <1>6. Hits(h2, i) = Hits(h, i) \cup (IF e.ok /\ e.grads[i] # 0 THEN {n + 1} ELSE {})
    <2>1. n + 1 \notin Clean(h) /\ \A k \in Clean(h) : h2[k] = h[k]
      BY <1>1, <1>3 DEF Clean
    <2>2. \A k : k \in Hits(h2, i) <=> k \in Hits(h, i) \/ (e.ok /\ e.grads[i] # 0 /\ k = n + 1)
      BY <1>3, <1>5, <2>1 DEF Hits
    <2> QED
      BY <2>2
  <1> QED
    BY <1>1, <1>2, <1>5, <1>6 DEF Clean, Hits

(* A parameter has received as many gradients as it was hit.               *)
LEMMA TimesAre ==
  ASSUME NEW h \in Seq(Entry), NEW i \in Param
  PROVE  Times(h, i) = Cardinality(Hits(h, i)) /\ Times(h, i) \in Nat
  <1>1. Hits(h, i) \in SUBSET (1 .. Len(h)) /\ Len(h) \in Nat
    BY DEF Hits, Clean
  <1>2. Cardinality(Hits(h, i)) \in Nat
    <2>1. IsFiniteSet(1 .. Len(h))
      BY <1>1, FS_Interval
    <2>2. IsFiniteSet(Hits(h, i))
      BY <1>1, <2>1, FS_Subset
    <2> QED
      BY <2>2, FS_CardinalityType
  <1>3. PICK n : n = Cardinality(Hits(h, i))
    OBVIOUS
  <1>4. PICK f : f = Reached(h, i)
    OBVIOUS
  <1>5. PICK S : S = {f[j] : j \in 1 .. n}
    OBVIOUS
  <1>6. f \in [1 .. n -> S]
    BY <1>3, <1>4, <1>5 DEF Reached
  <1>7. f \in Seq(S)
    BY <1>2, <1>3, <1>6, SeqDef
  <1>8. Len(f) = n
    BY <1>2, <1>3, <1>6, <1>7, LenProperties
  <1> QED
    BY <1>2, <1>3, <1>4, <1>8 DEF Times

(* The iteration e steps parameter i; the first N gradients of i are the   *)
(* same in h and k; each was at a step that was not skipped.               *)
Hit(e, i) == e.ok /\ e.grads[i] # 0
Agree(h, k, i, N) ==
  \A l \in 1 .. N : LET a == Reached(h, i)[l]
                    IN  Reached(k, i)[l] = a /\ k[a] = h[a] /\ Occasion(k, a) = Occasion(h, a)
Found(h, i) == \A l \in 1 .. Times(h, i) : Reached(h, i)[l] \in Clean(h)

(* The gradients of a parameter stay where they were; a new one is its     *)
(* last, at the newest step.                                               *)
LEMMA ReachedGrows ==
  ASSUME NEW h \in Seq(Entry), NEW e \in Entry, NEW i \in Param, Found(h, i)
  PROVE  /\ Times(Append(h, e), i) = IF Hit(e, i) THEN Times(h, i) + 1 ELSE Times(h, i)
         /\ Agree(h, Append(h, e), i, Times(h, i))
         /\ Found(Append(h, e), i)
         /\ Hit(e, i) => LET a == Reached(Append(h, e), i)[Times(h, i) + 1]
                         IN  Append(h, e)[a] = e /\ Occasion(Append(h, e), a) = Cardinality(Clean(h)) + 1
  <1>1. PICK n \in Nat : n = Len(h)
    OBVIOUS
  <1>2. PICK m \in Nat : m = n + 1
    OBVIOUS
  <1>3. PICK h2 : h2 = Append(h, e)
    OBVIOUS
  <1>4. PICK N : N = Times(h, i)
    OBVIOUS
  <1>5. h2 \in Seq(Entry) /\ (\A k \in 1 .. n : h2[k] = h[k]) /\ h2[m] = e
    BY <1>1, <1>2, <1>3, AppendProperties
  <1>6. /\ Clean(h) \in SUBSET (1 .. n)
        /\ Clean(h2) = Clean(h) \cup (IF e.ok THEN {m} ELSE {})
        /\ Hits(h, i) \in SUBSET (1 .. n) /\ Hits(h, i) \in SUBSET Clean(h)
        /\ Hits(h2, i) = Hits(h, i) \cup (IF Hit(e, i) THEN {m} ELSE {})
    BY <1>1, <1>2, <1>3, CleanGrows DEF Hit
  <1>16. ASSUME NEW S \in SUBSET (1 .. n), NEW T, T = S \cup {m}
         PROVE  /\ \A k \in 1 .. n : UpTo(T, k) = UpTo(S, k)
                /\ \A j \in 1 .. Cardinality(S) : Ranked(T, j) = Ranked(S, j)
                /\ Ranked(T, Cardinality(T)) = {m}
    <2>1. T = S \cup {m}
      BY <1>16
    <2>2. \A k \in 1 .. n : UpTo(T, k) = UpTo(S, k)
      BY <1>2, <2>1, UpToSame
    <2>3. \A j \in 1 .. Cardinality(S) : Ranked(T, j) = Ranked(S, j)
      BY <1>2, <2>1, RanksGrow
    <2>4. Ranked(T, Cardinality(T)) = {m}
      BY <1>2, <2>1, RanksGrow
    <2> QED
      BY <2>2, <2>3, <2>4
  <1>7. /\ N \in Nat /\ N = Cardinality(Hits(h, i))
        /\ Times(h2, i) = Cardinality(Hits(h2, i))
    BY <1>4, <1>5, TimesAre
  <1>8. \A k \in 1 .. n : Occasion(h2, k) = Occasion(h, k)
    <2>1. CASE e.ok
      <3>1. Clean(h2) = Clean(h) \cup {m}
        BY <1>6, <2>1
      <3> QED
        BY <1>6, <1>16, <3>1 DEF Occasion
    <2>2. CASE ~e.ok
      BY <1>6, <2>2 DEF Occasion
    <2> QED
      BY <2>1, <2>2
  <1>9. Times(h2, i) = IF Hit(e, i) THEN N + 1 ELSE N
    <2>1. CASE Hit(e, i)
      <3>1. Hits(h2, i) = Hits(h, i) \cup {m}
        BY <1>6, <2>1
      <3>2. Cardinality(Hits(h2, i)) = Cardinality(Hits(h, i)) + 1
        BY <1>2, <1>6, <3>1, UpToGrows
      <3> QED
        BY <1>7, <2>1, <3>2
    <2>2. CASE ~Hit(e, i)
      BY <1>6, <1>7, <2>2
    <2> QED
      BY <2>1, <2>2
  <1>10. ASSUME NEW l \in 1 .. N PROVE Reached(h2, i)[l] = Reached(h, i)[l]
    <2>1. Ranked(Hits(h2, i), l) = Ranked(Hits(h, i), l)
      <3>1. CASE Hit(e, i)
        <4>1. Hits(h2, i) = Hits(h, i) \cup {m}
          BY <1>6, <3>1
        <4>2. \A j \in 1 .. Cardinality(Hits(h, i)) : Ranked(Hits(h2, i), j) = Ranked(Hits(h, i), j)
          BY <1>6, <1>16, <4>1
        <4> QED
          BY <1>7, <4>2
      <3>2. CASE ~Hit(e, i)
        BY <1>6, <3>2
      <3> QED
        BY <3>1, <3>2
    <2>2. l \in 1 .. Cardinality(Hits(h2, i)) /\ l \in 1 .. Cardinality(Hits(h, i))
      BY <1>7, <1>9
    <2>3. Reached(h2, i)[l] = CHOOSE k \in Ranked(Hits(h2, i), l) : TRUE
      BY <2>2 DEF Reached
    <2>4. Reached(h, i)[l] = CHOOSE k \in Ranked(Hits(h, i), l) : TRUE
      BY <2>2 DEF Reached
    <2> QED
      BY <2>1, <2>3, <2>4
  <1>11. \A l \in 1 .. N : Reached(h, i)[l] \in Clean(h) /\ Reached(h, i)[l] \in 1 .. n
    BY <1>4, <1>6 DEF Found
  <1>12. Agree(h, h2, i, N)
    BY <1>5, <1>8, <1>10, <1>11 DEF Agree
  <1>13. ASSUME Hit(e, i) PROVE Reached(h2, i)[N + 1] = m
    <2>1. Ranked(Hits(h2, i), Cardinality(Hits(h2, i))) = {m}
      <3>1. Hits(h2, i) = Hits(h, i) \cup {m}
        BY <1>6, <1>13
      <3> QED
        BY <1>6, <1>16, <3>1
    <2>2. N + 1 = Cardinality(Hits(h2, i)) /\ N + 1 \in 1 .. N + 1
      BY <1>7, <1>9, <1>13
    <2>3. Reached(h2, i)[N + 1] = CHOOSE k \in Ranked(Hits(h2, i), N + 1) : TRUE
      BY <2>2 DEF Reached
    <2> QED
      BY <2>1, <2>2, <2>3
  <1>14. ASSUME Hit(e, i) PROVE m \in Clean(h2) /\ Occasion(h2, m) = Cardinality(Clean(h)) + 1
    <2>1. e.ok
      BY <1>14 DEF Hit
    <2>2. UpTo(Clean(h2), m) = Cardinality(Clean(h2)) /\ Cardinality(Clean(h2)) = Cardinality(Clean(h)) + 1
      <3>1. Clean(h2) = Clean(h) \cup {m}
        BY <1>6, <2>1
      <3> QED
        BY <1>2, <1>6, <3>1, UpToGrows
    <2> QED
      BY <1>6, <2>1, <2>2 DEF Occasion
  <1>15. Found(h2, i)
    <2> SUFFICES ASSUME NEW l \in 1 .. Times(h2, i) PROVE Reached(h2, i)[l] \in Clean(h2)
      BY DEF Found
    <2>1. CASE l \in 1 .. N
      BY <1>6, <1>10, <1>11, <2>1
    <2>2. CASE l \notin 1 .. N
      <3>1. Hit(e, i) /\ l = N + 1
        BY <1>7, <1>9, <2>2
      <3> QED
        BY <1>13, <1>14, <3>1
    <2> QED
      BY <2>1, <2>2
  <1> QED
    BY <1>3, <1>4, <1>5, <1>9, <1>12, <1>13, <1>14, <1>15

-----------------------------------------------------------------------------
(* The values of a parameter along a history, as Defined computes them.    *)
IsPath(x, s, h, i) ==
  x = [j \in 0 .. Len(Reached(h, i)) |-> IF j = 0 THEN <<>> ELSE Append(x[j - 1], Update(s, h, i, x, j))]
Path(s, h, i) == CHOOSE x : IsPath(x, s, h, i)

(* The definition is the end of the path.                                  *)
LEMMA DefinedEndsPath ==
  ASSUME NEW s, NEW h, NEW i
  PROVE  Defined(s, h, i) = Path(s, h, i)[Times(h, i)]
  BY DEF Defined, Path, IsPath, Times

(* The path starts at the initial value, each step appending its update.   *)
LEMMA PathSteps ==
  ASSUME NEW s, NEW h \in Seq(Entry), NEW i \in Param, NEW x, IsPath(x, s, h, i)
  PROVE  x[0] = <<>> /\ \A j \in 1 .. Times(h, i) : x[j] = Append(x[j - 1], Update(s, h, i, x, j))
  <1>1. PICK n : n = Times(h, i)
    OBVIOUS
  <1>2. n \in Nat
    BY <1>1, TimesAre
  <1>3. PICK y : y = x
    OBVIOUS
  <1>4. y = [j \in 0 .. n |-> IF j = 0 THEN <<>> ELSE Append(x[j - 1], Update(s, h, i, x, j))]
    BY <1>1, <1>3 DEF IsPath, Times
  <1>5. 0 \in 0 .. n /\ \A j \in 1 .. n : j \in 0 .. n /\ j # 0
    BY <1>2
  <1>6. y[0] = <<>>
    BY <1>4, <1>5
  <1>7. \A j \in 1 .. n : y[j] = Append(x[j - 1], Update(s, h, i, x, j))
    BY <1>4, <1>5
  <1> QED
    BY <1>1, <1>3, <1>6, <1>7

Same(x, y, j) == \A l \in 0 .. j - 1 : x[l] = y[l]

Alike(s, h, k, i, x, y, j) ==
  /\ Received(s, k, i, j) = Received(s, h, i, j)
  /\ Folded(s, k, i, x, j) = Folded(s, h, i, y, j)
  /\ Update(s, k, i, x, j) = Update(s, h, i, y, j)

(* Two histories with the same gradients up to the j-th fold the same      *)
(* sequences.                                                              *)
LEMMA FoldsAgree ==
  ASSUME NEW s, NEW h \in Seq(Entry), NEW k \in Seq(Entry), NEW i \in Param, NEW N \in Nat, Agree(h, k, i, N),
         NEW j \in 0 .. N, NEW x, NEW y, Same(x, y, j)
  PROVE  /\ Received(s, k, i, j) = Received(s, h, i, j)
         /\ Folded(s, k, i, x, j) = Folded(s, h, i, y, j)
  <1>1. \A l \in 1 .. j : k[Reached(k, i)[l]] = h[Reached(h, i)[l]]
    BY DEF Agree
  <1>2. Received(s, k, i, j) = Received(s, h, i, j)
    BY <1>1 DEF Received
  <1>3. PICK p : p = Received(s, h, i, j)
    OBVIOUS
  <1>4. \A l \in 1 .. j : x[l - 1] = y[l - 1]
    BY DEF Same
  <1>5. Folded(s, k, i, x, j) = Folded(s, h, i, y, j)
    BY <1>2, <1>3, <1>4 DEF Folded
  <1> QED
    BY <1>2, <1>5

(* And they give the same j-th update.                                     *)
LEMMA UpdatesAgree ==
  ASSUME NEW s, NEW h \in Seq(Entry), NEW k \in Seq(Entry), NEW i \in Param, NEW N \in Nat, Agree(h, k, i, N),
         NEW j \in 1 .. N, NEW x, NEW y, Same(x, y, j)
  PROVE  Alike(s, h, k, i, x, y, j)
  <1>1. j \in 0 .. N
    OBVIOUS
  <1>2. Received(s, k, i, j) = Received(s, h, i, j) /\ Folded(s, k, i, x, j) = Folded(s, h, i, y, j)
    BY <1>1, FoldsAgree
  <1>3. Occasion(k, Reached(k, i)[j]) = Occasion(h, Reached(h, i)[j]) /\ x[j - 1] = y[j - 1]
    BY DEF Agree, Same
  <1> QED
    BY <1>2, <1>3 DEF Update, Alike

(* The same, for an index and a bound that are not typed by their binder.  *)
LEMMA UpdateAgrees ==
  ASSUME NEW s, NEW h \in Seq(Entry), NEW k \in Seq(Entry), NEW i \in Param, NEW N, N \in Nat, Agree(h, k, i, N),
         NEW j, j \in 1 .. N, NEW x, NEW y, Same(x, y, j)
  PROVE  Update(s, k, i, x, j) = Update(s, h, i, y, j)
  <1>1. Alike(s, h, k, i, x, y, j)
    BY UpdatesAgree
  <1> QED
    BY <1>1 DEF Alike

(* And so the same path.                                                   *)
LEMMA PathsAgree ==
  ASSUME NEW s, NEW h \in Seq(Entry), NEW k \in Seq(Entry), NEW i \in Param, NEW N \in Nat, Agree(h, k, i, N),
         N <= Times(h, i), N <= Times(k, i), NEW x, IsPath(x, s, k, i), NEW y, IsPath(y, s, h, i)
  PROVE  \A j \in 0 .. N : x[j] = y[j]
  <1> DEFINE T == {j \in 0 .. N : x[j] # y[j]}
  <1>1. SUFFICES ASSUME T # {} PROVE FALSE
    OBVIOUS
  <1>2. T \in SUBSET Nat
    OBVIOUS
  <1>3. PICK j \in T : \A l \in T : j <= l
    <2> HIDE DEF T
    <2> QED
      BY <1>1, <1>2, Least
  <1>4. Times(h, i) \in Nat /\ Times(k, i) \in Nat
    BY TimesAre
  <1>5. x[0] = <<>> /\ y[0] = <<>>
    BY PathSteps
  <1>6. j \in 1 .. N
    BY <1>3, <1>5
  <1>7. Same(x, y, j)
    BY <1>3, <1>6 DEF Same
  <1>8. Update(s, k, i, x, j) = Update(s, h, i, y, j)
    BY <1>6, <1>7, UpdateAgrees
  <1>9. j \in 1 .. Times(k, i) /\ j \in 1 .. Times(h, i)
    BY <1>4, <1>6
  <1>10. x[j] = Append(x[j - 1], Update(s, k, i, x, j)) /\ y[j] = Append(y[j - 1], Update(s, h, i, y, j))
    BY <1>9, PathSteps
  <1>11. x[j - 1] = y[j - 1]
    BY <1>6, <1>7 DEF Same
  <1> QED
    BY <1>3, <1>8, <1>10, <1>11

Charted(s, h, i) == Found(h, i) /\ IsPath(Path(s, h, i), s, h, i)

(* One more iteration extends the path of a parameter, and changes no      *)
(* value that it had.                                                      *)
LEMMA PathGrows ==
  ASSUME NEW s, NEW h \in Seq(Entry), NEW e \in Entry, NEW i \in Param, Charted(s, h, i)
  PROVE  /\ Charted(s, Append(h, e), i)
         /\ \A j \in 0 .. Times(h, i) : Path(s, Append(h, e), i)[j] = Path(s, h, i)[j]
  <1>1. PICK k : k = Append(h, e)
    OBVIOUS
  <1>2. PICK N : N = Times(h, i)
    OBVIOUS
  <1>3. PICK M : M = Times(k, i)
    OBVIOUS
  <1>4. k \in Seq(Entry)
    BY <1>1
  <1>5. N \in Nat /\ M \in Nat
    BY <1>2, <1>3, <1>4, TimesAre
  <1>6. M = (IF Hit(e, i) THEN N + 1 ELSE N) /\ Agree(h, k, i, N) /\ Found(k, i)
    BY <1>1, <1>2, <1>3, ReachedGrows DEF Charted
  <1>7. PICK y : y = Path(s, h, i)
    OBVIOUS
  <1>8. IsPath(y, s, h, i)
    BY <1>7 DEF Charted
  <1>9. PICK x : x = [j \in 0 .. M |-> IF j <= N THEN y[j] ELSE Append(y[N], Update(s, k, i, y, N + 1))]
    OBVIOUS
  <1>10. (\A j \in 0 .. N : x[j] = y[j]) /\ (M = N + 1 => x[N + 1] = Append(y[N], Update(s, k, i, y, N + 1)))
    BY <1>5, <1>6, <1>9
  <1>11. x[0] = <<>>
    <2>1. y[0] = <<>>
      BY <1>8, PathSteps
    <2> QED
      BY <1>5, <1>10, <2>1
  <1>12. ASSUME NEW j \in 1 .. M PROVE x[j] = Append(x[j - 1], Update(s, k, i, x, j))
    <2>1. CASE j <= N
      <3>1. j \in 1 .. N /\ Same(x, y, j)
        BY <1>5, <1>10, <2>1 DEF Same
      <3>2. Update(s, k, i, x, j) = Update(s, h, i, y, j)
        BY <1>4, <1>5, <1>6, <3>1, UpdateAgrees
      <3>3. y[j] = Append(y[j - 1], Update(s, h, i, y, j))
        BY <1>2, <1>8, <3>1, PathSteps
      <3>4. x[j] = y[j] /\ x[j - 1] = y[j - 1]
        BY <1>5, <1>10, <3>1
      <3> QED
        BY <3>2, <3>3, <3>4
    <2>2. CASE ~(j <= N)
      <3>1. M = N + 1 /\ j = N + 1
        BY <1>5, <1>6, <2>2
      <3>2. Agree(k, k, i, M)
        BY DEF Agree
      <3>3. Same(x, y, j)
        BY <1>5, <1>10, <3>1 DEF Same
      <3>4. Update(s, k, i, x, j) = Update(s, k, i, y, j)
        BY <1>4, <1>5, <3>2, <3>3, UpdateAgrees
      <3>5. x[j - 1] = y[N]
        BY <1>5, <1>10, <3>1
      <3> QED
        BY <1>10, <3>1, <3>4, <3>5
    <2> QED
      BY <2>1, <2>2
  <1>13. IsPath(x, s, k, i)
    <2>1. PICK z : z = x
      OBVIOUS
    <2>2. z = [j \in 0 .. M |-> z[j]]
      BY <1>9, <2>1
    <2>3. \A j \in 0 .. M : z[j] = IF j = 0 THEN <<>> ELSE Append(x[j - 1], Update(s, k, i, x, j))
      <3> TAKE j \in 0 .. M
      <3>1. CASE j = 0
        BY <1>11, <2>1, <3>1
      <3>2. CASE j # 0
        <4>1. j \in 1 .. M
          BY <1>5, <3>2
        <4> QED
          BY <1>12, <2>1, <3>2, <4>1
      <3> QED
        BY <3>1, <3>2
    <2>4. z = [j \in 0 .. M |-> IF j = 0 THEN <<>> ELSE Append(x[j - 1], Update(s, k, i, x, j))]
      BY <2>2, <2>3
    <2> QED
      BY <1>3, <2>1, <2>4 DEF IsPath, Times
  <1>14. IsPath(Path(s, k, i), s, k, i)
    BY <1>13 DEF Path
  <1>15. \A j \in 0 .. N : Path(s, k, i)[j] = y[j]
    <2>1. N <= Times(k, i) /\ N <= Times(h, i)
      BY <1>2, <1>3, <1>5, <1>6
    <2> QED
      BY <1>4, <1>5, <1>6, <1>8, <1>14, <2>1, PathsAgree
  <1> QED
    BY <1>1, <1>2, <1>6, <1>7, <1>14, <1>15 DEF Charted

Moment(s, h, i) == IF Raw(s) THEN Received(s, h, i, Times(h, i)) ELSE Folded(s, h, i, Path(s, h, i), Times(h, i))

Listed(f, n) == f = [l \in 1 .. n |-> f[l]]

(* An iteration that was skipped, or gave parameter i no gradient, changes *)
(* neither what it should be nor its moment.                               *)
LEMMA Unmoved ==
  ASSUME NEW s, NEW h \in Seq(Entry), NEW e \in Entry, NEW i \in Param, Charted(s, h, i), ~Hit(e, i)
  PROVE  Defined(s, Append(h, e), i) = Defined(s, h, i) /\ Moment(s, Append(h, e), i) = Moment(s, h, i)
  <1>1. PICK k : k = Append(h, e)
    OBVIOUS
  <1>2. k \in Seq(Entry)
    BY <1>1
  <1>3. PICK N : N = Times(h, i)
    OBVIOUS
  <1>4. N \in Nat
    BY <1>3, TimesAre
  <1>5. Times(k, i) = N /\ Agree(h, k, i, N)
    BY <1>1, <1>3, ReachedGrows DEF Charted
  <1>6. \A j \in 0 .. N : Path(s, k, i)[j] = Path(s, h, i)[j]
    BY <1>1, <1>3, PathGrows
  <1>7. Same(Path(s, k, i), Path(s, h, i), N) /\ N \in 0 .. N
    BY <1>4, <1>6 DEF Same
  <1>8. Defined(s, k, i) = Defined(s, h, i)
    BY <1>3, <1>5, <1>6, <1>7, DefinedEndsPath
  <1>9. /\ Received(s, k, i, N) = Received(s, h, i, N)
        /\ Folded(s, k, i, Path(s, k, i), N) = Folded(s, h, i, Path(s, h, i), N)
    BY <1>2, <1>4, <1>5, <1>7, FoldsAgree
  <1> QED
    BY <1>1, <1>3, <1>5, <1>8, <1>9 DEF Moment

Learns(s, h, e, i, p, g, F) ==
  \E plain, all :
    /\ Moment(s, Append(h, e), i) = IF Raw(s) THEN plain ELSE all
    /\ Raw(s) => plain = Append(F, <<g>>) /\ Front(plain) = F
    /\ ~Raw(s) => all = Append(F, Effect(s, g, p))
    /\ Defined(s, Append(h, e), i) =
         Append(p, Formula(s, i, Cardinality(Clean(h)) + 1, p, g, plain, Effect(s, g, p), all))

(* One that was not skipped appends the formula's update to its value and  *)
(* its gradient to its moment.                                             *)
LEMMA Moved ==
  ASSUME NEW s, NEW h \in Seq(Entry), NEW e \in Entry, NEW i \in Param, Charted(s, h, i), Hit(e, i),
         NEW g, g = Clipped(s, e.grads, i), NEW p, p = Defined(s, h, i), NEW F, F = Moment(s, h, i)
  PROVE  Learns(s, h, e, i, p, g, F)
  <1>1. PICK k : k = Append(h, e)
    OBVIOUS
  <1>2. k \in Seq(Entry)
    BY <1>1
  <1>3. PICK N : N = Times(h, i)
    OBVIOUS
  <1>4. N \in Nat
    BY <1>3, TimesAre
  <1>5. PICK n \in Nat : n = N + 1
    BY <1>4
  <1>6. /\ Times(k, i) = n /\ Agree(h, k, i, N)
        /\ k[Reached(k, i)[n]] = e /\ Occasion(k, Reached(k, i)[n]) = Cardinality(Clean(h)) + 1
    BY <1>1, <1>3, <1>5, ReachedGrows DEF Charted
  <1>7. PICK x : x = Path(s, k, i)
    OBVIOUS
  <1>8. PICK y : y = Path(s, h, i)
    OBVIOUS
  <1>9. IsPath(x, s, k, i) /\ \A j \in 0 .. N : x[j] = y[j]
    BY <1>1, <1>3, <1>7, <1>8, PathGrows DEF Charted
  <1>10. y[N] = p /\ x[N] = p /\ Same(x, y, N)
    BY <1>3, <1>4, <1>8, <1>9, DefinedEndsPath DEF Same
  <1>11. Defined(s, k, i) = Append(p, Update(s, k, i, x, n))
    <2>1. n \in 1 .. Times(k, i) /\ n - 1 = N
      BY <1>4, <1>5, <1>6
    <2>2. x[n] = Append(x[n - 1], Update(s, k, i, x, n))
      BY <1>2, <1>9, <2>1, PathSteps
    <2> QED
      BY <1>6, <1>7, <1>10, <2>1, <2>2, DefinedEndsPath
  <1>12. PICK a : a = Received(s, h, i, N)
    OBVIOUS
  <1>13. PICK b : b = Received(s, k, i, n)
    OBVIOUS
  <1>14. PICK c : c = Folded(s, h, i, y, N)
    OBVIOUS
  <1>15. PICK d : d = Folded(s, k, i, x, n)
    OBVIOUS
  <1>16. \A l \in 1 .. N : l \in 1 .. n /\ k[Reached(k, i)[l]] = h[Reached(h, i)[l]] /\ x[l - 1] = y[l - 1]
    BY <1>4, <1>5, <1>6, <1>10 DEF Agree, Same
  <1>17. n \in 1 .. n /\ n - 1 = N
    BY <1>4, <1>5
  <1>18. /\ Listed(a, N) /\ Listed(b, n)
         /\ \A l \in 1 .. N : a[l] = b[l]
         /\ b[n] = <<g>>
    <2>1. Listed(a, N) /\ Listed(b, n)
      BY <1>12, <1>13 DEF Received, Listed
    <2>2. \A l \in 1 .. N : a[l] = <<Clipped(s, h[Reached(h, i)[l]].grads, i)>>
      BY <1>12 DEF Received
    <2>3. \A l \in 1 .. n : b[l] = <<Clipped(s, k[Reached(k, i)[l]].grads, i)>>
      BY <1>13 DEF Received
    <2> QED
      BY <1>6, <1>16, <1>17, <2>1, <2>2, <2>3
  <1>19. /\ Listed(c, N) /\ Listed(d, n)
         /\ \A l \in 1 .. N : c[l] = d[l]
         /\ d[n] = Effect(s, g, p)
    <2> DEFINE decayed == s.decay /\ s.rule \notin {"adamw", "lion"}
    <2>1. Listed(c, N) /\ Listed(d, n)
      BY <1>14, <1>15 DEF Folded, Listed
    <2>2. \A l \in 1 .. N : c[l] = IF decayed THEN Append(a[l], y[l - 1]) ELSE a[l]
      BY <1>12, <1>14 DEF Folded
    <2>3. \A l \in 1 .. n : d[l] = IF decayed THEN Append(b[l], x[l - 1]) ELSE b[l]
      BY <1>13, <1>15 DEF Folded
    <2>4. \A l \in 1 .. N : c[l] = d[l]
      BY <1>16, <1>18, <2>2, <2>3
    <2>5. d[n] = IF decayed THEN Append(<<g>>, p) ELSE <<g>>
      BY <1>10, <1>17, <1>18, <2>3
    <2>6. Append(<<g>>, p) = <<g, p>>
      BY Pair
    <2> QED
      BY <2>1, <2>4, <2>5, <2>6 DEF Effect
  <1>20. b = Append(a, <<g>>) /\ Front(b) = a
    <2>1. PICK S : S = {b[l] : l \in 1 .. n}
      OBVIOUS
    <2>2. a \in [1 .. N -> S] /\ b \in [1 .. n -> S]
      BY <1>16, <1>18, <2>1 DEF Listed
    <2>3. \A l \in 1 .. N : a[l] = b[l]
      BY <1>18
    <2>4. Lengthened(a, b, n)
      BY <1>4, <1>5, <2>2, <2>3, AppendTo
    <2> QED
      BY <1>18, <2>4 DEF Lengthened
  <1>21. d = Append(c, Effect(s, g, p))
    <2>1. PICK S : S = {d[l] : l \in 1 .. n}
      OBVIOUS
    <2>2. c \in [1 .. N -> S] /\ d \in [1 .. n -> S]
      BY <1>16, <1>19, <2>1 DEF Listed
    <2> QED
      <3>1. Lengthened(c, d, n)
        BY <1>4, <1>5, <1>19, <2>2, AppendTo
      <3> QED
        BY <1>19, <3>1 DEF Lengthened
  <1>22. Update(s, k, i, x, n) = Formula(s, i, Cardinality(Clean(h)) + 1, p, g, b, Effect(s, g, p), d)
    <2>1. x[n - 1] = p /\ b[n][1] = g /\ d[n] = Effect(s, g, p)
      BY <1>10, <1>17, <1>18, <1>19
    <2> QED
      BY <1>6, <1>13, <1>15, <2>1 DEF Update
  <1>23. Moment(s, k, i) = IF Raw(s) THEN b ELSE d
    BY <1>6, <1>7, <1>13, <1>15 DEF Moment
  <1>24. F = IF Raw(s) THEN a ELSE c
    BY <1>3, <1>8, <1>12, <1>14 DEF Moment
  <1> QED
    BY <1>1, <1>11, <1>20, <1>21, <1>22, <1>23, <1>24 DEF Learns

(* Min of two integers.                                                    *)
LEMMA MinOfTwo ==
  ASSUME NEW a \in Int, NEW b \in Int
  PROVE  Min({a, b}) = IF a <= b THEN a ELSE b
  BY DEF Min

(* Max of two integers is one.                                             *)
LEMMA MaxOfInts ==
  ASSUME NEW a \in Int, NEW b \in Int
  PROVE  Max({a, b}) \in Int
  <1>1. \E x \in {a, b} : \A y \in {a, b} : x >= y
    OBVIOUS
  <1> QED
    BY <1>1 DEF Max

(* A quotient and a remainder are unique.                                  *)
LEMMA Quotient ==
  ASSUME NEW n \in Nat, NEW a \in Nat \ {0}, NEW q \in Nat, NEW r \in 0 .. a - 1, n = a * q + r
  PROVE  n \div a = q /\ n % a = r
  <1>1. PICK p \in Nat : p = n \div a
    OBVIOUS
  <1>2. PICK s \in 0 .. a - 1 : s = n % a
    OBVIOUS
  <1>3. n = a * p + s
    BY <1>1, <1>2
  <1>4. ~(p < q)
    <2>1. SUFFICES ASSUME p < q PROVE FALSE
      OBVIOUS
    <2>2. PICK d \in Nat : q = p + 1 + d
      <3>1. q - p - 1 \in Nat /\ q = p + 1 + (q - p - 1)
        BY <2>1
      <3> QED
        BY <3>1
    <2>3. a * q = a * p + a + a * d /\ a * d >= 0 /\ a * p \in Int /\ a * d \in Int
      BY <2>2
    <2> QED
      BY <1>3, <2>3
  <1>5. ~(q < p)
    <2>1. SUFFICES ASSUME q < p PROVE FALSE
      OBVIOUS
    <2>2. PICK d \in Nat : p = q + 1 + d
      <3>1. p - q - 1 \in Nat /\ p = q + 1 + (p - q - 1)
        BY <2>1
      <3> QED
        BY <3>1
    <2>3. a * p = a * q + a + a * d /\ a * d >= 0 /\ a * q \in Int /\ a * d \in Int
      BY <2>2
    <2> QED
      BY <1>3, <2>3
  <1>6. p = q
    BY <1>4, <1>5
  <1> QED
    BY <1>1, <1>2, <1>3, <1>6

(* The quotient grows by one at the multiples.                             *)
LEMMA QuotientGrows ==
  ASSUME NEW n \in Nat, NEW a \in Nat \ {0}
  PROVE  (n + 1) \div a = (n \div a) + (IF (n + 1) % a = 0 THEN 1 ELSE 0)
  <1>1. PICK q \in Nat : q = n \div a
    OBVIOUS
  <1>2. PICK r \in 0 .. a - 1 : r = n % a
    OBVIOUS
  <1>3. n = a * q + r /\ n + 1 \in Nat
    BY <1>1, <1>2
  <1>4. CASE r < a - 1
    <2>1. r + 1 \in 0 .. a - 1 /\ n + 1 = a * q + (r + 1) /\ r + 1 # 0
      BY <1>3, <1>4
    <2>2. (n + 1) \div a = q /\ (n + 1) % a = r + 1
      BY <1>3, <2>1, Quotient
    <2> QED
      BY <1>1, <2>1, <2>2
  <1>5. CASE r = a - 1
    <2>1. 0 \in 0 .. a - 1 /\ q + 1 \in Nat /\ a * (q + 1) = a * q + a
      OBVIOUS
    <2>2. n + 1 = a * (q + 1) + 0
      BY <1>3, <1>5, <2>1
    <2>3. (n + 1) \div a = q + 1 /\ (n + 1) % a = 0
      BY <1>3, <2>1, <2>2, Quotient
    <2> QED
      BY <1>1, <2>3
  <1> QED
    BY <1>4, <1>5

(* StepLR's quotient counts the multiples of step_size that were passed.   *)
LEMMA DropsAre ==
  ASSUME NEW n \in Nat
  PROVE  Drops(n + 1) = n \div StepSize
  <1> DEFINE D(t) == {k \in 1 .. t : k % StepSize = 0}
             T == {t \in Nat : Cardinality(D(t)) # t \div StepSize}
  <1>1. StepSize \in Nat \ {0}
    BY TrainAssumption DEF TrainAssumption
  <1>2. ASSUME T # {} PROVE FALSE
    <2>1. T \in SUBSET Nat
      OBVIOUS
    <2>2. PICK t \in T : \A u \in T : t <= u
      <3> HIDE DEF T
      <3> QED
        BY <1>2, <2>1, Least
    <2>3. CASE t = 0
      <3>1. D(0) = {}
        OBVIOUS
      <3>2. Cardinality(D(0)) = 0
        BY <3>1, FS_EmptySet
      <3>3. 0 \div StepSize = 0
        BY <1>1
      <3> QED
        BY <2>2, <2>3, <3>2, <3>3
    <2>4. CASE t # 0
      <3>1. PICK u \in Nat : t = u + 1 /\ u < t
        <4>1. t - 1 \in Nat /\ t = (t - 1) + 1 /\ t - 1 < t
          BY <2>2, <2>4
        <4> QED
          BY <4>1
      <3>2. u \notin T
        BY <2>2, <3>1
      <3>3. Cardinality(D(u)) = u \div StepSize
        BY <3>2
      <3>4. IsFiniteSet(D(u)) /\ t \notin D(u)
        <4>1. IsFiniteSet(1 .. u) /\ D(u) \in SUBSET (1 .. u) /\ t \notin 1 .. u
          BY <3>1, FS_Interval
        <4> QED
          BY <4>1, FS_Subset
      <3>5. t \div StepSize = (u \div StepSize) + (IF t % StepSize = 0 THEN 1 ELSE 0)
        BY <1>1, <3>1, QuotientGrows
      <3>6. CASE t % StepSize = 0
        <4>1. D(t) = D(u) \cup {t}
          BY <3>1, <3>6
        <4>2. Cardinality(D(t)) = Cardinality(D(u)) + 1
          BY <3>4, <4>1, FS_AddElement
        <4> QED
          BY <2>2, <3>3, <3>5, <3>6, <4>2
      <3>7. CASE t % StepSize # 0
        <4>1. D(t) = D(u)
          BY <3>1, <3>7
        <4>2. u \div StepSize \in Int
          BY <1>1
        <4> QED
          BY <2>2, <3>3, <3>5, <3>7, <4>1, <4>2
      <3> QED
        BY <3>6, <3>7
    <2> QED
      BY <2>3, <2>4
  <1>3. Cardinality(D(n)) = n \div StepSize
    BY <1>2
  <1>4. n + 1 - 1 = n
    OBVIOUS
  <1> QED
    BY <1>3, <1>4 DEF Drops

(* get_lr of each scheduler, after n calls, is the rate of the             *)
(* definition's next step.                                                 *)
LEMMA RatesAgree ==
  ASSUME setup \in Setups, setup.schedule # "none", NEW n \in Nat \ {0}
  PROVE  get_lr(n) = Rate(setup, n + 1)
  <1>1. setup.schedule \in {"StepLR", "ExponentialLR", "CosineAnnealingLR", "LinearWarmup"} /\ StepSize \in Nat \ {0}
    BY TrainAssumption DEF TrainAssumption
  <1>2. PICK t : t = n + 1
    OBVIOUS
  <1>3. t > 1 /\ t # 1 /\ t - 1 = n /\ t \in Int
    BY <1>2
  <1>4. CASE setup.schedule = "StepLR"
    <2>1. get_lr(n) = <<"gamma", n \div StepSize>>
      BY <1>4 DEF get_lr, StepLR
    <2>2. Rate(setup, t) = <<"gamma", Drops(t)>>
      BY <1>3, <1>4 DEF Rate
    <2> QED
      BY <1>2, <2>1, <2>2, DropsAre
  <1>5. CASE setup.schedule = "ExponentialLR"
    <2>1. get_lr(n) = <<"gamma", n>>
      BY <1>5 DEF get_lr, ExponentialLR
    <2>2. Rate(setup, t) = <<"gamma", t - 1>>
      BY <1>3, <1>5 DEF Rate
    <2> QED
      BY <1>2, <1>3, <2>1, <2>2
  <1>6. CASE setup.schedule = "CosineAnnealingLR"
    <2>1. get_lr(n) = <<"cos", Min({n, StepSize})>>
      BY <1>6 DEF get_lr, CosineAnnealingLR
    <2>2. Rate(setup, t) = <<"cos", IF t > StepSize THEN StepSize ELSE t - 1>>
      BY <1>3, <1>6 DEF Rate
    <2>3. Min({n, StepSize}) = IF n <= StepSize THEN n ELSE StepSize
      BY <1>1, MinOfTwo
    <2>4. Min({n, StepSize}) = IF t > StepSize THEN StepSize ELSE t - 1
      BY <1>1, <1>2, <1>3, <2>3
    <2> QED
      BY <1>2, <2>1, <2>2, <2>4
  <1>7. CASE setup.schedule = "LinearWarmup"
    <2>1. get_lr(n) = IF n >= StepSize THEN <<"base", 0>> ELSE <<"ramp", n>>
      BY <1>7 DEF get_lr, LinearWarmup
    <2>2. Rate(setup, t) = IF t > StepSize THEN <<"base", 0>> ELSE <<"ramp", t - 1>>
      BY <1>3, <1>7 DEF Rate
    <2>3. t > StepSize <=> n >= StepSize
      BY <1>1, <1>2
    <2> QED
      BY <1>2, <1>3, <2>1, <2>2, <2>3
  <1> QED
    BY <1>1, <1>4, <1>5, <1>6, <1>7

-----------------------------------------------------------------------------
(* The invariant.  A resumed schedule is excepted once and for all.        *)
Newest == history[Len(history)]
Steps(h) == Cardinality(Clean(h))

(* Between backward and the step, the slots hold the newest gradients.     *)
SlotsHold(e, scale, clipped) ==
  \A i \in Param :
    IF e.grads[i] = 0 THEN slot[i] = EmptySlot
    ELSE slot[i] = [present |-> TRUE, g |-> e.grads[i], finite |-> slot[i].finite, scale |-> scale,
                    clip |-> IF clipped THEN Clipped(setup, e.grads, i)[3] ELSE 0]

SlotsInv ==
  /\ trainAt = "unscale" => /\ SlotsHold(Newest, scaler.scale, FALSE)
                            /\ Newest.ok <=> \A i \in Param : Newest.grads[i] # 0 => slot[i].finite
  /\ trainAt = "clip" => SlotsHold(Newest, 0, FALSE) /\ Newest.ok
  /\ trainAt = "step" => SlotsHold(Newest, 0, TRUE) /\ Newest.ok

(* The counters count the steps that were not skipped.                     *)
ClockInv ==
  /\ opt.step_t = IF setup.rule \in Counting THEN Steps(Completed) ELSE 0
  /\ count = IF setup.schedule = "none" THEN 0
             ELSE IF trainAt = "schedule" THEN Steps(Completed) - 1 ELSE Steps(Completed)
  /\ trainAt = "schedule" => Steps(Completed) >= 1
  /\ opt.lr = Rate(setup, count + 1)

(* The moments and the value of a parameter follow the definition; the     *)
(* moments are on the host or on the device, the other side is untouched.  *)
Follows(h, i, v, bufs) == v = Defined(setup, h, i) /\ Holds(bufs, Names(setup, i), Moment(setup, h, i))
OneSided(h, i) ==
  \/ opt.bufs[i] = NoBuffers /\ Follows(h, i, value[i], opt.devs[i])
  \/ opt.devs[i] = NoBuffers /\ Follows(h, i, value[i], opt.bufs[i])
MomentsInv ==
  /\ opt = [lr |-> opt.lr, step_t |-> opt.step_t, bufs |-> opt.bufs, devs |-> opt.devs]
  /\ setup.rule # "adamw" => torn = {} /\ \A i \in Param : opt.devs[i] = NoBuffers
  /\ \A i \in Param : Charted(setup, Completed, i)
  /\ \A i \in Param \ torn : OneSided(Completed, i)

(* What a checkpoint keeps is what its history defines.                    *)
Kept(i) == [b \in {n \in Names(setup, i) : <<n, i>> \in DOMAIN disk.sd} |-> disk.sd[<<b, i>>]]
DiskInv ==
  disk = NoCheckpoint \/
    /\ setup.schedule = "none" /\ setup.rule \in Resumable
    /\ disk.history \in Seq(Entry)
    /\ disk.meta.lr = <<"base", 0>>
    /\ Adaptive => disk.meta.step_t = Steps(disk.history)
    /\ \A i \in Param : Charted(setup, disk.history, i) /\ Follows(disk.history, i, disk.value[i], Kept(i))

TypesInv ==
  /\ setup \in Setups
  /\ trainAt \in {"backward", "unscale", "clip", "step", "schedule", "zero"}
  /\ history \in Seq(Entry)
  /\ trainAt \in {"unscale", "clip", "step"} => history # <<>>
  /\ scaler.scale \in Int

Good == TypesInv /\ SlotsInv /\ ClockInv /\ MomentsInv /\ DiskInv
TrainInv == Restarted \/ Good

(* Without its newest iteration a history is what it was.                  *)
LEMMA FrontOfAppend ==
  ASSUME NEW h \in Seq(Entry), NEW e \in Entry
  PROVE  Front(Append(h, e)) = h
  <1>1. PICK k : k = Append(h, e)
    OBVIOUS
  <1>2. k \in Seq(Entry) /\ Len(k) = Len(h) + 1 /\ \A j \in 1 .. Len(h) : k[j] = h[j]
    BY <1>1, AppendProperties
  <1>3. PICK n \in Nat : n = Len(h)
    OBVIOUS
  <1>4. PICK m \in Nat : m = n + 1
    OBVIOUS
  <1>5. h \in [1 .. n -> Entry] /\ k \in [1 .. m -> Entry] /\ \A l \in 1 .. n : h[l] = k[l]
    BY <1>2, <1>3, <1>4, LenProperties
  <1>6. Lengthened(h, k, m)
    BY <1>4, <1>5, AppendTo
  <1> QED
    BY <1>1, <1>6 DEF Lengthened

(* And it is its front and its newest iteration.                           *)
LEMMA FrontAndNewest ==
  ASSUME history \in Seq(Entry), history # <<>>
  PROVE  /\ Front(history) \in Seq(Entry) /\ Newest \in Entry
         /\ history = Append(Front(history), Newest)
  <1>1. PICK m \in Nat : m = Len(history)
    OBVIOUS
  <1>2. m # 0 /\ history \in [1 .. m -> Entry]
    BY <1>1, EmptySeq, LenProperties
  <1>3. PICK n \in Nat : m = n + 1
    <2>1. m - 1 \in Nat /\ m = (m - 1) + 1
      BY <1>2
    <2> QED
      BY <2>1
  <1>4. PICK f : f = SubSeq(history, 1, n)
    OBVIOUS
  <1>5. f \in Seq(Entry) /\ Len(f) = n /\ \A i \in 1 .. n : f[i] = history[i]
    <2>1. \A i \in 1 .. n : history[i] \in Entry
      BY <1>2, <1>3
    <2>2. /\ f \in Seq(Entry)
          /\ Len(f) = IF 1 <= n THEN n - 1 + 1 ELSE 0
          /\ \A i \in 1 .. n - 1 + 1 : f[i] = history[1 + i - 1]
      BY <1>4, <2>1, SubSeqProperties
    <2> QED
      BY <2>2
  <1>6. f = Front(history)
    BY <1>1, <1>3, <1>4 DEF Front
  <1>7. f \in [1 .. n -> Entry]
    BY <1>5, LenProperties
  <1>8. Lengthened(f, history, m)
    BY <1>2, <1>3, <1>5, <1>7, AppendTo
  <1>9. Newest = history[m] /\ m \in 1 .. m
    BY <1>1, <1>3 DEF Newest
  <1> QED
    BY <1>2, <1>5, <1>6, <1>8, <1>9 DEF Lengthened

(* Appending a skipped iteration, or one without gradient, changes nothing.*)
LEMMA StepsGrow ==
  ASSUME NEW h \in Seq(Entry), NEW e \in Entry
  PROVE  Steps(h) \in Nat /\ Steps(Append(h, e)) = IF e.ok THEN Steps(h) + 1 ELSE Steps(h)
  <1>1. PICK n \in Nat : n = Len(h)
    OBVIOUS
  <1>2. PICK m \in Nat : m = n + 1
    OBVIOUS
  <1>3. PICK k : k = Append(h, e)
    OBVIOUS
  <1>4. Len(k) = m /\ (\A j \in 1 .. n : k[j] = h[j]) /\ k[m] = e
    BY <1>1, <1>2, <1>3, AppendProperties
  <1>5. Clean(h) \in SUBSET (1 .. n) /\ Clean(k) = Clean(h) \cup (IF e.ok THEN {m} ELSE {})
    <2>1. \A j : j \in Clean(k) <=> j \in Clean(h) \/ (e.ok /\ j = m)
      BY <1>1, <1>2, <1>4 DEF Clean
    <2> QED
      BY <1>1, <2>1 DEF Clean
  <1>6. IsFiniteSet(Clean(h)) /\ m \notin Clean(h)
    <2>1. IsFiniteSet(1 .. n) /\ m \notin 1 .. n
      BY <1>2, FS_Interval
    <2> QED
      BY <1>5, <2>1, FS_Subset
  <1>7. Steps(h) \in Nat
    BY <1>6, FS_CardinalityType DEF Steps
  <1>8. CASE e.ok
    <2>1. Clean(k) = Clean(h) \cup {m}
      BY <1>5, <1>8
    <2> QED
      BY <1>3, <1>6, <1>7, <1>8, <2>1, FS_AddElement DEF Steps
  <1>9. CASE ~e.ok
    BY <1>3, <1>5, <1>7, <1>9 DEF Steps
  <1> QED
    BY <1>8, <1>9

(* No iteration, no step.                                                  *)
LEMMA EmptySteps == Steps(<<>>) = 0
  <1>1. PICK h : h = <<>>
    OBVIOUS
  <1>2. Clean(h) = {}
    BY <1>1 DEF Clean
  <1> QED
    BY <1>1, <1>2, FS_EmptySet DEF Steps

(* A parameter starts at its initial value with zero moments.              *)
LEMMA StartsCharted ==
  ASSUME NEW s, NEW i \in Param
  PROVE  /\ Charted(s, <<>>, i) /\ Defined(s, <<>>, i) = <<>>
         /\ Holds(NoBuffers, Names(s, i), Moment(s, <<>>, i))
  <1>1. PICK h : h = <<>>
    OBVIOUS
  <1>2. h \in Seq(Entry) /\ Len(h) = 0
    BY <1>1
  <1>3. Clean(h) = {}
    BY <1>2 DEF Clean
  <1>4. Hits(h, i) = {}
    BY <1>3 DEF Hits
  <1>5. Times(h, i) = 0
    BY <1>2, <1>4, TimesAre, FS_EmptySet
  <1>6. Found(h, i)
    BY <1>5 DEF Found
  <1>7. PICK x : x = [j \in 0 .. 0 |-> <<>>]
    OBVIOUS
  <1>8. \A y : x = [j \in 0 .. 0 |-> IF j = 0 THEN <<>> ELSE Append(y[j - 1], Update(s, h, i, y, j))]
    BY <1>7
  <1>9. IsPath(x, s, h, i)
    BY <1>5, <1>8 DEF IsPath, Times
  <1>10. IsPath(Path(s, h, i), s, h, i)
    BY <1>9 DEF Path
  <1>11. Defined(s, h, i) = <<>>
    BY <1>2, <1>5, <1>10, PathSteps, DefinedEndsPath
  <1>12. Moment(s, h, i) = <<>>
    <2>1. PICK a : a = Received(s, h, i, 0)
      OBVIOUS
    <2>2. PICK b : b = Folded(s, h, i, Path(s, h, i), 0)
      OBVIOUS
    <2>3. 1 .. 0 = {}
      OBVIOUS
    <2>4. a \in [1 .. 0 -> {}]
      BY <2>1, <2>3 DEF Received
    <2>5. b \in [1 .. 0 -> {}]
      BY <2>2, <2>3 DEF Folded
    <2>6. a \in Seq({}) /\ b \in Seq({})
      BY <2>4, <2>5, SeqDef
    <2>7. Len(a) = 0 /\ Len(b) = 0
      BY <2>4, <2>5, <2>6, LenProperties
    <2>8. a = <<>> /\ b = <<>>
      BY <2>6, <2>7, EmptySeq
    <2> QED
      BY <1>5, <2>1, <2>2, <2>8 DEF Moment
  <1>13. Holds(NoBuffers, Names(s, i), <<>>)
    BY DEF Holds, Held, NoBuffers
  <1> QED
    BY <1>1, <1>4, <1>6, <1>10, <1>11, <1>12, <1>13 DEF Charted

(* What new() builds satisfies the invariant.                              *)
LEMMA TrainingStarts ==
  ASSUME TrainInit PROVE Good
  <1>1. setup \in Setups /\ trainAt = "backward" /\ history = <<>> /\ Completed = <<>>
    BY DEF TrainInit, Completed
  <1>2. TypesInv
    <2>1. setup.scale \in Int
      BY <1>1, TrainAssumption DEF TrainAssumption
    <2>2. scaler.scale \in Int
      BY <2>1 DEF TrainInit, FreshScaler
    <2> QED
      BY <1>1, <2>2 DEF TypesInv
  <1>3. SlotsInv
    BY <1>1 DEF SlotsInv
  <1>4. /\ opt.lr = <<"base", 0>> /\ opt.step_t = 0 /\ count = 0
        /\ opt = [lr |-> opt.lr, step_t |-> opt.step_t, bufs |-> opt.bufs, devs |-> opt.devs]
        /\ \A i \in Param : opt.bufs[i] = NoBuffers /\ opt.devs[i] = NoBuffers /\ value[i] = <<>>
        /\ torn = {}
    BY DEF TrainInit, Fresh, Untrained
  <1>5. Steps(<<>>) = 0
    BY EmptySteps
  <1>6. ClockInv
    <2>1. Rate(setup, count + 1) = <<"base", 0>>
      BY <1>4 DEF Rate
    <2> QED
      BY <1>1, <1>4, <1>5, <2>1 DEF ClockInv
  <1>7. MomentsInv
    <2>1. ASSUME NEW i \in Param PROVE Charted(setup, Completed, i) /\ OneSided(Completed, i)
      BY <1>1, <1>4, StartsCharted DEF OneSided, Follows
    <2> QED
      BY <1>4, <2>1 DEF MomentsInv
  <1>8. DiskInv
    BY DEF TrainInit, DiskInv
  <1> QED
    BY <1>2, <1>3, <1>6, <1>7, <1>8 DEF Good

(* A checkpoint that was saved has a rate, which the absent one has not.   *)
LEMMA SaveMakesCheckpoint ==
  ASSUME Save PROVE disk' # NoCheckpoint
  <1>1. disk'.meta = IF Adaptive THEN AdamMeta ELSE SgdMeta
    BY DEF Save
  <1>2. "lr" \in DOMAIN disk'.meta
    BY <1>1 DEF AdamMeta, SgdMeta
  <1>3. NoCheckpoint.meta = <<>>
    BY DEF NoCheckpoint
  <1>4. "lr" \notin DOMAIN <<>>
    OBVIOUS
  <1> QED
    BY <1>2, <1>3, <1>4

(* state_dict and meta keep the moments, the rate and the step count.      *)
LEMMA SaveKeepsGood ==
  ASSUME Good, ~Restarted', Save PROVE Good'
  <1>1. setup' = setup /\ trainAt' = trainAt /\ value' = value /\ slot' = slot /\ opt' = opt /\ count' = count
        /\ scaler' = scaler /\ history' = history /\ torn' = torn /\ trainAt = "backward" /\ setup.rule \in Resumable
    BY DEF Save
  <1>2. Completed = history /\ Completed' = Completed
    BY <1>1 DEF Completed
  <1>3. TypesInv' /\ SlotsInv'
    BY <1>1 DEF Good, TypesInv, SlotsInv, SlotsHold, Newest
  <1>4. ClockInv'
    BY <1>1, <1>2 DEF Good, ClockInv
  <1>5. MomentsInv'
    BY <1>1, <1>2 DEF Good, MomentsInv, OneSided, Follows
  <1>6. setup.schedule = "none"
    <2>1. disk' # NoCheckpoint
      BY SaveMakesCheckpoint
    <2> QED
      BY <1>1, <2>1 DEF Restarted
  <1>7. setup.rule # "adamw"
    BY <1>1 DEF Resumable
  <1>8. ASSUME NEW i \in Param PROVE Follows(history, i, value[i], opt.bufs[i])
    <2>1. OneSided(history, i) /\ opt.devs[i] = NoBuffers
      BY <1>2, <1>7 DEF Good, MomentsInv
    <2> QED
      BY <2>1 DEF OneSided
  <1>9. /\ disk'.history = history /\ disk'.value = value
        /\ disk'.sd = flatten_buffers(IF Adaptive THEN {"m", "v"} ELSE {"velocity"})
        /\ disk'.meta.lr = opt.lr
        /\ Adaptive => disk'.meta.step_t = opt.step_t
    BY DEF Save, AdamState, SgdState, AdamMeta, SgdMeta
  <1>10. opt.lr = <<"base", 0>> /\ (Adaptive => opt.step_t = Steps(history))
    <2>1. opt.lr = Rate(setup, count + 1) /\ Rate(setup, count + 1) = <<"base", 0>>
      BY <1>6 DEF Good, ClockInv, Rate
    <2> QED
      BY <1>2, <2>1 DEF Good, ClockInv, Adaptive, Counting
  <1>11. ASSUME NEW i \in Param PROVE Follows(history, i, value[i], Kept(i)')
    <2>1. Names(setup, i) \subseteq IF Adaptive THEN {"m", "v"} ELSE {"velocity"}
      BY <1>1 DEF Resumable, Adaptive, Names
    <2>2. ASSUME NEW b \in Names(setup, i) PROVE Held(Kept(i)', b) = Held(opt.bufs[i], b)
      <3> DEFINE P == IF Adaptive THEN {"m", "v"} ELSE {"velocity"}
                 sd == flatten_buffers(P)
      <3>1. <<b, i>> \in P \X Param /\ <<b, i>>[1] = b /\ <<b, i>>[2] = i
        BY <2>1
      <3>2. <<b, i>> \in DOMAIN sd <=> b \in DOMAIN opt.bufs[i]
        BY <3>1 DEF flatten_buffers
      <3>3. b \in DOMAIN opt.bufs[i] => sd[<<b, i>>] = opt.bufs[i][b]
        BY <3>1 DEF flatten_buffers
      <3>4. Kept(i)' = [c \in {n \in Names(setup, i) : <<n, i>> \in DOMAIN sd} |-> sd[<<c, i>>]]
        BY <1>1, <1>9 DEF Kept
      <3> HIDE DEF sd, P
      <3>5. b \in DOMAIN Kept(i)' <=> <<b, i>> \in DOMAIN sd
        BY <3>4
      <3>6. b \in DOMAIN Kept(i)' => Kept(i)'[b] = sd[<<b, i>>]
        BY <3>4
      <3> QED
        BY <3>2, <3>3, <3>5, <3>6 DEF Held
    <2> QED
      BY <1>8, <2>2 DEF Follows, Holds
  <1>12. \A i \in Param : Charted(setup, history, i)
    BY <1>2 DEF Good, MomentsInv
  <1>13. history \in Seq(Entry)
    BY DEF Good, TypesInv
  <1>14. DiskInv'
    BY <1>1, <1>6, <1>9, <1>10, <1>11, <1>12, <1>13 DEF DiskInv, Follows, Adaptive
  <1> QED
    BY <1>3, <1>4, <1>5, <1>14 DEF Good

(* What is loaded is what the checkpoint's history defines; without a      *)
(* checkpoint it is what new() builds.                                     *)
LEMMA CrashKeepsGood ==
  ASSUME Good, ~Restarted', Crash PROVE Good'
  <1>1. setup' = setup /\ disk' = disk /\ trainAt' = "backward" /\ value' = disk.value /\ history' = disk.history
        /\ count' = 0 /\ scaler' = FreshScaler(setup) /\ torn' = {}
    BY DEF Crash
  <1>2. Completed' = disk.history
    BY <1>1 DEF Completed
  <1>3. setup \in Setups
    BY DEF Good, TypesInv
  <1>4. disk = NoCheckpoint => disk.history = <<>> /\ disk.value = Untrained
    BY DEF NoCheckpoint
  <1>5. disk.history \in Seq(Entry)
    <2>1. CASE disk = NoCheckpoint
      BY <1>4, <2>1, EmptySeq
    <2>2. CASE disk # NoCheckpoint
      BY <2>2 DEF Good, DiskInv
    <2> QED
      BY <2>1, <2>2
  <1>6. TypesInv'
    <2>1. setup.scale \in Int
      BY <1>3, TrainAssumption DEF TrainAssumption
    <2>2. scaler'.scale \in Int
      BY <1>1, <2>1 DEF FreshScaler
    <2> QED
      BY <1>1, <1>3, <1>5, <2>2 DEF TypesInv
  <1>7. SlotsInv'
    BY <1>1 DEF SlotsInv
  <1>8. DiskInv'
    <2>1. \A i : Kept(i)' = Kept(i)
      BY <1>1 DEF Kept
    <2> QED
      BY <1>1, <2>1 DEF Good, DiskInv, Follows, Adaptive
  <1>9. CASE disk = NoCheckpoint
    <2>1. opt' = Fresh
      BY <1>9 DEF Crash
    <2>2. /\ opt'.lr = <<"base", 0>> /\ opt'.step_t = 0
          /\ opt' = [lr |-> opt'.lr, step_t |-> opt'.step_t, bufs |-> opt'.bufs, devs |-> opt'.devs]
          /\ \A i \in Param : opt'.bufs[i] = NoBuffers /\ opt'.devs[i] = NoBuffers /\ value'[i] = <<>>
      BY <1>1, <1>4, <1>9, <2>1 DEF Fresh, Untrained
    <2>3. ClockInv'
      <3>1. Rate(setup, count' + 1) = <<"base", 0>>
        BY <1>1 DEF Rate
      <3> QED
        BY <1>1, <1>2, <1>4, <1>9, <2>2, <3>1, EmptySteps DEF ClockInv
    <2>4. MomentsInv'
      <3>1. ASSUME NEW i \in Param
            PROVE  /\ Charted(setup, <<>>, i) /\ value'[i] = Defined(setup, <<>>, i)
                   /\ Holds(opt'.bufs[i], Names(setup, i), Moment(setup, <<>>, i))
        BY <2>2, StartsCharted
      <3> QED
        BY <1>1, <1>2, <1>4, <1>9, <2>2, <3>1 DEF MomentsInv, OneSided, Follows
    <2> QED
      BY <1>6, <1>7, <1>8, <2>3, <2>4 DEF Good
  <1>10. CASE disk # NoCheckpoint
    <2>1. /\ setup.schedule = "none" /\ setup.rule \in Resumable
          /\ disk.meta.lr = <<"base", 0>>
          /\ Adaptive => disk.meta.step_t = Steps(disk.history)
          /\ \A i \in Param : Charted(setup, disk.history, i) /\ Follows(disk.history, i, disk.value[i], Kept(i))
      BY <1>10 DEF Good, DiskInv
    <2> DEFINE P == IF Adaptive THEN {"m", "v"} ELSE {"velocity"}
    <2>2. /\ opt' = [lr |-> opt'.lr, step_t |-> opt'.step_t, bufs |-> opt'.bufs, devs |-> opt'.devs]
          /\ opt'.lr = disk.meta.lr
          /\ opt'.step_t = IF Adaptive THEN disk.meta.step_t ELSE 0
          /\ opt'.bufs = unflatten_buffers(disk.sd, P)
          /\ \A i \in Param : opt'.devs[i] = NoBuffers
      <3>1. CASE Adaptive
        BY <1>10, <3>1 DEF Crash, AdamMetaLoaded, AdamLoaded, Fresh
      <3>2. CASE ~Adaptive
        BY <1>10, <3>2 DEF Crash, SgdMetaLoaded, SgdLoaded, Fresh
      <3> QED
        BY <3>1, <3>2
    <2>3. setup.rule \in Counting <=> Adaptive
      BY <2>1 DEF Counting, Adaptive, Resumable
    <2>4. ClockInv'
      <3>1. Rate(setup, count' + 1) = <<"base", 0>>
        BY <1>1 DEF Rate
      <3> QED
        BY <1>1, <1>2, <2>1, <2>2, <2>3, <3>1 DEF ClockInv
    <2>5. ASSUME NEW i \in Param
          PROVE  Holds(opt'.bufs[i], Names(setup, i), Moment(setup, disk.history, i))
      <3> SUFFICES ASSUME NEW b \in Names(setup, i)
                   PROVE  Held(opt'.bufs[i], b) = Moment(setup, disk.history, i)
        BY DEF Holds
      <3>1. b \in P
        BY <2>1 DEF Resumable, Adaptive, Names
      <3>2. opt'.bufs[i] = [p \in {c \in P : <<c, i>> \in DOMAIN disk.sd} |-> disk.sd[<<p, i>>]]
        BY <2>2 DEF unflatten_buffers
      <3>3. Held(opt'.bufs[i], b) = IF <<b, i>> \in DOMAIN disk.sd THEN disk.sd[<<b, i>>] ELSE <<>>
        BY <3>1, <3>2 DEF Held
      <3>4. Held(Kept(i), b) = IF <<b, i>> \in DOMAIN disk.sd THEN disk.sd[<<b, i>>] ELSE <<>>
        BY DEF Held, Kept
      <3>5. Held(Kept(i), b) = Moment(setup, disk.history, i)
        BY <2>1 DEF Follows, Holds
      <3> QED
        BY <3>3, <3>4, <3>5
    <2>6. MomentsInv'
      BY <1>1, <1>2, <2>1, <2>2, <2>5 DEF MomentsInv, OneSided, Follows
    <2> QED
      BY <1>6, <1>7, <1>8, <2>4, <2>6 DEF Good
  <1> QED
    BY <1>9, <1>10

(* Only Save writes the checkpoint.                                        *)
LEMMA DiskStays ==
  ASSUME Good, setup' = setup, disk' = disk
  PROVE  DiskInv'
  <1>1. \A i : Kept(i)' = Kept(i)
    BY DEF Kept
  <1> QED
    BY <1>1 DEF Good, DiskInv, Follows, Adaptive

(* A slot is filled where the newest gradient is not missing.              *)
LEMMA SlotsPresent ==
  ASSUME NEW e, NEW x, NEW c, SlotsHold(e, x, c)
  PROVE  \A i \in Param : slot[i].present <=> e.grads[i] # 0
  <1> SUFFICES ASSUME NEW i \in Param PROVE slot[i].present <=> e.grads[i] # 0
    OBVIOUS
  <1>1. CASE e.grads[i] = 0
    <2>1. slot[i] = EmptySlot
      BY <1>1 DEF SlotsHold
    <2>2. slot[i].present = FALSE
      BY <2>1 DEF EmptySlot
    <2> QED
      BY <1>1, <2>2
  <1>2. CASE e.grads[i] # 0
    <2>1. PICK f, k : slot[i] = [present |-> TRUE, g |-> e.grads[i], finite |-> f, scale |-> x, clip |-> k]
      BY <1>2 DEF SlotsHold
    <2>2. slot[i].present = TRUE
      BY <2>1
    <2> QED
      BY <1>2, <2>2
  <1> QED
    BY <1>1, <1>2

(* backward fills the slots, at the loss scale, and completes nothing.     *)
LEMMA BackwardKeepsGood ==
  ASSUME Good, Backward PROVE Good'
  <1>1. PICK reached \in SUBSET Param, bad \in SUBSET Param :
          bad \subseteq reached /\ LET g(i) == ((Len(history) + i) % 3) + 1
          IN  /\ slot' = [i \in Param |-> IF i \in reached THEN Gradient(g(i), i \notin bad, scaler.scale) ELSE EmptySlot]
              /\ history' = Append(history, [grads |-> [i \in Param |-> IF i \in reached THEN g(i) ELSE 0], ok |-> bad = {}])
    BY DEF Backward
  <1> DEFINE g(i) == ((Len(history) + i) % 3) + 1
  <1>2. PICK e : e = [grads |-> [i \in Param |-> IF i \in reached THEN g(i) ELSE 0], ok |-> bad = {}]
    OBVIOUS
  <1>3. setup' = setup /\ trainAt = "backward" /\ trainAt' = "unscale" /\ value' = value /\ opt' = opt /\ count' = count
        /\ scaler' = scaler /\ disk' = disk /\ torn' = torn
    BY DEF Backward
  <1>4. history \in Seq(Entry)
    BY DEF Good, TypesInv
  <1>5. ASSUME NEW i \in Param PROVE g(i) \in Int /\ g(i) # 0
    <2>1. Len(history) \in Nat /\ i \in Int
      BY <1>4, LenProperties, TrainAssumption DEF TrainAssumption
    <2>2. PICK x \in Int : x = Len(history) + i
      BY <2>1
    <2>3. x % 3 \in 0 .. 2
      OBVIOUS
    <2> QED
      BY <2>2, <2>3
  <1> HIDE DEF g
  <1>6. e \in Entry
    BY <1>2, <1>5 DEF Entry
  <1>7. history' = Append(history, e)
    BY <1>1, <1>2 DEF g
  <1>8. history' \in Seq(Entry) /\ history' # <<>> /\ Newest' = e /\ Completed' = history /\ Completed = history
    <2>1. /\ history' \in Seq(Entry) /\ Len(history') = Len(history) + 1
          /\ history'[Len(history) + 1] = e
      BY <1>4, <1>6, <1>7, AppendProperties
    <2>2. Len(history') # 0
      BY <1>4, <2>1, LenProperties
    <2>3. Front(history') = history
      BY <1>4, <1>6, <1>7, FrontOfAppend
    <2> QED
      BY <1>3, <2>1, <2>2, <2>3, EmptySeq DEF Newest, Completed
  <1>9. \A i \in Param : slot'[i] = IF i \in reached THEN Gradient(g(i), i \notin bad, scaler.scale) ELSE EmptySlot
    BY <1>1 DEF g
  <1>10. \A i \in Param : (e.grads[i] = 0 <=> i \notin reached) /\ (i \in reached => e.grads[i] = g(i))
    BY <1>2, <1>5
  <1>11. ASSUME NEW i \in reached
         PROVE  /\ slot'[i] = [present |-> TRUE, g |-> e.grads[i], finite |-> slot'[i].finite,
                               scale |-> scaler'.scale, clip |-> 0]
                /\ slot'[i].finite = (i \notin bad)
    <2>1. PICK b : b = (i \notin bad)
      OBVIOUS
    <2>2. slot'[i] = [present |-> TRUE, g |-> g(i), finite |-> b, scale |-> scaler'.scale, clip |-> 0]
      BY <1>3, <1>9, <2>1 DEF Gradient
    <2>3. slot'[i].finite = b
      BY <2>2
    <2> QED
      BY <1>10, <2>1, <2>2, <2>3
  <1>12. e.ok <=> \A i \in Param : e.grads[i] # 0 => slot'[i].finite
    <2>1. e.ok <=> bad = {}
      BY <1>2
    <2> QED
      BY <1>1, <1>10, <1>11, <2>1
  <1>13. SlotsInv'
    <2>1. SlotsHold(Newest, scaler.scale, FALSE)'
      <3> SUFFICES ASSUME NEW i \in Param
                   PROVE  IF e.grads[i] = 0 THEN slot'[i] = EmptySlot
                          ELSE slot'[i] = [present |-> TRUE, g |-> e.grads[i], finite |-> slot'[i].finite,
                                           scale |-> scaler'.scale, clip |-> 0]
        BY <1>8 DEF SlotsHold
      <3> QED
        BY <1>9, <1>10, <1>11
    <2> QED
      BY <1>3, <1>8, <1>12, <2>1 DEF SlotsInv
  <1>14. TypesInv'
    BY <1>3, <1>8 DEF Good, TypesInv
  <1>15. ClockInv'
    BY <1>3, <1>8 DEF Good, ClockInv
  <1>16. MomentsInv'
    BY <1>3, <1>8 DEF Good, MomentsInv, OneSided, Follows
  <1>17. DiskInv'
    BY <1>3, DiskStays
  <1> QED
    BY <1>13, <1>14, <1>15, <1>16, <1>17 DEF Good

(* A skipped iteration leaves the parameters and the counters where they   *)
(* are.                                                                    *)
LEMMA SkipKeepsMoments ==
  ASSUME Good, trainAt = "unscale", ~Newest.ok, Completed' = history,
         setup' = setup, value' = value, opt' = opt, torn' = torn
  PROVE  MomentsInv' /\ Steps(history) = Steps(Completed)
  <1>1. history \in Seq(Entry) /\ history # <<>>
    BY DEF Good, TypesInv
  <1>2. PICK h, e : h = Front(history) /\ e = Newest
    OBVIOUS
  <1>3. h \in Seq(Entry) /\ e \in Entry /\ history = Append(h, e) /\ Completed = h
    BY <1>1, <1>2, FrontAndNewest DEF Completed
  <1>4. ASSUME NEW i \in Param PROVE ~Hit(e, i)
    BY <1>2 DEF Hit
  <1>5. ASSUME NEW i \in Param PROVE Charted(setup, history, i)
    BY <1>3, PathGrows DEF Good, MomentsInv
  <1>6. ASSUME NEW i \in Param \ torn PROVE OneSided(Completed, i)'
    <2>1. OneSided(h, i) /\ Charted(setup, h, i)
      BY <1>3 DEF Good, MomentsInv
    <2>2. Defined(setup, history, i) = Defined(setup, h, i) /\ Moment(setup, history, i) = Moment(setup, h, i)
      BY <1>3, <1>4, <2>1, Unmoved
    <2> QED
      BY <2>1, <2>2 DEF OneSided, Follows
  <1>7. MomentsInv'
    BY <1>5, <1>6 DEF Good, MomentsInv
  <1> QED
    BY <1>2, <1>3, <1>7, StepsGrow

(* GradScaler::step takes the scale away again, or skips the iteration.    *)
LEMMA ScalerStepKeepsGood ==
  ASSUME Good, ScalerStep PROVE Good'
  <1>1. setup' = setup /\ trainAt = "unscale" /\ value' = value /\ opt' = opt /\ count' = count
        /\ disk' = disk /\ torn' = torn /\ history' = history
    BY DEF ScalerStep
  <1>2. DiskInv'
    BY <1>1, DiskStays
  <1>3. SlotsHold(Newest, scaler.scale, FALSE) /\ (Newest.ok <=> \A i \in Param : Newest.grads[i] # 0 => slot[i].finite)
    BY <1>1 DEF Good, SlotsInv
  <1>4. \A i \in Param : slot[i].present <=> Newest.grads[i] # 0
    BY <1>3, SlotsPresent
  <1>5. (\E i \in Param : slot[i].present /\ ~slot[i].finite) <=> ~Newest.ok
    BY <1>3, <1>4
  <1>6. scaler.scale \in Int /\ history \in Seq(Entry) /\ history # <<>>
    BY <1>1 DEF Good, TypesInv
  <1>7. CASE ~Newest.ok
    <2>1. scaler' = [scale |-> Max({scaler.scale - 1, 0}), growth_tracker |-> 0] /\ trainAt' = "zero" /\ slot' = slot
      BY <1>5, <1>7 DEF ScalerStep
    <2>2. scaler'.scale \in Int
      BY <1>6, <2>1, MaxOfInts
    <2>3. Completed' = history
      BY <1>1, <2>1 DEF Completed
    <2>4. MomentsInv' /\ Steps(history) = Steps(Completed)
      BY <1>1, <1>7, <2>3, SkipKeepsMoments
    <2>5. ClockInv'
      BY <1>1, <2>1, <2>3, <2>4 DEF Good, ClockInv
    <2>6. TypesInv' /\ SlotsInv'
      BY <1>1, <2>1, <2>2 DEF Good, TypesInv, SlotsInv
    <2> QED
      BY <1>2, <2>4, <2>5, <2>6 DEF Good
  <1>8. CASE Newest.ok
    <2>1. /\ slot' = [i \in Param |-> IF slot[i].present THEN [slot[i] EXCEPT !.scale = @ - scaler.scale] ELSE EmptySlot]
          /\ scaler' = [scaler EXCEPT !.growth_tracker = @ + 1]
          /\ trainAt' = "clip"
      BY <1>5, <1>8 DEF ScalerStep
    <2>2. scaler'.scale = scaler.scale
      BY <2>1
    <2>3. Completed' = Completed /\ Newest' = Newest
      BY <1>1, <2>1 DEF Completed, Newest
    <2>4. SlotsHold(Newest, 0, FALSE)'
      <3> SUFFICES ASSUME NEW i \in Param
                   PROVE  IF Newest.grads[i] = 0 THEN slot'[i] = EmptySlot
                          ELSE slot'[i] = [present |-> TRUE, g |-> Newest.grads[i], finite |-> slot'[i].finite,
                                           scale |-> 0, clip |-> 0]
        BY <2>3 DEF SlotsHold
      <3>1. slot'[i] = IF slot[i].present THEN [slot[i] EXCEPT !.scale = @ - scaler.scale] ELSE EmptySlot
        BY <2>1
      <3>2. CASE Newest.grads[i] = 0
        BY <1>4, <3>1, <3>2
      <3>3. CASE Newest.grads[i] # 0
        <4>1. slot[i] = [present |-> TRUE, g |-> Newest.grads[i], finite |-> slot[i].finite,
                         scale |-> scaler.scale, clip |-> 0]
          BY <1>3, <3>3 DEF SlotsHold
        <4>2. scaler.scale - scaler.scale = 0
          BY <1>6
        <4>3. slot[i].present
          BY <1>4, <3>3
        <4>4. PICK b, x, g : b = slot[i].finite /\ x = scaler.scale /\ g = Newest.grads[i]
          OBVIOUS
        <4>5. slot'[i] = [present |-> TRUE, g |-> Newest.grads[i], finite |-> b, scale |-> 0, clip |-> 0]
          <5>1. slot[i] = [present |-> TRUE, g |-> g, finite |-> b, scale |-> x, clip |-> 0]
            BY <4>1, <4>4
          <5>2. slot'[i] = [slot[i] EXCEPT !.scale = @ - x]
            BY <3>1, <4>3, <4>4
          <5>3. slot'[i] = [[present |-> TRUE, g |-> g, finite |-> b, scale |-> x, clip |-> 0] EXCEPT !.scale = @ - x]
            BY <5>1, <5>2
          <5>4. slot'[i] = [present |-> TRUE, g |-> g, finite |-> b, scale |-> x - x, clip |-> 0]
            BY <5>3
          <5> QED
            BY <4>2, <4>4, <5>4
        <4>6. slot'[i].finite = b
          BY <4>5
        <4> QED
          BY <3>3, <4>5, <4>6
      <3> QED
        BY <3>2, <3>3
    <2>5. SlotsInv'
      BY <1>8, <2>1, <2>3, <2>4 DEF SlotsInv
    <2>6. TypesInv'
      BY <1>1, <2>1, <2>2 DEF Good, TypesInv
    <2>7. ClockInv'
      BY <1>1, <2>1, <2>3 DEF Good, ClockInv
    <2>8. MomentsInv'
      BY <1>1, <2>3 DEF Good, MomentsInv, OneSided, Follows
    <2> QED
      BY <1>2, <2>5, <2>6, <2>7, <2>8 DEF Good
  <1> QED
    BY <1>7, <1>8

(* zero_grad and update touch no parameter.                                *)
LEMMA ZeroAndUpdateKeepsGood ==
  ASSUME Good, ZeroAndUpdate PROVE Good'
  <1>1. setup' = setup /\ trainAt = "zero" /\ trainAt' = "backward" /\ value' = value /\ opt' = opt /\ count' = count
        /\ disk' = disk /\ torn' = torn /\ history' = history
    BY DEF ZeroAndUpdate
  <1>2. scaler'.scale \in Int
    <2>1. scaler.scale \in Int /\ MaxScale \in Int
      BY TrainAssumption DEF Good, TypesInv, TrainAssumption
    <2>2. Min({scaler.scale + 1, MaxScale}) \in Int
      BY <2>1, MinOfTwo
    <2> QED
      BY <2>1, <2>2 DEF ZeroAndUpdate
  <1>3. Completed' = Completed
    BY <1>1 DEF Completed
  <1>4. TypesInv' /\ SlotsInv' /\ ClockInv'
    BY <1>1, <1>2, <1>3 DEF Good, TypesInv, SlotsInv, ClockInv
  <1>5. MomentsInv'
    BY <1>1, <1>3 DEF Good, MomentsInv, OneSided, Follows
  <1>6. DiskInv'
    BY <1>1, DiskStays
  <1> QED
    BY <1>4, <1>5, <1>6 DEF Good

(* The scheduler counts the steps that were not skipped.                   *)
LEMMA SchedulerStepKeepsGood ==
  ASSUME Good, SchedulerStep PROVE Good'
  <1>1. setup' = setup /\ trainAt = "schedule" /\ trainAt' = "zero" /\ value' = value /\ slot' = slot
        /\ scaler' = scaler /\ disk' = disk /\ torn' = torn /\ history' = history
    BY DEF SchedulerStep
  <1>2. Completed' = Completed /\ Completed = history
    BY <1>1 DEF Completed
  <1>3. /\ history \in Seq(Entry) /\ setup \in Setups
        /\ opt = [lr |-> opt.lr, step_t |-> opt.step_t, bufs |-> opt.bufs, devs |-> opt.devs]
    BY DEF Good, TypesInv, MomentsInv
  <1>4. /\ opt'.step_t = opt.step_t /\ opt'.bufs = opt.bufs /\ opt'.devs = opt.devs
        /\ opt' = [lr |-> opt'.lr, step_t |-> opt'.step_t, bufs |-> opt'.bufs, devs |-> opt'.devs]
    BY <1>3 DEF SchedulerStep
  <1>5. ClockInv'
    <2>1. CASE setup.schedule = "none"
      BY <1>1, <1>2, <2>1 DEF Good, ClockInv, SchedulerStep
    <2>2. CASE setup.schedule # "none"
      <3>1. count' = count + 1 /\ opt'.lr = get_lr(count + 1)
        BY <1>3, <2>2 DEF SchedulerStep
      <3>2. Steps(Completed) \in Nat /\ count = Steps(Completed) - 1 /\ Steps(Completed) >= 1
        <4>1. Steps(Completed) \in Nat
          <5>1. IsFiniteSet(1 .. Len(history))
            BY <1>3, FS_Interval
          <5>2. IsFiniteSet(Clean(history))
            BY <5>1, FS_Subset DEF Clean
          <5> QED
            BY <1>2, <5>2, FS_CardinalityType DEF Steps
        <4> QED
          BY <1>1, <2>2, <4>1 DEF Good, ClockInv
      <3>3. count' = Steps(Completed) /\ count + 1 \in Nat \ {0}
        BY <3>1, <3>2
      <3>4. opt'.lr = Rate(setup, count' + 1)
        BY <1>3, <2>2, <3>1, <3>3, RatesAgree
      <3> QED
        BY <1>1, <1>2, <1>4, <2>2, <3>3, <3>4 DEF Good, ClockInv
    <2> QED
      BY <2>1, <2>2
  <1>6. TypesInv' /\ SlotsInv'
    BY <1>1 DEF Good, TypesInv, SlotsInv
  <1>7. MomentsInv'
    BY <1>1, <1>2, <1>4 DEF Good, MomentsInv, OneSided, Follows
  <1>8. DiskInv'
    BY <1>1, DiskStays
  <1> QED
    BY <1>5, <1>6, <1>7, <1>8 DEF Good

(* Missing gradients are zeros to the norm.                                *)
LEMMA NormsAgree ==
  ASSUME NEW e \in Entry, NEW x, NEW c, SlotsHold(e, x, c)
  PROVE  /\ SquaredNorm(Present) = SumOfSquares(e.grads, Param)
         /\ \A i \in Present : SquaredNorm({i}) = SumOfSquares(e.grads, {i})
         /\ \A i \in Param : i \in Present <=> e.grads[i] # 0
  <1>1. \A i \in Param : slot[i].present <=> e.grads[i] # 0
    BY SlotsPresent
  <1>2. \A i \in Param : i \in Present <=> e.grads[i] # 0
    BY <1>1 DEF Present
  <1>3. IsFiniteSet(Param) /\ Present \subseteq Param
    BY TrainAssumption DEF TrainAssumption, Present
  <1>4. IsFiniteSet(Present)
    BY <1>3, FS_Subset
  <1>5. \A i \in Present : slot[i].g = e.grads[i]
    <2> SUFFICES ASSUME NEW i \in Present PROVE slot[i].g = e.grads[i]
      OBVIOUS
    <2>1. PICK f, k : slot[i] = [present |-> TRUE, g |-> e.grads[i], finite |-> f, scale |-> x, clip |-> k]
      BY <1>2, <1>3 DEF SlotsHold
    <2> QED
      BY <2>1
  <1>6. PICK f : f = [i \in Param |-> e.grads[i] * e.grads[i]]
    OBVIOUS
  <1>7. \A i \in Param : f[i] \in Int /\ (e.grads[i] = 0 => f[i] = 0)
    <2> SUFFICES ASSUME NEW i \in Param PROVE f[i] \in Int /\ (e.grads[i] = 0 => f[i] = 0)
      OBVIOUS
    <2>1. PICK n \in Int : n = e.grads[i]
      BY DEF Entry
    <2>2. f[i] = n * n
      BY <1>6, <2>1
    <2>3. n * n \in Int
      BY <2>1
    <2>4. n = 0 => n * n = 0
      OBVIOUS
    <2> QED
      BY <2>1, <2>2, <2>3, <2>4
  <1>8. ASSUME NEW S \in SUBSET Present, IsFiniteSet(S)
        PROVE  SquaredNorm(S) = SumFunctionOnSet(f, S)
    <2>1. PICK d : d = [i \in S |-> slot[i].g * slot[i].g]
      OBVIOUS
    <2>2. \A i \in S : d[i] = f[i]
      BY <1>3, <1>5, <1>6, <2>1
    <2>3. SumFunctionOnSet(d, S) = SumFunctionOnSet(f, S)
      BY <1>8, <2>2, SumAgrees
    <2> QED
      BY <2>1, <2>3 DEF SquaredNorm
  <1>9. SumFunctionOnSet(f, Param) = SumFunctionOnSet(f, Present)
    <2>1. SumFunctionOnSet(f, Param \ Present) = SumFunctionOnSet(f, Param) - SumFunctionOnSet(f, Present)
      BY <1>3, <1>7, SumSplit
    <2>2. \A i \in Param \ Present : f[i] \in 0 .. 0
      BY <1>2, <1>7
    <2>3. IsFiniteSet(Param \ Present)
      BY <1>3, FS_Difference
    <2>4. PICK m \in Nat : m = 0
      OBVIOUS
    <2>5. \A i \in Param \ Present : f[i] \in 0 .. m
      BY <2>2, <2>4
    <2>6. /\ SumFunctionOnSet(f, Param \ Present) \in Nat
          /\ SumFunctionOnSet(f, Param \ Present) <= Cardinality(Param \ Present) * m
      BY <2>3, <2>5, SumBounded
    <2>7. SumFunctionOnSet(f, Param \ Present) = 0
      <3>1. Cardinality(Param \ Present) \in Nat
        BY <2>3, FS_CardinalityType
      <3>2. Cardinality(Param \ Present) * m = 0
        BY <2>4, <3>1
      <3> QED
        BY <2>6, <3>2
    <2>8. SumFunctionOnSet(f, Param) \in Int
      BY <1>3, <1>7, SumRemove
    <2>9. SumFunctionOnSet(f, Present) \in Int
      <3>1. \A i \in Present : f[i] \in Int
        BY <1>3, <1>7
      <3> QED
        BY <1>4, <3>1, SumRemove
    <2> QED
      BY <2>1, <2>7, <2>8, <2>9
  <1>10. SquaredNorm(Present) = SumOfSquares(e.grads, Param)
    <2>1. SquaredNorm(Present) = SumFunctionOnSet(f, Present)
      BY <1>4, <1>8
    <2> QED
      BY <1>6, <1>9, <2>1 DEF SumOfSquares
  <1>11. ASSUME NEW i \in Present PROVE SquaredNorm({i}) = SumOfSquares(e.grads, {i})
    <2>1. IsFiniteSet({i})
      BY FS_Singleton
    <2>2. SquaredNorm({i}) = SumFunctionOnSet(f, {i})
      BY <1>8, <2>1
    <2>3. PICK d : d = [j \in {i} |-> e.grads[j] * e.grads[j]]
      OBVIOUS
    <2>4. \A j \in {i} : d[j] = f[j]
      BY <1>3, <1>6, <2>3
    <2>5. SumFunctionOnSet(d, {i}) = SumFunctionOnSet(f, {i})
      BY <2>1, <2>4, SumAgrees
    <2> QED
      BY <2>2, <2>3, <2>5 DEF SumOfSquares
  <1> QED
    BY <1>2, <1>10, <1>11

(* The clipping is by the norm of the gradients that the slots hold.       *)
LEMMA ClipKeepsGood ==
  ASSUME Good, Clip PROVE Good'
  <1>1. setup' = setup /\ trainAt = "clip" /\ trainAt' = "step" /\ value' = value /\ opt' = opt /\ count' = count
        /\ scaler' = scaler /\ disk' = disk /\ torn' = torn /\ history' = history
    BY DEF Clip
  <1>2. Completed' = Completed /\ Newest' = Newest
    BY <1>1 DEF Completed, Newest
  <1>3. SlotsHold(Newest, 0, FALSE) /\ Newest.ok
    BY <1>1 DEF Good, SlotsInv
  <1>4. PICK e \in Entry : e = Newest
    <2>1. history \in Seq(Entry) /\ history # <<>>
      BY <1>1 DEF Good, TypesInv
    <2> QED
      BY <2>1, FrontAndNewest
  <1>5. setup.clip \in {"no", "global", "each"}
    BY TrainAssumption DEF Good, TypesInv, TrainAssumption
  <1>6. /\ SquaredNorm(Present) = SumOfSquares(e.grads, Param)
        /\ \A i \in Present : SquaredNorm({i}) = SumOfSquares(e.grads, {i})
        /\ \A i \in Param : i \in Present <=> e.grads[i] # 0
    BY <1>3, <1>4, NormsAgree
  <1>7. ASSUME NEW i \in Param
        PROVE  IF e.grads[i] = 0 THEN slot'[i] = EmptySlot
               ELSE slot'[i] = [present |-> TRUE, g |-> e.grads[i], finite |-> slot'[i].finite, scale |-> 0,
                                clip |-> Clipped(setup, e.grads, i)[3]]
    <2> DEFINE norm == Norm(setup, e.grads, i)
               clip == IF setup.clip # "no" /\ norm > MaxNormSquared THEN norm ELSE 0
    <2>1. Clipped(setup, e.grads, i)[3] = clip
      BY DEF Clipped
    <2>2. CASE e.grads[i] = 0
      <3>1. slot[i] = EmptySlot
        BY <1>3, <1>4, <2>2 DEF SlotsHold
      <3>2. i \notin Present
        BY <1>6, <2>2
      <3>3. slot'[i] = slot[i]
        <4>1. CASE setup.clip = "no"
          BY <4>1 DEF Clip
        <4>2. CASE setup.clip = "global"
          <5>1. slot' = clip_grad_norm_
            BY <4>2 DEF Clip
          <5> QED
            BY <3>2, <5>1 DEF clip_grad_norm_
        <4>3. CASE setup.clip = "each"
          <5>1. slot' = clip_grad_norm_per_param_
            BY <4>3 DEF Clip
          <5> QED
            BY <3>2, <5>1 DEF clip_grad_norm_per_param_
        <4> QED
          BY <1>5, <4>1, <4>2, <4>3
      <3> QED
        BY <2>2, <3>1, <3>3
    <2>3. CASE e.grads[i] # 0
      <3>1. PICK f : slot[i] = [present |-> TRUE, g |-> e.grads[i], finite |-> f, scale |-> 0, clip |-> 0]
        BY <1>3, <1>4, <2>3 DEF SlotsHold
      <3>2. i \in Present
        BY <1>6, <2>3
      <3>3. slot'[i] = IF setup.clip # "no" /\ norm > MaxNormSquared THEN [slot[i] EXCEPT !.clip = norm] ELSE slot[i]
        <4>1. CASE setup.clip = "no"
          BY <4>1 DEF Clip
        <4>2. CASE setup.clip = "global"
          <5>1. slot' = clip_grad_norm_ /\ norm = SquaredNorm(Present)
            BY <1>6, <4>2 DEF Clip, Norm
          <5> QED
            BY <3>2, <4>2, <5>1 DEF clip_grad_norm_
        <4>3. CASE setup.clip = "each"
          <5>1. slot' = clip_grad_norm_per_param_ /\ norm = SquaredNorm({i})
            BY <1>6, <3>2, <4>3 DEF Clip, Norm
          <5> QED
            BY <3>2, <4>3, <5>1 DEF clip_grad_norm_per_param_
        <4> QED
          BY <1>5, <4>1, <4>2, <4>3
      <3>4. PICK g, n, k : g = e.grads[i] /\ n = norm /\ k = clip
        OBVIOUS
      <3>5. slot[i] = [present |-> TRUE, g |-> g, finite |-> f, scale |-> 0, clip |-> 0]
        BY <3>1, <3>4
      <3>6. k = IF setup.clip # "no" /\ norm > MaxNormSquared THEN n ELSE 0
        BY <3>4
      <3> HIDE DEF clip, norm
      <3>7. slot'[i] = [present |-> TRUE, g |-> g, finite |-> f, scale |-> 0, clip |-> k]
        <4>1. CASE setup.clip # "no" /\ norm > MaxNormSquared
          <5>1. slot'[i] = [slot[i] EXCEPT !.clip = k]
            BY <3>3, <3>4, <3>6, <4>1
          <5>2. slot'[i] = [[present |-> TRUE, g |-> g, finite |-> f, scale |-> 0, clip |-> 0] EXCEPT !.clip = k]
            BY <3>5, <5>1
          <5> QED
            BY <5>2
        <4>2. CASE ~(setup.clip # "no" /\ norm > MaxNormSquared)
          BY <3>3, <3>5, <3>6, <4>2
        <4> QED
          BY <4>1, <4>2
      <3>8. slot'[i].finite = f
        BY <3>7
      <3> QED
        BY <2>1, <2>3, <3>4, <3>7, <3>8
    <2> QED
      BY <2>2, <2>3
  <1>8. SlotsHold(Newest, 0, TRUE)'
    BY <1>1, <1>2, <1>4, <1>7 DEF SlotsHold
  <1>9. SlotsInv'
    BY <1>1, <1>2, <1>3, <1>8 DEF SlotsInv
  <1>10. TypesInv' /\ ClockInv'
    BY <1>1, <1>2 DEF Good, TypesInv, ClockInv
  <1>11. MomentsInv'
    BY <1>1, <1>2 DEF Good, MomentsInv, OneSided, Follows
  <1>12. DiskInv'
    BY <1>1, DiskStays
  <1> QED
    BY <1>9, <1>10, <1>11, <1>12 DEF Good

(* One step of the optimizer on the buffers that hold the moments.         *)
LEMMA StepFollows ==
  ASSUME setup \in Setups, NEW h \in Seq(Entry), NEW e \in Entry, NEW i \in Param, Charted(setup, h, i), Hit(e, i),
         NEW t, opt.lr = Rate(setup, Steps(h) + 1), setup.rule \in Counting => t = Steps(h) + 1,
         NEW v, NEW bufs, Follows(h, i, v, bufs), NEW r, r = Rule(i, v, Clipped(setup, e.grads, i), bufs, t)
  PROVE  Follows(Append(h, e), i, r.value, r.bufs)
  <1>1. PICK p, g, F, u : /\ p = Defined(setup, h, i) /\ g = Clipped(setup, e.grads, i)
                          /\ F = Moment(setup, h, i) /\ u = Cardinality(Clean(h)) + 1
    OBVIOUS
  <1>2. v = p /\ Holds(bufs, Names(setup, i), F) /\ u = Steps(h) + 1
    BY <1>1 DEF Follows, Steps
  <1>3. Learns(setup, h, e, i, p, g, F)
    BY <1>1, Moved
  <1>4. PICK plain, all :
           /\ Moment(setup, Append(h, e), i) = IF Raw(setup) THEN plain ELSE all
           /\ Raw(setup) => plain = Append(F, <<g>>) /\ Front(plain) = F
           /\ ~Raw(setup) => all = Append(F, Effect(setup, g, p))
           /\ Defined(setup, Append(h, e), i) = Append(p, Formula(setup, i, u, p, g, plain, Effect(setup, g, p), all))
    BY <1>1, <1>3 DEF Learns
  <1>5. /\ Rule(i, p, g, bufs, t).value = Append(p, Formula(setup, i, u, p, g, plain, Effect(setup, g, p), all))
        /\ Holds(Rule(i, p, g, bufs, t).bufs, Names(setup, i), IF Raw(setup) THEN plain ELSE all)
    BY <1>2, <1>4, RuleFollows
  <1>6. r = Rule(i, p, g, bufs, t)
    BY <1>1, <1>2
  <1> QED
    BY <1>4, <1>5, <1>6 DEF Follows

(* Optimizer::step, on the host or the device: a parameter with a gradient *)
(* takes the formula's step, the others stay, and the moments that are     *)
(* split are in torn.                                                      *)
LEMMA OptimizerStepKeepsGood ==
  ASSUME Good, OptimizerStep PROVE Good'
  <1> DEFINE t == IF setup.rule \in Counting THEN opt.step_t + 1 ELSE opt.step_t
             from(i, failing) == IF OnDevice(i, failing) THEN opt.devs[i] ELSE opt.bufs[i]
             next(i, failing) == Rule(i, value[i], Read(slot[i]), from(i, failing), t)
             device(i, failing) == i \in Present /\ OnDevice(i, failing)
             host(i, failing) == i \in Present /\ ~OnDevice(i, failing)
  <1>1. setup' = setup /\ trainAt = "step" /\ trainAt' = "schedule" /\ slot' = slot /\ count' = count
        /\ scaler' = scaler /\ disk' = disk /\ history' = history
    BY DEF OptimizerStep
  <1>2. PICK failing :
          /\ value' = [i \in Param |-> IF i \in Present THEN next(i, failing).value ELSE value[i]]
          /\ opt' = [opt EXCEPT !.step_t = t,
                       !.bufs = [i \in Param |-> IF host(i, failing) THEN next(i, failing).bufs ELSE @[i]],
                       !.devs = [i \in Param |-> IF device(i, failing) THEN next(i, failing).bufs ELSE @[i]]]
          /\ torn' = torn \cup {i \in Param : (device(i, failing) /\ opt.bufs[i] # NoBuffers)
                                              \/ (host(i, failing) /\ opt.devs[i] # NoBuffers)}
    BY DEF OptimizerStep
  <1>3. PICK h, e : h = Front(history) /\ e = Newest
    OBVIOUS
  <1>4. h \in Seq(Entry) /\ e \in Entry /\ history = Append(h, e) /\ Completed = h /\ Completed' = history
    <2>1. history \in Seq(Entry) /\ history # <<>>
      BY <1>1 DEF Good, TypesInv
    <2> QED
      BY <1>1, <1>3, <2>1, FrontAndNewest DEF Completed
  <1>5. SlotsHold(e, 0, TRUE) /\ e.ok
    BY <1>1, <1>3 DEF Good, SlotsInv
  <1>6. \A i \in Param : (i \in Present <=> e.grads[i] # 0) /\ (Hit(e, i) <=> i \in Present)
    BY <1>4, <1>5, NormsAgree DEF Hit
  <1>7. Steps(h) \in Nat /\ Steps(history) = Steps(h) + 1
    BY <1>4, <1>5, StepsGrow
  <1>8. setup \in Setups
    BY DEF Good, TypesInv
  <1>9. /\ opt = [lr |-> opt.lr, step_t |-> opt.step_t, bufs |-> opt.bufs, devs |-> opt.devs]
        /\ setup.rule # "adamw" => torn = {} /\ \A i \in Param : opt.devs[i] = NoBuffers
        /\ \A i \in Param : Charted(setup, h, i)
        /\ \A i \in Param \ torn : OneSided(h, i)
    BY <1>4 DEF Good, MomentsInv
  <1>10. /\ opt.step_t = IF setup.rule \in Counting THEN Steps(h) ELSE 0
         /\ count = IF setup.schedule = "none" THEN 0 ELSE Steps(h)
         /\ opt.lr = Rate(setup, count + 1)
    BY <1>1, <1>4 DEF Good, ClockInv
  <1>11. opt.lr = Rate(setup, Steps(h) + 1)
    <2>1. CASE setup.schedule = "none"
      BY <1>10, <2>1 DEF Rate
    <2>2. CASE setup.schedule # "none"
      BY <1>10, <2>2
    <2> QED
      BY <2>1, <2>2
  <1>12. t = IF setup.rule \in Counting THEN Steps(h) + 1 ELSE 0
    BY <1>10
  <1> HIDE DEF t, from, next
  <1>13. /\ opt'.lr = opt.lr /\ opt'.step_t = t
         /\ opt'.bufs = [i \in Param |-> IF host(i, failing) THEN next(i, failing).bufs ELSE opt.bufs[i]]
         /\ opt'.devs = [i \in Param |-> IF device(i, failing) THEN next(i, failing).bufs ELSE opt.devs[i]]
         /\ opt' = [lr |-> opt'.lr, step_t |-> opt'.step_t, bufs |-> opt'.bufs, devs |-> opt'.devs]
    <2>1. PICK B, D : /\ B = [i \in Param |-> IF host(i, failing) THEN next(i, failing).bufs ELSE opt.bufs[i]]
                      /\ D = [i \in Param |-> IF device(i, failing) THEN next(i, failing).bufs ELSE opt.devs[i]]
      OBVIOUS
    <2>2. opt' = [opt EXCEPT !.step_t = t, !.bufs = B, !.devs = D]
      BY <1>2, <2>1
    <2>3. opt' = [lr |-> opt.lr, step_t |-> t, bufs |-> B, devs |-> D]
      BY <1>9, <2>2
    <2>4. opt'.lr = opt.lr /\ opt'.step_t = t /\ opt'.bufs = B /\ opt'.devs = D
      BY <2>3
    <2> QED
      BY <2>1, <2>3, <2>4
  <1>14. ASSUME NEW i \in Present PROVE Read(slot[i]) = Clipped(setup, e.grads, i)
    <2>1. i \in Param
      BY DEF Present
    <2>2. PICK f : slot[i] = [present |-> TRUE, g |-> e.grads[i], finite |-> f, scale |-> 0,
                              clip |-> Clipped(setup, e.grads, i)[3]]
      BY <1>5, <1>6, <2>1 DEF SlotsHold
    <2>3. Read(slot[i]) = <<e.grads[i], 0, Clipped(setup, e.grads, i)[3]>>
      BY <2>2 DEF Read
    <2> QED
      BY <2>3 DEF Clipped
  <1>15. ASSUME NEW i \in Present, Follows(h, i, value[i], from(i, failing))
         PROVE  Follows(history, i, next(i, failing).value, next(i, failing).bufs)
    <2>1. i \in Param
      BY DEF Present
    <2>2. Hit(e, i) /\ Charted(setup, h, i)
      BY <1>6, <1>9, <2>1
    <2>3. next(i, failing) = Rule(i, value[i], Clipped(setup, e.grads, i), from(i, failing), t)
      BY <1>14 DEF next
    <2>4. setup.rule \in Counting => t = Steps(h) + 1
      BY <1>12
    <2>5. Follows(Append(h, e), i, next(i, failing).value, next(i, failing).bufs)
      BY <1>4, <1>8, <1>11, <1>15, <2>1, <2>2, <2>3, <2>4, StepFollows
    <2> QED
      BY <1>4, <2>5
  <1>16. ASSUME NEW i \in Param, i \notin torn' PROVE OneSided(Completed, i)'
    <2>1. OneSided(h, i) /\ Charted(setup, h, i)
      BY <1>2, <1>9, <1>16
    <2>2. CASE i \notin Present
      <3>1. Defined(setup, history, i) = Defined(setup, h, i) /\ Moment(setup, history, i) = Moment(setup, h, i)
        BY <1>4, <1>6, <2>1, <2>2, Unmoved
      <3>2. value'[i] = value[i] /\ opt'.bufs[i] = opt.bufs[i] /\ opt'.devs[i] = opt.devs[i]
        BY <1>2, <1>13, <2>2
      <3> QED
        BY <1>1, <1>4, <2>1, <3>1, <3>2 DEF OneSided, Follows
    <2>3. CASE device(i, failing)
      <3>1. opt.bufs[i] = NoBuffers
        BY <1>2, <1>16, <2>3
      <3>2. Follows(h, i, value[i], opt.devs[i])
        BY <2>1, <3>1 DEF OneSided
      <3>3. from(i, failing) = opt.devs[i]
        BY <2>3 DEF from
      <3>4. Follows(history, i, next(i, failing).value, next(i, failing).bufs)
        BY <1>15, <2>3, <3>2, <3>3
      <3>5. value'[i] = next(i, failing).value /\ opt'.bufs[i] = NoBuffers /\ opt'.devs[i] = next(i, failing).bufs
        BY <1>2, <1>13, <2>3, <3>1
      <3> QED
        BY <1>1, <1>4, <3>4, <3>5 DEF OneSided, Follows
    <2>4. CASE host(i, failing)
      <3>1. opt.devs[i] = NoBuffers
        BY <1>2, <1>16, <2>4
      <3>2. Follows(h, i, value[i], opt.bufs[i])
        BY <2>1, <3>1 DEF OneSided
      <3>3. from(i, failing) = opt.bufs[i]
        BY <2>4 DEF from
      <3>4. Follows(history, i, next(i, failing).value, next(i, failing).bufs)
        BY <1>15, <2>4, <3>2, <3>3
      <3>5. value'[i] = next(i, failing).value /\ opt'.devs[i] = NoBuffers /\ opt'.bufs[i] = next(i, failing).bufs
        BY <1>2, <1>13, <2>4, <3>1
      <3> QED
        BY <1>1, <1>4, <3>4, <3>5 DEF OneSided, Follows
    <2> QED
      BY <2>2, <2>3, <2>4
  <1>17. ASSUME setup.rule # "adamw" PROVE torn' = {} /\ \A i \in Param : opt'.devs[i] = NoBuffers
    <2>1. \A i \in Param : ~device(i, failing)
      BY <1>17 DEF OnDevice
    <2> QED
      BY <1>2, <1>9, <1>13, <1>17, <2>1
  <1>18. \A i \in Param : Charted(setup, history, i)
    BY <1>4, <1>9, PathGrows
  <1>19. MomentsInv'
    BY <1>1, <1>4, <1>13, <1>16, <1>17, <1>18 DEF MomentsInv
  <1>20. ClockInv'
    <2>1. Steps(Completed)' = Steps(h) + 1
      BY <1>4, <1>7
    <2> QED
      BY <1>1, <1>7, <1>10, <1>12, <1>13, <2>1 DEF ClockInv
  <1>21. TypesInv' /\ SlotsInv'
    BY <1>1 DEF Good, TypesInv, SlotsInv
  <1>22. DiskInv'
    BY <1>1, DiskStays
  <1> QED
    BY <1>19, <1>20, <1>21, <1>22 DEF Good

(* Once there is a checkpoint there always is one, and a caller never      *)
(* changes its schedule.                                                   *)
LEMMA RestartedStays ==
  ASSUME Restarted, [TrainNext]_trainVars PROVE Restarted'
  <1>1. setup' = setup /\ (Save \/ disk' = disk)
    <2>1. CASE Backward
      BY <2>1 DEF Backward
    <2>2. CASE ScalerStep
      BY <2>2 DEF ScalerStep
    <2>3. CASE Clip
      BY <2>3 DEF Clip
    <2>4. CASE OptimizerStep
      BY <2>4 DEF OptimizerStep
    <2>5. CASE SchedulerStep
      BY <2>5 DEF SchedulerStep
    <2>6. CASE ZeroAndUpdate
      BY <2>6 DEF ZeroAndUpdate
    <2>7. CASE Save
      BY <2>7 DEF Save
    <2>8. CASE Crash
      BY <2>8 DEF Crash
    <2>9. CASE UNCHANGED trainVars
      BY <2>9 DEF trainVars
    <2> QED
      BY <2>1, <2>2, <2>3, <2>4, <2>5, <2>6, <2>7, <2>8, <2>9 DEF TrainNext
  <1>2. Save => disk' # NoCheckpoint
    BY SaveMakesCheckpoint
  <1>3. disk' # NoCheckpoint
    BY <1>1, <1>2 DEF Restarted
  <1> QED
    BY <1>1, <1>3 DEF Restarted, NoCheckpoint, Untrained

(* Every step of the loop.                                                 *)
LEMMA TrainStepKeepsGood ==
  ASSUME Good, ~Restarted', [TrainNext]_trainVars PROVE Good'
  <1>1. CASE TrainNext
    BY <1>1, BackwardKeepsGood, ScalerStepKeepsGood, ClipKeepsGood, OptimizerStepKeepsGood, SchedulerStepKeepsGood,
       ZeroAndUpdateKeepsGood, SaveKeepsGood, CrashKeepsGood DEF TrainNext
  <1>2. CASE UNCHANGED trainVars
    <2>1. setup' = setup /\ trainAt' = trainAt /\ value' = value /\ slot' = slot /\ opt' = opt /\ count' = count
          /\ scaler' = scaler /\ disk' = disk /\ history' = history /\ torn' = torn
      BY <1>2 DEF trainVars
    <2>2. Completed' = Completed /\ Newest' = Newest
      BY <2>1 DEF Completed, Newest
    <2>3. TypesInv' /\ ClockInv'
      BY <2>1, <2>2 DEF Good, TypesInv, ClockInv
    <2>4. SlotsInv'
      BY <2>1, <2>2 DEF Good, SlotsInv, SlotsHold
    <2>5. MomentsInv'
      BY <2>1, <2>2 DEF Good, MomentsInv, OneSided, Follows
    <2>6. DiskInv'
      BY <2>1, DiskStays
    <2> QED
      BY <2>3, <2>4, <2>5, <2>6 DEF Good
  <1> QED
    BY <1>1, <1>2

(* However gradients are missing or overflow, and wherever the process     *)
(* crashes and resumes, each parameter has the value its optimizer's       *)
(* recurrence gives for the gradients it received: for any parameters,     *)
(* setups, bounds and clipping, along any sequence of backward, unscale,   *)
(* clip, Optimizer::step, schedule, zero_grad, save and crash.             *)
THEOREM TrainingIsFollowed == TrainSpec => []TrainingFollowsItsRule
  <1>1. TrainInit => TrainInv
    BY TrainingStarts DEF TrainInv
  <1>2. TrainInv /\ [TrainNext]_trainVars => TrainInv'
    <2> SUFFICES ASSUME TrainInv, [TrainNext]_trainVars, ~Restarted' PROVE Good'
      BY DEF TrainInv
    <2>1. ~Restarted
      BY RestartedStays
    <2> QED
      BY <2>1, TrainStepKeepsGood DEF TrainInv
  <1>3. TrainInv => TrainingFollowsItsRule
    <2> SUFFICES ASSUME Good, NEW i \in Param \ torn PROVE value[i] = Defined(setup, Completed, i)
      BY DEF TrainInv, TrainingFollowsItsRule
    <2>1. OneSided(Completed, i)
      BY DEF Good, MomentsInv
    <2> QED
      BY <2>1 DEF OneSided, Follows
  <1> QED
    BY <1>1, <1>2, <1>3, PTL DEF TrainSpec
===============================================================================
