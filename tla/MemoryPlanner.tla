--------------------------- MODULE MemoryPlanner ---------------------------
(***************************************************************************)
(* The memory planner (rustorch-planner): Planner::plan reorders an op DAG *)
(* greedily (reorder.rs), derives lifetimes from the order (lifetime.rs),  *)
(* merges in-place pairs (inplace.rs) and packs the intervals into slots   *)
(* by first-fit-decreasing (allocator.rs).  One step per loop iteration.   *)
(*                                                                         *)
(* Op o writes tensor o; the tensors of Ext have no producer.  Positions   *)
(* in the schedule start at 1, where the code has step 0.  An op's reads   *)
(* are a set: reading a tensor twice only changes its score.               *)
(***************************************************************************)
EXTENDS Integers, Sequences, FiniteSets, SequencesExt, FiniteSetsExt

CONSTANTS
  NOps,      \* ops in the DAG
  NExt,      \* external inputs
  Kind,      \* [bytes, align] a produced tensor may have
  Hooked,    \* tensors with a backward hook
  View,      \* tensors that are views
  HintsFit,  \* TRUE: a hint's step is where the schedule puts its op
  Budget     \* PlannerInput.budget

Op     == 1..NOps
Ext    == (NOps + 1)..(NOps + NExt)
Tensor == Op \cup Ext

ASSUME PlannerAssumption ==
  /\ NOps \in Nat /\ NExt \in Nat /\ Budget \in Nat
  /\ Kind \subseteq [bytes : Nat, align : Nat \ {0}]
  /\ \A j, k \in Kind : j.align <= k.align => k.align % j.align = 0  \* 1, 16, 64, 256
  /\ Hooked \subseteq Tensor /\ View \subseteq Tensor /\ HintsFit \in BOOLEAN

VARIABLES
  reads,   \* reads[o]: tensors op o consumes
  kind,    \* kind[o]: size and alignment of tensor o
  phase,   \* the layer at work, or the outcome
  sched,   \* schedule
  table,   \* the LifetimeTable, rewritten once hints are applied
  safe,    \* the in-place hints accepted
  alias,   \* alias[o]: the input whose slot output o takes over, or None
  slots,   \* slots: bytes, align and tenants
  slotOf   \* assignment: tensor to slot index

vars == <<reads, kind, phase, sched, table, safe, alias, slots, slotOf>>
dagVars == <<reads, kind>>

None == 0
Empty == [t \in {} |-> None]

-----------------------------------------------------------------------------
(* reorder.                                                                 *)

Unscheduled == Op \ ToSet(sched)
Produced    == Ext \cup ToSet(sched)

(* Mutant: one produced read makes an op ready.                             *)
MutReady == {o \in Unscheduled : reads[o] = {} \/ reads[o] \cap Produced # {}}

Ready == {o \in Unscheduled : reads[o] \subseteq Produced}

Consumers(t) == {o \in Unscheduled : t \in reads[o]}

(* Bytes of the produced tensors that die with o, less what o allocates.    *)
Score(o) ==
  MapThenSumSet(LAMBDA t : kind[t].bytes,
                {t \in reads[o] \cap Op : Cardinality(Consumers(t)) = 1})
    - kind[o].bytes

(* The higher score, then the smaller output, then the smaller id.          *)
Better(o, p) ==
  \/ Score(o) > Score(p)
  \/ Score(o) = Score(p) /\ kind[o].bytes < kind[p].bytes
  \/ Score(o) = Score(p) /\ kind[o].bytes = kind[p].bytes /\ o < p

Init ==
  /\ reads \in [Op -> SUBSET Tensor]
  /\ kind \in [Op -> Kind]
  /\ phase = "reorder"
  /\ sched = <<>>
  /\ table = Empty /\ safe = {} /\ alias = Empty /\ slots = <<>> /\ slotOf = Empty

Pick(o) ==
  /\ phase = "reorder"
  /\ o \in Ready
  /\ \A p \in Ready \ {o} : Better(o, p)
  /\ sched' = Append(sched, o)
  /\ UNCHANGED <<dagVars, phase, table, safe, alias, slots, slotOf>>

(* No op is ready and some remain: ReorderError::Cycle.                     *)
Stuck ==
  /\ phase = "reorder"
  /\ Unscheduled # {} /\ Ready = {}
  /\ phase' = "cycle"
  /\ UNCHANGED <<dagVars, sched, table, safe, alias, slots, slotOf>>

-----------------------------------------------------------------------------
(* lifetime_for.                                                            *)

Pos(o) == CHOOSE p \in DOMAIN sched : sched[p] = o

Registered == Op \cup {t \in Ext : \E o \in Op : t \in reads[o]}

Lifetime(t) ==
  LET def  == IF t \in Op THEN Pos(t) ELSE 1
      uses == {Pos(o) : o \in {x \in Op : t \in reads[x]}}
  IN [def      |-> def,
      last_use |-> Max({def} \cup uses),
      bytes    |-> IF t \in Op THEN kind[t].bytes ELSE 0,
      align    |-> IF t \in Op THEN kind[t].align ELSE 1]

Analyse ==
  /\ phase = "reorder"
  /\ Unscheduled = {}
  /\ table' = [t \in Registered |-> Lifetime(t)]
  /\ phase' = "inplace"
  /\ UNCHANGED <<dagVars, sched, safe, alias, slots, slotOf>>

-----------------------------------------------------------------------------
(* plan_with_inplace.                                                       *)

(* A hint asks to write op `output` into one of the tensors it reads.  The  *)
(* caller gives the step, which is only right for the order it assumed.     *)
Hint ==
  {h \in [input : Tensor, output : Op, step : DOMAIN sched] :
     /\ h.input \in reads[h.output]
     /\ HintsFit => h.step = Pos(h.output)}

(* evaluate_hint yields Apply.                                              *)
Apply(h) ==
  /\ {h.input, h.output} \subseteq DOMAIN table
  /\ table[h.input].last_use = h.step
  /\ h.input \notin Hooked
  /\ h.input \notin View

(* The filter: the first safe hint that touches a tensor claims it.  A hint *)
(* that is dropped leaves no trace, so any number of them may come between. *)
Touched(h) == {h.input, h.output}

Accept(h) ==
  /\ phase = "inplace"
  /\ Apply(h)
  /\ \A g \in safe : Touched(h) \cap Touched(g) = {}
  /\ safe' = safe \cup {h}
  /\ UNCHANGED <<dagVars, phase, sched, table, alias, slots, slotOf>>

Merged(a, b) ==
  [def |-> a.def, last_use |-> Max({a.last_use, b.last_use}),
   bytes |-> Max({a.bytes, b.bytes}), align |-> Max({a.align, b.align})]

Rewrite ==
  LET outs == {h.output : h \in safe}
  IN /\ phase = "inplace"
     /\ table' = [t \in DOMAIN table \ outs |->
                    IF \E h \in safe : h.input = t
                    THEN Merged(table[t], table[(CHOOSE h \in safe : h.input = t).output])
                    ELSE table[t]]
     /\ alias' = [o \in outs |-> (CHOOSE h \in safe : h.output = o).input]
     /\ phase' = "place"
     /\ UNCHANGED <<dagVars, sched, safe, slots, slotOf>>

-----------------------------------------------------------------------------
(* plan: first-fit-decreasing over the rewritten table.                     *)

RoundUp(n, a) == ((n + a - 1) \div a) * a

(* Mutant: open intervals, so a tensor may take the slot of one that dies.  *)
MutOverlaps(a, b) == a.def < b.last_use /\ b.def < a.last_use

Overlaps(a, b) == a.def <= b.last_use /\ b.def <= a.last_use

Fits(s, t) == \A u \in slots[s].tenants : ~Overlaps(table[u], table[t])

(* Mutant: the slot keeps its size when its alignment grows.                *)
MutWithTenant(s, t) ==
  [bytes   |-> Max({s.bytes, table[t].bytes}),
   align   |-> Max({s.align, table[t].align}),
   tenants |-> s.tenants \cup {t}]

(* Slot::add.                                                               *)
WithTenant(s, t) ==
  LET align == Max({s.align, table[t].align})
  IN [bytes   |-> RoundUp(Max({s.bytes, table[t].bytes}), align),
      align   |-> align,
      tenants |-> s.tenants \cup {t}]

NewSlot(t) ==
  [bytes |-> RoundUp(table[t].bytes, table[t].align), align |-> table[t].align,
   tenants |-> {t}]

(* The sort: bytes descending, def ascending, id ascending.                 *)
Before(a, b) ==
  \/ table[a].bytes > table[b].bytes
  \/ table[a].bytes = table[b].bytes /\ table[a].def < table[b].def
  \/ table[a].bytes = table[b].bytes /\ table[a].def = table[b].def /\ a < b

Unplaced == DOMAIN table \ DOMAIN slotOf

Place(t) ==
  LET fits == {s \in DOMAIN slots : Fits(s, t)}
      s    == IF fits = {} THEN Len(slots) + 1 ELSE Min(fits)
  IN /\ phase = "place"
     /\ t \in Unplaced
     /\ \A u \in Unplaced \ {t} : Before(t, u)
     /\ slots' = IF fits = {} THEN Append(slots, NewSlot(t))
                 ELSE [slots EXCEPT ![s] = WithTenant(@, t)]
     /\ slotOf' = [u \in DOMAIN slotOf \cup {t} |-> IF u = t THEN s ELSE slotOf[u]]
     /\ UNCHANGED <<dagVars, phase, sched, table, safe, alias>>

Peak == MapThenSumSet(LAMBDA s : slots[s].bytes, DOMAIN slots)

(* OverBudget; a caller without a budget has one that is never exceeded.    *)
Outcome == IF Peak > Budget THEN "over" ELSE "done"

(* The aliased outputs join their inputs' slots; then the budget check.     *)
Stitch ==
  /\ phase = "place"
  /\ Unplaced = {}
  /\ slotOf' = [t \in DOMAIN slotOf \cup DOMAIN alias |->
                  IF t \in DOMAIN alias THEN slotOf[alias[t]] ELSE slotOf[t]]
  /\ slots' = [s \in DOMAIN slots |->
                 [slots[s] EXCEPT !.tenants = @ \cup {o \in DOMAIN alias : slotOf[alias[o]] = s}]]
  /\ phase' = Outcome
  /\ UNCHANGED <<dagVars, sched, table, safe, alias>>

Next ==
  \/ \E o \in Op : Pick(o)
  \/ Stuck
  \/ Analyse
  \/ phase = "inplace" /\ \E h \in Hint : Accept(h)
  \/ Rewrite
  \/ \E t \in Tensor : Place(t)
  \/ Stitch

Spec == Init /\ [][Next]_vars

-----------------------------------------------------------------------------
(* reorder's schedule runs every op once, after the ops it reads from, and  *)
(* a cycle is reported only when there is one: some ops each read from one  *)
(* of them (reorder.rs:151-279).                                            *)
TopologicalOrder ==
  /\ \A p \in DOMAIN sched :
       /\ \A q \in DOMAIN sched : sched[q] = sched[p] => q = p
       /\ \A t \in reads[sched[p]] \cap Op : \E q \in 1..(p - 1) : sched[q] = t
  /\ phase = "cycle" => \E s \in (SUBSET Op) \ {{}} : \A o \in s : reads[o] \cap s # {}

(* The plan can be executed: from the step that produces a tensor to each   *)
(* op that reads it, no other op writes into its slot.  The reading op      *)
(* itself may, when it was given the slot by an accepted in-place hint      *)
(* (allocator.rs:4-6, inplace.rs:3-22).                                     *)
Overwrites(w, t, o) ==
  /\ w # t /\ slotOf[w] = slotOf[t]
  /\ Pos(t) < Pos(w)
  /\ Pos(w) < Pos(o) \/ (w = o /\ (o \notin DOMAIN alias \/ alias[o] # t))

PlanIsSound ==
  phase \in {"done", "over"} =>
    \A o \in Op : \A t \in reads[o] \cap Op : \A w \in Op : ~Overwrites(w, t, o)

(* Every tensor fits its slot, in size and in alignment, the stitched       *)
(* outputs included, and slots can be laid end to end (allocator.rs:36-44). *)
SlotsHoldTenants ==
  \A t \in DOMAIN slotOf :
    LET s == slots[slotOf[t]]
        k == IF t \in Op THEN kind[t] ELSE [bytes |-> 0, align |-> 1]
    IN /\ k.bytes <= s.bytes /\ s.align % k.align = 0
       /\ s.bytes % s.align = 0
=============================================================================
