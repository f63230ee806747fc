--------------------------- MODULE Autograd_proofs ---------------------------
(***************************************************************************)
(* Reverse mode against forward mode.  Every node and every variable       *)
(* carries its derivative along the tape as a ghost (tan).  What a call of *)
(* backward() still owes to a leaf is the sum, over the gradients it holds *)
(* for nodes, the gradients it has yet to hand to edges and, in a nested   *)
(* call, the gradients that its fresh leaves have received, of the         *)
(* gradient times the derivative of where it is.  No step of a call        *)
(* changes what the slot has and what is owed to it together.              *)
(*                                                                         *)
(* The inductive invariant AgInv has four parts: the types, the soundness  *)
(* of tape, walks and calls (TapeInv), the chain rule at every node        *)
(* (TanInv) and the accounts of the leaves (BalanceInv).  The lemmas go    *)
(* from the walk over sums, one frame, one stack and all threads to the    *)
(* steps, an action a lemma.                                               *)
(***************************************************************************)
EXTENDS Autograd, SequenceTheorems, FiniteSums_proofs

Tangents == [Leaves -> Int]
Slots == {NoGrad} \cup {<<g>> : g \in Int}
Edges == [kind : {"node", "slot", "detached"}, to : Nat]
VarRecs == [data : Int, req : BOOLEAN, fn : Nat, user : BOOLEAN]
NodeRecs == [op : {"add", "mul", "ckpt"}, saved : Seq(Int), cap : Nat, edges : Seq(Edges), tan : Tangents]
OpRecs == {NoOp} \cup [op : {"add", "mul", "ckpt"}, args : Seq(Nat), cap : Nat, value : Int, tan : Tangents]
Handed == [edge : Edges, g : Slots]
Grads == UNION {[D -> Int] : D \in SUBSET Nat}
Frames == [walk : Seq(Nat), grads : Grads, todo : Seq(Handed), fresh : Seq(Nat)]

(* The leaves that collect gradients.                                      *)
Wanted == {l \in Leaves : LeafVars[l].req}

(* The derivative by leaf l of what edge e leads to, in the tape ns with   *)
(* the variables' derivatives ts.                                          *)
Along(e, ns, ts, l) ==
  IF e.kind = "node" THEN ns[e.to].tan[l] ELSE IF e.kind = "slot" THEN ts[e.to][l] ELSE 0

(* A node whose slots are leaves, as all but those of a recomputation are. *)
Plain(ns, n) ==
  \A i \in 1 .. Len(ns[n].edges) : ns[n].edges[i].kind = "slot" => ns[n].edges[i].to \in Wanted

(* Node n of a tape over k variables: edges lead to older nodes.           *)
NodeOK(ns, n, k) ==
  /\ Len(ns[n].edges) \in {1, 2} /\ Len(ns[n].saved) = Len(ns[n].edges)
  /\ ns[n].op # "ckpt" => Len(ns[n].edges) = 2
  /\ ns[n].op = "ckpt" => ns[n].cap \in Captured /\ Plain(ns, n)
  /\ \A i \in 1 .. Len(ns[n].edges) :
       /\ ns[n].edges[i].kind = "node" => ns[n].edges[i].to \in 1 .. n - 1 /\ Plain(ns, ns[n].edges[i].to)
       /\ ns[n].edges[i].kind = "slot" => ns[n].edges[i].to \in 1 .. k

(* What the operation's derivative is, from those of its operands.         *)
ChainRule(op, a, b, x, y) == IF op = "add" THEN x + y ELSE b * x + a * y

(* A node's derivative follows from its edges' and what it saved, or, of a *)
(* checkpoint, from what the captured variable holds now.                  *)
NodeTan(ns, n, vs, ts) ==
  \A l \in Leaves : ns[n].tan[l] =
    IF ns[n].op = "ckpt"
    THEN ChainRule("ckpt", ns[n].saved[1], vs[ns[n].cap].data, Along(ns[n].edges[1], ns, ts, l), ts[ns[n].cap][l])
    ELSE ChainRule(ns[n].op, ns[n].saved[1], ns[n].saved[2],
                   Along(ns[n].edges[1], ns, ts, l), Along(ns[n].edges[2], ns, ts, l))

VarOK(vs, v, ns, ts) ==
  /\ vs[v].fn <= Len(ns)
  /\ vs[v].fn # 0 => vs[v].req /\ Plain(ns, vs[v].fn) /\ ts[v] = ns[vs[v].fn].tan
  /\ ~vs[v].req => ts[v] = Zero
  /\ vs[v].user /\ vs[v].req /\ vs[v].fn = 0 => v \in Leaves
  /\ v \in Leaves => /\ vs[v].fn = 0 /\ vs[v].user /\ vs[v].req = LeafVars[v].req
                     /\ ts[v] = [l \in Leaves |-> IF l = v /\ LeafVars[v].req THEN 1 ELSE 0]

(* An operation between its two halves.                                    *)
OpOK(o, vs) ==
  o.op # "none" =>
    /\ Len(o.args) \in {1, 2}
    /\ o.op # "ckpt" => Len(o.args) = 2
    /\ \A i \in 1 .. Len(o.args) : o.args[i] \in 1 .. Len(vs) /\ vs[o.args[i]].user
    /\ o.op = "ckpt" => o.cap \in Captured
OpTan(o, vs, ts) ==
  o.op # "none" =>
    LET a == o.args[1]
        b == IF o.op = "ckpt" THEN o.cap ELSE o.args[2]
    IN  \A l \in Leaves : o.tan[l] = ChainRule(o.op, vs[a].data, vs[b].data, ts[a][l], ts[b][l])

-----------------------------------------------------------------------------
(* What is left of a walk: every edge leads to a node that is still ahead. *)
WalkOK(w, ns) ==
  /\ w \in Seq(1 .. Len(ns))
  /\ \A i, j \in 1 .. Len(w) : w[i] = w[j] => i = j
  /\ \A i \in 1 .. Len(w) : \A k \in 1 .. Len(ns[w[i]].edges) :
       ns[w[i]].edges[k].kind = "node" => \E j \in i + 1 .. Len(w) : w[j] = ns[w[i]].edges[k].to

(* Gradients are held for nodes that are still ahead, and handed to them.  *)
FrameOK(f, ns, slots) ==
  /\ WalkOK(f.walk, ns)
  /\ DOMAIN f.grads \subseteq ToSet(f.walk) /\ f.grads \in [DOMAIN f.grads -> Int]
  /\ f.todo \in Seq(Handed) /\ Len(f.todo) <= 2
  /\ \A i \in 1 .. Len(f.todo) :
       /\ f.todo[i].edge.kind = "node" => f.todo[i].edge.to \in ToSet(f.walk)
       /\ f.todo[i].edge.kind = "slot" => f.todo[i].edge.to \in slots
  /\ \A i \in 1 .. Len(f.walk) : \A k \in 1 .. Len(ns[f.walk[i]].edges) :
       ns[f.walk[i]].edges[k].kind = "slot" => ns[f.walk[i]].edges[k].to \in slots

(* The fresh leaves of a recomputation of node c stand for its operands.   *)
FreshOK(fresh, c, ns, ts) ==
  /\ fresh \in Seq(1 .. Len(ts)) /\ Len(fresh) = Len(ns[c].edges)
  /\ \A i \in 1 .. Len(fresh) :
       /\ fresh[i] \notin Leaves
       /\ \A l \in Leaves : ts[fresh[i]][l] = Along(ns[c].edges[i], ns, ts, l)
       /\ \A j \in 1 .. Len(fresh) : fresh[i] = fresh[j] => i = j

(* The calls of a thread: backward() and, inside it, that of a checkpoint, *)
(* whose closure captures a leaf and so reaches no other checkpoint.       *)
StackOK(fs, ns, ts) ==
  /\ Len(fs) <= 2
  /\ Len(fs) >= 1 => FrameOK(fs[1], ns, Wanted) /\ fs[1].fresh = <<>>
  /\ Len(fs) = 2 =>
       LET c == Head(fs[1].walk)
       IN  /\ fs[1].walk # <<>> /\ fs[1].todo = <<>> /\ c \notin DOMAIN fs[1].grads
           /\ ns[c].op = "ckpt"
           /\ FreshOK(fs[2].fresh, c, ns, ts)
           /\ FrameOK(fs[2], ns, Wanted \cup {fs[2].fresh[1]})
           /\ \A i \in 1 .. Len(fs[2].walk) : ns[fs[2].walk[i]].op = "mul"

-----------------------------------------------------------------------------
(* What a frame owes to leaf l: for nodes, for edges, for fresh leaves.    *)
Weighed(grads, n, ns, l) == grads[n] * ns[n].tan[l]
HeldFor(grads, ns, l) == SumFunctionOnSet([n \in DOMAIN grads |-> Weighed(grads, n, ns, l)], DOMAIN grads)
Due(h, ns, ts, l) == GradOf(h.g) * Along(h.edge, ns, ts, l)
DueAll(todo, ns, ts, l) ==
  (IF Len(todo) >= 1 THEN Due(todo[1], ns, ts, l) ELSE 0) + (IF Len(todo) >= 2 THEN Due(todo[2], ns, ts, l) ELSE 0)
Got(v, ts, gs, l) == GradOf(gs[v]) * ts[v][l]
GotAll(fresh, ts, gs, l) ==
  (IF Len(fresh) >= 1 THEN Got(fresh[1], ts, gs, l) ELSE 0) + (IF Len(fresh) >= 2 THEN Got(fresh[2], ts, gs, l) ELSE 0)
FrameOwes(f, ns, ts, gs, l) == HeldFor(f.grads, ns, l) + DueAll(f.todo, ns, ts, l) + GotAll(f.fresh, ts, gs, l)
Owes(fs, ns, ts, gs, l) ==
  (IF Len(fs) >= 1 THEN FrameOwes(fs[1], ns, ts, gs, l) ELSE 0)
    + (IF Len(fs) >= 2 THEN FrameOwes(fs[2], ns, ts, gs, l) ELSE 0)
OwedByAll(frames, ns, ts, gs, l) == SumFunctionOnSet([t \in Thread |-> Owes(frames[t], ns, ts, gs, l)], Thread)

(* What the slot of leaf l got, what zero_grad took from it and what is    *)
(* still owed to it make up what all calls of backward() promised.         *)
Settled(frames, gs, ns, ts, taken, owed, l) ==
  GradOf(gs[l]) + taken[l] + OwedByAll(frames, ns, ts, gs, l) = owed[l]

AgTypes ==
  /\ agVar \in Seq(VarRecs) /\ agGrad \in Seq(Slots) /\ agTan \in Seq(Tangents) /\ agNode \in Seq(NodeRecs)
  /\ Len(agGrad) = Len(agVar) /\ Len(agTan) = Len(agVar) /\ Len(LeafVars) <= Len(agVar)
  /\ agOp \in [Thread -> OpRecs] /\ agRaced \in BOOLEAN
  /\ agOwed \in Tangents /\ agTaken \in Tangents
  /\ agFrames \in [Thread -> Seq(Frames)]

TapeInv ==
  /\ \A n \in 1 .. Len(agNode) : NodeOK(agNode, n, Len(agVar))
  /\ \A v \in 1 .. Len(agVar) : VarOK(agVar, v, agNode, agTan)
  /\ \A t \in Thread : OpOK(agOp[t], agVar)
  /\ \A t \in Thread : StackOK(agFrames[t], agNode, agTan)
  /\ \A t, u \in Thread : t # u /\ Len(agFrames[t]) = 2 /\ Len(agFrames[u]) = 2
                            => ToSet(agFrames[t][2].fresh) \cap ToSet(agFrames[u][2].fresh) = {}
TanInv ==
  ~agRaced => /\ \A n \in 1 .. Len(agNode) : NodeTan(agNode, n, agVar, agTan)
              /\ \A t \in Thread : OpTan(agOp[t], agVar, agTan)
BalanceInv ==
  ~agRaced /\ agPanicked = {} =>
    \A l \in Leaves : Settled(agFrames, agGrad, agNode, agTan, agTaken, agOwed, l)
AgInv == AgTypes /\ TapeInv /\ TanInv /\ BalanceInv
-----------------------------------------------------------------------------
(* The depth-first walk.                                                   *)

VisitStep(ns, f, n, topo) ==
  LET es == ns[n].edges
      Via(e, acc) == IF e.kind = "node" THEN f[e.to][acc] ELSE acc
      first == Via(es[1], topo)
  IN  IF n \in ToSet(topo) THEN topo
      ELSE Append(IF Len(es) = 1 THEN first ELSE Via(es[2], first), n)
Visits(ns, f) == f = [n \in DOMAIN ns |-> [topo \in Seq(DOMAIN ns) |-> VisitStep(ns, f, n, topo)]]

(* A tape: edges lead to older nodes.                                      *)
Tape(ns) ==
  /\ ns \in Seq(NodeRecs)
  /\ \A n \in 1 .. Len(ns) :
       /\ Len(ns[n].edges) \in {1, 2}
       /\ \A i \in 1 .. Len(ns[n].edges) :
            ns[n].edges[i].kind = "node" => ns[n].edges[i].to \in 1 .. n - 1 /\ Plain(ns, ns[n].edges[i].to)

(* What the edges of node n make of an order.                              *)
Through(ns, f, n, i, acc) == IF ns[n].edges[i].kind = "node" THEN f[ns[n].edges[i].to][acc] ELSE acc
Below(ns, f, n, topo) ==
  IF Len(ns[n].edges) = 1 THEN Through(ns, f, n, 1, topo)
  ELSE Through(ns, f, n, 2, Through(ns, f, n, 1, topo))

(* A visit appends n after what its edges reach, unless it was reached     *)
(* before (visit).                                                         *)
LEMMA StepIs ==
  ASSUME NEW ns, NEW f, NEW n, NEW topo
  PROVE  VisitStep(ns, f, n, topo) = IF n \in ToSet(topo) THEN topo ELSE Append(Below(ns, f, n, topo), n)
  BY DEF VisitStep, Below, Through

(* The model's walk is a solution of the equation of visit.                *)
LEMMA VisitIs == visit = CHOOSE f : Visits(agNode, f)
  BY DEF visit, Visits, VisitStep

(* Walks of k nodes.                                                       *)
Walker(f, k) == \A n \in 1 .. k, topo \in Seq(1 .. k) : f[n][topo] \in Seq(1 .. k)

(* The edges of a node make an order of the tape's nodes.                  *)
LEMMA BelowTyped ==
  ASSUME NEW ns, Tape(ns), NEW f, Walker(f, Len(ns)), NEW n \in 1 .. Len(ns), NEW topo \in Seq(1 .. Len(ns))
  PROVE  Below(ns, f, n, topo) \in Seq(1 .. Len(ns))
  <1>1. \A i \in 1 .. Len(ns[n].edges), acc \in Seq(1 .. Len(ns)) : Through(ns, f, n, i, acc) \in Seq(1 .. Len(ns))
    <2> TAKE i \in 1 .. Len(ns[n].edges), acc \in Seq(1 .. Len(ns))
    <2>1. CASE ns[n].edges[i].kind = "node"
      <3>1. ns[n].edges[i].to \in 1 .. n - 1
        BY <2>1 DEF Tape
      <3>2. ns[n].edges[i].to \in 1 .. Len(ns)
        <4>1. Len(ns) \in Nat
          BY DEF Tape
        <4> QED
          BY <3>1, <4>1
      <3> QED
        BY <2>1, <3>2 DEF Through, Walker
    <2> QED
      BY <2>1 DEF Through
  <1>2. Len(ns[n].edges) \in {1, 2}
    BY DEF Tape
  <1>3. CASE Len(ns[n].edges) = 1
    BY <1>1, <1>3 DEF Below
  <1>4. CASE Len(ns[n].edges) = 2
    <2>1. PICK a \in Seq(1 .. Len(ns)) : a = Through(ns, f, n, 1, topo)
      BY <1>1, <1>4
    <2>2. Through(ns, f, n, 2, a) \in Seq(1 .. Len(ns))
      BY <1>1, <1>4
    <2> QED
      BY <1>4, <2>1, <2>2 DEF Below
  <1> QED
    BY <1>2, <1>3, <1>4

(* Two functions that agree on older nodes go the same way.                *)
LEMMA BelowAgrees ==
  ASSUME NEW ns, Tape(ns), NEW f, NEW g, Walker(f, Len(ns)), NEW n \in 1 .. Len(ns), NEW topo \in Seq(1 .. Len(ns)),
         \A m \in 1 .. n - 1, acc \in Seq(1 .. Len(ns)) : f[m][acc] = g[m][acc]
  PROVE  Below(ns, f, n, topo) = Below(ns, g, n, topo)
  <1>1. \A i \in 1 .. Len(ns[n].edges), acc \in Seq(1 .. Len(ns)) :
          Through(ns, f, n, i, acc) = Through(ns, g, n, i, acc)
    BY DEF Through, Tape
  <1>2. Len(ns[n].edges) \in {1, 2}
    BY DEF Tape
  <1>3. CASE Len(ns[n].edges) = 1
    BY <1>1, <1>3 DEF Below
  <1>4. CASE Len(ns[n].edges) = 2
    <2>1. Through(ns, f, n, 1, topo) \in Seq(1 .. Len(ns))
      <3>1. ns[n].edges[1].kind = "node" => ns[n].edges[1].to \in 1 .. Len(ns)
        <4>1. Len(ns) \in Nat /\ ns[n].edges[1].kind = "node" => ns[n].edges[1].to \in 1 .. n - 1
          BY <1>4 DEF Tape
        <4> QED
          BY <4>1 DEF Tape
      <3> QED
        BY <3>1 DEF Through, Walker
    <2>2. PICK a \in Seq(1 .. Len(ns)) : a = Through(ns, f, n, 1, topo)
      BY <2>1
    <2>3. a = Through(ns, g, n, 1, topo) /\ Through(ns, f, n, 2, a) = Through(ns, g, n, 2, a)
      BY <1>1, <1>4, <2>2
    <2> QED
      BY <1>4, <2>2, <2>3 DEF Below
  <1> QED
    BY <1>2, <1>3, <1>4

(* The equation of visit has a solution: edges lead to older nodes.        *)
LEMMA VisitsExist ==
  ASSUME NEW ns, Tape(ns)
  PROVE  \E f : Visits(ns, f)
  <1> DEFINE K == Len(ns)
             upTo(N, f) == \A n \in 1 .. N, topo \in Seq(1 .. K) : f[n][topo] = VisitStep(ns, f, n, topo)
             None == {N \in 0 .. K : ~\E f : Walker(f, K) /\ upTo(N, f)}
  <1>1. K \in Nat /\ DOMAIN ns = 1 .. K
    BY DEF Tape
  <1>2. ASSUME None # {} PROVE FALSE
    <2>1. PICK N \in None : \A k \in None : N <= k
      <3>1. None \in SUBSET Nat
        BY <1>1
      <3> HIDE DEF None
      <3> QED
        BY <1>2, <3>1, Least
    <2>2. CASE N = 0
      <3>1. PICK f : f = [n \in 1 .. K |-> [topo \in Seq(1 .. K) |-> topo]]
        OBVIOUS
      <3>2. Walker(f, K) /\ upTo(0, f)
        BY <3>1 DEF Walker
      <3> QED
        BY <2>1, <2>2, <3>2
    <2>3. CASE N # 0
      <3>1. N \in 1 .. K /\ N - 1 \in 0 .. K /\ N - 1 \notin None
        <4>1. N \in 0 .. K
          BY <2>1
        <4>2. N \in 1 .. K /\ N - 1 \in 0 .. K /\ ~(N <= N - 1)
          BY <1>1, <2>3, <4>1
        <4>3. N - 1 \notin None
          <5> HIDE DEF None
          <5> QED
            BY <2>1, <4>2
        <4> QED
          BY <4>2, <4>3
      <3>2. PICK f : Walker(f, K) /\ upTo(N - 1, f)
        BY <3>1
      <3>3. PICK g : g = [n \in 1 .. K |-> [topo \in Seq(1 .. K) |->
                                              IF n = N THEN VisitStep(ns, f, n, topo) ELSE f[n][topo]]]
        OBVIOUS
      <3>4. \A n \in 1 .. K, topo \in Seq(1 .. K) :
              g[n][topo] = IF n = N THEN VisitStep(ns, f, n, topo) ELSE f[n][topo]
        BY <3>3
      <3>5. \A n \in 1 .. K, topo \in Seq(1 .. K) : VisitStep(ns, f, n, topo) \in Seq(1 .. K)
        <4> TAKE n \in 1 .. K, topo \in Seq(1 .. K)
        <4>1. Below(ns, f, n, topo) \in Seq(1 .. K)
          BY <3>2, BelowTyped
        <4>2. Append(Below(ns, f, n, topo), n) \in Seq(1 .. K)
          BY <4>1
        <4> QED
          BY <4>2, StepIs
      <3>6. Walker(g, K)
        <4>1. ASSUME NEW n \in 1 .. K, NEW topo \in Seq(1 .. K) PROVE g[n][topo] \in Seq(1 .. K)
          <5>1. f[n][topo] \in Seq(1 .. K) /\ VisitStep(ns, f, n, topo) \in Seq(1 .. K)
            BY <3>2, <3>5 DEF Walker
          <5>2. g[n][topo] = IF n = N THEN VisitStep(ns, f, n, topo) ELSE f[n][topo]
            BY <3>4
          <5> QED
            BY <5>1, <5>2
        <4> QED
          BY <4>1 DEF Walker
      <3>7. \A n \in 1 .. K, topo \in Seq(1 .. K) : n <= N => VisitStep(ns, f, n, topo) = VisitStep(ns, g, n, topo)
        <4> TAKE n \in 1 .. K, topo \in Seq(1 .. K)
        <4> HAVE n <= N
        <4>1. ASSUME NEW m \in 1 .. n - 1, NEW acc \in Seq(1 .. K) PROVE f[m][acc] = g[m][acc]
          <5>1. m \in 1 .. K /\ m # N
            BY <1>1, <3>1
          <5>2. g[m][acc] = IF m = N THEN VisitStep(ns, f, m, acc) ELSE f[m][acc]
            BY <3>4, <5>1
          <5> QED
            BY <5>1, <5>2
        <4>2. Below(ns, f, n, topo) = Below(ns, g, n, topo)
          BY <3>2, <4>1, BelowAgrees
        <4> QED
          BY <4>2, StepIs
      <3>8. ASSUME NEW n \in 1 .. N, NEW topo \in Seq(1 .. K) PROVE g[n][topo] = VisitStep(ns, g, n, topo)
        <4>1. n \in 1 .. K /\ n <= N
          BY <1>1, <3>1
        <4>2. CASE n = N
          BY <3>4, <3>7, <4>1, <4>2
        <4>3. CASE n # N
          <5>1. n \in 1 .. N - 1
            BY <3>1, <4>3
          <5>2. f[n][topo] = VisitStep(ns, f, n, topo)
            BY <3>2, <5>1
          <5>3. g[n][topo] = f[n][topo]
            BY <3>4, <4>1, <4>3
          <5> QED
            BY <3>7, <4>1, <5>2, <5>3
        <4> QED
          BY <4>2, <4>3
      <3>9. upTo(N, g)
        BY <3>8
      <3> QED
        BY <2>1, <3>6, <3>9
    <2> QED
      BY <2>2, <2>3
  <1>3. PICK f : Walker(f, K) /\ upTo(K, f)
    BY <1>1, <1>2
  <1>4. PICK g : g = [n \in 1 .. K |-> [topo \in Seq(1 .. K) |-> f[n][topo]]]
    OBVIOUS
  <1>5. \A n \in 1 .. K, topo \in Seq(1 .. K) : g[n][topo] = f[n][topo]
    BY <1>4
  <1>6. \A n \in 1 .. K, topo \in Seq(1 .. K) : f[n][topo] = VisitStep(ns, g, n, topo)
    <2> TAKE n \in 1 .. K, topo \in Seq(1 .. K)
    <2>1. \A m \in 1 .. n - 1, acc \in Seq(1 .. K) : f[m][acc] = g[m][acc]
      BY <1>1, <1>5, SMTT(30)
    <2>2. Below(ns, f, n, topo) = Below(ns, g, n, topo)
      BY <1>3, <2>1, BelowAgrees
    <2>3. f[n][topo] = VisitStep(ns, f, n, topo)
      BY <1>3
    <2> QED
      BY <2>2, <2>3, StepIs
  <1>7. g = [n \in 1 .. K |-> [topo \in Seq(1 .. K) |-> VisitStep(ns, g, n, topo)]]
    <2>1. \A n \in 1 .. K : [topo \in Seq(1 .. K) |-> f[n][topo]] = [topo \in Seq(1 .. K) |-> VisitStep(ns, g, n, topo)]
      BY <1>6
    <2> QED
      BY <1>4, <2>1
  <1> QED
    BY <1>1, <1>7 DEF Visits

(* An order in which every edge leads back to a node before it.            *)
TopoOK(topo, ns) ==
  /\ topo \in Seq(1 .. Len(ns))
  /\ \A i, j \in 1 .. Len(topo) : topo[i] = topo[j] => i = j
  /\ \A i \in 1 .. Len(topo) :
       /\ Plain(ns, topo[i])
       /\ \A k \in 1 .. Len(ns[topo[i]].edges) :
            ns[topo[i]].edges[k].kind = "node" => \E j \in 1 .. i - 1 : topo[j] = ns[topo[i]].edges[k].to

(* Order r is topo and nodes up to n after it.                             *)
GrownTo(topo, r, n, ns) == TopoOK(r, ns) /\ ToSet(topo) \subseteq ToSet(r) /\ ToSet(r) \subseteq ToSet(topo) \cup 1 .. n

(* Membership in the set of a sequence's elements.                         *)
LEMMA InSet ==
  ASSUME NEW S, NEW s \in Seq(S), NEW x
  PROVE  x \in ToSet(s) <=> \E i \in 1 .. Len(s) : s[i] = x
  BY DEF ToSet

(* A node goes after an order that has all its edges lead to.              *)
LEMMA TopoAppend ==
  ASSUME NEW ns, Tape(ns), NEW topo, TopoOK(topo, ns), NEW n \in 1 .. Len(ns), n \notin ToSet(topo), Plain(ns, n),
         \A k \in 1 .. Len(ns[n].edges) : ns[n].edges[k].kind = "node" => ns[n].edges[k].to \in ToSet(topo)
  PROVE  TopoOK(Append(topo, n), ns) /\ ToSet(Append(topo, n)) = ToSet(topo) \cup {n}
  <1>1. topo \in Seq(1 .. Len(ns)) /\ Len(topo) \in Nat
    BY DEF TopoOK
  <1>2. PICK r : r = Append(topo, n)
    OBVIOUS
  <1>3. /\ r \in Seq(1 .. Len(ns)) /\ Len(r) = Len(topo) + 1 /\ r[Len(topo) + 1] = n
        /\ \A i \in 1 .. Len(topo) : r[i] = topo[i]
    BY <1>1, <1>2
  <1>4. \A i \in 1 .. Len(topo) : topo[i] # n
    BY <1>1, InSet
  <1>5. \A i \in 1 .. Len(r) : i \in 1 .. Len(topo) \/ i = Len(topo) + 1
    BY <1>1, <1>3
  <1>6. ASSUME NEW i \in 1 .. Len(r), NEW j \in 1 .. Len(r), r[i] = r[j] PROVE i = j
    <2>1. CASE i \in 1 .. Len(topo) /\ j \in 1 .. Len(topo)
      BY <1>3, <1>6, <2>1 DEF TopoOK
    <2> QED
      BY <1>3, <1>4, <1>5, <1>6, <2>1
  <1>7. ASSUME NEW i \in 1 .. Len(r), NEW k \in 1 .. Len(ns[r[i]].edges), ns[r[i]].edges[k].kind = "node"
        PROVE  \E j \in 1 .. i - 1 : r[j] = ns[r[i]].edges[k].to
    <2>1. CASE i \in 1 .. Len(topo)
      <3>1. r[i] = topo[i]
        BY <1>3, <2>1
      <3>2. PICK j \in 1 .. i - 1 : topo[j] = ns[topo[i]].edges[k].to
        BY <1>7, <2>1, <3>1 DEF TopoOK
      <3>3. j \in 1 .. Len(topo)
        BY <1>1, <2>1
      <3> QED
        BY <1>3, <3>1, <3>2, <3>3
    <2>2. CASE i = Len(topo) + 1
      <3>1. r[i] = n
        BY <1>3, <2>2
      <3>2. PICK j \in 1 .. Len(topo) : topo[j] = ns[n].edges[k].to
        BY <1>1, <1>7, <3>1, InSet
      <3>3. j \in 1 .. i - 1
        BY <1>1, <2>2
      <3> QED
        BY <1>3, <3>1, <3>2, <3>3
    <2> QED
      BY <1>5, <2>1, <2>2
  <1>8. \A i \in 1 .. Len(r) : Plain(ns, r[i])
    BY <1>3, <1>5 DEF TopoOK
  <1>9. ToSet(r) = ToSet(topo) \cup {n}
    <2>1. \A x : x \in ToSet(r) <=> \E i \in 1 .. Len(r) : r[i] = x
      BY <1>3, InSet
    <2>2. \A x : x \in ToSet(topo) <=> \E i \in 1 .. Len(topo) : topo[i] = x
      BY <1>1, InSet
    <2>3. \A i \in 1 .. Len(topo) : i \in 1 .. Len(r)
      BY <1>1, <1>3
    <2>4. Len(topo) + 1 \in 1 .. Len(r)
      BY <1>1, <1>3
    <2> QED
      BY <1>3, <1>5, <2>1, <2>2, <2>3, <2>4
  <1>10. TopoOK(r, ns)
    BY <1>3, <1>6, <1>7, <1>8 DEF TopoOK
  <1> QED
    BY <1>2, <1>9, <1>10

(* An edge of node n, or nothing in its place.                             *)
LEMMA ThroughGrows ==
  ASSUME NEW ns, Tape(ns), NEW f, NEW n \in 1 .. Len(ns), NEW i \in 1 .. Len(ns[n].edges),
         NEW topo, TopoOK(topo, ns),
         \A m \in 1 .. n - 1 : \A acc : TopoOK(acc, ns) /\ Plain(ns, m) => GrownTo(acc, f[m][acc], m, ns) /\ m \in ToSet(f[m][acc])
  PROVE  /\ GrownTo(topo, Through(ns, f, n, i, topo), n - 1, ns)
         /\ ns[n].edges[i].kind = "node" => ns[n].edges[i].to \in ToSet(Through(ns, f, n, i, topo))
  <1>1. CASE ns[n].edges[i].kind = "node"
    <2>1. PICK m : m = ns[n].edges[i].to
      OBVIOUS
    <2>2. m \in 1 .. n - 1 /\ Plain(ns, m)
      BY <1>1, <2>1 DEF Tape
    <2>3. GrownTo(topo, f[m][topo], m, ns) /\ m \in ToSet(f[m][topo])
      BY <2>2
    <2>4. Through(ns, f, n, i, topo) = f[m][topo]
      BY <1>1, <2>1 DEF Through
    <2>5. \A k \in 1 .. m : k \in 1 .. n - 1
      BY <2>2 DEF Tape
    <2>6. GrownTo(topo, f[m][topo], n - 1, ns)
      BY <2>3, <2>5 DEF GrownTo
    <2> QED
      BY <2>1, <2>3, <2>4, <2>6
  <1>2. CASE ns[n].edges[i].kind # "node"
    BY <1>2 DEF Through, GrownTo
  <1> QED
    BY <1>1, <1>2

(* Everything that node n's edges reach comes into the order.              *)
LEMMA BelowGrows ==
  ASSUME NEW ns, Tape(ns), NEW f, NEW n \in 1 .. Len(ns), NEW topo, TopoOK(topo, ns),
         \A m \in 1 .. n - 1 : \A acc : TopoOK(acc, ns) /\ Plain(ns, m) => GrownTo(acc, f[m][acc], m, ns) /\ m \in ToSet(f[m][acc])
  PROVE  /\ GrownTo(topo, Below(ns, f, n, topo), n - 1, ns)
         /\ \A k \in 1 .. Len(ns[n].edges) :
              ns[n].edges[k].kind = "node" => ns[n].edges[k].to \in ToSet(Below(ns, f, n, topo))
  <1>1. Len(ns[n].edges) \in {1, 2}
    BY DEF Tape
  <1>2. 1 \in 1 .. Len(ns[n].edges)
    <2>1. PICK k \in {1, 2} : k = Len(ns[n].edges)
      BY <1>1, Zenon
    <2>2. \A j \in {1, 2} : 1 \in 1 .. j
      OBVIOUS
    <2> QED
      BY <2>1, <2>2, Zenon
  <1>3. PICK a : a = Through(ns, f, n, 1, topo)
    OBVIOUS
  <1>4. GrownTo(topo, a, n - 1, ns) /\ (ns[n].edges[1].kind = "node" => ns[n].edges[1].to \in ToSet(a))
    BY <1>2, <1>3, ThroughGrows
  <1>5. CASE Len(ns[n].edges) = 1
    <2>1. \A k \in 1 .. Len(ns[n].edges) : k = 1
      BY <1>5
    <2>2. Below(ns, f, n, topo) = a
      BY <1>3, <1>5 DEF Below
    <2> QED
      BY <1>4, <2>1, <2>2
  <1>6. CASE Len(ns[n].edges) = 2
    <2>1. 2 \in 1 .. Len(ns[n].edges) /\ TopoOK(a, ns)
      BY <1>4, <1>6 DEF GrownTo
    <2>2. PICK b : b = Through(ns, f, n, 2, a)
      OBVIOUS
    <2>3. GrownTo(a, b, n - 1, ns) /\ (ns[n].edges[2].kind = "node" => ns[n].edges[2].to \in ToSet(b))
      BY <2>1, <2>2, ThroughGrows
    <2>4. Below(ns, f, n, topo) = b
      BY <1>3, <1>6, <2>2 DEF Below
    <2>5. GrownTo(topo, b, n - 1, ns) /\ ToSet(a) \subseteq ToSet(b)
      BY <1>4, <2>3 DEF GrownTo
    <2>6. \A k \in 1 .. Len(ns[n].edges) : k = 1 \/ k = 2
      BY <1>6
    <2> QED
      BY <1>4, <2>3, <2>4, <2>5, <2>6
  <1> QED
    BY <1>1, <1>5, <1>6

(* A visit of n adds n, and all it reaches, to an order.                   *)
LEMMA VisitGrows ==
  ASSUME NEW ns, Tape(ns), NEW f, Visits(ns, f)
  PROVE  \A n \in 1 .. Len(ns) : \A topo : TopoOK(topo, ns) /\ Plain(ns, n)
           => GrownTo(topo, f[n][topo], n, ns) /\ n \in ToSet(f[n][topo])
  <1> DEFINE Good(n) == \A topo : TopoOK(topo, ns) /\ Plain(ns, n)
                          => GrownTo(topo, f[n][topo], n, ns) /\ n \in ToSet(f[n][topo])
             Bad == {n \in 1 .. Len(ns) : ~Good(n)}
  <1>1. Len(ns) \in Nat /\ DOMAIN ns = 1 .. Len(ns)
    BY DEF Tape
  <1>2. ASSUME Bad # {} PROVE FALSE
    <2>1. PICK n \in Bad : \A m \in Bad : n <= m
      <3>1. Bad \in SUBSET Nat
        BY <1>1
      <3> HIDE DEF Bad
      <3> QED
        BY <1>2, <3>1, Least
    <2>2. n \in 1 .. Len(ns) /\ ~Good(n)
      BY <2>1
    <2>3. \A m \in 1 .. n - 1 : Good(m)
      <3> TAKE m \in 1 .. n - 1
      <3>1. m \in 1 .. Len(ns) /\ ~(n <= m)
        BY <1>1, <2>2
      <3>2. m \notin Bad
        <4> HIDE DEF Bad
        <4> QED
          BY <2>1, <3>1
      <3> HIDE DEF Good
      <3> QED
        BY <3>1, <3>2
    <2>4. ASSUME NEW topo, TopoOK(topo, ns), Plain(ns, n)
          PROVE  GrownTo(topo, f[n][topo], n, ns) /\ n \in ToSet(f[n][topo])
      <3>1. topo \in Seq(1 .. Len(ns))
        BY <2>4 DEF TopoOK
      <3>2. f[n][topo] = IF n \in ToSet(topo) THEN topo ELSE Append(Below(ns, f, n, topo), n)
        <4>1. f[n] = [w \in Seq(1 .. Len(ns)) |-> VisitStep(ns, f, n, w)]
          BY <1>1, <2>2 DEF Visits
        <4>2. f[n][topo] = VisitStep(ns, f, n, topo)
          BY <3>1, <4>1
        <4> QED
          BY <4>2, StepIs
      <3>3. CASE n \in ToSet(topo)
        BY <2>4, <3>2, <3>3 DEF GrownTo
      <3>4. CASE n \notin ToSet(topo)
        <4>1. \A m \in 1 .. n - 1 : \A acc : TopoOK(acc, ns) /\ Plain(ns, m)
                => GrownTo(acc, f[m][acc], m, ns) /\ m \in ToSet(f[m][acc])
          BY <2>3
        <4>2. PICK b : b = Below(ns, f, n, topo)
          OBVIOUS
        <4>3. /\ GrownTo(topo, b, n - 1, ns)
              /\ \A k \in 1 .. Len(ns[n].edges) : ns[n].edges[k].kind = "node" => ns[n].edges[k].to \in ToSet(b)
          BY <2>2, <2>4, <4>1, <4>2, BelowGrows
        <4>4. n \notin 1 .. n - 1
          BY <1>1, <2>2
        <4>5. n \notin ToSet(b) /\ TopoOK(b, ns)
          BY <3>4, <4>3, <4>4 DEF GrownTo
        <4>6. TopoOK(Append(b, n), ns) /\ ToSet(Append(b, n)) = ToSet(b) \cup {n}
          BY <2>2, <2>4, <4>3, <4>5, TopoAppend
        <4>7. \A k \in 1 .. n - 1 : k \in 1 .. n
          BY <1>1, <2>2
        <4>8. n \in 1 .. n
          BY <1>1, <2>2
        <4>9. GrownTo(topo, Append(b, n), n, ns)
          BY <4>3, <4>6, <4>7, <4>8 DEF GrownTo
        <4> QED
          BY <3>2, <3>4, <4>2, <4>6, <4>9
      <3> QED
        BY <3>3, <3>4
    <2>5. Good(n)
      BY <2>4
    <2> QED
      BY <2>2, <2>5
  <1> QED
    BY <1>2

(* The walk from a node starts there, and every edge leads further on.     *)
LEMMA WalkFrom ==
  ASSUME NEW ns, Tape(ns), NEW f, Visits(ns, f), NEW n \in 1 .. Len(ns), Plain(ns, n)
  PROVE  LET w == Reverse(f[n][<<>>])
         IN  WalkOK(w, ns) /\ w # <<>> /\ Head(w) = n /\ \A i \in 1 .. Len(w) : Plain(ns, w[i])
  <1>1. Len(ns) \in Nat /\ DOMAIN ns = 1 .. Len(ns)
    BY DEF Tape
  <1>2. PICK e \in Seq(1 .. Len(ns)) : e = <<>>
    <2>1. <<>> \in Seq(1 .. Len(ns))
      OBVIOUS
    <2> QED
      BY <2>1
  <1>3. Len(e) = 0 /\ TopoOK(e, ns) /\ n \notin ToSet(e)
    <2>1. Len(e) = 0
      BY <1>2
    <2>2. \A i \in 1 .. Len(e) : FALSE
      BY <2>1
    <2>3. n \notin ToSet(e)
      BY <2>2, InSet
    <2> QED
      BY <2>1, <2>2, <2>3 DEF TopoOK
  <1>4. PICK r : r = f[n][e]
    OBVIOUS
  <1>5. GrownTo(e, r, n, ns) /\ n \in ToSet(r)
    BY <1>3, <1>4, VisitGrows
  <1>6. r = Append(Below(ns, f, n, e), n)
    <2>1. f[n] = [w \in Seq(1 .. Len(ns)) |-> VisitStep(ns, f, n, w)]
      BY <1>1 DEF Visits
    <2>2. f[n][e] = VisitStep(ns, f, n, e)
      BY <2>1
    <2> QED
      BY <1>3, <1>4, <2>2, StepIs
  <1>7. PICK b : b = Below(ns, f, n, e)
    OBVIOUS
  <1>8. TopoOK(b, ns)
    <2>1. \A m \in 1 .. n - 1 : \A acc : TopoOK(acc, ns) /\ Plain(ns, m)
            => GrownTo(acc, f[m][acc], m, ns) /\ m \in ToSet(f[m][acc])
      <3>1. \A m \in 1 .. n - 1 : m \in 1 .. Len(ns)
        BY <1>1
      <3> QED
        BY <3>1, VisitGrows
    <2>2. GrownTo(e, b, n - 1, ns)
      BY <1>3, <1>7, <2>1, BelowGrows
    <2> QED
      BY <2>2 DEF GrownTo
  <1>9. b \in Seq(1 .. Len(ns)) /\ r = Append(b, n)
    BY <1>6, <1>7, <1>8 DEF TopoOK
  <1>10. r \in Seq(1 .. Len(ns)) /\ Len(r) \in Nat /\ Len(r) >= 1 /\ r[Len(r)] = n
    BY <1>9
  <1>11. TopoOK(r, ns)
    BY <1>5 DEF GrownTo
  <1>12. PICK w : w = Reverse(r)
    OBVIOUS
  <1>13. w = [i \in 1 .. Len(r) |-> r[(Len(r) - i) + 1]]
    BY <1>12 DEF Reverse
  <1>14. \A i \in 1 .. Len(r) : (Len(r) - i) + 1 \in 1 .. Len(r) /\ r[(Len(r) - i) + 1] \in 1 .. Len(ns)
    <2> TAKE i \in 1 .. Len(r)
    <2>1. PICK k \in Nat : k = Len(r)
      BY <1>10
    <2>2. i \in 1 .. k
      BY <2>1
    <2>3. (k - i) + 1 \in 1 .. k
      BY <2>2
    <2>4. PICK p \in 1 .. Len(r) : p = (Len(r) - i) + 1
      BY <2>1, <2>3, Zenon
    <2>5. r[p] \in 1 .. Len(ns)
      <3>1. r \in Seq(1 .. Len(ns)) /\ p \in 1 .. Len(r)
        BY <1>10
      <3> QED
        BY <3>1, ElementOfSeq
    <2> QED
      BY <2>4, <2>5, Zenon
  <1>15. /\ w \in Seq(1 .. Len(ns)) /\ Len(w) = Len(r)
         /\ \A i \in 1 .. Len(w) : w[i] = r[(Len(r) - i) + 1]
    BY <1>10, <1>13, <1>14
  <1>16. ASSUME NEW i \in 1 .. Len(w), NEW j \in 1 .. Len(w), w[i] = w[j] PROVE i = j
    <2>1. (Len(r) - i) + 1 = (Len(r) - j) + 1
      BY <1>11, <1>14, <1>15, <1>16 DEF TopoOK
    <2> QED
      BY <1>10, <1>15, <2>1
  <1>17. ASSUME NEW i \in 1 .. Len(w), NEW k \in 1 .. Len(ns[w[i]].edges), ns[w[i]].edges[k].kind = "node"
         PROVE  \E j \in i + 1 .. Len(w) : w[j] = ns[w[i]].edges[k].to
    <2>1. PICK p \in 1 .. Len(r) : p = (Len(r) - i) + 1 /\ w[i] = r[p]
      BY <1>14, <1>15
    <2>2. PICK q \in 1 .. p - 1 : r[q] = ns[r[p]].edges[k].to
      BY <1>11, <1>17, <2>1 DEF TopoOK
    <2>3. PICK j \in Int : j = (Len(r) - q) + 1
      <3>1. q \in Int /\ Len(r) \in Int
        BY <1>10
      <3>2. (Len(r) - q) + 1 \in Int
        BY <3>1
      <3> QED
        BY <3>2
    <2>4. j \in i + 1 .. Len(w) /\ j \in 1 .. Len(w) /\ (Len(r) - j) + 1 = q
      <3>1. PICK k2 \in Nat : k2 = Len(r) /\ k2 = Len(w)
        BY <1>10, <1>15
      <3>2. i \in 1 .. k2 /\ p = (k2 - i) + 1 /\ q \in 1 .. p - 1 /\ j = (k2 - q) + 1
        BY <2>1, <2>2, <2>3, <3>1
      <3>3. j \in i + 1 .. k2 /\ j \in 1 .. k2 /\ (k2 - j) + 1 = q
        BY <3>2
      <3> QED
        BY <3>1, <3>3
    <2>5. w[j] = r[q]
      BY <1>15, <2>4
    <2> QED
      BY <2>1, <2>2, <2>4, <2>5
  <1>18. \A i \in 1 .. Len(w) : Plain(ns, w[i])
    BY <1>11, <1>14, <1>15 DEF TopoOK
  <1>19. WalkOK(w, ns)
    BY <1>15, <1>16, <1>17 DEF WalkOK
  <1>20. 1 \in 1 .. Len(w) /\ w[1] = n
    <2>1. 1 \in 1 .. Len(w) /\ (Len(r) - 1) + 1 = Len(r)
      BY <1>10, <1>15
    <2>2. w[1] = r[(Len(r) - 1) + 1]
      BY <1>15, <2>1
    <2> QED
      BY <1>10, <2>1, <2>2
  <1>21. w # <<>> /\ Head(w) = n
    BY <1>15, <1>20
  <1> QED
    BY <1>2, <1>4, <1>12, <1>18, <1>19, <1>21

-----------------------------------------------------------------------------
(* Sums of gradients.                                                      *)

(* A slot holds an integer, counted as 0 when empty.                       *)
LEMMA GradTyped ==
  ASSUME NEW s \in Slots
  PROVE  GradOf(s) \in Int
  <1>1. CASE s = <<>>
    BY <1>1 DEF GradOf, NoGrad
  <1>2. ASSUME NEW g \in Int, s = <<g>> PROVE GradOf(s) \in Int
    <2>1. s # <<>> /\ s[1] = g
      BY <1>2
    <2> QED
      BY <2>1 DEF GradOf, NoGrad
  <1> QED
    BY <1>1, <1>2 DEF Slots, NoGrad

(* What a filled slot holds.                                               *)
LEMMA GradOfPair ==
  ASSUME NEW g
  PROVE  GradOf(<<g>>) = g
  <1>1. <<g>> # <<>> /\ <<g>>[1] = g
    OBVIOUS
  <1> QED
    BY <1>1 DEF GradOf, NoGrad

(* A filled slot is its one gradient.                                      *)
LEMMA SlotTyped ==
  ASSUME NEW s \in Slots, s # NoGrad
  PROVE  s[1] \in Int /\ GradOf(s) = s[1] /\ s = <<s[1]>>
  <1>1. PICK g \in Int : s = <<g>>
    BY DEF Slots
  <1>2. s[1] = g
    BY <1>1
  <1> QED
    BY <1>1, <1>2 DEF GradOf

(* A tape and the derivatives of its variables.                            *)
World(ns, ts) ==
  /\ ns \in Seq(NodeRecs) /\ ts \in Seq(Tangents) /\ Len(LeafVars) <= Len(ts)
  /\ \A n \in 1 .. Len(ns) : NodeOK(ns, n, Len(ts))
LeadsInto(e, ns, ts) ==
  /\ e \in Edges
  /\ e.kind = "node" => e.to \in 1 .. Len(ns)
  /\ e.kind = "slot" => e.to \in 1 .. Len(ts)
GradsOK(grads, ns) == grads \in [DOMAIN grads -> Int] /\ DOMAIN grads \subseteq 1 .. Len(ns)

(* A world's nodes are a tape.                                             *)
LEMMA TapeOf ==
  ASSUME NEW ns, NEW ts, World(ns, ts)
  PROVE  Tape(ns)
  BY DEF World, Tape, NodeOK

(* The parts of a node have their types.                                   *)
LEMMA NodeTyped ==
  ASSUME NEW ns \in Seq(NodeRecs), NEW n \in 1 .. Len(ns)
  PROVE  /\ ns[n] \in NodeRecs /\ ns[n].tan \in Tangents /\ ns[n].edges \in Seq(Edges)
         /\ ns[n].saved \in Seq(Int) /\ \A l \in Leaves : ns[n].tan[l] \in Int
  <1>1. ns[n] \in NodeRecs
    BY ElementOfSeq
  <1>2. ns[n].tan \in [Leaves -> Int]
    BY <1>1 DEF NodeRecs, Tangents
  <1> QED
    BY <1>1, <1>2 DEF NodeRecs, Tangents

(* The derivative along an edge is an integer.                             *)
LEMMA AlongTyped ==
  ASSUME NEW ns, NEW ts, World(ns, ts), NEW e, LeadsInto(e, ns, ts), NEW l \in Leaves
  PROVE  Along(e, ns, ts, l) \in Int
  <1>1. CASE e.kind = "node"
    <2>1. e.to \in 1 .. Len(ns) /\ ns \in Seq(NodeRecs)
      BY <1>1 DEF LeadsInto, World
    <2>2. ns[e.to].tan[l] \in Int
      BY <2>1, NodeTyped
    <2> QED
      BY <1>1, <2>2 DEF Along
  <1>2. CASE e.kind = "slot"
    <2>1. e.to \in 1 .. Len(ts) /\ ts \in Seq(Tangents)
      BY <1>2 DEF LeadsInto, World
    <2>2. ts[e.to] \in Tangents
      BY <2>1, ElementOfSeq
    <2>3. ts[e.to][l] \in Int
      BY <2>2 DEF Tangents
    <2> QED
      BY <1>2, <2>3 DEF Along
  <1> QED
    BY <1>1, <1>2 DEF Along

(* Gradients are held for finitely many nodes, and their sum is an         *)
(* integer.                                                                *)
LEMMA HeldTyped ==
  ASSUME NEW ns \in Seq(NodeRecs), NEW grads, GradsOK(grads, ns), NEW l \in Leaves
  PROVE  /\ IsFiniteSet(DOMAIN grads)
         /\ \A n \in DOMAIN grads : grads[n] \in Int /\ ns[n].tan[l] \in Int /\ grads[n] * ns[n].tan[l] \in Int
         /\ HeldFor(grads, ns, l) \in Int
  <1>1. IsFiniteSet(DOMAIN grads)
    <2>1. Len(ns) \in Int
      OBVIOUS
    <2>2. IsFiniteSet(1 .. Len(ns))
      BY <2>1, FS_Interval
    <2> QED
      BY <2>2, FS_Subset DEF GradsOK
  <1>2. \A n \in DOMAIN grads : grads[n] \in Int /\ ns[n].tan[l] \in Int
    BY NodeTyped DEF GradsOK
  <1>3. \A n \in DOMAIN grads : grads[n] * ns[n].tan[l] \in Int
    BY <1>2
  <1>4. PICK f : f = [n \in DOMAIN grads |-> grads[n] * ns[n].tan[l]]
    OBVIOUS
  <1>5. \A n \in DOMAIN grads : f[n] \in Int
    BY <1>3, <1>4
  <1>6. SumFunctionOnSet(f, DOMAIN grads) \in Int
    BY <1>1, <1>5, SumRemove
  <1> QED
    BY <1>1, <1>2, <1>3, <1>4, <1>6 DEF HeldFor, Weighed

(* Gradients without that of node n are gradients.                         *)
LEMMA HeldWithout ==
  ASSUME NEW ns \in Seq(NodeRecs), NEW grads, GradsOK(grads, ns), NEW n
  PROVE  GradsOK(Without(grads, n), ns) /\ DOMAIN Without(grads, n) = DOMAIN grads \ {n}
  <1>1. PICK D : D = DOMAIN grads
    OBVIOUS
  <1>2. PICK w : w = Without(grads, n)
    OBVIOUS
  <1>3. w = [m \in D \ {n} |-> grads[m]]
    BY <1>1, <1>2 DEF Without
  <1>4. DOMAIN w = D \ {n} /\ \A m \in D \ {n} : w[m] = grads[m]
    BY <1>3
  <1>5. GradsOK(w, ns)
    <2>1. \A m \in D \ {n} : grads[m] \in Int
      BY <1>1 DEF GradsOK
    <2>2. w \in [D \ {n} -> Int]
      BY <1>3, <2>1
    <2> QED
      BY <1>1, <1>4, <2>2 DEF GradsOK
  <1> QED
    BY <1>1, <1>2, <1>4, <1>5

(* Taking a node's gradient away takes its part of the sum away.           *)
LEMMA HeldLess ==
  ASSUME NEW ns, ns \in Seq(NodeRecs), NEW grads, GradsOK(grads, ns), NEW l, l \in Leaves, NEW n, n \in DOMAIN grads
  PROVE  HeldFor(grads, ns, l) = Weighed(grads, n, ns, l) + HeldFor(Without(grads, n), ns, l)
  <1>1. PICK D : D = DOMAIN grads
    OBVIOUS
  <1>2. PICK w : w = Without(grads, n)
    OBVIOUS
  <1>3. w = [m \in D \ {n} |-> grads[m]]
    BY <1>1, <1>2 DEF Without
  <1>4. DOMAIN w = D \ {n} /\ \A m \in D \ {n} : w[m] = grads[m]
    BY <1>3
  <1>5. PICK f : f = [m \in D |-> Weighed(grads, m, ns, l)]
    OBVIOUS
  <1>6. PICK h : h = [m \in D \ {n} |-> Weighed(w, m, ns, l)]
    OBVIOUS
  <1>7. IsFiniteSet(D) /\ \A m \in D : f[m] \in Int
    BY <1>1, <1>5, HeldTyped DEF Weighed
  <1>8. SumFunctionOnSet(f, D) = f[n] + SumFunctionOnSet(f, D \ {n})
    BY <1>1, <1>7, SumRemove
  <1>9. SumFunctionOnSet(f, D \ {n}) = SumFunctionOnSet(h, D \ {n})
    <2>1. IsFiniteSet(D \ {n})
      BY <1>7, FS_RemoveElement
    <2>2. \A m \in D \ {n} : f[m] = h[m]
      BY <1>4, <1>5, <1>6 DEF Weighed
    <2> QED
      BY <2>1, <2>2, SumAgrees
  <1>10. HeldFor(grads, ns, l) = SumFunctionOnSet(f, D)
    BY <1>1, <1>5 DEF HeldFor
  <1>11. HeldFor(w, ns, l) = SumFunctionOnSet(h, D \ {n})
    BY <1>4, <1>6 DEF HeldFor
  <1>12. f[n] = Weighed(grads, n, ns, l)
    BY <1>1, <1>5
  <1> QED
    BY <1>1, <1>2, <1>8, <1>9, <1>10, <1>11, <1>12

(* Adding to a node's gradient leaves gradients (accumulate_into_edge).    *)
LEMMA GradsInto ==
  ASSUME NEW ns, ns \in Seq(NodeRecs), NEW grads, GradsOK(grads, ns), NEW n, n \in 1 .. Len(ns), NEW g, g \in Int
  PROVE  GradsOK(IntoNode(grads, n, g), ns)
  <1>1. PICK D : D = DOMAIN grads
    OBVIOUS
  <1>2. PICK w : w = IntoNode(grads, n, g)
    OBVIOUS
  <1>3. \A m \in D : grads[m] \in Int
    BY <1>1 DEF GradsOK
  <1>4. w \in [D \cup {n} -> Int]
    BY <1>1, <1>2, <1>3 DEF IntoNode
  <1>5. DOMAIN w = D \cup {n} /\ D \subseteq 1 .. Len(ns)
    BY <1>1, <1>4 DEF GradsOK
  <1> QED
    BY <1>2, <1>4, <1>5 DEF GradsOK

(* A gradient for node n counts with the node's derivative.                *)
LEMMA HeldInto ==
  ASSUME NEW ns, ns \in Seq(NodeRecs), NEW grads, GradsOK(grads, ns), NEW l, l \in Leaves,
         NEW n, n \in 1 .. Len(ns), NEW g, g \in Int
  PROVE  HeldFor(IntoNode(grads, n, g), ns, l) = HeldFor(grads, ns, l) + g * ns[n].tan[l]
  <1>1. PICK D : D = DOMAIN grads
    OBVIOUS
  <1>2. PICK w : w = IntoNode(grads, n, g)
    OBVIOUS
  <1>3. PICK old : old = IF n \in D THEN grads[n] ELSE 0
    OBVIOUS
  <1>4. w = [m \in D \cup {n} |-> IF m = n THEN g + old ELSE grads[m]]
    <2>1. CASE n \in D
      BY <1>1, <1>2, <1>3, <2>1 DEF IntoNode, GradsOK
    <2>2. CASE n \notin D
      BY <1>1, <1>2, <1>3, <2>2 DEF IntoNode
    <2> QED
      BY <2>1, <2>2
  <1>5. DOMAIN w = D \cup {n} /\ w[n] = g + old /\ \A m \in D \ {n} : w[m] = grads[m]
    BY <1>4
  <1>6. old \in Int /\ g + old \in Int /\ \A m \in D : grads[m] \in Int
    BY <1>1, <1>3 DEF GradsOK
  <1>7. GradsOK(w, ns)
    <2>1. w \in [D \cup {n} -> Int]
      BY <1>4, <1>6
    <2> QED
      BY <1>1, <1>5, <2>1 DEF GradsOK
  <1>8. Without(w, n) = Without(grads, n)
    BY <1>1, <1>5 DEF Without
  <1>9. HeldFor(w, ns, l) = w[n] * ns[n].tan[l] + HeldFor(Without(grads, n), ns, l)
    <2>1. n \in DOMAIN w
      BY <1>5
    <2>2. HeldFor(w, ns, l) = Weighed(w, n, ns, l) + HeldFor(Without(w, n), ns, l)
      BY <1>7, <2>1, HeldLess
    <2> QED
      BY <1>8, <2>2 DEF Weighed
  <1>10. ns[n].tan[l] \in Int
    BY NodeTyped
  <1>11. HeldFor(grads, ns, l) = old * ns[n].tan[l] + HeldFor(Without(grads, n), ns, l)
    <2>1. CASE n \in D
      <3>1. n \in DOMAIN grads /\ old = grads[n]
        BY <1>1, <1>3, <2>1
      <3>2. HeldFor(grads, ns, l) = Weighed(grads, n, ns, l) + HeldFor(Without(grads, n), ns, l)
        BY <3>1, HeldLess
      <3> QED
        BY <3>1, <3>2 DEF Weighed
    <2>2. CASE n \notin D
      <3>1. Without(grads, n) = grads
        <4>1. D \ {n} = D
          BY <2>2
        <4>2. grads = [m \in D |-> grads[m]]
          BY <1>1 DEF GradsOK
        <4> QED
          BY <1>1, <4>1, <4>2 DEF Without
      <3>2. HeldFor(grads, ns, l) \in Int
        BY HeldTyped
      <3>3. old * ns[n].tan[l] = 0
        BY <1>3, <1>10, <2>2
      <3> QED
        BY <3>1, <3>2, <3>3
    <2> QED
      BY <2>1, <2>2
  <1>12. HeldFor(Without(grads, n), ns, l) \in Int
    <2>1. GradsOK(Without(grads, n), ns)
      BY HeldWithout
    <2> QED
      BY <2>1, HeldTyped
  <1>13. PICK x \in Int : x = ns[n].tan[l]
    BY <1>10
  <1>14. (g + old) * x = g * x + old * x
    BY <1>6
  <1>15. g * x \in Int /\ old * x \in Int
    BY <1>6
  <1>16. HeldFor(w, ns, l) = HeldFor(grads, ns, l) + g * x
    BY <1>5, <1>9, <1>11, <1>12, <1>13, <1>14, <1>15
  <1> QED
    BY <1>2, <1>13, <1>16

(* A single gradient, for one node.                                        *)
LEMMA HeldOne ==
  ASSUME NEW ns \in Seq(NodeRecs), NEW l \in Leaves, NEW n \in 1 .. Len(ns), NEW g \in Int
  PROVE  /\ GradsOK([m \in {n} |-> g], ns) /\ DOMAIN [m \in {n} |-> g] = {n}
         /\ HeldFor([m \in {n} |-> g], ns, l) = g * ns[n].tan[l]
  <1>1. PICK w : w = [m \in {n} |-> g]
    OBVIOUS
  <1>2. w = [m \in {n} |-> g]
    BY <1>1
  <1>3. GradsOK(w, ns) /\ DOMAIN w = {n} /\ w[n] = g
    BY <1>2 DEF GradsOK
  <1>4. PICK f : f = [m \in {n} |-> w[m] * ns[m].tan[l]]
    OBVIOUS
  <1>5. f[n] = g * ns[n].tan[l] /\ ns[n].tan[l] \in Int
    BY <1>3, <1>4, NodeTyped
  <1>6. f[n] \in Int
    BY <1>5
  <1>7. SumFunctionOnSet(f, {n}) = f[n]
    BY <1>6, SumSingle
  <1>8. HeldFor(w, ns, l) = SumFunctionOnSet(f, {n})
    BY <1>3, <1>4 DEF HeldFor, Weighed
  <1> QED
    BY <1>1, <1>3, <1>5, <1>7, <1>8

(* Nothing is held for no nodes.                                           *)
LEMMA HeldNone ==
  ASSUME NEW ns, NEW l, NEW grads, DOMAIN grads = {}
  PROVE  HeldFor(grads, ns, l) = 0
  BY SumEmpty DEF HeldFor

-----------------------------------------------------------------------------
(* One frame.                                                              *)

(* The head of a walk, and what is left after it.                          *)
LEMMA WalkTail ==
  ASSUME NEW ns, ns \in Seq(NodeRecs), NEW w, WalkOK(w, ns), w # <<>>
  PROVE  /\ Head(w) \in 1 .. Len(ns) /\ Head(w) \in ToSet(w) /\ Head(w) = w[1] /\ 1 \in 1 .. Len(w)
         /\ WalkOK(Tail(w), ns) /\ ToSet(Tail(w)) = ToSet(w) \ {Head(w)}
         /\ \A i \in 1 .. Len(Tail(w)) : i + 1 \in 1 .. Len(w) /\ Tail(w)[i] = w[i + 1]
         /\ \A k \in 1 .. Len(ns[Head(w)].edges) :
              ns[Head(w)].edges[k].kind = "node" => ns[Head(w)].edges[k].to \in ToSet(Tail(w))
  <1>1. w \in Seq(1 .. Len(ns)) /\ Len(w) \in Nat /\ Len(w) >= 1
    BY DEF WalkOK
  <1>2. PICK u : u = Tail(w)
    OBVIOUS
  <1>3. u \in Seq(1 .. Len(ns)) /\ Len(u) \in Nat /\ Len(u) = Len(w) - 1 /\ Head(w) = w[1]
    BY <1>1, <1>2
  <1>4. \A i \in 1 .. Len(u) : i + 1 \in 1 .. Len(w) /\ u[i] = w[i + 1]
    BY <1>1, <1>2, <1>3, HeadTailProperties
  <1>5. 1 \in 1 .. Len(w)
    BY <1>1
  <1>6. Head(w) \in 1 .. Len(ns) /\ Head(w) \in ToSet(w)
    BY <1>1, <1>3, <1>5, InSet, ElementOfSeq
  <1>7. \A x : x \in ToSet(u) <=> \E i \in 1 .. Len(u) : u[i] = x
    BY <1>3, InSet
  <1>8. \A x : x \in ToSet(w) <=> \E i \in 1 .. Len(w) : w[i] = x
    BY <1>1, InSet
  <1>9. \A j \in 1 .. Len(w) : j # 1 => j - 1 \in 1 .. Len(u) /\ u[j - 1] = w[j]
    <2> TAKE j \in 1 .. Len(w)
    <2> HAVE j # 1
    <2>1. j - 1 \in 1 .. Len(u)
      BY <1>1, <1>3
    <2>2. u[j - 1] = w[(j - 1) + 1] /\ (j - 1) + 1 = j
      BY <1>4, <2>1
    <2> QED
      BY <2>1, <2>2
  <1>10. \A i, j \in 1 .. Len(w) : w[i] = w[j] => i = j
    BY DEF WalkOK
  <1>11. ToSet(u) = ToSet(w) \ {Head(w)}
    <2>1. ASSUME NEW x \in ToSet(u) PROVE x \in ToSet(w) /\ x # Head(w)
      <3>1. PICK i \in 1 .. Len(u) : u[i] = x
        BY <1>7
      <3>2. i + 1 \in 1 .. Len(w) /\ w[i + 1] = x /\ i + 1 # 1
        BY <1>4, <3>1
      <3> QED
        BY <1>3, <1>5, <1>8, <1>10, <3>2
    <2>2. ASSUME NEW x \in ToSet(w), x # Head(w) PROVE x \in ToSet(u)
      <3>1. PICK j \in 1 .. Len(w) : w[j] = x
        BY <1>8
      <3>2. j # 1
        BY <1>3, <2>2, <3>1
      <3> QED
        BY <1>7, <1>9, <3>1, <3>2
    <2> QED
      BY <2>1, <2>2
  <1>12. ASSUME NEW i \in 1 .. Len(w), NEW k \in 1 .. Len(ns[w[i]].edges), ns[w[i]].edges[k].kind = "node"
         PROVE  \E j \in i .. Len(u) : j \in 1 .. Len(u) /\ u[j] = ns[w[i]].edges[k].to
    <2>1. PICK j \in i + 1 .. Len(w) : w[j] = ns[w[i]].edges[k].to
      BY <1>12 DEF WalkOK
    <2>2. j \in 1 .. Len(w) /\ j # 1 /\ j - 1 \in i .. Len(u)
      BY <1>1, <1>3, <2>1
    <2> QED
      BY <1>9, <2>1, <2>2
  <1>13. WalkOK(u, ns)
    <2>1. ASSUME NEW i \in 1 .. Len(u), NEW j \in 1 .. Len(u), u[i] = u[j] PROVE i = j
      <3>1. i + 1 \in 1 .. Len(w) /\ j + 1 \in 1 .. Len(w) /\ w[i + 1] = w[j + 1]
        BY <1>4, <2>1
      <3>2. i + 1 = j + 1
        BY <1>10, <3>1
      <3> QED
        BY <3>2
    <2>2. ASSUME NEW i \in 1 .. Len(u), NEW k \in 1 .. Len(ns[u[i]].edges), ns[u[i]].edges[k].kind = "node"
          PROVE  \E j \in i + 1 .. Len(u) : u[j] = ns[u[i]].edges[k].to
      <3>1. PICK p \in 1 .. Len(w) : p = i + 1 /\ u[i] = w[p]
        BY <1>4
      <3>2. PICK j \in p .. Len(u) : u[j] = ns[w[p]].edges[k].to
        BY <1>12, <2>2, <3>1
      <3> QED
        BY <3>1, <3>2
    <2> QED
      BY <1>3, <2>1, <2>2 DEF WalkOK
  <1>14. ASSUME NEW k \in 1 .. Len(ns[Head(w)].edges), ns[Head(w)].edges[k].kind = "node"
         PROVE  ns[Head(w)].edges[k].to \in ToSet(u)
    <2>1. PICK i \in 1 .. Len(w) : i = 1 /\ w[i] = Head(w)
      BY <1>3, <1>5
    <2>2. \E j \in i .. Len(u) : j \in 1 .. Len(u) /\ u[j] = ns[w[i]].edges[k].to
      BY <1>12, <1>14, <2>1
    <2> QED
      BY <1>7, <2>1, <2>2
  <1> QED
    BY <1>2, <1>3, <1>4, <1>5, <1>6, <1>11, <1>13, <1>14

(* The slots that exist.                                                   *)
Known(slots, ts) == slots \subseteq 1 .. Len(ts)

(* A frame's gradients are gradients of the tape.                          *)
LEMMA FrameGrads ==
  ASSUME NEW ns, ns \in Seq(NodeRecs), NEW slots, NEW f, FrameOK(f, ns, slots)
  PROVE  GradsOK(f.grads, ns)
  <1>1. f.walk \in Seq(1 .. Len(ns)) /\ DOMAIN f.grads \subseteq ToSet(f.walk)
    BY DEF FrameOK, WalkOK
  <1>2. ToSet(f.walk) \subseteq 1 .. Len(ns)
    BY <1>1, InSet, ElementOfSeq
  <1> QED
    BY <1>1, <1>2 DEF FrameOK, GradsOK

(* What a frame has yet to hand out goes along edges of the tape.          *)
LEMMA TodoLeads ==
  ASSUME NEW ns, NEW ts, World(ns, ts), NEW slots, Known(slots, ts), NEW f, FrameOK(f, ns, slots),
         NEW i, i \in 1 .. Len(f.todo)
  PROVE  LeadsInto(f.todo[i].edge, ns, ts) /\ f.todo[i].g \in Slots /\ f.todo[i] \in Handed
  <1>1. f.walk \in Seq(1 .. Len(ns)) /\ f.todo \in Seq(Handed)
    BY DEF FrameOK, WalkOK
  <1>2. ToSet(f.walk) \subseteq 1 .. Len(ns)
    BY <1>1, InSet, ElementOfSeq
  <1>3. f.todo[i] \in Handed
    BY <1>1, ElementOfSeq
  <1>4. f.todo[i].edge \in Edges /\ f.todo[i].g \in Slots
    BY <1>3 DEF Handed
  <1>5. /\ f.todo[i].edge.kind = "node" => f.todo[i].edge.to \in ToSet(f.walk)
        /\ f.todo[i].edge.kind = "slot" => f.todo[i].edge.to \in slots
    BY DEF FrameOK
  <1> QED
    BY <1>2, <1>3, <1>4, <1>5 DEF LeadsInto, Known

(* What is due along an edge is an integer.                                *)
LEMMA DueTyped ==
  ASSUME NEW ns, NEW ts, World(ns, ts), NEW h, LeadsInto(h.edge, ns, ts), h.g \in Slots, NEW l, l \in Leaves
  PROVE  Due(h, ns, ts, l) \in Int
  <1>1. GradOf(h.g) \in Int /\ Along(h.edge, ns, ts, l) \in Int
    BY GradTyped, AlongTyped
  <1> QED
    BY <1>1 DEF Due

(* What a frame has yet to hand out is an integer.                         *)
LEMMA DueAllTyped ==
  ASSUME NEW ns, NEW ts, World(ns, ts), NEW slots, Known(slots, ts), NEW f, FrameOK(f, ns, slots), NEW l, l \in Leaves
  PROVE  DueAll(f.todo, ns, ts, l) \in Int
  <1>1. \A i \in 1 .. Len(f.todo) : Due(f.todo[i], ns, ts, l) \in Int
    BY TodoLeads, DueTyped
  <1>2. f.todo \in Seq(Handed)
    BY DEF FrameOK
  <1>3. Len(f.todo) >= 1 => Due(f.todo[1], ns, ts, l) \in Int
    BY <1>1, <1>2
  <1>4. Len(f.todo) >= 2 => Due(f.todo[2], ns, ts, l) \in Int
    BY <1>1, <1>2
  <1> QED
    BY <1>3, <1>4 DEF DueAll

(* What fresh leaves received is an integer.                               *)
LEMMA GotAllTyped ==
  ASSUME NEW ts, ts \in Seq(Tangents), NEW gs, gs \in Seq(Slots), Len(gs) = Len(ts),
         NEW fresh, fresh \in Seq(1 .. Len(ts)), NEW l, l \in Leaves
  PROVE  GotAll(fresh, ts, gs, l) \in Int /\ \A i \in 1 .. Len(fresh) : Got(fresh[i], ts, gs, l) \in Int
  <1>1. ASSUME NEW i \in 1 .. Len(fresh) PROVE Got(fresh[i], ts, gs, l) \in Int
    <2>1. PICK v \in 1 .. Len(ts) : v = fresh[i]
      BY ElementOfSeq
    <2>2. ts[v] \in Tangents /\ gs[v] \in Slots
      BY ElementOfSeq
    <2>3. ts[v][l] \in Int /\ GradOf(gs[v]) \in Int
      BY <2>2, GradTyped DEF Tangents
    <2> QED
      BY <2>1, <2>3 DEF Got
  <1>2. Len(fresh) >= 1 => Got(fresh[1], ts, gs, l) \in Int
    BY <1>1
  <1>3. Len(fresh) >= 2 => Got(fresh[2], ts, gs, l) \in Int
    BY <1>1
  <1> QED
    BY <1>1, <1>2, <1>3 DEF GotAll

(* What a frame owes is an integer.                                        *)
LEMMA FrameOwesTyped ==
  ASSUME NEW ns, NEW ts, World(ns, ts), NEW slots, Known(slots, ts), NEW f, FrameOK(f, ns, slots),
         NEW gs, gs \in Seq(Slots), Len(gs) = Len(ts), f.fresh \in Seq(1 .. Len(ts)), NEW l, l \in Leaves
  PROVE  FrameOwes(f, ns, ts, gs, l) \in Int
  <1>1. ns \in Seq(NodeRecs) /\ ts \in Seq(Tangents)
    BY DEF World
  <1>2. HeldFor(f.grads, ns, l) \in Int
    <2>1. GradsOK(f.grads, ns)
      BY <1>1, FrameGrads
    <2> QED
      BY <1>1, <2>1, HeldTyped
  <1>3. DueAll(f.todo, ns, ts, l) \in Int
    BY DueAllTyped
  <1>4. GotAll(f.fresh, ts, gs, l) \in Int
    BY <1>1, GotAllTyped
  <1> QED
    BY <1>2, <1>3, <1>4 DEF FrameOwes

(* Gradients of the tape are gradients.                                    *)
LEMMA GradsIn ==
  ASSUME NEW ns, ns \in Seq(NodeRecs), NEW grads, GradsOK(grads, ns)
  PROVE  grads \in Grads
  <1>1. PICK D : D = DOMAIN grads
    OBVIOUS
  <1>2. grads \in [D -> Int] /\ D \subseteq 1 .. Len(ns) /\ Len(ns) \in Nat
    BY <1>1 DEF GradsOK
  <1>3. D \in SUBSET Nat
    BY <1>2
  <1> QED
    BY <1>2, <1>3 DEF Grads

(* A frame that takes the place of f on top of a stack.                    *)
FrameStep(f, f2, ns, slots) ==
  /\ f2 \in Frames /\ FrameOK(f2, ns, slots)
  /\ f2.fresh = f.fresh /\ ToSet(f2.walk) \subseteq ToSet(f.walk)

(* The node at the head of the walk has no gradient, or no longer has one, *)
(* and hands something to each of its edges.                               *)
HandsOver(handed, es) ==
  /\ handed \in Seq(Handed) /\ Len(handed) = Len(es) /\ Len(handed) <= 2
  /\ \A i \in 1 .. Len(handed) : handed[i].edge = es[i]

(* The node at the head is done and hands something to each edge           *)
(* (Deliver).                                                              *)
LEMMA DeliverFrame ==
  ASSUME NEW ns, ns \in Seq(NodeRecs), NEW slots, NEW f, f \in Frames, FrameOK(f, ns, slots),
         f.walk # <<>>, Head(f.walk) \notin DOMAIN f.grads,
         NEW handed, HandsOver(handed, ns[Head(f.walk)].edges)
  PROVE  /\ FrameStep(f, Deliver(f, handed), ns, slots)
         /\ Deliver(f, handed).grads = f.grads /\ Deliver(f, handed).todo = handed
  <1>1. PICK f2 : f2 = Deliver(f, handed)
    OBVIOUS
  <1>2. PICK w : w = f.walk
    OBVIOUS
  <1>3. WalkOK(w, ns) /\ w # <<>>
    BY <1>2 DEF FrameOK
  <1>4. /\ Head(w) \in 1 .. Len(ns) /\ Head(w) = w[1] /\ 1 \in 1 .. Len(w)
        /\ WalkOK(Tail(w), ns) /\ ToSet(Tail(w)) = ToSet(w) \ {Head(w)}
        /\ \A i \in 1 .. Len(Tail(w)) : i + 1 \in 1 .. Len(w) /\ Tail(w)[i] = w[i + 1]
        /\ \A k \in 1 .. Len(ns[Head(w)].edges) :
             ns[Head(w)].edges[k].kind = "node" => ns[Head(w)].edges[k].to \in ToSet(Tail(w))
    BY <1>3, WalkTail
  <1>5. handed \in Seq(Handed) /\ Len(handed) <= 2 /\ Len(handed) = Len(ns[Head(w)].edges)
        /\ \A i \in 1 .. Len(handed) : handed[i].edge = ns[Head(w)].edges[i]
    BY <1>2 DEF HandsOver
  <1>6. f2 = [f EXCEPT !.walk = Tail(w), !.todo = handed]
    BY <1>1, <1>2 DEF Deliver
  <1>7. f2.walk = Tail(w) /\ f2.todo = handed /\ f2.grads = f.grads /\ f2.fresh = f.fresh
    BY <1>6 DEF Frames
  <1>8. f2 \in Frames
    <2>1. w \in Seq(Nat) /\ w # <<>>
      BY <1>2, <1>3 DEF Frames
    <2>2. Tail(w) \in Seq(Nat)
      BY <2>1
    <2> QED
      BY <1>5, <1>6, <2>2 DEF Frames
  <1>9. \A i \in 1 .. Len(w) : \A k \in 1 .. Len(ns[w[i]].edges) :
          ns[w[i]].edges[k].kind = "slot" => ns[w[i]].edges[k].to \in slots
    BY <1>2 DEF FrameOK
  <1>10. \A i \in 1 .. Len(handed) :
           /\ handed[i].edge.kind = "node" => handed[i].edge.to \in ToSet(Tail(w))
           /\ handed[i].edge.kind = "slot" => handed[i].edge.to \in slots
    <2>1. PICK c : c = Head(w)
      OBVIOUS
    <2>2. \A k \in 1 .. Len(ns[c].edges) : ns[c].edges[k].kind = "slot" => ns[c].edges[k].to \in slots
      BY <1>4, <1>9, <2>1
    <2> QED
      BY <1>4, <1>5, <2>1, <2>2
  <1>11. DOMAIN f.grads \subseteq ToSet(Tail(w)) /\ f.grads \in [DOMAIN f.grads -> Int]
    BY <1>2, <1>4 DEF FrameOK
  <1>12. FrameOK(f2, ns, slots)
    <2>1. \A i \in 1 .. Len(Tail(w)) : \A k \in 1 .. Len(ns[Tail(w)[i]].edges) :
            ns[Tail(w)[i]].edges[k].kind = "slot" => ns[Tail(w)[i]].edges[k].to \in slots
      BY <1>4, <1>9
    <2> QED
      BY <1>4, <1>5, <1>7, <1>10, <1>11, <2>1 DEF FrameOK
  <1> QED
    BY <1>1, <1>2, <1>4, <1>7, <1>8, <1>12 DEF FrameStep

(* Only the gradients held, or what is to be handed out, change.           *)
Holding(f, grads, todo) == [f EXCEPT !.grads = grads, !.todo = todo]

(* A frame with other gradients, or other edges to serve, is still sound.  *)
LEMMA GradsFrame ==
  ASSUME NEW ns, ns \in Seq(NodeRecs), NEW slots, NEW f, f \in Frames, FrameOK(f, ns, slots),
         NEW f2, NEW grads, NEW todo, f2 = Holding(f, grads, todo),
         GradsOK(grads, ns), DOMAIN grads \subseteq ToSet(f.walk),
         todo \in Seq(Handed), Len(todo) <= 2,
         \A i \in 1 .. Len(todo) :
            /\ todo[i].edge.kind = "node" => todo[i].edge.to \in ToSet(f.walk)
            /\ todo[i].edge.kind = "slot" => todo[i].edge.to \in slots
  PROVE  /\ FrameStep(f, f2, ns, slots)
         /\ f2.walk = f.walk /\ f2.grads = grads /\ f2.todo = todo /\ f2.fresh = f.fresh
  <1>1. f2.walk = f.walk /\ f2.todo = todo /\ f2.grads = grads /\ f2.fresh = f.fresh
    BY DEF Frames, Holding
  <1>2. grads \in Grads
    BY GradsIn
  <1>3. f2 \in Frames
    BY <1>2 DEF Frames, Holding
  <1>4. grads \in [DOMAIN grads -> Int]
    BY DEF GradsOK
  <1>5. FrameOK(f2, ns, slots)
    BY <1>1, <1>4 DEF FrameOK
  <1> QED
    BY <1>1, <1>3, <1>5 DEF FrameStep

(* Skip: a node that no path reached.                                      *)
Skipped(f) == [f EXCEPT !.walk = Tail(@)]

(* A node that no path reached is passed over (Skip).                      *)
LEMMA SkipFrame ==
  ASSUME NEW ns, ns \in Seq(NodeRecs), NEW slots, NEW f, f \in Frames, FrameOK(f, ns, slots),
         f.walk # <<>>, Head(f.walk) \notin DOMAIN f.grads,
         NEW f2, f2 = Skipped(f), f.todo = <<>>
  PROVE  FrameStep(f, f2, ns, slots) /\ f2.grads = f.grads /\ f2.todo = f.todo
  <1>2. PICK w : w = f.walk
    OBVIOUS
  <1>3. WalkOK(w, ns) /\ w # <<>>
    BY <1>2 DEF FrameOK
  <1>4. /\ WalkOK(Tail(w), ns) /\ ToSet(Tail(w)) = ToSet(w) \ {Head(w)}
        /\ \A i \in 1 .. Len(Tail(w)) : i + 1 \in 1 .. Len(w) /\ Tail(w)[i] = w[i + 1]
    BY <1>3, WalkTail
  <1>6. f2 = [f EXCEPT !.walk = Tail(w)]
    BY <1>2 DEF Skipped
  <1>7. f2.walk = Tail(w) /\ f2.todo = <<>> /\ f2.grads = f.grads /\ f2.fresh = f.fresh
    BY <1>6 DEF Frames
  <1>8. f2 \in Frames
    <2>1. w \in Seq(Nat) /\ w # <<>>
      BY <1>2, <1>3 DEF Frames
    <2>2. Tail(w) \in Seq(Nat)
      BY <2>1
    <2> QED
      BY <1>6, <2>2 DEF Frames
  <1>9. \A i \in 1 .. Len(w) : \A k \in 1 .. Len(ns[w[i]].edges) :
          ns[w[i]].edges[k].kind = "slot" => ns[w[i]].edges[k].to \in slots
    BY <1>2 DEF FrameOK
  <1>11. DOMAIN f.grads \subseteq ToSet(Tail(w)) /\ f.grads \in [DOMAIN f.grads -> Int]
    BY <1>2, <1>4 DEF FrameOK
  <1>12. FrameOK(f2, ns, slots)
    <2>1. \A i \in 1 .. Len(Tail(w)) : \A k \in 1 .. Len(ns[Tail(w)[i]].edges) :
            ns[Tail(w)[i]].edges[k].kind = "slot" => ns[Tail(w)[i]].edges[k].to \in slots
      BY <1>4, <1>9
    <2>2. <<>> \in Seq(Handed) /\ Len(<<>>) = 0
      OBVIOUS
    <2>3. PICK todo \in Seq(Handed) : todo = <<>>
      BY <2>2, Zenon
    <2>4. Len(todo) <= 2 /\ \A i \in 1 .. Len(todo) : FALSE
      BY <2>2, <2>3
    <2>5. f2.walk = Tail(w) /\ f2.todo = todo /\ f2.grads = f.grads
      BY <1>7, <2>3
    <2>6. WalkOK(f2.walk, ns)
      BY <1>4, <2>5
    <2> QED
      BY <1>11, <2>1, <2>3, <2>4, <2>5, <2>6, ZenonT(60) DEF FrameOK
  <1> QED
    BY <1>2, <1>4, <1>7, <1>8, <1>12 DEF FrameStep
-----------------------------------------------------------------------------
(* What the steps of a frame do to what it owes.                           *)

(* What a node hands out by the chain rule is what it was handed.          *)
LEMMA Distributes ==
  ASSUME NEW g \in Int, NEW a \in Int, NEW b \in Int, NEW x \in Int, NEW y \in Int
  PROVE  g * (b * x + a * y) = (g * b) * x + (g * a) * y /\ g * (x + y) = g * x + g * y
  OBVIOUS

(* What is due, for none, one and two edges.                               *)
LEMMA DueBySize ==
  ASSUME NEW td, NEW ns, NEW ts, NEW l
  PROVE  /\ Len(td) = 0 => DueAll(td, ns, ts, l) = 0
         /\ Len(td) = 1 /\ Due(td[1], ns, ts, l) \in Int => DueAll(td, ns, ts, l) = Due(td[1], ns, ts, l)
         /\ Len(td) = 2 => DueAll(td, ns, ts, l) = Due(td[1], ns, ts, l) + Due(td[2], ns, ts, l)
  BY DEF DueAll

(* What was received, for no, one and two fresh leaves.                    *)
LEMMA GotBySize ==
  ASSUME NEW fresh, NEW ts, NEW gs, NEW l
  PROVE  /\ Len(fresh) = 0 => GotAll(fresh, ts, gs, l) = 0
         /\ Len(fresh) = 1 /\ Got(fresh[1], ts, gs, l) \in Int => GotAll(fresh, ts, gs, l) = Got(fresh[1], ts, gs, l)
         /\ Len(fresh) = 2 => GotAll(fresh, ts, gs, l) = Got(fresh[1], ts, gs, l) + Got(fresh[2], ts, gs, l)
  BY DEF GotAll

(* Apply: what the node hands to its two edges.                            *)
HandedBy(node, g) == [i \in 1 .. 2 |-> [edge |-> node.edges[i], g |-> <<InputGrads(node, g)[i]>>]]

(* add and mul hand a gradient to each of their two edges (Node::apply).   *)
LEMMA ApplyHands ==
  ASSUME NEW ns, NEW ts, World(ns, ts), NEW c, c \in 1 .. Len(ns), ns[c].op # "ckpt", NEW g, g \in Int
  PROVE  /\ HandsOver(HandedBy(ns[c], g), ns[c].edges)
         /\ Len(ns[c].edges) = 2 /\ Len(HandedBy(ns[c], g)) = 2
         /\ ns[c].saved[1] \in Int /\ ns[c].saved[2] \in Int
         /\ InputGrads(ns[c], g)[1] \in Int /\ InputGrads(ns[c], g)[2] \in Int
         /\ LeadsInto(ns[c].edges[1], ns, ts) /\ LeadsInto(ns[c].edges[2], ns, ts)
  <1>1. ns \in Seq(NodeRecs) /\ ts \in Seq(Tangents) /\ NodeOK(ns, c, Len(ts)) /\ Len(ns) \in Nat
    BY DEF World
  <1>2. ns[c].edges \in Seq(Edges) /\ ns[c].saved \in Seq(Int)
    BY <1>1, NodeTyped
  <1>3. Len(ns[c].edges) = 2 /\ Len(ns[c].saved) = 2
    BY <1>1 DEF NodeOK
  <1>4. PICK a \in Int : a = ns[c].saved[1]
    BY <1>2, <1>3, ElementOfSeq
  <1>5. PICK b \in Int : b = ns[c].saved[2]
    BY <1>2, <1>3, ElementOfSeq
  <1>6. PICK e : e = ns[c].edges
    OBVIOUS
  <1>7. e[1] \in Edges /\ e[2] \in Edges
    BY <1>2, <1>3, <1>6, ElementOfSeq
  <1>8. PICK gs : gs = InputGrads(ns[c], g)
    OBVIOUS
  <1>9. g * a \in Int /\ g * b \in Int
    OBVIOUS
  <1>10. gs[1] \in Int /\ gs[2] \in Int
    <2>1. CASE ns[c].op = "add"
      <3>1. gs = <<g, g>>
        BY <1>8, <2>1 DEF InputGrads
      <3> QED
        BY <3>1
    <2>2. CASE ns[c].op # "add"
      <3>1. gs = <<g * b, g * a>>
        BY <1>4, <1>5, <1>8, <2>2 DEF InputGrads
      <3>2. gs[1] = g * b /\ gs[2] = g * a
        BY <3>1
      <3> QED
        BY <1>9, <3>2
    <2> QED
      BY <2>1, <2>2
  <1>11. PICK handed : handed = [i \in 1 .. 2 |-> [edge |-> e[i], g |-> <<gs[i]>>]]
    OBVIOUS
  <1>12. handed = HandedBy(ns[c], g)
    BY <1>6, <1>8, <1>11 DEF HandedBy
  <1>13. handed \in Seq(Handed) /\ Len(handed) = 2 /\ \A i \in 1 .. 2 : handed[i].edge = e[i]
    <2>1. \A i \in 1 .. 2 : <<gs[i]>> \in Slots
      BY <1>10 DEF Slots
    <2>2. \A i \in 1 .. 2 : [edge |-> e[i], g |-> <<gs[i]>>] \in Handed
      BY <1>7, <2>1 DEF Handed
    <2>3. handed \in [1 .. 2 -> Handed]
      BY <1>11, <2>2
    <2> QED
      BY <1>11, <2>3
  <1>14. \A i \in 1 .. 2 : LeadsInto(e[i], ns, ts)
    <2>1. \A i \in 1 .. 2 : /\ e[i].kind = "node" => e[i].to \in 1 .. c - 1
                            /\ e[i].kind = "slot" => e[i].to \in 1 .. Len(ts)
      BY <1>1, <1>3, <1>6 DEF NodeOK
    <2>2. 1 .. c - 1 \subseteq 1 .. Len(ns)
      BY <1>1
    <2> QED
      BY <1>7, <2>1, <2>2 DEF LeadsInto
  <1> QED
    BY <1>3, <1>4, <1>5, <1>6, <1>8, <1>10, <1>12, <1>13, <1>14 DEF HandsOver

(* What add and mul hand out is owed as their own gradient was.            *)
LEMMA ApplyOwes ==
  ASSUME NEW ns, NEW ts, World(ns, ts), NEW c, c \in 1 .. Len(ns), ns[c].op # "ckpt", NEW g, g \in Int,
         NEW vs, NodeTan(ns, c, vs, ts), NEW l, l \in Leaves
  PROVE  DueAll(HandedBy(ns[c], g), ns, ts, l) = g * ns[c].tan[l]
  <1>1. /\ Len(HandedBy(ns[c], g)) = 2
        /\ LeadsInto(ns[c].edges[1], ns, ts) /\ LeadsInto(ns[c].edges[2], ns, ts)
    BY ApplyHands
  <1>2. PICK a \in Int : a = ns[c].saved[1]
    BY ApplyHands
  <1>3. PICK b \in Int : b = ns[c].saved[2]
    BY ApplyHands
  <1>4. PICK x \in Int : x = Along(ns[c].edges[1], ns, ts, l)
    BY <1>1, AlongTyped
  <1>5. PICK y \in Int : y = Along(ns[c].edges[2], ns, ts, l)
    BY <1>1, AlongTyped
  <1>6. PICK gs : gs = InputGrads(ns[c], g)
    OBVIOUS
  <1>7. HandedBy(ns[c], g)[1] = [edge |-> ns[c].edges[1], g |-> <<gs[1]>>]
    BY <1>6 DEF HandedBy
  <1>8. HandedBy(ns[c], g)[2] = [edge |-> ns[c].edges[2], g |-> <<gs[2]>>]
    BY <1>6 DEF HandedBy
  <1>9. Due(HandedBy(ns[c], g)[1], ns, ts, l) = gs[1] * x
    BY <1>4, <1>7, GradOfPair DEF Due
  <1>10. Due(HandedBy(ns[c], g)[2], ns, ts, l) = gs[2] * y
    BY <1>5, <1>8, GradOfPair DEF Due
  <1>11. DueAll(HandedBy(ns[c], g), ns, ts, l) = gs[1] * x + gs[2] * y
    BY <1>1, <1>9, <1>10 DEF DueAll
  <1>12. ns[c].tan[l] = ChainRule(ns[c].op, a, b, x, y)
    BY <1>2, <1>3, <1>4, <1>5 DEF NodeTan
  <1>13. CASE ns[c].op = "add"
    <2>1. gs = <<g, g>> /\ ns[c].tan[l] = x + y
      BY <1>6, <1>12, <1>13 DEF InputGrads, ChainRule
    <2>2. gs[1] = g /\ gs[2] = g
      BY <2>1
    <2>3. g * (x + y) = g * x + g * y
      BY Distributes
    <2> QED
      BY <1>11, <2>1, <2>2, <2>3
  <1>14. CASE ns[c].op # "add"
    <2>1. gs = <<g * b, g * a>> /\ ns[c].tan[l] = b * x + a * y
      BY <1>2, <1>3, <1>6, <1>12, <1>14 DEF InputGrads, ChainRule
    <2>2. gs[1] = g * b /\ gs[2] = g * a
      BY <2>1
    <2>3. g * (b * x + a * y) = (g * b) * x + (g * a) * y
      BY Distributes
    <2>4. gs[1] * x + gs[2] * y = g * (b * x + a * y)
      BY <2>2, <2>3, Zenon
    <2> QED
      BY <1>11, <2>1, <2>4, Zenon
  <1> QED
    BY <1>13, <1>14

(* Return: what the fresh leaves received goes to the checkpoint's edges.  *)
HandedBack(es, fresh, gs) == [i \in DOMAIN fresh |-> [edge |-> es[i], g |-> gs[fresh[i]]]]

(* What the fresh leaves received is what the checkpoint's edges are owed. *)
LEMMA ReturnHands ==
  ASSUME NEW ns, NEW ts, World(ns, ts), NEW c, c \in 1 .. Len(ns), NEW gs, gs \in Seq(Slots), Len(gs) = Len(ts),
         NEW fresh, FreshOK(fresh, c, ns, ts)
  PROVE  /\ HandsOver(HandedBack(ns[c].edges, fresh, gs), ns[c].edges)
         /\ \A l \in Leaves : DueAll(HandedBack(ns[c].edges, fresh, gs), ns, ts, l) = GotAll(fresh, ts, gs, l)
  <1>1. ns \in Seq(NodeRecs) /\ NodeOK(ns, c, Len(ts))
    BY DEF World
  <1>2. PICK e : e = ns[c].edges
    OBVIOUS
  <1>3. e \in Seq(Edges) /\ Len(e) \in {1, 2}
    BY <1>1, <1>2, NodeTyped DEF NodeOK
  <1>4. fresh \in Seq(1 .. Len(ts)) /\ Len(fresh) = Len(e) /\ DOMAIN fresh = 1 .. Len(e)
    BY <1>2 DEF FreshOK
  <1>5. PICK handed : handed = HandedBack(e, fresh, gs)
    OBVIOUS
  <1>6. handed = [i \in 1 .. Len(e) |-> [edge |-> e[i], g |-> gs[fresh[i]]]]
    BY <1>4, <1>5 DEF HandedBack
  <1>7. \A i \in 1 .. Len(e) : e[i] \in Edges /\ gs[fresh[i]] \in Slots
    BY <1>3, <1>4, ElementOfSeq
  <1>8. handed \in Seq(Handed) /\ Len(handed) = Len(e)
    <2>1. \A i \in 1 .. Len(e) : [edge |-> e[i], g |-> gs[fresh[i]]] \in Handed
      BY <1>7 DEF Handed
    <2>2. handed \in [1 .. Len(e) -> Handed]
      BY <1>6, <2>1
    <2>3. Len(e) \in Nat
      BY <1>3
    <2> QED
      BY <2>2, <2>3
  <1>9. \A i \in 1 .. Len(e) : handed[i] = [edge |-> e[i], g |-> gs[fresh[i]]]
    BY <1>6
  <1>10. HandsOver(handed, e)
    <2>0. PICK k \in {1, 2} : k = Len(e)
      BY <1>3
    <2>1. Len(handed) = k /\ k <= 2
      BY <1>8, <2>0
    <2>2. \A i \in 1 .. Len(handed) : handed[i].edge = e[i]
      <3>1. \A i \in 1 .. Len(e) : handed[i].edge = e[i]
        BY <1>6
      <3> QED
        BY <1>8, <3>1, Zenon
    <2> QED
      BY <1>8, <2>1, <2>2 DEF HandsOver
  <1>11. ASSUME NEW l \in Leaves PROVE DueAll(handed, ns, ts, l) = GotAll(fresh, ts, gs, l)
    <2>1. \A i \in 1 .. Len(e) : ts[fresh[i]][l] = Along(e[i], ns, ts, l)
      BY <1>2, <1>4 DEF FreshOK
    <2>2. \A i \in 1 .. Len(e) : Due(handed[i], ns, ts, l) = Got(fresh[i], ts, gs, l)
      <3> SUFFICES ASSUME NEW i \in 1 .. Len(e) PROVE Due(handed[i], ns, ts, l) = Got(fresh[i], ts, gs, l)
        OBVIOUS
      <3>1. handed[i].edge = e[i] /\ handed[i].g = gs[fresh[i]]
        BY <1>6
      <3>2. Due(handed[i], ns, ts, l) = GradOf(gs[fresh[i]]) * Along(e[i], ns, ts, l)
        BY <3>1, Zenon DEF Due
      <3> QED
        BY <2>1, <3>2, Zenon DEF Got
    <2>3. gs \in Seq(Slots) /\ ts \in Seq(Tangents)
      BY DEF World
    <2>4. \A i \in 1 .. Len(e) : Got(fresh[i], ts, gs, l) \in Int
      BY <1>4, <2>3, GotAllTyped
    <2>5. CASE Len(e) = 1
      <3>1. Due(handed[1], ns, ts, l) = Got(fresh[1], ts, gs, l) /\ Got(fresh[1], ts, gs, l) \in Int
        BY <2>2, <2>4, <2>5
      <3> QED
        BY <1>4, <1>8, <2>5, <3>1, DueBySize, GotBySize
    <2>6. CASE Len(e) = 2
      <3>1. Due(handed[1], ns, ts, l) = Got(fresh[1], ts, gs, l) /\ Due(handed[2], ns, ts, l) = Got(fresh[2], ts, gs, l)
        BY <2>2, <2>6
      <3> QED
        BY <1>4, <1>8, <2>6, <3>1, DueBySize, GotBySize
    <2> QED
      BY <1>3, <2>5, <2>6
  <1> QED
    BY <1>2, <1>5, <1>10, <1>11

(* Accumulate: the next edge to be served.                                 *)
LEMMA TodoTail ==
  ASSUME NEW ns, NEW ts, World(ns, ts), NEW slots, Known(slots, ts), NEW f, FrameOK(f, ns, slots), f.todo # <<>>
  PROVE  /\ LeadsInto(Head(f.todo).edge, ns, ts) /\ Head(f.todo).g \in Slots
         /\ Head(f.todo).edge.kind = "node" => Head(f.todo).edge.to \in ToSet(f.walk)
         /\ Head(f.todo).edge.kind = "slot" => Head(f.todo).edge.to \in slots
         /\ Tail(f.todo) \in Seq(Handed) /\ Len(Tail(f.todo)) <= 2
         /\ \A i \in 1 .. Len(Tail(f.todo)) :
               /\ Tail(f.todo)[i].edge.kind = "node" => Tail(f.todo)[i].edge.to \in ToSet(f.walk)
               /\ Tail(f.todo)[i].edge.kind = "slot" => Tail(f.todo)[i].edge.to \in slots
         /\ \A l \in Leaves : /\ DueAll(Tail(f.todo), ns, ts, l) \in Int
                              /\ DueAll(f.todo, ns, ts, l) = Due(Head(f.todo), ns, ts, l) + DueAll(Tail(f.todo), ns, ts, l)
  <1>1. PICK td : td = f.todo
    OBVIOUS
  <1>2. td \in Seq(Handed) /\ Len(td) \in Nat /\ Len(td) >= 1 /\ Len(td) <= 2
    BY <1>1 DEF FrameOK
  <1>3. Head(td) = td[1] /\ Tail(td) \in Seq(Handed) /\ Len(Tail(td)) = Len(td) - 1
    BY <1>2
  <1>4. \A i \in 1 .. Len(Tail(td)) : i = 1 /\ Len(td) = 2 /\ Tail(td)[i] = td[2]
    BY <1>2, <1>3, HeadTailProperties
  <1>5. \A i \in 1 .. Len(td) :
          /\ td[i].edge.kind = "node" => td[i].edge.to \in ToSet(f.walk)
          /\ td[i].edge.kind = "slot" => td[i].edge.to \in slots
    BY <1>1 DEF FrameOK
  <1>6. \A i \in 1 .. Len(td) : LeadsInto(td[i].edge, ns, ts) /\ td[i].g \in Slots
    BY <1>1, TodoLeads
  <1>7. 1 \in 1 .. Len(td) /\ (Len(td) = 2 => 2 \in 1 .. Len(td))
    BY <1>2
  <1>8. ASSUME NEW l \in Leaves
        PROVE  /\ DueAll(Tail(td), ns, ts, l) \in Int
               /\ DueAll(td, ns, ts, l) = Due(Head(td), ns, ts, l) + DueAll(Tail(td), ns, ts, l)
    <2>1. Due(td[1], ns, ts, l) \in Int
      BY <1>6, <1>7, DueTyped
    <2>2. CASE Len(td) = 1
      <3>1. PICK u : u = Tail(td)
        OBVIOUS
      <3>2. Len(u) = 0
        BY <1>3, <2>2, <3>1
      <3>3. DueAll(u, ns, ts, l) = 0
        BY <3>2, DueBySize
      <3>4. DueAll(td, ns, ts, l) = Due(td[1], ns, ts, l)
        BY <2>1, <2>2, DueBySize
      <3> QED
        BY <1>3, <2>1, <3>1, <3>3, <3>4
    <2>3. CASE Len(td) = 2
      <3>0. Len(Tail(td)) = 1
        BY <1>2, <1>3, <2>3
      <3>1. Len(Tail(td)) = 1 /\ Tail(td)[1] = td[2]
        BY <1>4, <3>0
      <3>2. Due(td[2], ns, ts, l) \in Int
        BY <1>6, <1>7, <2>3, DueTyped
      <3>3. DueAll(Tail(td), ns, ts, l) = Due(td[2], ns, ts, l)
        BY <3>1, <3>2, DueBySize
      <3>4. DueAll(td, ns, ts, l) = Due(td[1], ns, ts, l) + Due(td[2], ns, ts, l)
        BY <2>3, DueBySize
      <3> QED
        BY <1>3, <3>2, <3>3, <3>4
    <2>4. PICK k \in Nat : k = Len(td) /\ k >= 1 /\ k <= 2
      BY <1>2, Zenon
    <2>5. k = 1 \/ k = 2
      BY <2>4
    <2>6. Len(td) = 1 \/ Len(td) = 2
      BY <2>4, <2>5, Zenon
    <2> QED
      BY <2>2, <2>3, <2>6
  <1> QED
    BY <1>1, <1>2, <1>3, <1>4, <1>5, <1>6, <1>7, <1>8
-----------------------------------------------------------------------------
(* One stack.                                                              *)

(* The slots that the topmost call may reach, and what is owed below it.   *)
TopSlots(fs) == IF Len(fs) = 2 THEN Wanted \cup {fs[2].fresh[1]} ELSE Wanted
Under(fs, ns, ts, l) ==
  IF Len(fs) = 2 THEN HeldFor(fs[1].grads, ns, l) + DueAll(fs[1].todo, ns, ts, l) ELSE 0

(* The assumption on the constants, in the form used.                      *)
LEMMA LeavesAre ==
  /\ Len(LeafVars) \in Nat /\ Leaves = 1 .. Len(LeafVars) /\ Wanted \subseteq Leaves /\ Captured \subseteq Leaves
  /\ IsFiniteSet(Thread)
  BY AgAssumption DEF Leaves, Wanted

(* The leaves have slots.                                                  *)
LEMMA WantedKnown ==
  ASSUME NEW ns, NEW ts, World(ns, ts)
  PROVE  Known(Wanted, ts) /\ Leaves \subseteq 1 .. Len(ts)
  <1>1. ts \in Seq(Tangents) /\ Len(LeafVars) <= Len(ts)
    BY DEF World
  <1>2. Leaves \subseteq 1 .. Len(ts)
    BY <1>1, LeavesAre
  <1> QED
    BY <1>2, LeavesAre DEF Known

(* A stack of calls that is not empty has one call or two.                 *)
LEMMA StackSize ==
  ASSUME NEW ns, NEW ts, NEW fs, fs \in Seq(Frames), fs # <<>>, StackOK(fs, ns, ts)
  PROVE  /\ Len(fs) = 1 \/ Len(fs) = 2
         /\ Last(fs) = fs[Len(fs)] /\ Last(fs) \in Frames /\ fs[1] \in Frames
  <1>1. PICK k \in Nat : k = Len(fs)
    OBVIOUS
  <1>2. k <= 2 /\ k >= 1
    BY <1>1 DEF StackOK
  <1>3. k = 1 \/ k = 2
    BY <1>2
  <1>4. fs[k] \in Frames /\ fs[1] \in Frames
    BY <1>1, <1>2, ElementOfSeq
  <1> QED
    BY <1>1, <1>3, <1>4 DEF Last

(* The topmost call is sound for the slots that it may reach.              *)
LEMMA StackTop ==
  ASSUME NEW ns, NEW ts, World(ns, ts), NEW fs, fs \in Seq(Frames), fs # <<>>, StackOK(fs, ns, ts)
  PROVE  /\ FrameOK(Last(fs), ns, TopSlots(fs)) /\ Known(TopSlots(fs), ts)
         /\ Last(fs).fresh \in Seq(1 .. Len(ts))
         /\ Len(fs) = 1 => Last(fs).fresh = <<>>
         /\ Len(fs) = 2 => Last(fs).fresh = fs[2].fresh /\ fs[2].fresh[1] \in 1 .. Len(ts) \ Leaves
                             /\ Len(fs[2].fresh) \in {1, 2} /\ Head(fs[1].walk) \in 1 .. Len(ns)
  <1>1. CASE Len(fs) = 1
    <2>0. FrameOK(fs[1], ns, Wanted) /\ fs[1].fresh = <<>>
      BY <1>1 DEF StackOK
    <2>1. Last(fs) = fs[1] /\ FrameOK(fs[1], ns, Wanted) /\ fs[1].fresh = <<>>
      BY <1>1, <2>0, StackSize
    <2>2. TopSlots(fs) = Wanted
      BY <1>1 DEF TopSlots
    <2>3. <<>> \in Seq(1 .. Len(ts))
      OBVIOUS
    <2> QED
      BY <1>1, <2>1, <2>2, <2>3, WantedKnown
  <1>2. CASE Len(fs) = 2
    <2>1. Last(fs) = fs[2] /\ TopSlots(fs) = Wanted \cup {fs[2].fresh[1]}
      BY <1>2, StackSize DEF TopSlots
    <2>2. PICK c : c = Head(fs[1].walk)
      OBVIOUS
    <2>3. /\ FrameOK(fs[1], ns, Wanted) /\ fs[1].walk # <<>>
          /\ FreshOK(fs[2].fresh, c, ns, ts) /\ FrameOK(fs[2], ns, Wanted \cup {fs[2].fresh[1]})
      BY <1>2, <2>2 DEF StackOK
    <2>4. c \in 1 .. Len(ns)
      <3>1. WalkOK(fs[1].walk, ns) /\ ns \in Seq(NodeRecs)
        BY <2>3 DEF FrameOK, World
      <3> QED
        BY <2>2, <2>3, <3>1, WalkTail, SMTT(30)
    <2>5. Len(ns[c].edges) \in {1, 2}
      BY <2>4 DEF World, NodeOK
    <2>6. PICK fresh : fresh = fs[2].fresh
      OBVIOUS
    <2>7. fresh \in Seq(1 .. Len(ts)) /\ Len(fresh) \in {1, 2} /\ \A i \in 1 .. Len(fresh) : fresh[i] \notin Leaves
      BY <2>3, <2>5, <2>6 DEF FreshOK
    <2>8. fresh[1] \in 1 .. Len(ts) /\ fresh[1] \notin Leaves
      <3>0. PICK k \in {1, 2} : k = Len(fresh)
        BY <2>7, Zenon
      <3>1. 1 \in 1 .. k
        BY <3>0
      <3> QED
        BY <2>7, <3>0, <3>1, ElementOfSeq
    <2>9. Known(Wanted \cup {fresh[1]}, ts)
      BY <2>8, WantedKnown DEF Known
    <2> QED
      BY <1>2, <2>1, <2>2, <2>3, <2>4, <2>6, <2>7, <2>8, <2>9
  <1> QED
    BY <1>1, <1>2, StackSize

(* What a stack owes is what its topmost call owes, and what is below it.  *)
LEMMA OwesTop ==
  ASSUME NEW ns, NEW ts, World(ns, ts), NEW fs, fs \in Seq(Frames), fs # <<>>, StackOK(fs, ns, ts),
         NEW gs, gs \in Seq(Slots), Len(gs) = Len(ts), NEW l, l \in Leaves
  PROVE  /\ Under(fs, ns, ts, l) \in Int /\ FrameOwes(Last(fs), ns, ts, gs, l) \in Int
         /\ Owes(fs, ns, ts, gs, l) = Under(fs, ns, ts, l) + FrameOwes(Last(fs), ns, ts, gs, l)
  <1>1. PICK top : top = FrameOwes(Last(fs), ns, ts, gs, l)
    OBVIOUS
  <1>2. top \in Int
    BY <1>1, StackTop, FrameOwesTyped
  <1>3. CASE Len(fs) = 1
    <2>1. Last(fs) = fs[1]
      BY <1>3, StackSize
    <2>2. Under(fs, ns, ts, l) = 0
      BY <1>3 DEF Under
    <2>3. Owes(fs, ns, ts, gs, l) = FrameOwes(fs[1], ns, ts, gs, l) + 0
      BY <1>3 DEF Owes
    <2> QED
      BY <1>1, <1>2, <2>1, <2>2, <2>3
  <1>4. CASE Len(fs) = 2
    <2>1. Last(fs) = fs[2]
      BY <1>4, StackSize
    <2>2. FrameOK(fs[1], ns, Wanted) /\ fs[1].fresh = <<>>
      BY <1>4 DEF StackOK
    <2>3. HeldFor(fs[1].grads, ns, l) \in Int /\ DueAll(fs[1].todo, ns, ts, l) \in Int
      <3>1. ns \in Seq(NodeRecs) /\ Known(Wanted, ts)
        BY WantedKnown DEF World
      <3>2. GradsOK(fs[1].grads, ns)
        BY <2>2, <3>1, FrameGrads
      <3> QED
        BY <2>2, <3>1, <3>2, HeldTyped, DueAllTyped
    <2>4. Under(fs, ns, ts, l) = HeldFor(fs[1].grads, ns, l) + DueAll(fs[1].todo, ns, ts, l)
      BY <1>4 DEF Under
    <2>5. GotAll(fs[1].fresh, ts, gs, l) = 0
      <3>1. Len(<<>>) = 0
        OBVIOUS
      <3> QED
        BY <2>2, <3>1, GotBySize
    <2>6. FrameOwes(fs[1], ns, ts, gs, l) = HeldFor(fs[1].grads, ns, l) + DueAll(fs[1].todo, ns, ts, l) + 0
      BY <2>5 DEF FrameOwes
    <2>7. Owes(fs, ns, ts, gs, l) = FrameOwes(fs[1], ns, ts, gs, l) + FrameOwes(fs[2], ns, ts, gs, l)
      BY <1>4 DEF Owes
    <2> QED
      BY <1>1, <1>2, <2>1, <2>3, <2>4, <2>6, <2>7
  <1> QED
    BY <1>3, <1>4, StackSize

(* What a stack owes is an integer, 0 when no call is under way.           *)
LEMMA OwesTyped ==
  ASSUME NEW ns, NEW ts, World(ns, ts), NEW fs, fs \in Seq(Frames), StackOK(fs, ns, ts),
         NEW gs, gs \in Seq(Slots), Len(gs) = Len(ts), NEW l, l \in Leaves
  PROVE  Owes(fs, ns, ts, gs, l) \in Int /\ (fs = <<>> => Owes(fs, ns, ts, gs, l) = 0)
  <1>1. CASE fs = <<>>
    <2>1. Len(fs) = 0
      BY <1>1
    <2>2. Owes(fs, ns, ts, gs, l) = 0 + 0
      BY <2>1 DEF Owes
    <2> QED
      BY <2>2
  <1>2. CASE fs # <<>>
    <2>1. /\ Under(fs, ns, ts, l) \in Int /\ FrameOwes(Last(fs), ns, ts, gs, l) \in Int
          /\ Owes(fs, ns, ts, gs, l) = Under(fs, ns, ts, l) + FrameOwes(Last(fs), ns, ts, gs, l)
      BY <1>2, OwesTop
    <2> QED
      BY <1>2, <2>1
  <1> QED
    BY <1>1, <1>2
OneOrTwo(fs) == Len(fs) = 1 \/ Len(fs) = 2
WithTop(fs, f2) == Append(Front(fs), f2)

(* Replacing the topmost call.                                             *)
LEMMA PutTop ==
  ASSUME NEW fs, fs \in Seq(Frames), OneOrTwo(fs), NEW f2, f2 \in Frames,
         NEW fs2, fs2 = WithTop(fs, f2)
  PROVE  /\ fs2 \in Seq(Frames) /\ fs2 # <<>> /\ Len(fs2) = Len(fs) /\ Last(fs2) = f2 /\ fs2[Len(fs)] = f2
         /\ Len(fs) = 2 => fs2[1] = fs[1]
         /\ Front(fs) \in Seq(Frames) /\ Len(Front(fs)) = Len(fs) - 1
         /\ Len(fs) = 2 => Last(Front(fs)) = fs[1]
  <1>1. PICK k \in Nat : k = Len(fs) /\ (k = 1 \/ k = 2)
    BY DEF OneOrTwo
  <1>2. PICK front : front = Front(fs)
    OBVIOUS
  <1>3. front = SubSeq(fs, 1, k - 1)
    BY <1>1, <1>2 DEF Front
  <1>4. 1 \in 1 .. Len(fs) + 1 /\ k - 1 \in 1 - 1 .. Len(fs)
    BY <1>1
  <1>5. front \in Seq(Frames) /\ Len(front) = k - 1 /\ (k = 2 => front[1] = fs[1])
    BY <1>1, <1>3, <1>4, SubSeqProperties
  <1>6. /\ fs2 \in Seq(Frames) /\ fs2 # <<>> /\ Len(fs2) = Len(front) + 1
        /\ (\A i \in 1 .. Len(front) : fs2[i] = front[i]) /\ fs2[Len(front) + 1] = f2
    BY <1>2, <1>5, AppendProperties DEF WithTop
  <1>7. Len(fs2) = k /\ fs2[k] = f2
    BY <1>1, <1>5, <1>6
  <1>8. k = 2 => fs2[1] = fs[1]
    BY <1>5, <1>6
  <1>9. Last(fs2) = f2
    BY <1>7 DEF Last
  <1>10. k = 2 => Last(front) = fs[1]
    BY <1>1, <1>5 DEF Last
  <1> QED
    BY <1>1, <1>2, <1>5, <1>6, <1>7, <1>8, <1>9, <1>10

(* A step of the topmost call leaves a sound stack, and what is below it   *)
(* as it was.                                                              *)
LEMMA TopReplaced ==
  ASSUME NEW ns, NEW ts, World(ns, ts), NEW fs, fs \in Seq(Frames), fs # <<>>, StackOK(fs, ns, ts),
         NEW f2, FrameStep(Last(fs), f2, ns, TopSlots(fs)), NEW fs2, fs2 = WithTop(fs, f2)
  PROVE  /\ fs2 \in Seq(Frames) /\ fs2 # <<>> /\ Len(fs2) = Len(fs) /\ Last(fs2) = f2
         /\ StackOK(fs2, ns, ts)
         /\ Len(fs) = 2 => fs2[2].fresh = fs[2].fresh
         /\ \A l : Under(fs2, ns, ts, l) = Under(fs, ns, ts, l)
  <1>1. /\ f2 \in Frames /\ FrameOK(f2, ns, TopSlots(fs))
        /\ f2.fresh = Last(fs).fresh /\ ToSet(f2.walk) \subseteq ToSet(Last(fs).walk)
    BY DEF FrameStep
  <1>2. Len(fs) = 1 \/ Len(fs) = 2
    BY StackSize
  <1>3. /\ fs2 \in Seq(Frames) /\ fs2 # <<>> /\ Len(fs2) = Len(fs) /\ Last(fs2) = f2 /\ fs2[Len(fs)] = f2
        /\ Len(fs) = 2 => fs2[1] = fs[1]
    <2>1. OneOrTwo(fs)
      BY <1>2 DEF OneOrTwo
    <2> QED
      BY <1>1, <2>1, PutTop
  <1>4. CASE Len(fs) = 1
    <2>1. fs2[1] = f2 /\ Len(fs2) = 1 /\ Last(fs) = fs[1]
      BY <1>3, <1>4, StackSize
    <2>2. FrameOK(f2, ns, Wanted)
      BY <1>1, <1>4 DEF TopSlots
    <2>3. f2.fresh = <<>>
      BY <1>1, <1>4, StackTop
    <2>4. StackOK(fs2, ns, ts)
      BY <2>1, <2>2, <2>3 DEF StackOK
    <2>5. \A l : Under(fs2, ns, ts, l) = 0 /\ Under(fs, ns, ts, l) = 0
      BY <1>4, <2>1 DEF Under
    <2> QED
      BY <1>3, <1>4, <2>4, <2>5
  <1>5. CASE Len(fs) = 2
    <2>1. fs2[2] = f2 /\ Len(fs2) = 2 /\ fs2[1] = fs[1] /\ Last(fs) = fs[2]
      BY <1>3, <1>5, StackSize
    <2>2. FrameOK(f2, ns, Wanted \cup {fs[2].fresh[1]})
      BY <1>1, <1>5 DEF TopSlots
    <2>3. f2.fresh = fs[2].fresh
      BY <1>1, <2>1
    <2>4. PICK c : c = Head(fs[1].walk)
      OBVIOUS
    <2>5. /\ FrameOK(fs[1], ns, Wanted) /\ fs[1].fresh = <<>>
          /\ fs[1].walk # <<>> /\ fs[1].todo = <<>> /\ c \notin DOMAIN fs[1].grads
          /\ ns[c].op = "ckpt"
          /\ FreshOK(fs[2].fresh, c, ns, ts) /\ FrameOK(fs[2], ns, Wanted \cup {fs[2].fresh[1]})
          /\ \A i \in 1 .. Len(fs[2].walk) : ns[fs[2].walk[i]].op = "mul"
      BY <1>5, <2>4 DEF StackOK
    <2>6. \A i \in 1 .. Len(f2.walk) : ns[f2.walk[i]].op = "mul"
      <3>1. f2.walk \in Seq(1 .. Len(ns)) /\ fs[2].walk \in Seq(1 .. Len(ns))
        BY <2>2, <2>5 DEF FrameOK, WalkOK
      <3>2. ASSUME NEW i \in 1 .. Len(f2.walk) PROVE ns[f2.walk[i]].op = "mul"
        <4>1. f2.walk[i] \in ToSet(f2.walk)
          BY <3>1, InSet
        <4>2. f2.walk[i] \in ToSet(fs[2].walk)
          BY <1>1, <2>1, <4>1
        <4>3. PICK j \in 1 .. Len(fs[2].walk) : fs[2].walk[j] = f2.walk[i]
          BY <3>1, <4>2, InSet
        <4> QED
          BY <2>5, <4>3
      <3> QED
        BY <3>2, SMTT(30)
    <2>7. StackOK(fs2, ns, ts)
      BY <2>1, <2>2, <2>3, <2>4, <2>5, <2>6 DEF StackOK
    <2>8. \A l : Under(fs2, ns, ts, l) = Under(fs, ns, ts, l)
      BY <1>5, <2>1 DEF Under
    <2> QED
      BY <1>3, <2>1, <2>3, <2>7, <2>8
  <1> QED
    BY <1>2, <1>4, <1>5

(* A step of the topmost call that leaves what it owes as it is.           *)
LEMMA TopBalanced ==
  ASSUME NEW ns, NEW ts, World(ns, ts), NEW fs, fs \in Seq(Frames), fs # <<>>, StackOK(fs, ns, ts),
         NEW f2, FrameStep(Last(fs), f2, ns, TopSlots(fs)), NEW fs2, fs2 = WithTop(fs, f2),
         NEW gs, gs \in Seq(Slots), Len(gs) = Len(ts), NEW l, l \in Leaves,
         NEW g2, g2 \in Seq(Slots), Len(g2) = Len(ts)
  PROVE  Owes(fs2, ns, ts, g2, l) - FrameOwes(f2, ns, ts, g2, l)
           = Owes(fs, ns, ts, gs, l) - FrameOwes(Last(fs), ns, ts, gs, l)
  <1>1. /\ fs2 \in Seq(Frames) /\ fs2 # <<>> /\ Last(fs2) = f2 /\ StackOK(fs2, ns, ts)
        /\ Under(fs2, ns, ts, l) = Under(fs, ns, ts, l)
    BY TopReplaced
  <1>2. /\ Under(fs, ns, ts, l) \in Int /\ FrameOwes(Last(fs), ns, ts, gs, l) \in Int
        /\ Owes(fs, ns, ts, gs, l) = Under(fs, ns, ts, l) + FrameOwes(Last(fs), ns, ts, gs, l)
    BY OwesTop
  <1>3. /\ Under(fs2, ns, ts, l) \in Int /\ FrameOwes(Last(fs2), ns, ts, g2, l) \in Int
        /\ Owes(fs2, ns, ts, g2, l) = Under(fs2, ns, ts, l) + FrameOwes(Last(fs2), ns, ts, g2, l)
    BY <1>1, OwesTop
  <1> QED
    BY <1>1, <1>2, <1>3
-----------------------------------------------------------------------------
(* All threads.                                                            *)

Stacks(frames, ns, ts) ==
  frames \in [Thread -> Seq(Frames)] /\ \A t \in Thread : StackOK(frames[t], ns, ts)

(* If no stack owes anything else, all owe together what they owed.        *)
LEMMA AllSame ==
  ASSUME NEW frames, NEW ns, NEW ts, NEW gs, NEW frames2, NEW ns2, NEW ts2, NEW g2, NEW l,
         \A u \in Thread : Owes(frames2[u], ns2, ts2, g2, l) = Owes(frames[u], ns, ts, gs, l)
  PROVE  OwedByAll(frames2, ns2, ts2, g2, l) = OwedByAll(frames, ns, ts, gs, l)
  <1>1. PICK e : e = [u \in Thread |-> Owes(frames[u], ns, ts, gs, l)]
    OBVIOUS
  <1>2. PICK e2 : e2 = [u \in Thread |-> Owes(frames2[u], ns2, ts2, g2, l)]
    OBVIOUS
  <1>3. e = e2
    BY <1>1, <1>2
  <1> QED
    BY <1>1, <1>2, <1>3 DEF OwedByAll

(* If one stack changes, all change by what it does.                       *)
LEMMA AllChange ==
  ASSUME NEW frames, NEW ns, NEW ts, NEW gs, NEW frames2, NEW ns2, NEW ts2, NEW g2, NEW l, NEW t, t \in Thread,
         \A u \in Thread : Owes(frames[u], ns, ts, gs, l) \in Int,
         \A u \in Thread : Owes(frames2[u], ns2, ts2, g2, l) \in Int,
         \A u \in Thread \ {t} : Owes(frames2[u], ns2, ts2, g2, l) = Owes(frames[u], ns, ts, gs, l)
  PROVE  /\ OwedByAll(frames, ns, ts, gs, l) \in Int /\ OwedByAll(frames2, ns2, ts2, g2, l) \in Int
         /\ OwedByAll(frames2, ns2, ts2, g2, l) - Owes(frames2[t], ns2, ts2, g2, l)
              = OwedByAll(frames, ns, ts, gs, l) - Owes(frames[t], ns, ts, gs, l)
  <1>1. PICK e : e = [u \in Thread |-> Owes(frames[u], ns, ts, gs, l)]
    OBVIOUS
  <1>2. PICK e2 : e2 = [u \in Thread |-> Owes(frames2[u], ns2, ts2, g2, l)]
    OBVIOUS
  <1>3. \A u \in Thread : e[u] \in Int /\ e2[u] \in Int
    BY <1>1, <1>2
  <1>4. \A u \in Thread \ {t} : e[u] = e2[u]
    BY <1>1, <1>2
  <1>5. IsFiniteSet(Thread)
    BY LeavesAre
  <1>6. /\ SumFunctionOnSet(e, Thread) \in Int /\ SumFunctionOnSet(e2, Thread) \in Int
        /\ SumFunctionOnSet(e2, Thread) - e2[t] = SumFunctionOnSet(e, Thread) - e[t]
    BY <1>3, <1>4, <1>5, SumChange
  <1>7. e[t] = Owes(frames[t], ns, ts, gs, l) /\ e2[t] = Owes(frames2[t], ns2, ts2, g2, l)
    BY <1>1, <1>2
  <1> QED
    BY <1>1, <1>2, <1>6, <1>7 DEF OwedByAll

(* Every thread's debt is an integer.                                      *)
LEMMA AllTyped ==
  ASSUME NEW ns, NEW ts, World(ns, ts), NEW frames, Stacks(frames, ns, ts),
         NEW gs, gs \in Seq(Slots), Len(gs) = Len(ts), NEW l, l \in Leaves
  PROVE  \A u \in Thread : Owes(frames[u], ns, ts, gs, l) \in Int
  <1> SUFFICES ASSUME NEW u \in Thread PROVE Owes(frames[u], ns, ts, gs, l) \in Int
    OBVIOUS
  <1>1. frames[u] \in Seq(Frames) /\ StackOK(frames[u], ns, ts)
    BY DEF Stacks
  <1> QED
    BY <1>1, OwesTyped

(* When no call is under way nothing is owed.                              *)
LEMMA NothingOwed ==
  ASSUME NEW ns, NEW ts, NEW gs, NEW frames, NEW l, \A t \in Thread : frames[t] = <<>>
  PROVE  OwedByAll(frames, ns, ts, gs, l) = 0
  <1>1. PICK e : e = [u \in Thread |-> Owes(frames[u], ns, ts, gs, l)]
    OBVIOUS
  <1>2. \A u \in Thread : e[u] = 0
    <2> SUFFICES ASSUME NEW u \in Thread PROVE e[u] = 0
      OBVIOUS
    <2>1. PICK fs : fs = frames[u] /\ Len(fs) = 0
      OBVIOUS
    <2>2. Owes(fs, ns, ts, gs, l) = 0 + 0
      BY <2>1 DEF Owes
    <2> QED
      BY <1>1, <2>1, <2>2
  <1>3. IsFiniteSet(Thread)
    BY LeavesAre
  <1>4. \A x \in Thread : e[x] \in 0 .. 0
    BY <1>2
  <1>5. SumFunctionOnSet(e, Thread) \in Nat /\ SumFunctionOnSet(e, Thread) <= Cardinality(Thread) * 0
    BY <1>3, <1>4, SumBounded
  <1>6. Cardinality(Thread) \in Nat
    BY <1>3, FS_CardinalityType
  <1>7. SumFunctionOnSet(e, Thread) = 0
    BY <1>5, <1>6
  <1> QED
    BY <1>1, <1>7 DEF OwedByAll

-----------------------------------------------------------------------------
(* A tape that grows.                                                      *)

Grown(s, s2) ==
  Len(s) \in Nat /\ Len(s2) \in Nat /\ Len(s) <= Len(s2) /\ \A i \in 1 .. Len(s) : s2[i] = s[i]
Bigger(ns, ts, ns2, ts2) ==
  /\ World(ns, ts) /\ ns2 \in Seq(NodeRecs) /\ ts2 \in Seq(Tangents)
  /\ Grown(ns, ns2) /\ Grown(ts, ts2)

(* What was in a sequence is still there when it has grown.                *)
LEMMA GrownIn ==
  ASSUME NEW s, NEW s2, Grown(s, s2), NEW i, i \in 1 .. Len(s)
  PROVE  i \in 1 .. Len(s2) /\ s2[i] = s[i]
  BY DEF Grown

(* A sequence that stays has grown by nothing.                             *)
LEMMA GrownRefl ==
  ASSUME NEW s, Len(s) \in Nat
  PROVE  Grown(s, s)
  BY DEF Grown

(* A plain node stays plain.                                               *)
LEMMA PlainGrown ==
  ASSUME NEW ns, NEW ns2, Grown(ns, ns2), NEW n, n \in 1 .. Len(ns)
  PROVE  Plain(ns2, n) <=> Plain(ns, n)
  BY GrownIn DEF Plain

(* An old node stays sound.                                                *)
LEMMA NodeGrown ==
  ASSUME NEW ns, NEW ts, NEW ns2, NEW ts2, Bigger(ns, ts, ns2, ts2), NEW n, n \in 1 .. Len(ns)
  PROVE  NodeOK(ns2, n, Len(ts2))
  <1>1. NodeOK(ns, n, Len(ts)) /\ Grown(ns, ns2) /\ Grown(ts, ts2) /\ Len(ns) \in Nat
    BY DEF Bigger, World
  <1>2. ns2[n] = ns[n] /\ (Plain(ns2, n) <=> Plain(ns, n))
    BY <1>1, GrownIn, PlainGrown
  <1>3. ASSUME NEW i \in 1 .. Len(ns[n].edges)
        PROVE  /\ ns[n].edges[i].kind = "node" =>
                    ns[n].edges[i].to \in 1 .. n - 1 /\ Plain(ns2, ns[n].edges[i].to)
               /\ ns[n].edges[i].kind = "slot" => ns[n].edges[i].to \in 1 .. Len(ts2)
    <2>1. /\ ns[n].edges[i].kind = "node" =>
                    ns[n].edges[i].to \in 1 .. n - 1 /\ Plain(ns, ns[n].edges[i].to)
          /\ ns[n].edges[i].kind = "slot" => ns[n].edges[i].to \in 1 .. Len(ts)
      BY <1>1 DEF NodeOK
    <2>2. 1 .. n - 1 \subseteq 1 .. Len(ns)
      BY <1>1
    <2> QED
      BY <1>1, <2>1, <2>2, GrownIn, PlainGrown
  <1> QED
    BY <1>1, <1>2, <1>3 DEF NodeOK

(* A tape whose new nodes are sound is a tape.                             *)
LEMMA BiggerWorld ==
  ASSUME NEW ns, NEW ts, NEW ns2, NEW ts2, Bigger(ns, ts, ns2, ts2),
         \A n \in 1 .. Len(ns2) : n \in 1 .. Len(ns) \/ NodeOK(ns2, n, Len(ts2))
  PROVE  World(ns2, ts2)
  <1>1. ns2 \in Seq(NodeRecs) /\ ts2 \in Seq(Tangents) /\ Len(LeafVars) <= Len(ts) /\ Len(ts) <= Len(ts2)
        /\ Len(ts) \in Nat /\ Len(ts2) \in Nat
    BY DEF Bigger, World, Grown
  <1>2. Len(LeafVars) <= Len(ts2)
    BY <1>1, LeavesAre
  <1>3. \A n \in 1 .. Len(ns2) : NodeOK(ns2, n, Len(ts2))
    BY NodeGrown
  <1> QED
    BY <1>1, <1>2, <1>3 DEF World

(* Edges lead where they led.                                              *)
LEMMA AlongGrown ==
  ASSUME NEW ns, NEW ts, NEW ns2, NEW ts2, Bigger(ns, ts, ns2, ts2), NEW e, LeadsInto(e, ns, ts)
  PROVE  LeadsInto(e, ns2, ts2) /\ \A l : Along(e, ns2, ts2, l) = Along(e, ns, ts, l)
  <1>1. Grown(ns, ns2) /\ Grown(ts, ts2)
    BY DEF Bigger
  <1>2. e.kind = "node" => e.to \in 1 .. Len(ns2) /\ ns2[e.to] = ns[e.to]
    BY <1>1, GrownIn DEF LeadsInto
  <1>3. e.kind = "slot" => e.to \in 1 .. Len(ts2) /\ ts2[e.to] = ts[e.to]
    BY <1>1, GrownIn DEF LeadsInto
  <1> QED
    BY <1>2, <1>3 DEF LeadsInto, Along

(* The edges of a node lead to nodes and slots that exist.                 *)
LEMMA EdgeLeads ==
  ASSUME NEW ns, NEW ts, World(ns, ts), NEW n, n \in 1 .. Len(ns), NEW i, i \in 1 .. Len(ns[n].edges)
  PROVE  LeadsInto(ns[n].edges[i], ns, ts)
  <1>1. ns \in Seq(NodeRecs) /\ NodeOK(ns, n, Len(ts)) /\ Len(ns) \in Nat
    BY DEF World
  <1>2. ns[n].edges[i] \in Edges
    BY <1>1, NodeTyped, ElementOfSeq
  <1>3. /\ ns[n].edges[i].kind = "node" => ns[n].edges[i].to \in 1 .. n - 1
        /\ ns[n].edges[i].kind = "slot" => ns[n].edges[i].to \in 1 .. Len(ts)
    BY <1>1 DEF NodeOK
  <1>4. 1 .. n - 1 \subseteq 1 .. Len(ns)
    BY <1>1
  <1> QED
    BY <1>2, <1>3, <1>4 DEF LeadsInto

(* An old node's derivative stays that of its edges.                       *)
LEMMA NodeTanGrown ==
  ASSUME NEW ns, NEW ts, NEW ns2, NEW ts2, Bigger(ns, ts, ns2, ts2), NEW n, n \in 1 .. Len(ns),
         NEW vs, NodeTan(ns, n, vs, ts), NEW vs2,
         ns[n].op = "ckpt" => vs2[ns[n].cap].data = vs[ns[n].cap].data
  PROVE  NodeTan(ns2, n, vs2, ts2)
  <1>1. World(ns, ts) /\ Grown(ns, ns2) /\ Grown(ts, ts2) /\ NodeOK(ns, n, Len(ts))
    BY DEF Bigger, World
  <1>2. ns2[n] = ns[n]
    BY <1>1, GrownIn
  <1>3. PICK es : es = ns[n].edges
    OBVIOUS
  <1>4. Len(es) \in {1, 2} /\ (ns[n].op # "ckpt" => Len(es) = 2)
    BY <1>1, <1>3 DEF NodeOK
  <1>5. \A i \in 1 .. Len(es) : \A l : Along(es[i], ns2, ts2, l) = Along(es[i], ns, ts, l)
    BY <1>1, <1>3, EdgeLeads, AlongGrown
  <1>6. \A l : Along(es[1], ns2, ts2, l) = Along(es[1], ns, ts, l)
    <2>1. PICK k \in {1, 2} : k = Len(es)
      BY <1>4, Zenon
    <2>2. 1 \in 1 .. k
      BY <2>1
    <2> QED
      BY <1>5, <2>1, <2>2
  <1>7. CASE ns[n].op = "ckpt"
    <2>1. ns[n].cap \in 1 .. Len(ts)
      BY <1>1, <1>7, WantedKnown, LeavesAre DEF NodeOK
    <2>2. ts2[ns[n].cap] = ts[ns[n].cap]
      BY <1>1, <2>1, GrownIn
    <2> QED
      BY <1>2, <1>3, <1>6, <1>7, <2>2 DEF NodeTan
  <1>8. CASE ns[n].op # "ckpt"
    <2>1. \A l : Along(es[2], ns2, ts2, l) = Along(es[2], ns, ts, l)
      <3>1. 2 \in 1 .. 2
        OBVIOUS
      <3> QED
        BY <1>4, <1>5, <1>8, <3>1
    <2> QED
      BY <1>2, <1>3, <1>6, <1>8, <2>1 DEF NodeTan
  <1> QED
    BY <1>7, <1>8
(* An old variable stays sound.                                            *)
LEMMA VarGrown ==
  ASSUME NEW ns, NEW ts, NEW ns2, NEW ts2, Bigger(ns, ts, ns2, ts2), NEW vs, vs \in Seq(VarRecs), Len(vs) = Len(ts),
         NEW vs2, Grown(vs, vs2), NEW v, v \in 1 .. Len(vs), VarOK(vs, v, ns, ts)
  PROVE  VarOK(vs2, v, ns2, ts2)
  <1>1. Grown(ns, ns2) /\ Grown(ts, ts2) /\ Len(ns) \in Nat /\ Len(ns2) \in Nat /\ Len(ns) <= Len(ns2)
    BY DEF Bigger, Grown
  <1>2. vs2[v] = vs[v] /\ ts2[v] = ts[v]
    BY <1>1, GrownIn
  <1>3. vs[v] \in VarRecs
    BY ElementOfSeq
  <1>4. PICK k \in Nat : k = vs[v].fn
    BY <1>3 DEF VarRecs
  <1>5. k <= Len(ns) /\ k <= Len(ns2) /\ (k # 0 => k \in 1 .. Len(ns))
    BY <1>1, <1>4 DEF VarOK
  <1>6. k # 0 => Plain(ns2, k) /\ ns2[k] = ns[k]
    BY <1>1, <1>4, <1>5, GrownIn, PlainGrown DEF VarOK
  <1> QED
    BY <1>2, <1>4, <1>5, <1>6 DEF VarOK

(* An operation under way stays sound.                                     *)
LEMMA OpGrown ==
  ASSUME NEW vs, NEW vs2, Grown(vs, vs2), NEW o, o \in OpRecs, OpOK(o, vs), NEW ts, NEW ts2, Grown(ts, ts2), Len(vs) = Len(ts),
         Len(LeafVars) <= Len(vs)
  PROVE  OpOK(o, vs2) /\ (OpTan(o, vs, ts) => OpTan(o, vs2, ts2))
  <1>1. CASE o.op = "none"
    BY <1>1 DEF OpOK, OpTan
  <1>2. CASE o.op # "none"
    <2>1. /\ Len(o.args) \in {1, 2}
          /\ o.op # "ckpt" => Len(o.args) = 2
          /\ \A i \in 1 .. Len(o.args) : o.args[i] \in 1 .. Len(vs) /\ vs[o.args[i]].user
          /\ o.op = "ckpt" => o.cap \in Captured
      BY <1>2 DEF OpOK
    <2>2. \A i \in 1 .. Len(o.args) : o.args[i] \in 1 .. Len(vs2) /\ vs2[o.args[i]].user
      BY <2>1, GrownIn
    <2>3. OpOK(o, vs2)
      BY <2>1, <2>2 DEF OpOK
    <2>4. PICK a : a = o.args[1]
      OBVIOUS
    <2>5. a \in 1 .. Len(vs)
      <3>1. PICK k \in {1, 2} : k = Len(o.args)
        BY <2>1, Zenon
      <3>2. 1 \in 1 .. k
        BY <3>1
      <3> QED
        BY <2>1, <2>4, <3>1, <3>2
    <2>6. PICK b : b = IF o.op = "ckpt" THEN o.cap ELSE o.args[2]
      OBVIOUS
    <2>7. b \in 1 .. Len(vs)
      <3>1. CASE o.op = "ckpt"
        <4>1. o.cap \in Leaves /\ Leaves = 1 .. Len(LeafVars) /\ Len(LeafVars) \in Nat /\ Len(vs) \in Nat
          BY <2>1, <3>1, LeavesAre DEF Grown
        <4> QED
          BY <2>6, <3>1, <4>1
      <3>2. CASE o.op # "ckpt"
        <4>1. 2 \in 1 .. 2
          OBVIOUS
        <4> QED
          BY <2>1, <2>6, <3>2, <4>1
      <3> QED
        BY <3>1, <3>2
    <2>8. vs2[a] = vs[a] /\ vs2[b] = vs[b] /\ ts2[a] = ts[a] /\ ts2[b] = ts[b]
      BY <2>5, <2>7, GrownIn
    <2>9. OpTan(o, vs, ts) => OpTan(o, vs2, ts2)
      BY <1>2, <2>4, <2>6, <2>8 DEF OpTan
    <2> QED
      BY <2>3, <2>9
  <1> QED
    BY <1>1, <1>2

(* A call under way stays sound.                                           *)
LEMMA FrameGrown ==
  ASSUME NEW ns, NEW ts, NEW ns2, NEW ts2, Bigger(ns, ts, ns2, ts2), NEW f, NEW slots, FrameOK(f, ns, slots)
  PROVE  FrameOK(f, ns2, slots) /\ \A i \in 1 .. Len(f.walk) : ns2[f.walk[i]] = ns[f.walk[i]]
  <1>1. Grown(ns, ns2) /\ Len(ns) \in Nat /\ Len(ns2) \in Nat /\ Len(ns) <= Len(ns2)
    BY DEF Bigger, Grown
  <1>2. PICK w : w = f.walk
    OBVIOUS
  <1>3. /\ w \in Seq(1 .. Len(ns))
        /\ \A i, j \in 1 .. Len(w) : w[i] = w[j] => i = j
        /\ \A i \in 1 .. Len(w) : \A k \in 1 .. Len(ns[w[i]].edges) :
             ns[w[i]].edges[k].kind = "node" => \E j \in i + 1 .. Len(w) : w[j] = ns[w[i]].edges[k].to
    BY <1>2 DEF FrameOK, WalkOK
  <1>4. \A i \in 1 .. Len(w) : ns2[w[i]] = ns[w[i]]
    BY <1>1, <1>3, ElementOfSeq, GrownIn
  <1>5. w \in Seq(1 .. Len(ns2))
    <2>1. 1 .. Len(ns) \subseteq 1 .. Len(ns2)
      BY <1>1
    <2> QED
      BY <1>3, <2>1, SeqMonotonic
  <1>6. WalkOK(w, ns2)
    <2>1. ASSUME NEW i \in 1 .. Len(w), NEW k \in 1 .. Len(ns2[w[i]].edges), ns2[w[i]].edges[k].kind = "node"
          PROVE  \E j \in i + 1 .. Len(w) : w[j] = ns2[w[i]].edges[k].to
      <3>1. ns2[w[i]] = ns[w[i]]
        BY <1>4
      <3>2. k \in 1 .. Len(ns[w[i]].edges) /\ ns[w[i]].edges[k].kind = "node"
        BY <2>1, <3>1
      <3>3. \E j \in i + 1 .. Len(w) : w[j] = ns[w[i]].edges[k].to
        BY <1>2, <3>2 DEF FrameOK, WalkOK
      <3> QED
        BY <3>1, <3>3
    <2> QED
      BY <1>3, <1>5, <2>1 DEF WalkOK
  <1>7. \A i \in 1 .. Len(w) : \A k \in 1 .. Len(ns2[w[i]].edges) :
          ns2[w[i]].edges[k].kind = "slot" => ns2[w[i]].edges[k].to \in slots
    <2>1. \A i \in 1 .. Len(w) : \A k \in 1 .. Len(ns[w[i]].edges) :
            ns[w[i]].edges[k].kind = "slot" => ns[w[i]].edges[k].to \in slots
      BY <1>2 DEF FrameOK
    <2> QED
      BY <1>4, <2>1
  <1>8. FrameOK(f, ns2, slots)
    BY <1>2, <1>6, <1>7 DEF FrameOK
  <1> QED
    BY <1>2, <1>4, <1>8

(* Fresh leaves stand for the same operands.                               *)
LEMMA FreshGrown ==
  ASSUME NEW ns, NEW ts, NEW ns2, NEW ts2, Bigger(ns, ts, ns2, ts2), NEW fresh, NEW c, c \in 1 .. Len(ns), FreshOK(fresh, c, ns, ts)
  PROVE  FreshOK(fresh, c, ns2, ts2)
  <1>1. World(ns, ts) /\ Grown(ns, ns2) /\ Grown(ts, ts2) /\ Len(ts) \in Nat /\ Len(ts2) \in Nat /\ Len(ts) <= Len(ts2)
    BY DEF Bigger, Grown
  <1>2. ns2[c] = ns[c]
    BY <1>1, GrownIn
  <1>3. fresh \in Seq(1 .. Len(ts)) /\ Len(fresh) = Len(ns[c].edges)
    BY DEF FreshOK
  <1>4. fresh \in Seq(1 .. Len(ts2))
    <2>1. 1 .. Len(ts) \subseteq 1 .. Len(ts2)
      BY <1>1
    <2> QED
      BY <1>3, <2>1, SeqMonotonic
  <1>5. ASSUME NEW i \in 1 .. Len(fresh), NEW l \in Leaves
        PROVE  ts2[fresh[i]][l] = Along(ns[c].edges[i], ns2, ts2, l)
    <2>0. PICK v \in 1 .. Len(ts) : v = fresh[i]
      BY <1>3, ElementOfSeq
    <2>1. ts2[fresh[i]] = ts[fresh[i]]
      BY <1>1, <2>0, GrownIn
    <2>2. LeadsInto(ns[c].edges[i], ns, ts)
      BY <1>1, <1>3, EdgeLeads
    <2>3. Along(ns[c].edges[i], ns2, ts2, l) = Along(ns[c].edges[i], ns, ts, l)
      BY <2>2, AlongGrown
    <2> QED
      BY <2>1, <2>3 DEF FreshOK
  <1> QED
    BY <1>2, <1>3, <1>4, <1>5 DEF FreshOK

(* A call owes what it owed when the tape grows.                           *)
LEMMA FrameOwesGrown ==
  ASSUME NEW ns, NEW ts, NEW ns2, NEW ts2, Bigger(ns, ts, ns2, ts2), NEW f, NEW slots, FrameOK(f, ns, slots), Known(slots, ts),
         f.fresh \in Seq(1 .. Len(ts)), NEW gs, NEW g2, Grown(gs, g2), Len(gs) = Len(ts), NEW l
  PROVE  FrameOwes(f, ns2, ts2, g2, l) = FrameOwes(f, ns, ts, gs, l)
  <1>1. World(ns, ts) /\ Grown(ns, ns2) /\ Grown(ts, ts2) /\ ns \in Seq(NodeRecs)
    BY DEF Bigger, World
  <1>2. HeldFor(f.grads, ns2, l) = HeldFor(f.grads, ns, l)
    <2>1. GradsOK(f.grads, ns)
      BY <1>1, FrameGrads
    <2>2. PICK D : D = DOMAIN f.grads
      OBVIOUS
    <2>3. D \subseteq 1 .. Len(ns)
      BY <2>1, <2>2 DEF GradsOK
    <2>4. \A n \in D : ns2[n] = ns[n]
      <3>1. \A n \in 1 .. Len(ns) : ns2[n] = ns[n]
        BY <1>1, GrownIn
      <3> QED
        BY <2>3, <3>1
    <2>5. [n \in D |-> Weighed(f.grads, n, ns2, l)] = [n \in D |-> Weighed(f.grads, n, ns, l)]
      BY <2>4 DEF Weighed
    <2> QED
      BY <2>2, <2>5 DEF HeldFor
  <1>3. DueAll(f.todo, ns2, ts2, l) = DueAll(f.todo, ns, ts, l)
    <2>1. \A i \in 1 .. Len(f.todo) : Due(f.todo[i], ns2, ts2, l) = Due(f.todo[i], ns, ts, l)
      <3> SUFFICES ASSUME NEW i \in 1 .. Len(f.todo) PROVE Due(f.todo[i], ns2, ts2, l) = Due(f.todo[i], ns, ts, l)
        OBVIOUS
      <3>1. LeadsInto(f.todo[i].edge, ns, ts)
        BY <1>1, TodoLeads
      <3>2. Along(f.todo[i].edge, ns2, ts2, l) = Along(f.todo[i].edge, ns, ts, l)
        BY <3>1, AlongGrown
      <3> QED
        BY <3>2 DEF Due
    <2>2. f.todo \in Seq(Handed)
      BY DEF FrameOK
    <2>3. Len(f.todo) >= 1 => Due(f.todo[1], ns2, ts2, l) = Due(f.todo[1], ns, ts, l)
      BY <2>1, <2>2
    <2>4. Len(f.todo) >= 2 => Due(f.todo[2], ns2, ts2, l) = Due(f.todo[2], ns, ts, l)
      BY <2>1, <2>2
    <2> QED
      BY <2>3, <2>4 DEF DueAll
  <1>4. GotAll(f.fresh, ts2, g2, l) = GotAll(f.fresh, ts, gs, l)
    <2>1. \A i \in 1 .. Len(f.fresh) : Got(f.fresh[i], ts2, g2, l) = Got(f.fresh[i], ts, gs, l)
      <3> SUFFICES ASSUME NEW i \in 1 .. Len(f.fresh) PROVE Got(f.fresh[i], ts2, g2, l) = Got(f.fresh[i], ts, gs, l)
        OBVIOUS
      <3>1. f.fresh[i] \in 1 .. Len(ts)
        BY ElementOfSeq
      <3>2. ts2[f.fresh[i]] = ts[f.fresh[i]] /\ g2[f.fresh[i]] = gs[f.fresh[i]]
        BY <1>1, <3>1, GrownIn
      <3> QED
        BY <3>2 DEF Got
    <2>3. Len(f.fresh) >= 1 => Got(f.fresh[1], ts2, g2, l) = Got(f.fresh[1], ts, gs, l)
      BY <2>1
    <2>4. Len(f.fresh) >= 2 => Got(f.fresh[2], ts2, g2, l) = Got(f.fresh[2], ts, gs, l)
      BY <2>1
    <2> QED
      BY <2>3, <2>4 DEF GotAll
  <1> QED
    BY <1>2, <1>3, <1>4 DEF FrameOwes

(* So do the calls of a thread.                                            *)
LEMMA StackGrown ==
  ASSUME NEW ns, NEW ts, NEW ns2, NEW ts2, Bigger(ns, ts, ns2, ts2), NEW fs, fs \in Seq(Frames), StackOK(fs, ns, ts)
  PROVE  /\ StackOK(fs, ns2, ts2)
         /\ \A gs, g2, l : Grown(gs, g2) /\ Len(gs) = Len(ts) => Owes(fs, ns2, ts2, g2, l) = Owes(fs, ns, ts, gs, l)
  <1>0. World(ns, ts)
    BY DEF Bigger
  <1>1. CASE fs = <<>>
    <2>1. Len(fs) = 0
      BY <1>1
    <2> QED
      BY <2>1 DEF StackOK, Owes
  <1>2. CASE Len(fs) = 1
    <2>1. FrameOK(fs[1], ns, Wanted) /\ fs[1].fresh = <<>>
      BY <1>2 DEF StackOK
    <2>2. FrameOK(fs[1], ns2, Wanted)
      BY <2>1, FrameGrown
    <2>3. StackOK(fs, ns2, ts2)
      BY <1>2, <2>1, <2>2 DEF StackOK
    <2>4. fs[1].fresh \in Seq(1 .. Len(ts)) /\ Known(Wanted, ts)
      <3>1. <<>> \in Seq(1 .. Len(ts))
        OBVIOUS
      <3> QED
        BY <1>0, <2>1, <3>1, WantedKnown
    <2>5. \A gs, g2, l : Grown(gs, g2) /\ Len(gs) = Len(ts) => FrameOwes(fs[1], ns2, ts2, g2, l) = FrameOwes(fs[1], ns, ts, gs, l)
      <3>1. PICK f : f = fs[1]
        OBVIOUS
      <3>2. FrameOK(f, ns, Wanted) /\ Known(Wanted, ts) /\ f.fresh \in Seq(1 .. Len(ts))
        BY <2>1, <2>4, <3>1
      <3>3. \A gs, g2, l : Grown(gs, g2) /\ Len(gs) = Len(ts) => FrameOwes(f, ns2, ts2, g2, l) = FrameOwes(f, ns, ts, gs, l)
        BY <3>2, FrameOwesGrown
      <3> QED
        BY <3>1, <3>3
    <2> QED
      BY <1>2, <2>3, <2>5 DEF Owes
  <1>3. CASE Len(fs) = 2
    <2>1. PICK c : c = Head(fs[1].walk)
      OBVIOUS
    <2>2. /\ FrameOK(fs[1], ns, Wanted) /\ fs[1].fresh = <<>>
          /\ fs[1].walk # <<>> /\ fs[1].todo = <<>> /\ c \notin DOMAIN fs[1].grads
          /\ ns[c].op = "ckpt"
          /\ FreshOK(fs[2].fresh, c, ns, ts) /\ FrameOK(fs[2], ns, Wanted \cup {fs[2].fresh[1]})
          /\ \A i \in 1 .. Len(fs[2].walk) : ns[fs[2].walk[i]].op = "mul"
      BY <1>3, <2>1 DEF StackOK
    <2>3. fs # <<>>
      BY <1>3
    <2>4. c \in 1 .. Len(ns) /\ Known(TopSlots(fs), ts) /\ TopSlots(fs) = Wanted \cup {fs[2].fresh[1]}
      BY <1>0, <1>3, <2>1, <2>3, StackTop, ZenonT(60) DEF TopSlots
    <2>5. FrameOK(fs[1], ns2, Wanted)
      BY <2>2, FrameGrown
    <2>6. /\ FrameOK(fs[2], ns2, Wanted \cup {fs[2].fresh[1]})
          /\ \A i \in 1 .. Len(fs[2].walk) : ns2[fs[2].walk[i]] = ns[fs[2].walk[i]]
      BY <2>2, FrameGrown
    <2>7. FreshOK(fs[2].fresh, c, ns2, ts2) /\ ns2[c] = ns[c]
      BY <2>2, <2>4, FreshGrown, GrownIn DEF Bigger
    <2>8. StackOK(fs, ns2, ts2)
      BY <1>3, <2>1, <2>2, <2>5, <2>6, <2>7 DEF StackOK
    <2>9. fs[1].fresh \in Seq(1 .. Len(ts)) /\ Known(Wanted, ts) /\ fs[2].fresh \in Seq(1 .. Len(ts))
      <3>1. <<>> \in Seq(1 .. Len(ts))
        OBVIOUS
      <3> QED
        BY <1>0, <2>2, <3>1, WantedKnown DEF FreshOK
    <2>10. \A gs, g2, l : Grown(gs, g2) /\ Len(gs) = Len(ts) => FrameOwes(fs[1], ns2, ts2, g2, l) = FrameOwes(fs[1], ns, ts, gs, l)
      <3>1. PICK f : f = fs[1]
        OBVIOUS
      <3>2. FrameOK(f, ns, Wanted) /\ Known(Wanted, ts) /\ f.fresh \in Seq(1 .. Len(ts))
        BY <2>2, <2>9, <3>1
      <3>3. \A gs, g2, l : Grown(gs, g2) /\ Len(gs) = Len(ts) => FrameOwes(f, ns2, ts2, g2, l) = FrameOwes(f, ns, ts, gs, l)
        BY <3>2, FrameOwesGrown
      <3> QED
        BY <3>1, <3>3
    <2>11. \A gs, g2, l : Grown(gs, g2) /\ Len(gs) = Len(ts) => FrameOwes(fs[2], ns2, ts2, g2, l) = FrameOwes(fs[2], ns, ts, gs, l)
      <3>1. PICK slots : slots = Wanted \cup {fs[2].fresh[1]}
        OBVIOUS
      <3>2. FrameOK(fs[2], ns, slots) /\ Known(slots, ts)
        BY <2>2, <2>4, <3>1
      <3> QED
        BY <2>9, <3>2, FrameOwesGrown
    <2> QED
      BY <1>3, <2>8, <2>10, <2>11 DEF Owes
  <1> QED
    BY <1>1, <1>2, <1>3, StackSize
-----------------------------------------------------------------------------
(* The accounts of all threads.                                            *)

Books(frames, gs, ns, ts, taken, owed) ==
  /\ World(ns, ts) /\ Stacks(frames, ns, ts)
  /\ gs \in Seq(Slots) /\ Len(gs) = Len(ts) /\ taken \in Tangents /\ owed \in Tangents
Net(frames, gs, ns, ts, taken, owed, t, l) ==
  GradOf(gs[l]) + taken[l] + Owes(frames[t], ns, ts, gs, l) - owed[l]

(* A leaf has a slot.                                                      *)
LEMMA SlotOfLeaf ==
  ASSUME NEW ns, NEW ts, World(ns, ts), NEW gs, gs \in Seq(Slots), Len(gs) = Len(ts), NEW l, l \in Leaves
  PROVE  GradOf(gs[l]) \in Int /\ l \in 1 .. Len(gs)
  <1>1. l \in 1 .. Len(gs)
    BY WantedKnown
  <1>2. gs[l] \in Slots
    BY <1>1, ElementOfSeq
  <1> QED
    BY <1>1, <1>2, GradTyped

(* Only thread t's part of the accounts changed, and it still adds up.     *)
LEMMA StaysSettled ==
  ASSUME NEW frames, NEW gs, NEW ns, NEW ts, NEW taken, NEW owed, Books(frames, gs, ns, ts, taken, owed),
         NEW frames2, NEW g2, NEW ns2, NEW ts2, NEW taken2, NEW owed2, Books(frames2, g2, ns2, ts2, taken2, owed2),
         NEW l, l \in Leaves, NEW t, t \in Thread,
         \A u \in Thread \ {t} : Owes(frames2[u], ns2, ts2, g2, l) = Owes(frames[u], ns, ts, gs, l),
         Net(frames2, g2, ns2, ts2, taken2, owed2, t, l) = Net(frames, gs, ns, ts, taken, owed, t, l),
         Settled(frames, gs, ns, ts, taken, owed, l)
  PROVE  Settled(frames2, g2, ns2, ts2, taken2, owed2, l)
  <1>1. /\ World(ns, ts) /\ Stacks(frames, ns, ts) /\ gs \in Seq(Slots) /\ Len(gs) = Len(ts)
        /\ World(ns2, ts2) /\ Stacks(frames2, ns2, ts2) /\ g2 \in Seq(Slots) /\ Len(g2) = Len(ts2)
    BY DEF Books
  <1>2. \A u \in Thread : Owes(frames[u], ns, ts, gs, l) \in Int
    BY <1>1, AllTyped
  <1>3. \A u \in Thread : Owes(frames2[u], ns2, ts2, g2, l) \in Int
    BY <1>1, AllTyped
  <1>4. PICK x \in Int : x = Owes(frames[t], ns, ts, gs, l)
    BY <1>2
  <1>5. PICK x2 \in Int : x2 = Owes(frames2[t], ns2, ts2, g2, l)
    BY <1>3
  <1>6. PICK y \in Int : y = OwedByAll(frames, ns, ts, gs, l)
    BY <1>2, <1>3, AllChange
  <1>7. PICK y2 \in Int : y2 = OwedByAll(frames2, ns2, ts2, g2, l)
    BY <1>2, <1>3, AllChange
  <1>8. y2 - x2 = y - x
    <2>1. OwedByAll(frames2, ns2, ts2, g2, l) - Owes(frames2[t], ns2, ts2, g2, l)
            = OwedByAll(frames, ns, ts, gs, l) - Owes(frames[t], ns, ts, gs, l)
      BY <1>2, <1>3, AllChange
    <2> QED
      BY <1>4, <1>5, <1>6, <1>7, <2>1, Zenon
  <1>9. PICK a \in Int : a = GradOf(gs[l])
    BY <1>1, SlotOfLeaf
  <1>10. PICK a2 \in Int : a2 = GradOf(g2[l])
    BY <1>1, SlotOfLeaf
  <1>11. taken[l] \in Int /\ owed[l] \in Int /\ taken2[l] \in Int /\ owed2[l] \in Int
    BY DEF Books, Tangents
  <1>12. PICK b \in Int, c \in Int : b = taken[l] /\ c = owed[l]
    BY <1>11
  <1>13. PICK b2 \in Int, c2 \in Int : b2 = taken2[l] /\ c2 = owed2[l]
    BY <1>11
  <1>14. a2 + b2 + x2 - c2 = a + b + x - c
    BY <1>4, <1>5, <1>9, <1>10, <1>12, <1>13, Zenon DEF Net
  <1>15. a + b + y = c
    BY <1>6, <1>9, <1>12, Zenon DEF Settled
  <1>16. a2 + b2 + y2 = c2
    BY <1>8, <1>14, <1>15
  <1> QED
    BY <1>7, <1>10, <1>13, <1>16, Zenon DEF Settled

(* What the invariant says of the accounts.                                *)
LEMMA InvBooks ==
  ASSUME AgInv
  PROVE  /\ Books(agFrames, agGrad, agNode, agTan, agTaken, agOwed)
         /\ World(agNode, agTan) /\ Stacks(agFrames, agNode, agTan)
         /\ agGrad \in Seq(Slots) /\ Len(agGrad) = Len(agTan) /\ agTan \in Seq(Tangents) /\ agNode \in Seq(NodeRecs)
         /\ agVar \in Seq(VarRecs) /\ Len(agVar) = Len(agTan) /\ Len(LeafVars) <= Len(agVar)
         /\ \A t \in Thread : agFrames[t] \in Seq(Frames) /\ StackOK(agFrames[t], agNode, agTan)
  <1>1. World(agNode, agTan)
    BY DEF AgInv, AgTypes, TapeInv, World
  <1>2. Stacks(agFrames, agNode, agTan)
    BY DEF AgInv, AgTypes, TapeInv, Stacks
  <1>3. Books(agFrames, agGrad, agNode, agTan, agTaken, agOwed)
    BY <1>1, <1>2 DEF AgInv, AgTypes, Books
  <1> QED
    BY <1>1, <1>2, <1>3 DEF AgInv, AgTypes, Stacks

(* Steps that change none of it.                                           *)
LEMMA Untouched ==
  ASSUME AgInv, UNCHANGED <<agVar, agGrad, agNode, agOp, agFrames, agPanicked, agGhosts>>
  PROVE  AgInv'
  BY DEF AgInv, AgTypes, TapeInv, TanInv, BalanceInv, agGhosts

(* Steps that only change one thread's calls, and gradient slots.          *)
FreshKept(fs, fs2) == Len(fs2) = 2 => Len(fs) = 2 /\ fs2[2].fresh = fs[2].fresh

(* A step that changes one thread's calls, and slots, keeps the types and  *)
(* the tape.                                                               *)
LEMMA OneStack ==
  ASSUME AgInv, NEW t, t \in Thread, NEW fs2, fs2 \in Seq(Frames), StackOK(fs2, agNode, agTan),
         agFrames' = [agFrames EXCEPT ![t] = fs2], FreshKept(agFrames[t], fs2),
         agGrad' \in Seq(Slots), Len(agGrad') = Len(agGrad), agOwed' \in Tangents, agTaken' \in Tangents,
         UNCHANGED <<agVar, agNode, agTan, agOp, agRaced>>
  PROVE  /\ AgTypes' /\ TapeInv' /\ TanInv'
         /\ Books(agFrames', agGrad', agNode', agTan', agTaken', agOwed')
         /\ agFrames'[t] = fs2 /\ \A u \in Thread \ {t} : agFrames'[u] = agFrames[u]
  <1>1. agFrames \in [Thread -> Seq(Frames)]
    BY DEF AgInv, AgTypes
  <1>2. agFrames' \in [Thread -> Seq(Frames)] /\ agFrames'[t] = fs2 /\ \A u \in Thread \ {t} : agFrames'[u] = agFrames[u]
    BY <1>1
  <1>3. AgTypes'
    BY <1>2 DEF AgInv, AgTypes
  <1>4. \A u \in Thread : StackOK(agFrames'[u], agNode', agTan')
    BY <1>2 DEF AgInv, TapeInv
  <1>5. ASSUME NEW u \in Thread, NEW w \in Thread, u # w, Len(agFrames'[u]) = 2, Len(agFrames'[w]) = 2
        PROVE  ToSet(agFrames'[u][2].fresh) \cap ToSet(agFrames'[w][2].fresh) = {}
    <2>1. \A x \in Thread : Len(agFrames'[x]) = 2 => Len(agFrames[x]) = 2 /\ agFrames'[x][2].fresh = agFrames[x][2].fresh
      BY <1>2 DEF FreshKept
    <2>2. Len(agFrames[u]) = 2 /\ Len(agFrames[w]) = 2
      BY <1>5, <2>1
    <2>3. ToSet(agFrames[u][2].fresh) \cap ToSet(agFrames[w][2].fresh) = {}
      BY <1>5, <2>2 DEF AgInv, TapeInv
    <2>4. agFrames'[u][2].fresh = agFrames[u][2].fresh /\ agFrames'[w][2].fresh = agFrames[w][2].fresh
      BY <1>5, <2>1
    <2> QED
      BY <2>3, <2>4
  <1>6. TapeInv'
    <2>1. \A n \in 1 .. Len(agNode') : NodeOK(agNode', n, Len(agVar'))
      BY DEF AgInv, TapeInv
    <2>2. \A v \in 1 .. Len(agVar') : VarOK(agVar', v, agNode', agTan')
      BY DEF AgInv, TapeInv
    <2>3. \A u \in Thread : OpOK(agOp'[u], agVar')
      BY DEF AgInv, TapeInv
    <2> QED
      BY <1>4, <1>5, <2>1, <2>2, <2>3 DEF TapeInv
  <1>7. TanInv'
    BY DEF AgInv, TanInv
  <1>8. World(agNode', agTan') /\ Stacks(agFrames', agNode', agTan')
    BY <1>2, <1>4, InvBooks DEF Stacks
  <1>9. Books(agFrames', agGrad', agNode', agTan', agTaken', agOwed')
    <2>1. Len(agGrad') = Len(agTan')
      BY InvBooks
    <2> QED
      BY <1>8, <2>1 DEF Books
  <1> QED
    BY <1>2, <1>3, <1>6, <1>7, <1>9
-----------------------------------------------------------------------------
(* Steps of the topmost call.                                              *)

Outside == <<agVar, agNode, agTan, agOp, agRaced, agOwed, agTaken, agPanicked>>

(* A step of thread t's topmost call changes what t owes by what that call *)
(* owes.                                                                   *)
LEMMA TopMoves ==
  ASSUME AgInv, NEW t, t \in Thread, agFrames[t] # <<>>, NEW f2, FrameStep(Top(t), f2, agNode, TopSlots(agFrames[t])),
         SetTop(t, f2), agGrad' \in Seq(Slots), Len(agGrad') = Len(agGrad), UNCHANGED Outside
  PROVE  /\ AgTypes' /\ TapeInv' /\ TanInv'
         /\ Books(agFrames', agGrad', agNode', agTan', agTaken', agOwed')
         /\ \A u \in Thread \ {t} : agFrames'[u] = agFrames[u]
         /\ \A l \in Leaves :
              /\ Owes(agFrames'[t], agNode, agTan, agGrad', l) - FrameOwes(f2, agNode, agTan, agGrad', l)
                   = Owes(agFrames[t], agNode, agTan, agGrad, l) - FrameOwes(Top(t), agNode, agTan, agGrad, l)
              /\ FrameOwes(f2, agNode, agTan, agGrad', l) \in Int /\ FrameOwes(Top(t), agNode, agTan, agGrad, l) \in Int
              /\ Owes(agFrames'[t], agNode, agTan, agGrad', l) \in Int
  <1>1. /\ World(agNode, agTan) /\ agGrad \in Seq(Slots) /\ Len(agGrad) = Len(agTan)
        /\ agFrames[t] \in Seq(Frames) /\ StackOK(agFrames[t], agNode, agTan)
    BY InvBooks
  <1>2. PICK fs : fs = agFrames[t]
    OBVIOUS
  <1>3. PICK fs2 : fs2 = WithTop(fs, f2)
    OBVIOUS
  <1>4. agFrames' = [agFrames EXCEPT ![t] = fs2]
    BY <1>2, <1>3 DEF SetTop, WithTop
  <1>5. FrameStep(Last(fs), f2, agNode, TopSlots(fs)) /\ Top(t) = Last(fs)
    BY <1>2 DEF Top
  <1>6. fs \in Seq(Frames) /\ fs # <<>> /\ StackOK(fs, agNode, agTan)
    BY <1>1, <1>2
  <1>7. /\ fs2 \in Seq(Frames) /\ fs2 # <<>> /\ Len(fs2) = Len(fs) /\ Last(fs2) = f2
        /\ StackOK(fs2, agNode, agTan)
        /\ Len(fs) = 2 => fs2[2].fresh = fs[2].fresh
    BY <1>1, <1>3, <1>5, <1>6, TopReplaced
  <1>8. FreshKept(agFrames[t], fs2)
    BY <1>2, <1>7 DEF FreshKept
  <1>9. agOwed' \in Tangents /\ agTaken' \in Tangents /\ UNCHANGED <<agVar, agNode, agTan, agOp, agRaced>>
    BY DEF Outside, AgInv, AgTypes
  <1>10. /\ AgTypes' /\ TapeInv' /\ TanInv'
         /\ Books(agFrames', agGrad', agNode', agTan', agTaken', agOwed')
         /\ agFrames'[t] = fs2 /\ \A u \in Thread \ {t} : agFrames'[u] = agFrames[u]
    BY <1>4, <1>7, <1>8, <1>9, OneStack
  <1>11. ASSUME NEW l \in Leaves
         PROVE  /\ Owes(fs2, agNode, agTan, agGrad', l) - FrameOwes(f2, agNode, agTan, agGrad', l)
                     = Owes(fs, agNode, agTan, agGrad, l) - FrameOwes(Last(fs), agNode, agTan, agGrad, l)
                /\ FrameOwes(f2, agNode, agTan, agGrad', l) \in Int /\ FrameOwes(Last(fs), agNode, agTan, agGrad, l) \in Int
                /\ Owes(fs2, agNode, agTan, agGrad', l) \in Int
    <2>1. PICK g2 \in Seq(Slots) : g2 = agGrad'
      OBVIOUS
    <2>2. Len(g2) = Len(agTan)
      BY <1>1, <2>1
    <2>3. Owes(fs2, agNode, agTan, g2, l) - FrameOwes(f2, agNode, agTan, g2, l)
                     = Owes(fs, agNode, agTan, agGrad, l) - FrameOwes(Last(fs), agNode, agTan, agGrad, l)
      BY <1>1, <1>3, <1>5, <1>6, <2>2, TopBalanced
    <2>4. FrameOwes(Last(fs), agNode, agTan, agGrad, l) \in Int
      BY <1>1, <1>6, OwesTop
    <2>5. FrameOwes(f2, agNode, agTan, g2, l) \in Int
      BY <1>1, <1>7, <2>2, OwesTop
    <2>6. Owes(fs2, agNode, agTan, g2, l) \in Int
      BY <1>1, <1>7, <2>2, OwesTyped
    <2> QED
      BY <2>1, <2>3, <2>4, <2>5, <2>6
  <1> QED
    BY <1>2, <1>5, <1>10, <1>11

(* The call owes what it owed.                                             *)
LEMMA TopKeeps ==
  ASSUME AgInv, NEW t, t \in Thread, agFrames[t] # <<>>, NEW f2, FrameStep(Top(t), f2, agNode, TopSlots(agFrames[t])),
         SetTop(t, f2), UNCHANGED agGrad, UNCHANGED Outside,
         ~agRaced => \A l \in Leaves : FrameOwes(f2, agNode, agTan, agGrad, l) = FrameOwes(Top(t), agNode, agTan, agGrad, l)
  PROVE  AgInv'
  <1>1. agGrad' \in Seq(Slots) /\ Len(agGrad') = Len(agGrad) /\ agGrad' = agGrad
    BY InvBooks
  <1>2. /\ AgTypes' /\ TapeInv' /\ TanInv'
        /\ Books(agFrames', agGrad', agNode', agTan', agTaken', agOwed')
        /\ \A u \in Thread \ {t} : agFrames'[u] = agFrames[u]
    BY <1>1, TopMoves
  <1>3. ASSUME NEW l \in Leaves, ~agRaced
        PROVE  Owes(agFrames'[t], agNode, agTan, agGrad, l) = Owes(agFrames[t], agNode, agTan, agGrad, l)
    <2>1. /\ Owes(agFrames'[t], agNode, agTan, agGrad', l) - FrameOwes(f2, agNode, agTan, agGrad', l)
               = Owes(agFrames[t], agNode, agTan, agGrad, l) - FrameOwes(Top(t), agNode, agTan, agGrad, l)
          /\ FrameOwes(Top(t), agNode, agTan, agGrad, l) \in Int
          /\ Owes(agFrames'[t], agNode, agTan, agGrad', l) \in Int
      BY <1>1, TopMoves
    <2>2. FrameOwes(f2, agNode, agTan, agGrad, l) = FrameOwes(Top(t), agNode, agTan, agGrad, l)
      BY <1>3
    <2>3. Owes(agFrames[t], agNode, agTan, agGrad, l) \in Int
      BY InvBooks, OwesTyped
    <2> QED
      BY <1>1, <2>1, <2>2, <2>3
  <1>4. BalanceInv'
    <2> SUFFICES ASSUME ~agRaced, agPanicked = {}, NEW l \in Leaves
                 PROVE  Settled(agFrames', agGrad', agNode', agTan', agTaken', agOwed', l)
      BY DEF BalanceInv, Outside
    <2>1. Settled(agFrames, agGrad, agNode, agTan, agTaken, agOwed, l)
      BY DEF AgInv, BalanceInv
    <2>2. \A u \in Thread \ {t} : Owes(agFrames'[u], agNode', agTan', agGrad', l) = Owes(agFrames[u], agNode, agTan, agGrad, l)
      BY <1>1, <1>2 DEF Outside
    <2>3. Net(agFrames', agGrad', agNode', agTan', agTaken', agOwed', t, l) = Net(agFrames, agGrad, agNode, agTan, agTaken, agOwed, t, l)
      BY <1>1, <1>3 DEF Net, Outside
    <2> QED
      BY <1>2, <2>1, <2>2, <2>3, InvBooks, StaysSettled
  <1> QED
    BY <1>2, <1>4 DEF AgInv

(* A call that has nothing to hand out stands at a node of the tape.       *)
LEMMA ReadyTop ==
  ASSUME AgInv, NEW t, t \in Thread, Ready(t)
  PROVE  /\ agFrames[t] # <<>> /\ Top(t) \in Frames /\ FrameOK(Top(t), agNode, TopSlots(agFrames[t]))
         /\ Top(t).walk # <<>> /\ Top(t).todo = <<>> /\ Current(t) = Head(Top(t).walk) /\ Current(t) \in 1 .. Len(agNode)
         /\ Current(t) \in ToSet(Top(t).walk) /\ GradsOK(Top(t).grads, agNode)
  <1>1. agFrames[t] # <<>> /\ Top(t).walk # <<>> /\ Top(t).todo = <<>> /\ Current(t) = Head(Top(t).walk)
    BY DEF Ready, Current
  <1>2. Top(t) \in Frames /\ FrameOK(Top(t), agNode, TopSlots(agFrames[t]))
    BY <1>1, InvBooks, StackSize, StackTop DEF Top
  <1>3. WalkOK(Top(t).walk, agNode) /\ agNode \in Seq(NodeRecs)
    BY <1>2, InvBooks DEF FrameOK
  <1>4. Head(Top(t).walk) \in 1 .. Len(agNode) /\ Head(Top(t).walk) \in ToSet(Top(t).walk)
    BY <1>1, <1>3, WalkTail
  <1>5. GradsOK(Top(t).grads, agNode)
    BY <1>2, <1>3, FrameGrads
  <1> QED
    BY <1>1, <1>2, <1>4, <1>5

(* Skip keeps the invariant.                                               *)
LEMMA SkipInv ==
  ASSUME AgInv, NEW t, t \in Thread, Skip(t)
  PROVE  AgInv'
  <1>1. PICK f : f = Top(t)
    OBVIOUS
  <1>2. PICK f2 : f2 = Skipped(f)
    OBVIOUS
  <1>3. Ready(t) /\ Head(f.walk) \notin DOMAIN f.grads /\ SetTop(t, f2) /\ UNCHANGED agGrad /\ UNCHANGED Outside
    BY <1>1, <1>2 DEF Skip, Reached, Current, Outside, agGhosts, Skipped
  <1>4. f \in Frames /\ FrameOK(f, agNode, TopSlots(agFrames[t])) /\ f.walk # <<>> /\ f.todo = <<>> /\ agFrames[t] # <<>>
    BY <1>1, <1>3, ReadyTop
  <1>5. FrameStep(f, f2, agNode, TopSlots(agFrames[t])) /\ f2.grads = f.grads /\ f2.todo = f.todo
    BY <1>2, <1>3, <1>4, InvBooks, SkipFrame
  <1>6. f2.fresh = f.fresh
    BY <1>5 DEF FrameStep
  <1>7. \A l \in Leaves : FrameOwes(f2, agNode, agTan, agGrad, l) = FrameOwes(f, agNode, agTan, agGrad, l)
    BY <1>5, <1>6 DEF FrameOwes
  <1> QED
    BY <1>1, <1>3, <1>4, <1>5, <1>7, TopKeeps
-----------------------------------------------------------------------------
(* Apply.                                                                  *)

(* The updates of a frame that the actions make.                           *)
LEMMA HoldingIs ==
  ASSUME NEW f, f \in Frames, NEW grads, NEW todo
  PROVE  /\ [f EXCEPT !.grads = grads] = Holding(f, grads, f.todo)
         /\ [f EXCEPT !.todo = todo] = Holding(f, f.grads, todo)
         /\ [[f EXCEPT !.todo = todo] EXCEPT !.grads = grads] = Holding(f, grads, todo)
  BY DEF Frames, Holding

(* The gradient of the node at the head of the walk is taken out.          *)
TakenOut(f) == [f EXCEPT !.grads = Without(@, Head(f.walk))]

(* The gradient of the node at the head is taken out of the sum            *)
(* (grads.remove).                                                         *)
LEMMA TakeOut ==
  ASSUME NEW ns, ns \in Seq(NodeRecs), NEW slots, NEW f, f \in Frames, FrameOK(f, ns, slots),
         f.walk # <<>>, NEW c, c = Head(f.walk), c \in DOMAIN f.grads, NEW f1, f1 = TakenOut(f)
  PROVE  /\ FrameStep(f, f1, ns, slots) /\ c \notin DOMAIN f1.grads /\ f1.walk = f.walk /\ f1.todo = f.todo
         /\ f.grads[c] \in Int /\ c \in 1 .. Len(ns)
         /\ \A l \in Leaves : /\ HeldFor(f1.grads, ns, l) \in Int
                              /\ HeldFor(f.grads, ns, l) = f.grads[c] * ns[c].tan[l] + HeldFor(f1.grads, ns, l)
  <1>1. PICK grads : grads = Without(f.grads, c)
    OBVIOUS
  <1>2. f1 = Holding(f, grads, f.todo)
    BY <1>1, HoldingIs DEF TakenOut
  <1>3. GradsOK(f.grads, ns)
    BY FrameGrads
  <1>4. GradsOK(grads, ns) /\ DOMAIN grads = DOMAIN f.grads \ {c}
    BY <1>1, <1>3, HeldWithout
  <1>5. PICK todo : todo = f.todo
    OBVIOUS
  <1>6. /\ DOMAIN f.grads \subseteq ToSet(f.walk) /\ todo \in Seq(Handed) /\ Len(todo) <= 2
        /\ \A i \in 1 .. Len(todo) :
             /\ todo[i].edge.kind = "node" => todo[i].edge.to \in ToSet(f.walk)
             /\ todo[i].edge.kind = "slot" => todo[i].edge.to \in slots
    BY <1>5 DEF FrameOK
  <1>7. /\ FrameStep(f, f1, ns, slots)
        /\ f1.walk = f.walk /\ f1.grads = grads /\ f1.todo = todo
    <2>1. f1 = Holding(f, grads, todo) /\ DOMAIN grads \subseteq ToSet(f.walk)
      BY <1>2, <1>4, <1>5, <1>6
    <2> QED
      BY <1>4, <1>6, <2>1, GradsFrame
  <1>8. f.grads[c] \in Int /\ c \in 1 .. Len(ns)
    BY <1>3 DEF GradsOK
  <1>9. ASSUME NEW l \in Leaves
        PROVE  HeldFor(grads, ns, l) \in Int /\ HeldFor(f.grads, ns, l) = f.grads[c] * ns[c].tan[l] + HeldFor(grads, ns, l)
    <2>1. HeldFor(grads, ns, l) \in Int
      BY <1>4, HeldTyped
    <2>2. HeldFor(f.grads, ns, l) = Weighed(f.grads, c, ns, l) + HeldFor(grads, ns, l)
      BY <1>1, <1>3, HeldLess
    <2> QED
      BY <2>1, <2>2 DEF Weighed
  <1> QED
    BY <1>4, <1>5, <1>7, <1>8, <1>9

(* Two steps of a frame are a step.                                        *)
LEMMA FrameSteps ==
  ASSUME NEW ns, NEW slots, NEW f, NEW f1, NEW f2, FrameStep(f, f1, ns, slots), FrameStep(f1, f2, ns, slots)
  PROVE  FrameStep(f, f2, ns, slots)
  BY DEF FrameStep

Applied(f, ns) == Deliver(TakenOut(f), HandedBy(ns[Head(f.walk)], f.grads[Head(f.walk)]))

Applies(f, f2, c, ns, ts, slots) ==
  /\ World(ns, ts) /\ f \in Frames /\ FrameOK(f, ns, slots)
  /\ f.walk # <<>> /\ f.todo = <<>> /\ c = Head(f.walk) /\ c \in DOMAIN f.grads /\ ns[c].op # "ckpt"
  /\ f2 = Applied(f, ns)

(* Apply leaves what the call owes as it was.                              *)
LEMMA ApplyFrame ==
  ASSUME NEW ns, NEW ts, NEW slots, NEW f, NEW c, NEW f2, Applies(f, f2, c, ns, ts, slots)
  PROVE  /\ FrameStep(f, f2, ns, slots)
         /\ \A vs, gs : NodeTan(ns, c, vs, ts) =>
              \A l \in Leaves : FrameOwes(f2, ns, ts, gs, l) = FrameOwes(f, ns, ts, gs, l)
  <1>1. PICK f1 : f1 = TakenOut(f)
    OBVIOUS
  <1>0. /\ World(ns, ts) /\ f \in Frames /\ FrameOK(f, ns, slots)
        /\ f.walk # <<>> /\ f.todo = <<>> /\ c = Head(f.walk) /\ c \in DOMAIN f.grads /\ ns[c].op # "ckpt"
        /\ f2 = Applied(f, ns)
    BY DEF Applies
  <1>2. ns \in Seq(NodeRecs)
    BY <1>0 DEF World
  <1>3. /\ FrameStep(f, f1, ns, slots) /\ c \notin DOMAIN f1.grads /\ f1.walk = f.walk
        /\ f.grads[c] \in Int /\ c \in 1 .. Len(ns)
        /\ \A l \in Leaves : /\ HeldFor(f1.grads, ns, l) \in Int
                             /\ HeldFor(f.grads, ns, l) = f.grads[c] * ns[c].tan[l] + HeldFor(f1.grads, ns, l)
    BY <1>0, <1>1, <1>2, TakeOut
  <1>4. PICK g \in Int : g = f.grads[c]
    BY <1>3
  <1>5. PICK handed : handed = HandedBy(ns[c], g)
    OBVIOUS
  <1>6. HandsOver(handed, ns[c].edges)
    BY <1>0, <1>3, <1>5, ApplyHands
  <1>7. f1 \in Frames /\ FrameOK(f1, ns, slots) /\ f1.walk # <<>> /\ Head(f1.walk) = c /\ f1.fresh = f.fresh
    BY <1>0, <1>3 DEF FrameStep
  <1>8. f2 = Deliver(f1, handed)
    BY <1>0, <1>1, <1>4, <1>5 DEF Applied
  <1>9. FrameStep(f1, f2, ns, slots) /\ f2.grads = f1.grads /\ f2.todo = handed
    BY <1>2, <1>3, <1>6, <1>7, <1>8, DeliverFrame
  <1>10. FrameStep(f, f2, ns, slots) /\ f2.fresh = f.fresh
    BY <1>3, <1>9, FrameSteps DEF FrameStep
  <1>11. ASSUME NEW vs, NEW gs, NodeTan(ns, c, vs, ts), NEW l \in Leaves
         PROVE  FrameOwes(f2, ns, ts, gs, l) = FrameOwes(f, ns, ts, gs, l)
    <2>0. World(ns, ts) /\ c \in 1 .. Len(ns) /\ ns[c].op # "ckpt"
      BY <1>0, <1>3
    <2>1. DueAll(handed, ns, ts, l) = g * ns[c].tan[l]
      <3>1. DueAll(HandedBy(ns[c], g), ns, ts, l) = g * ns[c].tan[l]
        BY <1>11, <2>0, ApplyOwes, ZenonT(60)
      <3> QED
        BY <1>5, <3>1, Zenon
    <2>2. DueAll(f.todo, ns, ts, l) = 0
      <3>1. Len(<<>>) = 0
        OBVIOUS
      <3> QED
        BY <1>0, <3>1, DueBySize
    <2>3. PICK x \in Int : x = ns[c].tan[l]
      BY <1>2, <1>3, NodeTyped
    <2>4. PICK y \in Int : y = HeldFor(f1.grads, ns, l)
      BY <1>3
    <2>5. PICK z : z = GotAll(f.fresh, ts, gs, l)
      OBVIOUS
    <2>6. FrameOwes(f2, ns, ts, gs, l) = y + g * x + z
      BY <1>9, <1>10, <2>1, <2>3, <2>4, <2>5, Zenon DEF FrameOwes
    <2>7. FrameOwes(f, ns, ts, gs, l) = (g * x + y) + 0 + z
      BY <1>3, <1>4, <2>2, <2>3, <2>4, <2>5, Zenon DEF FrameOwes
    <2>8. y + g * x = (g * x + y) + 0
      BY <1>4, <2>3, <2>4
    <2> QED
      BY <2>6, <2>7, <2>8, Zenon
  <1> QED
    BY <1>10, <1>11

(* Apply keeps the invariant.                                              *)
LEMMA ApplyInv ==
  ASSUME AgInv, NEW t, t \in Thread, Apply(t)
  PROVE  AgInv'
  <1>1. PICK f : f = Top(t)
    OBVIOUS
  <1>2. PICK c : c = Head(f.walk)
    OBVIOUS
  <1>3. PICK f2 : f2 = Applied(f, agNode)
    OBVIOUS
  <1>4. Ready(t) /\ c \in DOMAIN f.grads /\ agNode[c].op # "ckpt" /\ UNCHANGED agGrad /\ UNCHANGED Outside
    BY <1>1, <1>2 DEF Apply, Reached, Current, Outside, agGhosts
  <1>5. SetTop(t, f2)
    BY <1>1, <1>2, <1>3 DEF Apply, Applied, TakenOut, HandedBy, Current, Upstream
  <1>6. /\ f \in Frames /\ FrameOK(f, agNode, TopSlots(agFrames[t])) /\ f.walk # <<>> /\ f.todo = <<>>
        /\ agFrames[t] # <<>> /\ c \in 1 .. Len(agNode)
    BY <1>1, <1>2, <1>4, ReadyTop
  <1>7. World(agNode, agTan)
    BY InvBooks
  <1>8. /\ FrameStep(f, f2, agNode, TopSlots(agFrames[t]))
        /\ \A vs, gs : NodeTan(agNode, c, vs, agTan) =>
              \A l \in Leaves : FrameOwes(f2, agNode, agTan, gs, l) = FrameOwes(f, agNode, agTan, gs, l)
    <2>1. PICK slots : slots = TopSlots(agFrames[t])
      OBVIOUS
    <2>2. FrameOK(f, agNode, slots) /\ f \in Frames /\ f.walk # <<>> /\ f.todo = <<>>
      BY <1>6, <2>1
    <2>3. c = Head(f.walk) /\ c \in DOMAIN f.grads /\ agNode[c].op # "ckpt" /\ f2 = Applied(f, agNode)
      BY <1>2, <1>3, <1>4
    <2>0. Applies(f, f2, c, agNode, agTan, slots)
      BY <1>7, <2>2, <2>3 DEF Applies
    <2>4. FrameStep(f, f2, agNode, slots)
      BY <2>0, ApplyFrame
    <2>5. ASSUME NEW vs, NEW gs, NodeTan(agNode, c, vs, agTan), NEW l \in Leaves
          PROVE  FrameOwes(f2, agNode, agTan, gs, l) = FrameOwes(f, agNode, agTan, gs, l)
      BY <2>0, <2>5, ApplyFrame
    <2> QED
      BY <2>1, <2>4, <2>5
  <1>9. ~agRaced => NodeTan(agNode, c, agVar, agTan)
    BY <1>6 DEF AgInv, TanInv
  <1>10. ~agRaced => \A l \in Leaves : FrameOwes(f2, agNode, agTan, agGrad, l) = FrameOwes(f, agNode, agTan, agGrad, l)
    BY <1>8, <1>9
  <1> QED
    BY <1>1, <1>4, <1>5, <1>6, <1>8, <1>10, TopKeeps
-----------------------------------------------------------------------------
(* Accumulate.                                                             *)

(* Gradient slots that differ at v only.                                   *)
OnlyAt(gs, g2, v) ==
  gs \in Seq(Slots) /\ g2 \in Seq(Slots) /\ Len(g2) = Len(gs) /\ \A i \in 1 .. Len(gs) : i # v => g2[i] = gs[i]

(* Fresh leaves other than v do not notice that v's slot changes.          *)
LEMMA GotApart ==
  ASSUME NEW gs, NEW g2, NEW v, OnlyAt(gs, g2, v), NEW ts, NEW l, NEW fresh, fresh \in Seq(1 .. Len(gs)),
         \A i \in 1 .. Len(fresh) : fresh[i] # v
  PROVE  GotAll(fresh, ts, g2, l) = GotAll(fresh, ts, gs, l)
  <1>1. ASSUME NEW i \in 1 .. Len(fresh) PROVE Got(fresh[i], ts, g2, l) = Got(fresh[i], ts, gs, l)
    <2>1. PICK x \in 1 .. Len(gs) : x = fresh[i]
      BY ElementOfSeq
    <2>2. g2[x] = gs[x]
      BY <2>1 DEF OnlyAt
    <2> QED
      BY <2>1, <2>2 DEF Got
  <1>2. Len(fresh) >= 1 => Got(fresh[1], ts, g2, l) = Got(fresh[1], ts, gs, l)
    BY <1>1
  <1>3. Len(fresh) >= 2 => Got(fresh[2], ts, g2, l) = Got(fresh[2], ts, gs, l)
    BY <1>1
  <1> QED
    BY <1>2, <1>3 DEF GotAll

(* The slots of a stack that only its nested call knows.                   *)
Private(fs) == IF Len(fs) = 2 THEN ToSet(fs[2].fresh) ELSE {}

(* The fresh leaves of the topmost call are private to it.                 *)
LEMMA PrivateFresh ==
  ASSUME NEW ns, NEW ts, World(ns, ts), NEW fs, fs \in Seq(Frames), fs # <<>>, StackOK(fs, ns, ts)
  PROVE  /\ \A i \in 1 .. Len(Last(fs).fresh) : Last(fs).fresh[i] \in Private(fs)
         /\ Private(fs) \cap Leaves = {}
  <1>1. CASE Len(fs) = 1
    <2>1. PICK fresh \in Seq(1 .. Len(ts)) : fresh = Last(fs).fresh /\ fresh = <<>>
      BY <1>1, StackTop
    <2>2. \A i \in 1 .. Len(fresh) : FALSE
      BY <2>1
    <2> QED
      BY <1>1, <2>1, <2>2 DEF Private
  <1>2. CASE Len(fs) = 2
    <2>1. PICK fresh : fresh = fs[2].fresh
      OBVIOUS
    <2>2. Last(fs).fresh = fresh /\ fresh \in Seq(1 .. Len(ts)) /\ Private(fs) = ToSet(fresh)
      BY <1>2, <2>1, StackTop DEF Private
    <2>3. \A i \in 1 .. Len(fresh) : fresh[i] \notin Leaves
      BY <1>2, <2>1 DEF StackOK, FreshOK
    <2>4. \A x : x \in ToSet(fresh) <=> \E i \in 1 .. Len(fresh) : fresh[i] = x
      BY <2>2, InSet
    <2> QED
      BY <2>2, <2>3, <2>4
  <1> QED
    BY <1>1, <1>2, StackSize

(* A call that does not know v owes what it owed when v's slot changes.    *)
LEMMA OwesApart ==
  ASSUME NEW ns, NEW ts, World(ns, ts), NEW fs, fs \in Seq(Frames), StackOK(fs, ns, ts),
         NEW gs, NEW g2, NEW v, OnlyAt(gs, g2, v), Len(gs) = Len(ts), v \notin Private(fs), NEW l, l \in Leaves
  PROVE  Owes(fs, ns, ts, g2, l) = Owes(fs, ns, ts, gs, l)
  <1>1. gs \in Seq(Slots) /\ g2 \in Seq(Slots) /\ Len(g2) = Len(ts)
    BY DEF OnlyAt
  <1>2. CASE fs = <<>>
    BY <1>1, <1>2, OwesTyped
  <1>3. CASE fs # <<>>
    <2>1. Owes(fs, ns, ts, gs, l) = Under(fs, ns, ts, l) + FrameOwes(Last(fs), ns, ts, gs, l)
      BY <1>1, <1>3, OwesTop
    <2>2. Owes(fs, ns, ts, g2, l) = Under(fs, ns, ts, l) + FrameOwes(Last(fs), ns, ts, g2, l)
      BY <1>1, <1>3, OwesTop
    <2>3. PICK fresh : fresh = Last(fs).fresh
      OBVIOUS
    <2>4. fresh \in Seq(1 .. Len(gs)) /\ \A i \in 1 .. Len(fresh) : fresh[i] # v
      BY <1>3, <2>3, StackTop, PrivateFresh
    <2>5. GotAll(fresh, ts, g2, l) = GotAll(fresh, ts, gs, l)
      BY <2>4, GotApart
    <2>6. FrameOwes(Last(fs), ns, ts, g2, l) = FrameOwes(Last(fs), ns, ts, gs, l)
      BY <2>3, <2>5 DEF FrameOwes
    <2> QED
      BY <2>1, <2>2, <2>6
  <1> QED
    BY <1>2, <1>3

(* Gradients add up before and after they are weighed.                     *)
LEMMA Adds ==
  ASSUME NEW a \in Int, NEW g \in Int, NEW x \in Int
  PROVE  (a + g) * x = a * x + g * x
  OBVIOUS

(* Slot v has gained g.  The first of the fresh leaves is v.               *)
Gains(gs, g2, v, g) == OnlyAt(gs, g2, v) /\ g \in Int /\ GradOf(g2[v]) = GradOf(gs[v]) + g
Starts(fresh, v, gs) ==
  /\ fresh \in Seq(1 .. Len(gs)) /\ Len(fresh) \in {1, 2} /\ fresh[1] = v
  /\ \A i, j \in 1 .. Len(fresh) : fresh[i] = fresh[j] => i = j

(* A gain of the first fresh leaf counts with that leaf's derivative.      *)
LEMMA GotFirst ==
  ASSUME NEW gs, NEW g2, NEW v, NEW g, Gains(gs, g2, v, g), NEW ts, ts \in Seq(Tangents), Len(gs) = Len(ts),
         NEW l, l \in Leaves, NEW fresh, Starts(fresh, v, gs)
  PROVE  GotAll(fresh, ts, g2, l) = GotAll(fresh, ts, gs, l) + g * ts[v][l]
  <1>0. /\ OnlyAt(gs, g2, v) /\ g \in Int /\ GradOf(g2[v]) = GradOf(gs[v]) + g
        /\ fresh \in Seq(1 .. Len(gs)) /\ Len(fresh) \in {1, 2} /\ fresh[1] = v
        /\ \A i, j \in 1 .. Len(fresh) : fresh[i] = fresh[j] => i = j
    BY DEF Gains, Starts
  <1>1. PICK k \in {1, 2} : k = Len(fresh)
    BY <1>0, Zenon
  <1>2. \A i \in 1 .. k : Got(fresh[i], ts, gs, l) \in Int
    <2>1. gs \in Seq(Slots)
      BY <1>0 DEF OnlyAt
    <2> QED
      BY <1>0, <1>1, <2>1, GotAllTyped
  <1>3. v \in 1 .. Len(gs)
    <2>1. 1 \in 1 .. k
      BY <1>1
    <2> QED
      BY <1>0, <1>1, <2>1, ElementOfSeq
  <1>4. PICK x \in Int : x = ts[v][l]
    <2>1. ts[v] \in Tangents
      BY <1>3, ElementOfSeq
    <2> QED
      BY <2>1 DEF Tangents
  <1>5. PICK a \in Int : a = GradOf(gs[v])
    <2>1. gs[v] \in Slots
      BY <1>0, <1>3, ElementOfSeq DEF OnlyAt
    <2> QED
      BY <2>1, GradTyped
  <1>6. Got(fresh[1], ts, gs, l) = a * x /\ Got(fresh[1], ts, g2, l) = a * x + g * x
    <2>1. Got(fresh[1], ts, g2, l) = (a + g) * x
      BY <1>0, <1>4, <1>5, Zenon DEF Got
    <2>2. Got(fresh[1], ts, gs, l) = a * x
      BY <1>0, <1>4, <1>5, Zenon DEF Got
    <2> QED
      BY <1>0, <2>1, <2>2, Adds
  <1>7. PICK y \in Int, z \in Int : y = a * x /\ z = g * x
    BY <1>0
  <1>8. CASE k = 1
    <2>1. Len(fresh) = 1 /\ Got(fresh[1], ts, gs, l) = y /\ Got(fresh[1], ts, g2, l) = y + z
      BY <1>1, <1>6, <1>7, <1>8
    <2>2. GotAll(fresh, ts, gs, l) = y
      BY <2>1, GotBySize
    <2>3. GotAll(fresh, ts, g2, l) = y + z
      BY <2>1, GotBySize
    <2> QED
      BY <1>4, <1>7, <2>2, <2>3
  <1>9. CASE k = 2
    <2>1. fresh[2] # v /\ fresh[2] \in 1 .. Len(gs)
      <3>1. 1 \in 1 .. k /\ 2 \in 1 .. k
        BY <1>9
      <3> QED
        BY <1>0, <1>1, <3>1, ElementOfSeq
    <2>2. PICK w \in Int : w = Got(fresh[2], ts, gs, l)
      BY <1>2, <1>9
    <2>3. g2[fresh[2]] = gs[fresh[2]]
      BY <1>0, <2>1 DEF OnlyAt
    <2>4. Got(fresh[2], ts, g2, l) = w
      BY <2>2, <2>3 DEF Got
    <2>5. Len(fresh) = 2 /\ Got(fresh[1], ts, gs, l) = y /\ Got(fresh[1], ts, g2, l) = y + z
      BY <1>1, <1>6, <1>7, <1>9
    <2>6. GotAll(fresh, ts, gs, l) = y + w
      BY <2>2, <2>5, GotBySize
    <2>7. GotAll(fresh, ts, g2, l) = (y + z) + w
      BY <2>4, <2>5, GotBySize
    <2> QED
      BY <1>4, <1>7, <2>6, <2>7
  <1> QED
    BY <1>1, <1>8, <1>9

Serves(f, f2, grads, ns, ts, slots) ==
  /\ World(ns, ts) /\ Known(slots, ts) /\ f \in Frames /\ FrameOK(f, ns, slots)
  /\ f.todo # <<>> /\ GradsOK(grads, ns) /\ DOMAIN grads \subseteq ToSet(f.walk)
  /\ f2 = Holding(f, grads, Tail(f.todo))

(* Serving an edge leaves a sound call that has one edge less to serve.    *)
LEMMA ServeFrame ==
  ASSUME NEW ns, NEW ts, NEW slots, NEW f, NEW grads, NEW f2, Serves(f, f2, grads, ns, ts, slots)
  PROVE  /\ FrameStep(f, f2, ns, slots)
         /\ \A gs, l : FrameOwes(f2, ns, ts, gs, l) = HeldFor(grads, ns, l) + DueAll(Tail(f.todo), ns, ts, l) + GotAll(f.fresh, ts, gs, l)
  <1>0. /\ World(ns, ts) /\ Known(slots, ts) /\ f \in Frames /\ FrameOK(f, ns, slots)
        /\ f.todo # <<>> /\ GradsOK(grads, ns) /\ DOMAIN grads \subseteq ToSet(f.walk)
        /\ f2 = Holding(f, grads, Tail(f.todo))
    BY DEF Serves
  <1>1. PICK todo : todo = Tail(f.todo)
    OBVIOUS
  <1>2. /\ todo \in Seq(Handed) /\ Len(todo) <= 2
        /\ \A i \in 1 .. Len(todo) :
             /\ todo[i].edge.kind = "node" => todo[i].edge.to \in ToSet(f.walk)
             /\ todo[i].edge.kind = "slot" => todo[i].edge.to \in slots
    BY <1>0, <1>1, TodoTail
  <1>3. ns \in Seq(NodeRecs) /\ f2 = Holding(f, grads, todo)
    BY <1>0, <1>1 DEF World
  <1>4. /\ FrameStep(f, f2, ns, slots)
        /\ f2.walk = f.walk /\ f2.grads = grads /\ f2.todo = todo /\ f2.fresh = f.fresh
    BY <1>0, <1>2, <1>3, GradsFrame
  <1> QED
    BY <1>1, <1>4 DEF FrameOwes
(* The topmost call of a thread, and its parts.                            *)
LEMMA BusyTop ==
  ASSUME AgInv, NEW t, t \in Thread, agFrames[t] # <<>>
  PROVE  /\ Top(t) \in Frames /\ FrameOK(Top(t), agNode, TopSlots(agFrames[t])) /\ Known(TopSlots(agFrames[t]), agTan)
         /\ GradsOK(Top(t).grads, agNode) /\ DOMAIN Top(t).grads \subseteq ToSet(Top(t).walk)
         /\ Top(t).fresh \in Seq(1 .. Len(agTan))
  <1>1. /\ Top(t) \in Frames /\ FrameOK(Top(t), agNode, TopSlots(agFrames[t])) /\ Known(TopSlots(agFrames[t]), agTan)
        /\ Top(t).fresh \in Seq(1 .. Len(agTan))
    BY InvBooks, StackSize, StackTop DEF Top
  <1>2. GradsOK(Top(t).grads, agNode)
    BY <1>1, InvBooks, FrameGrads
  <1>3. DOMAIN Top(t).grads \subseteq ToSet(Top(t).walk)
    BY <1>1 DEF FrameOK
  <1> QED
    BY <1>1, <1>2, <1>3

(* A gradient for a node, one that is dropped.                             *)
LEMMA AccumulateInside ==
  ASSUME AgInv, NEW t, t \in Thread, agFrames[t] # <<>>, Top(t).todo # <<>>, UNCHANGED agGrad, UNCHANGED Outside,
         NEW grads, GradsOK(grads, agNode), DOMAIN grads \subseteq ToSet(Top(t).walk),
         SetTop(t, Holding(Top(t), grads, Tail(Top(t).todo))),
         \A l \in Leaves : HeldFor(grads, agNode, l) = HeldFor(Top(t).grads, agNode, l) + Due(Head(Top(t).todo), agNode, agTan, l)
  PROVE  AgInv'
  <1>1. PICK f : f = Top(t)
    OBVIOUS
  <1>2. PICK f2 : f2 = Holding(f, grads, Tail(f.todo))
    OBVIOUS
  <1>3. PICK slots : slots = TopSlots(agFrames[t])
    OBVIOUS
  <1>4. f \in Frames /\ FrameOK(f, agNode, slots) /\ Known(slots, agTan) /\ World(agNode, agTan) /\ GradsOK(f.grads, agNode)
        /\ f.todo # <<>> /\ DOMAIN grads \subseteq ToSet(f.walk)
    BY <1>1, <1>3, BusyTop, InvBooks
  <1>5. /\ FrameStep(f, f2, agNode, slots)
        /\ \A gs, l : FrameOwes(f2, agNode, agTan, gs, l)
                        = HeldFor(grads, agNode, l) + DueAll(Tail(f.todo), agNode, agTan, l) + GotAll(f.fresh, agTan, gs, l)
    <2>1. Serves(f, f2, grads, agNode, agTan, slots)
      BY <1>2, <1>4 DEF Serves
    <2> QED
      BY <2>1, ServeFrame
  <1>6. ASSUME NEW l \in Leaves
        PROVE  FrameOwes(f2, agNode, agTan, agGrad, l) = FrameOwes(f, agNode, agTan, agGrad, l)
    <2>1. PICK x \in Int : x = HeldFor(f.grads, agNode, l)
      BY <1>4, InvBooks, HeldTyped
    <2>2. PICK y \in Int : y = DueAll(Tail(f.todo), agNode, agTan, l)
      BY <1>4, TodoTail
    <2>3. LeadsInto(Head(f.todo).edge, agNode, agTan) /\ Head(f.todo).g \in Slots
      BY <1>4, TodoTail
    <2>4. PICK z \in Int : z = Due(Head(f.todo), agNode, agTan, l)
      BY <1>4, <2>3, DueTyped
    <2>5. DueAll(f.todo, agNode, agTan, l) = z + y
      BY <1>4, <2>2, <2>4, TodoTail
    <2>6. PICK w : w = GotAll(f.fresh, agTan, agGrad, l)
      OBVIOUS
    <2>7. HeldFor(grads, agNode, l) = x + z
      BY <1>1, <2>1, <2>4
    <2>8. FrameOwes(f2, agNode, agTan, agGrad, l) = (x + z) + y + w
      BY <1>5, <2>2, <2>6, <2>7
    <2>9. FrameOwes(f, agNode, agTan, agGrad, l) = x + (z + y) + w
      BY <2>1, <2>5, <2>6, Zenon DEF FrameOwes
    <2>10. (x + z) + y = x + (z + y)
      OBVIOUS
    <2> QED
      BY <2>8, <2>9, <2>10, Zenon
  <1>7. SetTop(t, f2)
    BY <1>1, <1>2
  <1> QED
    BY <1>1, <1>3, <1>5, <1>6, <1>7, TopKeeps

(* A gradient for a slot.                                                  *)
LEMMA IntoSlotIs ==
  ASSUME NEW v, NEW g, g \in Int, agGrad \in Seq(Slots), v \in 1 .. Len(agGrad)
  PROVE  OnlyAt(agGrad, IntoSlot(v, g), v) /\ GradOf(IntoSlot(v, g)[v]) = GradOf(agGrad[v]) + g
  <1>1. PICK a \in Int : a = GradOf(agGrad[v])
    BY ElementOfSeq, GradTyped
  <1>2. PICK s : s = <<a + g>>
    OBVIOUS
  <1>3. s \in Slots /\ GradOf(s) = a + g
    BY <1>2, GradOfPair DEF Slots
  <1>4. IntoSlot(v, g) = [agGrad EXCEPT ![v] = s]
    BY <1>1, <1>2 DEF IntoSlot
  <1>5. PICK g2 : g2 = [agGrad EXCEPT ![v] = s]
    OBVIOUS
  <1>6. g2 \in Seq(Slots) /\ Len(g2) = Len(agGrad) /\ \A j \in 1 .. Len(agGrad) : g2[j] = IF j = v THEN s ELSE agGrad[j]
    BY <1>3, <1>5, ExceptSeq
  <1>7. OnlyAt(agGrad, g2, v) /\ g2[v] = s
    BY <1>6 DEF OnlyAt
  <1> QED
    BY <1>1, <1>3, <1>4, <1>5, <1>7

(* The derivative of a leaf by a leaf.                                     *)
LEMMA LeafTangent ==
  ASSUME AgInv, NEW v, v \in Wanted, NEW l, l \in Leaves
  PROVE  agTan[v][l] = IF l = v THEN 1 ELSE 0
  <1>1. v \in Leaves /\ LeafVars[v].req
    BY DEF Wanted
  <1>2. v \in 1 .. Len(agVar)
    BY <1>1, InvBooks, WantedKnown
  <1>3. VarOK(agVar, v, agNode, agTan)
    BY <1>2 DEF AgInv, TapeInv
  <1>4. agTan[v] = [k \in Leaves |-> IF k = v /\ LeafVars[v].req THEN 1 ELSE 0]
    BY <1>1, <1>3 DEF VarOK
  <1> QED
    BY <1>1, <1>4
(* Leaves are nobody's fresh leaves, and no two threads share any.         *)
LEMMA NotPrivate ==
  ASSUME AgInv, NEW u, u \in Thread
  PROVE  /\ \A v \in Leaves : v \notin Private(agFrames[u])
         /\ \A t \in Thread : t # u => Private(agFrames[t]) \cap Private(agFrames[u]) = {}
  <1>1. ASSUME NEW v \in Leaves PROVE v \notin Private(agFrames[u])
    <2>1. CASE agFrames[u] = <<>>
      <3>1. Len(agFrames[u]) # 2
        BY <2>1
      <3> QED
        BY <3>1 DEF Private
    <2>2. CASE agFrames[u] # <<>>
      <3>1. Private(agFrames[u]) \cap Leaves = {}
        BY <2>2, InvBooks, PrivateFresh
      <3> QED
        BY <3>1
    <2> QED
      BY <2>1, <2>2
  <1>2. ASSUME NEW t \in Thread, t # u PROVE Private(agFrames[t]) \cap Private(agFrames[u]) = {}
    <2>1. Len(agFrames[t]) = 2 /\ Len(agFrames[u]) = 2 => ToSet(agFrames[t][2].fresh) \cap ToSet(agFrames[u][2].fresh) = {}
      BY <1>2 DEF AgInv, TapeInv
    <2> QED
      BY <2>1 DEF Private
  <1> QED
    BY <1>1, <1>2

(* What reaches the slot leaves the call, or reaches its fresh leaf.       *)
LEMMA SlotNet ==
  ASSUME AgInv, NEW t, t \in Thread, agFrames[t] # <<>>, NEW v, v \in TopSlots(agFrames[t]), NEW g, NEW g2, Gains(agGrad, g2, v, g),
         NEW l, l \in Leaves
  PROVE  GradOf(g2[l]) + GotAll(Top(t).fresh, agTan, g2, l)
           = GradOf(agGrad[l]) + g * agTan[v][l] + GotAll(Top(t).fresh, agTan, agGrad, l)
  <1>1. PICK fresh : fresh = Top(t).fresh
    OBVIOUS
  <1>0. OnlyAt(agGrad, g2, v) /\ g \in Int /\ GradOf(g2[v]) = GradOf(agGrad[v]) + g
    BY DEF Gains
  <1>2. /\ World(agNode, agTan) /\ agGrad \in Seq(Slots) /\ Len(agGrad) = Len(agTan) /\ agTan \in Seq(Tangents)
        /\ agFrames[t] \in Seq(Frames) /\ StackOK(agFrames[t], agNode, agTan)
    BY InvBooks
  <1>3. fresh \in Seq(1 .. Len(agGrad)) /\ fresh \in Seq(1 .. Len(agTan))
    BY <1>1, <1>2, BusyTop
  <1>4. PICK a \in Int : a = GradOf(agGrad[l]) /\ l \in 1 .. Len(agGrad)
    BY <1>2, SlotOfLeaf
  <1>5. PICK b \in Int : b = GotAll(fresh, agTan, agGrad, l)
    BY <1>2, <1>3, GotAllTyped
  <1>6. CASE v \in Wanted
    <2>1. \A i \in 1 .. Len(fresh) : fresh[i] # v
      <3>1. v \in Leaves
        BY <1>6, LeavesAre
      <3> QED
        BY <1>1, <1>2, <3>1, PrivateFresh DEF Top
    <2>2. GotAll(fresh, agTan, g2, l) = b
      BY <1>0, <1>3, <1>5, <2>1, GotApart
    <2>3. agTan[v][l] = IF l = v THEN 1 ELSE 0
      BY <1>6, LeafTangent
    <2>4. CASE l = v
      <3>1. GradOf(g2[l]) = a + g /\ agTan[v][l] = 1
        BY <1>0, <1>4, <2>3, <2>4
      <3>2. a + g + b = a + g * 1 + b
        BY <1>0
      <3> QED
        BY <1>1, <1>4, <1>5, <2>2, <3>1, <3>2, Zenon
    <2>5. CASE l # v
      <3>1. GradOf(g2[l]) = a /\ agTan[v][l] = 0
        BY <1>0, <1>4, <2>3, <2>5 DEF OnlyAt
      <3>2. a + b = a + g * 0 + b
        BY <1>0
      <3> QED
        BY <1>1, <1>4, <1>5, <2>2, <3>1, <3>2, Zenon
    <2> QED
      BY <2>4, <2>5
  <1>7. CASE v \notin Wanted
    <2>1. Len(agFrames[t]) = 2 /\ v = agFrames[t][2].fresh[1]
      BY <1>7 DEF TopSlots
    <2>2. fresh = agFrames[t][2].fresh /\ v \notin Leaves /\ Len(fresh) \in {1, 2} /\ v \in 1 .. Len(agTan)
      BY <1>1, <1>2, <2>1, StackTop, SMTT(30) DEF Top
    <2>3. \A i, j \in 1 .. Len(fresh) : fresh[i] = fresh[j] => i = j
      BY <1>2, <2>1, <2>2 DEF StackOK, FreshOK
    <2>4. GotAll(fresh, agTan, g2, l) = b + g * agTan[v][l]
      <3>1. fresh[1] = v
        BY <2>1, <2>2
      <3>2. Starts(fresh, v, agGrad)
        BY <1>3, <2>2, <2>3, <3>1 DEF Starts
      <3>3. GotAll(fresh, agTan, g2, l) = GotAll(fresh, agTan, agGrad, l) + g * agTan[v][l]
        BY <1>2, <3>2, GotFirst
      <3> QED
        BY <1>5, <3>3, Zenon
    <2>5. GradOf(g2[l]) = a
      BY <1>0, <1>4, <2>2 DEF OnlyAt
    <2>6. PICK x \in Int : x = agTan[v][l]
      <3>1. agTan[v] \in Tangents
        BY <1>2, <2>2, ElementOfSeq
      <3> QED
        BY <3>1 DEF Tangents
    <2>7. a + (b + g * x) = a + g * x + b
      BY <1>0
    <2> QED
      BY <1>1, <1>4, <1>5, <2>4, <2>5, <2>6, <2>7, Zenon
  <1> QED
    BY <1>6, <1>7

(* A gradient for a slot keeps the invariant.                              *)
LEMMA AccumulateSlot ==
  ASSUME AgInv, NEW t, t \in Thread, agFrames[t] # <<>>, Top(t).todo # <<>>, NEW h, h = Head(Top(t).todo),
         h.g # NoGrad, h.edge.kind = "slot", SetTop(t, Holding(Top(t), Top(t).grads, Tail(Top(t).todo))),
         agGrad' = IntoSlot(h.edge.to, h.g[1]), UNCHANGED Outside
  PROVE  AgInv'
  <1>1. PICK f : f = Top(t)
    OBVIOUS
  <1>2. PICK f2 : f2 = Holding(f, f.grads, Tail(f.todo))
    OBVIOUS
  <1>3. PICK slots : slots = TopSlots(agFrames[t])
    OBVIOUS
  <1>4. f \in Frames /\ FrameOK(f, agNode, slots) /\ Known(slots, agTan) /\ World(agNode, agTan) /\ GradsOK(f.grads, agNode)
        /\ f.todo # <<>> /\ DOMAIN f.grads \subseteq ToSet(f.walk) /\ h = Head(f.todo)
    BY <1>1, <1>3, BusyTop, InvBooks
  <1>5. LeadsInto(h.edge, agNode, agTan) /\ h.g \in Slots /\ h.edge.to \in slots
    BY <1>4, TodoTail
  <1>6. PICK v : v = h.edge.to
    OBVIOUS
  <1>7. PICK g \in Int : g = h.g[1] /\ g = GradOf(h.g)
    BY <1>5, SlotTyped
  <1>8. PICK g2 : g2 = agGrad'
    OBVIOUS
  <1>9. v \in slots /\ v \in 1 .. Len(agGrad)
    BY <1>4, <1>5, <1>6, InvBooks DEF Known
  <1>10. OnlyAt(agGrad, g2, v) /\ GradOf(g2[v]) = GradOf(agGrad[v]) + g
    <2>1. g2 = IntoSlot(v, g)
      BY <1>6, <1>7, <1>8
    <2> QED
      BY <1>9, <2>1, InvBooks, IntoSlotIs
  <1>11. agGrad' \in Seq(Slots) /\ Len(agGrad') = Len(agGrad)
    BY <1>8, <1>10 DEF OnlyAt
  <1>12. Serves(f, f2, f.grads, agNode, agTan, slots)
    BY <1>2, <1>4 DEF Serves
  <1>13. /\ FrameStep(f, f2, agNode, slots)
         /\ \A gs, l : FrameOwes(f2, agNode, agTan, gs, l)
                         = HeldFor(f.grads, agNode, l) + DueAll(Tail(f.todo), agNode, agTan, l) + GotAll(f.fresh, agTan, gs, l)
    BY <1>12, ServeFrame
  <1>14. FrameStep(Top(t), f2, agNode, TopSlots(agFrames[t])) /\ SetTop(t, f2)
    BY <1>1, <1>2, <1>3, <1>13, SMTT(30)
  <1>15. /\ AgTypes' /\ TapeInv' /\ TanInv'
         /\ Books(agFrames', agGrad', agNode', agTan', agTaken', agOwed')
         /\ \A u \in Thread \ {t} : agFrames'[u] = agFrames[u]
    BY <1>11, <1>14, TopMoves
  <1>16. ASSUME NEW l \in Leaves
         PROVE  GradOf(g2[l]) + Owes(agFrames'[t], agNode, agTan, g2, l) = GradOf(agGrad[l]) + Owes(agFrames[t], agNode, agTan, agGrad, l)
    <2>1. /\ Owes(agFrames'[t], agNode, agTan, g2, l) - FrameOwes(f2, agNode, agTan, g2, l)
               = Owes(agFrames[t], agNode, agTan, agGrad, l) - FrameOwes(f, agNode, agTan, agGrad, l)
          /\ Owes(agFrames'[t], agNode, agTan, g2, l) \in Int
      BY <1>1, <1>8, <1>11, <1>14, TopMoves
    <2>2. PICK x \in Int : x = HeldFor(f.grads, agNode, l)
      BY <1>4, InvBooks, HeldTyped
    <2>3. PICK y \in Int : y = DueAll(Tail(f.todo), agNode, agTan, l)
      BY <1>4, TodoTail
    <2>4. PICK d \in Int : d = agTan[v][l]
      <3>1. agTan[v] \in Tangents
        BY <1>9, InvBooks, ElementOfSeq
      <3> QED
        BY <3>1 DEF Tangents
    <2>5. Due(h, agNode, agTan, l) = g * d
      BY <1>6, <1>7, <2>4 DEF Due, Along
    <2>6. DueAll(f.todo, agNode, agTan, l) = g * d + y
      BY <1>4, <2>3, <2>5, TodoTail
    <2>7. PICK z \in Int : z = GotAll(f.fresh, agTan, agGrad, l)
      BY <1>1, InvBooks, BusyTop, GotAllTyped
    <2>8. PICK z2 \in Int : z2 = GotAll(f.fresh, agTan, g2, l)
      <3>1. g2 \in Seq(Slots) /\ Len(g2) = Len(agTan) /\ f.fresh \in Seq(1 .. Len(agTan)) /\ agTan \in Seq(Tangents)
        BY <1>1, <1>8, <1>11, InvBooks, BusyTop
      <3> QED
        BY <3>1, GotAllTyped
    <2>9. PICK a \in Int : a = GradOf(agGrad[l])
      BY InvBooks, SlotOfLeaf
    <2>10. PICK a2 \in Int : a2 = GradOf(g2[l])
      <3>1. g2 \in Seq(Slots) /\ Len(g2) = Len(agTan)
        BY <1>8, <1>11, InvBooks
      <3> QED
        BY <1>4, <3>1, SlotOfLeaf
    <2>11. a2 + z2 = a + g * d + z
      <3>1. GradOf(g2[l]) + GotAll(Top(t).fresh, agTan, g2, l)
              = GradOf(agGrad[l]) + g * agTan[v][l] + GotAll(Top(t).fresh, agTan, agGrad, l)
        <4>1. v \in TopSlots(agFrames[t]) /\ Gains(agGrad, g2, v, g)
          BY <1>3, <1>9, <1>10 DEF Gains
        <4> QED
          BY <4>1, SlotNet
      <3> QED
        BY <1>1, <2>4, <2>7, <2>8, <2>9, <2>10, <3>1, Zenon
    <2>12. FrameOwes(f2, agNode, agTan, g2, l) = x + y + z2
      BY <1>13, <2>2, <2>3, <2>8
    <2>13. FrameOwes(f, agNode, agTan, agGrad, l) = x + (g * d + y) + z
      BY <2>2, <2>6, <2>7, Zenon DEF FrameOwes
    <2>14. PICK o \in Int : o = Owes(agFrames[t], agNode, agTan, agGrad, l)
      BY InvBooks, OwesTyped
    <2>15. PICK o2 \in Int : o2 = Owes(agFrames'[t], agNode, agTan, g2, l)
      BY <2>1
    <2>16. PICK p \in Int : p = g * d
      OBVIOUS
    <2>17. o2 - (x + y + z2) = o - (x + (p + y) + z)
      BY <2>1, <2>12, <2>13, <2>14, <2>15, <2>16, Zenon
    <2>18. a2 + z2 = a + p + z
      BY <2>11, <2>16, Zenon
    <2>19. a2 + o2 = a + o
      BY <2>17, <2>18
    <2> QED
      BY <2>9, <2>10, <2>14, <2>15, <2>19, ZenonT(60)
  <1>17. ASSUME NEW l \in Leaves, NEW u \in Thread \ {t}
         PROVE  Owes(agFrames[u], agNode, agTan, g2, l) = Owes(agFrames[u], agNode, agTan, agGrad, l)
    <2>1. v \notin Private(agFrames[u])
      <3>1. CASE v \in Leaves
        BY <3>1, NotPrivate
      <3>2. CASE v \notin Leaves
        <4>1. Len(agFrames[t]) = 2 /\ v = agFrames[t][2].fresh[1]
          BY <1>3, <1>9, <3>2, LeavesAre DEF TopSlots
        <4>2. PICK fresh : fresh = agFrames[t][2].fresh
          OBVIOUS
        <4>3. fresh \in Seq(1 .. Len(agTan)) /\ Len(fresh) \in {1, 2}
          BY <1>4, <4>1, <4>2, InvBooks, StackTop
        <4>4. PICK k \in {1, 2} : k = Len(fresh)
          BY <4>3, Zenon
        <4>5. 1 \in 1 .. k
          BY <4>4
        <4>6. v \in ToSet(fresh)
          BY <4>1, <4>2, <4>3, <4>4, <4>5, InSet
        <4>7. v \in Private(agFrames[t])
          BY <4>1, <4>2, <4>6 DEF Private
        <4> QED
          BY <4>7, NotPrivate
      <3> QED
        BY <3>1, <3>2
    <2> QED
      BY <1>4, <1>10, <2>1, InvBooks, OwesApart
  <1>18. BalanceInv'
    <2> SUFFICES ASSUME ~agRaced, agPanicked = {}, NEW l \in Leaves
                 PROVE  Settled(agFrames', agGrad', agNode', agTan', agTaken', agOwed', l)
      BY DEF BalanceInv, Outside
    <2>1. Settled(agFrames, agGrad, agNode, agTan, agTaken, agOwed, l)
      BY DEF AgInv, BalanceInv
    <2>2. \A u \in Thread \ {t} : Owes(agFrames'[u], agNode', agTan', agGrad', l) = Owes(agFrames[u], agNode, agTan, agGrad, l)
      BY <1>8, <1>15, <1>17 DEF Outside
    <2>3. Net(agFrames', agGrad', agNode', agTan', agTaken', agOwed', t, l) = Net(agFrames, agGrad, agNode, agTan, agTaken, agOwed, t, l)
      <3>1. PICK a \in Int : a = GradOf(agGrad[l])
        BY InvBooks, SlotOfLeaf
      <3>2. PICK o \in Int : o = Owes(agFrames[t], agNode, agTan, agGrad, l)
        BY InvBooks, OwesTyped
      <3>3. PICK a2 \in Int : a2 = GradOf(g2[l])
        <4>1. g2 \in Seq(Slots) /\ Len(g2) = Len(agTan)
          BY <1>8, <1>11, InvBooks, SMTT(30)
        <4> QED
          BY <1>4, <4>1, SlotOfLeaf
      <3>4. PICK o2 \in Int : o2 = Owes(agFrames'[t], agNode, agTan, g2, l)
        BY <1>8, <1>11, <1>14, TopMoves
      <3>5. PICK tk \in Int, ow \in Int : tk = agTaken[l] /\ ow = agOwed[l]
        BY DEF AgInv, AgTypes, Tangents
      <3>6. a2 + o2 = a + o
        BY <1>16, <3>1, <3>2, <3>3, <3>4, Zenon
      <3>7. a2 + tk + o2 - ow = a + tk + o - ow
        BY <3>6, Z3
      <3> QED
        BY <1>8, <3>1, <3>2, <3>3, <3>4, <3>5, <3>7, Zenon DEF Net, Outside
    <2> QED
      BY <1>15, <2>1, <2>2, <2>3, InvBooks, StaysSettled
  <1> QED
    BY <1>15, <1>18 DEF AgInv

(* Accumulate keeps the invariant.                                         *)
LEMMA AccumulateInv ==
  ASSUME AgInv, NEW t, t \in Thread, Accumulate(t)
  PROVE  AgInv'
  <1>1. PICK f : f = Top(t)
    OBVIOUS
  <1>2. PICK h : h = Head(f.todo)
    OBVIOUS
  <1>3. agFrames[t] # <<>> /\ f.todo # <<>> /\ UNCHANGED Outside
    BY <1>1 DEF Accumulate, Outside, agGhosts
  <1>4. /\ f \in Frames /\ FrameOK(f, agNode, TopSlots(agFrames[t])) /\ Known(TopSlots(agFrames[t]), agTan)
        /\ GradsOK(f.grads, agNode) /\ DOMAIN f.grads \subseteq ToSet(f.walk) /\ World(agNode, agTan) /\ agNode \in Seq(NodeRecs)
    BY <1>1, <1>3, BusyTop, InvBooks
  <1>5. LeadsInto(h.edge, agNode, agTan) /\ h.g \in Slots /\ (h.edge.kind = "node" => h.edge.to \in ToSet(f.walk))
    BY <1>2, <1>3, <1>4, TodoTail
  <1>6. [f EXCEPT !.todo = Tail(@)] = Holding(f, f.grads, Tail(f.todo))
    BY <1>4, HoldingIs
  <1>7. CASE h.g # NoGrad /\ h.edge.kind = "node" /\ UNCHANGED agGrad
             /\ SetTop(t, [[f EXCEPT !.todo = Tail(@)] EXCEPT !.grads = IntoNode(@, h.edge.to, h.g[1])])
    <2>1. PICK g \in Int : g = h.g[1] /\ g = GradOf(h.g)
      BY <1>5, <1>7, SlotTyped
    <2>2. PICK n \in 1 .. Len(agNode) : n = h.edge.to
      BY <1>5, <1>7 DEF LeadsInto
    <2>3. PICK grads : grads = IntoNode(f.grads, n, g)
      OBVIOUS
    <2>4. SetTop(t, Holding(f, grads, Tail(f.todo)))
      <3>1. [f EXCEPT !.todo = Tail(f.todo)].grads = f.grads
        BY <1>4 DEF Frames
      <3>2. [[f EXCEPT !.todo = Tail(f.todo)] EXCEPT !.grads = grads] = Holding(f, grads, Tail(f.todo))
        <4>1. PICK td : td = Tail(f.todo)
          OBVIOUS
        <4>2. [[f EXCEPT !.todo = td] EXCEPT !.grads = grads] = Holding(f, grads, td)
          BY <1>4 DEF Frames, Holding
        <4> QED
          BY <4>1, <4>2, Zenon
      <3> QED
        BY <1>7, <2>1, <2>2, <2>3, <3>1, <3>2
    <2>5. GradsOK(grads, agNode) /\ DOMAIN grads \subseteq ToSet(f.walk)
      <3>1. DOMAIN grads = DOMAIN f.grads \cup {n}
        BY <2>3 DEF IntoNode
      <3>3. GradsOK(grads, agNode)
        BY <1>4, <2>3, GradsInto
      <3> QED
        BY <1>4, <1>5, <1>7, <2>2, <3>1, <3>3
    <2>6. ASSUME NEW l \in Leaves
          PROVE  HeldFor(grads, agNode, l) = HeldFor(f.grads, agNode, l) + Due(h, agNode, agTan, l)
      <3>1. HeldFor(grads, agNode, l) = HeldFor(f.grads, agNode, l) + g * agNode[n].tan[l]
        <4>1. HeldFor(IntoNode(f.grads, n, g), agNode, l) = HeldFor(f.grads, agNode, l) + g * agNode[n].tan[l]
          BY <1>4, <2>1, <2>2, HeldInto
        <4> QED
          BY <2>3, <4>1, Zenon
      <3>2. Due(h, agNode, agTan, l) = g * agNode[n].tan[l]
        BY <1>7, <2>1, <2>2 DEF Due, Along
      <3> QED
        BY <3>1, <3>2
    <2> QED
      BY <1>1, <1>2, <1>3, <1>7, <2>4, <2>5, <2>6, AccumulateInside
  <1>8. CASE h.g # NoGrad /\ h.edge.kind = "slot" /\ agGrad' = IntoSlot(h.edge.to, h.g[1])
             /\ SetTop(t, [f EXCEPT !.todo = Tail(@)])
    BY <1>1, <1>2, <1>3, <1>6, <1>8, AccumulateSlot
  <1>9. CASE (h.g = NoGrad \/ h.edge.kind = "detached") /\ UNCHANGED agGrad /\ SetTop(t, [f EXCEPT !.todo = Tail(@)])
    <2>1. ASSUME NEW l \in Leaves PROVE Due(h, agNode, agTan, l) = 0
      <3>1. PICK x \in Int : x = Along(h.edge, agNode, agTan, l)
        BY <1>4, <1>5, AlongTyped
      <3>2. PICK g \in Int : g = GradOf(h.g)
        BY <1>5, GradTyped
      <3>3. g = 0 \/ x = 0
        BY <1>9, <3>1, <3>2 DEF GradOf, Along
      <3>4. g * x = 0
        BY <3>3
      <3> QED
        BY <3>1, <3>2, <3>4 DEF Due
    <2>2. \A l \in Leaves : HeldFor(f.grads, agNode, l) \in Int
      BY <1>4, HeldTyped
    <2>3. \A l \in Leaves : HeldFor(f.grads, agNode, l) = HeldFor(f.grads, agNode, l) + Due(h, agNode, agTan, l)
      BY <2>1, <2>2
    <2>4. SetTop(t, Holding(f, f.grads, Tail(f.todo)))
      BY <1>6, <1>9
    <2> QED
      BY <1>1, <1>2, <1>3, <1>4, <1>9, <2>3, <2>4, AccumulateInside
  <1> QED
    BY <1>1, <1>2, <1>7, <1>8, <1>9 DEF Accumulate

(* Two debts that change alike.                                            *)
LEMMA Shifted ==
  ASSUME NEW a \in Int, NEW b \in Int, NEW o \in Int, NEW p \in Int, NEW o2 \in Int, NEW p2 \in Int, o2 - p2 = o - p
  PROVE  a + b + o2 - p2 = a + b + o - p
  OBVIOUS
-----------------------------------------------------------------------------
(* A call begins, returns or is given up.                                  *)

(* What StaysSettled asks for.                                             *)
Moves(frames, gs, ns, ts, taken, owed, frames2, g2, ns2, ts2, taken2, owed2, t, l) ==
  /\ Books(frames, gs, ns, ts, taken, owed) /\ Books(frames2, g2, ns2, ts2, taken2, owed2)
  /\ l \in Leaves /\ t \in Thread
  /\ \A u \in Thread \ {t} : Owes(frames2[u], ns2, ts2, g2, l) = Owes(frames[u], ns, ts, gs, l)
  /\ Net(frames2, g2, ns2, ts2, taken2, owed2, t, l) = Net(frames, gs, ns, ts, taken, owed, t, l)
  /\ Settled(frames, gs, ns, ts, taken, owed, l)

(* Accounts that move together stay settled.                               *)
LEMMA Settles ==
  ASSUME NEW frames, NEW gs, NEW ns, NEW ts, NEW taken, NEW owed, NEW frames2, NEW g2, NEW ns2, NEW ts2, NEW taken2, NEW owed2,
         NEW t, NEW l, Moves(frames, gs, ns, ts, taken, owed, frames2, g2, ns2, ts2, taken2, owed2, t, l)
  PROVE  Settled(frames2, g2, ns2, ts2, taken2, owed2, l)
  BY StaysSettled DEF Moves

Aside == <<agVar, agGrad, agNode, agTan, agOp, agRaced, agTaken>>

(* A step that changes one thread's calls and what is owed to the leaves   *)
(* alike.                                                                  *)
LEMMA StackSettles ==
  ASSUME AgInv, NEW t, t \in Thread, NEW fs2, fs2 \in Seq(Frames), StackOK(fs2, agNode, agTan),
         agFrames' = [agFrames EXCEPT ![t] = fs2], FreshKept(agFrames[t], fs2), agOwed' \in Tangents,
         UNCHANGED Aside,
         ~agRaced /\ agPanicked' = {} => /\ agPanicked = {}
                     /\ \A l \in Leaves : Owes(fs2, agNode, agTan, agGrad, l) - agOwed'[l]
                                            = Owes(agFrames[t], agNode, agTan, agGrad, l) - agOwed[l]
  PROVE  AgInv'
  <1>1. agGrad' \in Seq(Slots) /\ Len(agGrad') = Len(agGrad) /\ agTaken' \in Tangents
    BY InvBooks DEF AgInv, AgTypes, Aside
  <1>2. /\ AgTypes' /\ TapeInv' /\ TanInv'
        /\ Books(agFrames', agGrad', agNode', agTan', agTaken', agOwed')
        /\ agFrames'[t] = fs2 /\ \A u \in Thread \ {t} : agFrames'[u] = agFrames[u]
    <2>1. UNCHANGED <<agVar, agNode, agTan, agOp, agRaced>>
      BY DEF Aside
    <2> QED
      BY <1>1, <2>1, OneStack
  <1>3. BalanceInv'
    <2> SUFFICES ASSUME ~agRaced, agPanicked' = {}, NEW l \in Leaves
                 PROVE  Settled(agFrames', agGrad', agNode', agTan', agTaken', agOwed', l)
      BY DEF BalanceInv, Aside
    <2>1. Settled(agFrames, agGrad, agNode, agTan, agTaken, agOwed, l)
      BY DEF AgInv, BalanceInv
    <2>2. \A u \in Thread \ {t} : Owes(agFrames'[u], agNode', agTan', agGrad', l) = Owes(agFrames[u], agNode, agTan, agGrad, l)
      BY <1>2 DEF Aside
    <2>3. Net(agFrames', agGrad', agNode', agTan', agTaken', agOwed', t, l) = Net(agFrames, agGrad, agNode, agTan, agTaken, agOwed, t, l)
      <3>1. PICK a \in Int : a = GradOf(agGrad[l])
        BY InvBooks, SlotOfLeaf
      <3>2. PICK o \in Int : o = Owes(agFrames[t], agNode, agTan, agGrad, l)
        BY InvBooks, OwesTyped
      <3>3. PICK o2 \in Int : o2 = Owes(fs2, agNode, agTan, agGrad, l)
        BY InvBooks, OwesTyped
      <3>4. PICK tk \in Int, ow \in Int : tk = agTaken[l] /\ ow = agOwed[l]
        BY DEF AgInv, AgTypes, Tangents
      <3>5. PICK ow2 \in Int : ow2 = agOwed'[l]
        BY DEF Tangents
      <3>6. o2 - ow2 = o - ow
        BY <3>2, <3>3, <3>4, <3>5, Zenon
      <3>7. a + tk + o2 - ow2 = a + tk + o - ow
        BY <3>6, Shifted
      <3> QED
        BY <1>2, <3>1, <3>2, <3>3, <3>4, <3>5, <3>7, Zenon DEF Net, Aside
    <2>4. Books(agFrames, agGrad, agNode, agTan, agTaken, agOwed)
      BY InvBooks
    <2>5. Moves(agFrames, agGrad, agNode, agTan, agTaken, agOwed, agFrames', agGrad', agNode', agTan', agTaken', agOwed', t, l)
      BY <1>2, <2>1, <2>2, <2>3, <2>4, Zenon DEF Moves
    <2> QED
      BY <2>5, Settles
  <1> QED
    BY <1>2, <1>3 DEF AgInv

(* A thread without calls.                                                 *)
LEMMA NoStack ==
  ASSUME NEW ns, NEW ts
  PROVE  <<>> \in Seq(Frames) /\ StackOK(<<>>, ns, ts) /\ \A fs : FreshKept(fs, <<>>)
  <1>1. Len(<<>>) = 0
    OBVIOUS
  <1>2. <<>> \in Seq(Frames)
    OBVIOUS
  <1>3. StackOK(<<>>, ns, ts)
    BY <1>1 DEF StackOK
  <1> QED
    BY <1>1, <1>2, <1>3 DEF FreshKept

(* Panic keeps the invariant: nothing is claimed once a call was given up. *)
LEMMA PanicInv ==
  ASSUME AgInv, NEW t, t \in Thread, Panic(t)
  PROVE  AgInv'
  <1>1. /\ agFrames' = [agFrames EXCEPT ![t] = <<>>] /\ agPanicked' = agPanicked \cup {t}
        /\ UNCHANGED Aside /\ UNCHANGED agOwed
    BY DEF Panic, agGhosts, Aside
  <1>2. agPanicked' # {}
    BY <1>1
  <1>3. agOwed' \in Tangents
    BY <1>1 DEF AgInv, AgTypes
  <1> QED
    BY <1>1, <1>2, <1>3, NoStack, StackSettles

(* A call that has come to its end owes what its fresh leaves received.    *)
LEMMA AtEnd ==
  ASSUME NEW ns, NEW slots, NEW f, FrameOK(f, ns, slots), f.walk = <<>>, f.todo = <<>>, NEW ts, NEW gs, NEW l,
         GotAll(f.fresh, ts, gs, l) \in Int
  PROVE  FrameOwes(f, ns, ts, gs, l) = GotAll(f.fresh, ts, gs, l)
  <1>1. ToSet(<<>>) = {} /\ Len(<<>>) = 0
    BY DEF ToSet
  <1>2. DOMAIN f.grads = {}
    BY <1>1 DEF FrameOK
  <1>3. HeldFor(f.grads, ns, l) = 0
    BY <1>2, HeldNone
  <1>4. DueAll(f.todo, ns, ts, l) = 0
    BY <1>1, DueBySize
  <1>5. PICK x \in Int : x = GotAll(f.fresh, ts, gs, l)
    OBVIOUS
  <1>6. FrameOwes(f, ns, ts, gs, l) = 0 + 0 + x
    BY <1>3, <1>4, <1>5, Zenon DEF FrameOwes
  <1> QED
    BY <1>5, <1>6
(* The outer call, with what the nested one hands back.                    *)
LEMMA Below1 ==
  ASSUME NEW ns, NEW ts, NEW fs, fs \in Seq(Frames), StackOK(fs, ns, ts), Len(fs) = 2, NEW below, below = Front(fs)
  PROVE  /\ below \in Seq(Frames) /\ below # <<>> /\ Len(below) = 1 /\ Last(below) = fs[1] /\ StackOK(below, ns, ts)
         /\ TopSlots(below) = Wanted
  <1>1. fs # <<>> /\ OneOrTwo(fs)
    BY DEF OneOrTwo
  <1>2. fs[1] \in Frames
    BY <1>1, StackSize
  <1>3. PICK fs2 : fs2 = WithTop(fs, fs[1])
    OBVIOUS
  <1>4. Front(fs) \in Seq(Frames) /\ Len(Front(fs)) = Len(fs) - 1 /\ Last(Front(fs)) = fs[1]
    BY <1>1, <1>2, <1>3, PutTop
  <1>5. below \in Seq(Frames) /\ Len(below) = 1 /\ Last(below) = fs[1]
    BY <1>4
  <1>6. below # <<>> /\ below[1] = fs[1]
    <2>1. Last(below) = below[Len(below)] /\ Len(<<>>) = 0 /\ 1 # 0
      BY DEF Last
    <2> QED
      BY <1>5, <2>1, Zenon
  <1>7. FrameOK(fs[1], ns, Wanted) /\ fs[1].fresh = <<>>
    BY DEF StackOK
  <1>8. StackOK(below, ns, ts)
    BY <1>5, <1>6, <1>7 DEF StackOK
  <1>9. TopSlots(below) = Wanted
    BY <1>5 DEF TopSlots
  <1> QED
    BY <1>5, <1>6, <1>8, <1>9

(* The nested call of fs has ended, fs2 is what is left.                   *)
HandsBack(fs, fs2, ns, ts, gs) ==
  /\ World(ns, ts) /\ fs \in Seq(Frames) /\ StackOK(fs, ns, ts) /\ Len(fs) = 2
  /\ gs \in Seq(Slots) /\ Len(gs) = Len(ts)
  /\ Last(fs).walk = <<>> /\ Last(fs).todo = <<>>
  /\ fs2 = WithTop(Front(fs), Deliver(fs[1], HandedBack(ns[Head(fs[1].walk)].edges, fs[2].fresh, gs)))

(* The end of a recomputation leaves what the thread owes as it was.       *)
LEMMA ReturnNested ==
  ASSUME NEW ns, NEW ts, NEW fs, NEW gs, NEW fs2, HandsBack(fs, fs2, ns, ts, gs)
  PROVE  /\ fs2 \in Seq(Frames) /\ StackOK(fs2, ns, ts) /\ Len(fs2) = 1
         /\ \A l \in Leaves : Owes(fs2, ns, ts, gs, l) = Owes(fs, ns, ts, gs, l)
  <1>0. /\ World(ns, ts) /\ fs \in Seq(Frames) /\ StackOK(fs, ns, ts) /\ Len(fs) = 2
        /\ gs \in Seq(Slots) /\ Len(gs) = Len(ts) /\ fs # <<>>
        /\ Last(fs).walk = <<>> /\ Last(fs).todo = <<>>
        /\ fs2 = WithTop(Front(fs), Deliver(fs[1], HandedBack(ns[Head(fs[1].walk)].edges, fs[2].fresh, gs)))
    BY DEF HandsBack
  <1>1. PICK below : below = Front(fs)
    OBVIOUS
  <1>2. /\ below \in Seq(Frames) /\ below # <<>> /\ Len(below) = 1 /\ Last(below) = fs[1] /\ StackOK(below, ns, ts)
        /\ TopSlots(below) = Wanted
    BY <1>0, <1>1, Below1
  <1>3. PICK f : f = fs[1]
    OBVIOUS
  <1>4. PICK c : c = Head(f.walk)
    OBVIOUS
  <1>5. PICK fresh : fresh = fs[2].fresh
    OBVIOUS
  <1>6. /\ FrameOK(f, ns, Wanted) /\ f.fresh = <<>> /\ f.walk # <<>> /\ f.todo = <<>> /\ c \notin DOMAIN f.grads
        /\ FreshOK(fresh, c, ns, ts)
    BY <1>0, <1>3, <1>4, <1>5 DEF StackOK
  <1>7. c \in 1 .. Len(ns) /\ f \in Frames /\ Last(fs) = fs[2]
    BY <1>0, <1>3, <1>4, StackTop, StackSize
  <1>8. PICK handed : handed = HandedBack(ns[c].edges, fresh, gs)
    OBVIOUS
  <1>9. HandsOver(handed, ns[c].edges) /\ \A l \in Leaves : DueAll(handed, ns, ts, l) = GotAll(fresh, ts, gs, l)
    BY <1>0, <1>6, <1>7, <1>8, ReturnHands
  <1>10. PICK f2 : f2 = Deliver(f, handed)
    OBVIOUS
  <1>11. FrameStep(f, f2, ns, Wanted) /\ f2.grads = f.grads /\ f2.todo = handed
    <2>1. ns \in Seq(NodeRecs)
      BY <1>0 DEF World
    <2> QED
      BY <1>4, <1>6, <1>7, <1>9, <1>10, <2>1, DeliverFrame
  <1>12. f2.fresh = <<>>
    BY <1>6, <1>11 DEF FrameStep
  <1>13. fs2 = WithTop(below, f2)
    BY <1>0, <1>1, <1>3, <1>4, <1>5, <1>8, <1>10
  <1>14. FrameStep(Last(below), f2, ns, TopSlots(below))
    BY <1>2, <1>3, <1>11
  <1>15. /\ fs2 \in Seq(Frames) /\ fs2 # <<>> /\ Len(fs2) = Len(below) /\ Last(fs2) = f2
         /\ StackOK(fs2, ns, ts)
    BY <1>0, <1>2, <1>13, <1>14, TopReplaced
  <1>16. ASSUME NEW l \in Leaves PROVE Owes(fs2, ns, ts, gs, l) = Owes(fs, ns, ts, gs, l)
    <2>1. PICK y \in Int : y = GotAll(fresh, ts, gs, l)
      <3>1. fresh \in Seq(1 .. Len(ts)) /\ ts \in Seq(Tangents)
        BY <1>0, <1>6 DEF FreshOK, World
      <3> QED
        BY <1>0, <3>1, GotAllTyped
    <2>2. PICK x \in Int : x = HeldFor(f.grads, ns, l)
      <3>1. ns \in Seq(NodeRecs)
        BY <1>0 DEF World
      <3>2. GradsOK(f.grads, ns)
        BY <1>6, <3>1, FrameGrads
      <3> QED
        BY <3>1, <3>2, HeldTyped
    <2>3. Len(<<>>) = 0
      OBVIOUS
    <2>4. GotAll(f2.fresh, ts, gs, l) = 0 /\ DueAll(f.todo, ns, ts, l) = 0
      BY <1>6, <1>12, <2>3, GotBySize, DueBySize
    <2>5. FrameOwes(f2, ns, ts, gs, l) = x + y + 0
      BY <1>9, <1>11, <2>1, <2>2, <2>4, Zenon DEF FrameOwes
    <2>6. Owes(fs2, ns, ts, gs, l) = Under(fs2, ns, ts, l) + FrameOwes(f2, ns, ts, gs, l)
      BY <1>0, <1>15, OwesTop
    <2>7. Under(fs2, ns, ts, l) = 0
      BY <1>2, <1>15 DEF Under
    <2>8. Owes(fs, ns, ts, gs, l) = Under(fs, ns, ts, l) + FrameOwes(fs[2], ns, ts, gs, l)
      BY <1>0, <1>7, OwesTop
    <2>9. Under(fs, ns, ts, l) = x + 0
      BY <1>0, <1>3, <2>2, <2>4 DEF Under
    <2>10. FrameOwes(fs[2], ns, ts, gs, l) = y
      <3>1. FrameOK(fs[2], ns, TopSlots(fs))
        BY <1>0, <1>7, StackTop
      <3> QED
        BY <1>0, <1>5, <1>7, <2>1, <3>1, AtEnd
    <2>11. 0 + (x + y + 0) = (x + 0) + y
      OBVIOUS
    <2> QED
      BY <2>5, <2>6, <2>7, <2>8, <2>9, <2>10, <2>11
  <1> QED
    BY <1>2, <1>15, <1>16

(* Return keeps the invariant.                                             *)
LEMMA ReturnInv ==
  ASSUME AgInv, NEW t, t \in Thread, Return(t)
  PROVE  AgInv'
  <1>1. PICK fs : fs = agFrames[t]
    OBVIOUS
  <1>2. /\ World(agNode, agTan) /\ agGrad \in Seq(Slots) /\ Len(agGrad) = Len(agTan) /\ fs \in Seq(Frames)
        /\ StackOK(fs, agNode, agTan)
    BY <1>1, InvBooks
  <1>3. fs # <<>> /\ Last(fs).walk = <<>> /\ Last(fs).todo = <<>> /\ UNCHANGED Aside /\ UNCHANGED <<agOwed, agPanicked>>
    BY <1>1 DEF Return, Top, Aside, agGhosts
  <1>4. PICK fs2 : fs2 = IF Front(fs) = <<>> THEN <<>>
                         ELSE WithTop(Front(fs), Deliver(Last(Front(fs)),
                                HandedBack(agNode[Head(Last(Front(fs)).walk)].edges, Last(fs).fresh, agGrad)))
    OBVIOUS
  <1>5. agFrames' = [agFrames EXCEPT ![t] = fs2]
    BY <1>1, <1>4 DEF Return, Top, WithTop, HandedBack
  <1>6. agOwed' \in Tangents /\ \A l \in Leaves : agOwed'[l] = agOwed[l]
    BY <1>3 DEF AgInv, AgTypes
  <1>7. /\ fs2 \in Seq(Frames) /\ StackOK(fs2, agNode, agTan) /\ FreshKept(fs, fs2)
        /\ \A l \in Leaves : Owes(fs2, agNode, agTan, agGrad, l) = Owes(fs, agNode, agTan, agGrad, l)
    <2>1. CASE Len(fs) = 1
      <3>1. Last(fs) = fs[1] /\ fs[1] \in Frames /\ Last(fs).fresh = <<>>
        BY <1>2, <1>3, <2>1, StackSize, StackTop
      <3>2. PICK front : front = Front(fs)
        OBVIOUS
      <3>3. front = <<>>
        <4>1. OneOrTwo(fs)
          BY <2>1 DEF OneOrTwo
        <4>2. PICK w : w = WithTop(fs, fs[1])
          OBVIOUS
        <4>3. Front(fs) \in Seq(Frames) /\ Len(Front(fs)) = Len(fs) - 1
          BY <1>2, <3>1, <4>1, <4>2, PutTop
        <4>4. front \in Seq(Frames) /\ Len(front) = 0
          BY <2>1, <3>2, <4>3
        <4> QED
          BY <4>4, EmptySeq
      <3>4. fs2 = <<>>
        BY <1>4, <3>2, <3>3
      <3>5. ASSUME NEW l \in Leaves PROVE Owes(fs2, agNode, agTan, agGrad, l) = Owes(fs, agNode, agTan, agGrad, l)
        <4>1. Len(<<>>) = 0
          OBVIOUS
        <4>2. GotAll(Last(fs).fresh, agTan, agGrad, l) = 0
          BY <3>1, <4>1, GotBySize
        <4>3. FrameOK(Last(fs), agNode, TopSlots(fs))
          BY <1>2, <1>3, StackTop
        <4>4. FrameOwes(Last(fs), agNode, agTan, agGrad, l) = 0
          BY <1>3, <4>2, <4>3, AtEnd
        <4>5. Under(fs, agNode, agTan, l) = 0
          BY <2>1 DEF Under
        <4>6. Owes(fs, agNode, agTan, agGrad, l) = Under(fs, agNode, agTan, l) + FrameOwes(Last(fs), agNode, agTan, agGrad, l)
          BY <1>2, <1>3, OwesTop
        <4>7. StackOK(fs2, agNode, agTan) /\ fs2 \in Seq(Frames)
          BY <3>4, NoStack
        <4>8. Owes(fs2, agNode, agTan, agGrad, l) = 0
          BY <1>2, <3>4, <4>7, OwesTyped
        <4> QED
          BY <4>4, <4>5, <4>6, <4>8
      <3> QED
        BY <3>4, <3>5, NoStack
    <2>2. CASE Len(fs) = 2
      <3>1. PICK below : below = Front(fs)
        OBVIOUS
      <3>2. below # <<>> /\ Last(below) = fs[1]
        BY <1>2, <2>2, <3>1, Below1
      <3>3. Last(fs) = fs[2]
        BY <1>2, <1>3, <2>2, StackSize
      <3>4. fs2 = WithTop(Front(fs), Deliver(fs[1], HandedBack(agNode[Head(fs[1].walk)].edges, fs[2].fresh, agGrad)))
        BY <1>4, <3>1, <3>2, <3>3
      <3>5. HandsBack(fs, fs2, agNode, agTan, agGrad)
        BY <1>2, <1>3, <2>2, <3>4 DEF HandsBack
      <3>6. /\ fs2 \in Seq(Frames) /\ StackOK(fs2, agNode, agTan) /\ Len(fs2) = 1
            /\ \A l \in Leaves : Owes(fs2, agNode, agTan, agGrad, l) = Owes(fs, agNode, agTan, agGrad, l)
        BY <3>5, ReturnNested
      <3> QED
        BY <3>6 DEF FreshKept
    <2> QED
      BY <1>2, <1>3, <2>1, <2>2, StackSize
  <1> QED
    BY <1>1, <1>3, <1>5, <1>6, <1>7, StackSettles

(* What a single gradient counts.                                          *)
LEMMA HeldOneSum ==
  ASSUME NEW ns, ns \in Seq(NodeRecs), NEW l, l \in Leaves, NEW n, n \in 1 .. Len(ns), NEW g, g \in Int,
         NEW grads, grads = [m \in {n} |-> g]
  PROVE  HeldFor(grads, ns, l) = g * ns[n].tan[l]
  BY HeldOne, ZenonT(30)

(* A call begins: it holds g for the first node of its walk.               *)
Begins(f, w, g, fresh, ns, ts, slots) ==
  /\ World(ns, ts) /\ WalkOK(w, ns) /\ w # <<>> /\ g \in Int /\ fresh \in Seq(Nat)
  /\ \A i \in 1 .. Len(w) : \A k \in 1 .. Len(ns[w[i]].edges) :
       ns[w[i]].edges[k].kind = "slot" => ns[w[i]].edges[k].to \in slots
  /\ f = Frame(w, g, fresh)

(* A call that begins is sound and owes its seed times the first node's    *)
(* derivative.                                                             *)
LEMMA NewFrame ==
  ASSUME NEW ns, NEW ts, NEW slots, NEW w, NEW g, NEW fresh, NEW f, Begins(f, w, g, fresh, ns, ts, slots)
  PROVE  /\ f \in Frames /\ FrameOK(f, ns, slots) /\ f.walk = w /\ f.fresh = fresh
         /\ \A gs, l : l \in Leaves /\ GotAll(fresh, ts, gs, l) = 0 => FrameOwes(f, ns, ts, gs, l) = g * ns[Head(w)].tan[l]
  <1>0. /\ World(ns, ts) /\ WalkOK(w, ns) /\ w # <<>> /\ g \in Int /\ fresh \in Seq(Nat)
        /\ \A i \in 1 .. Len(w) : \A k \in 1 .. Len(ns[w[i]].edges) :
             ns[w[i]].edges[k].kind = "slot" => ns[w[i]].edges[k].to \in slots
        /\ f = Frame(w, g, fresh) /\ ns \in Seq(NodeRecs)
    BY DEF Begins, World
  <1>1. PICK n : n = Head(w)
    OBVIOUS
  <1>2. n \in 1 .. Len(ns) /\ n \in ToSet(w)
    BY <1>0, <1>1, WalkTail
  <1>3. PICK grads : grads = [m \in {n} |-> g]
    OBVIOUS
  <1>4. DOMAIN grads = {n} /\ grads \in [{n} -> Int]
    BY <1>0, <1>3
  <1>5. GradsOK(grads, ns)
    BY <1>2, <1>4 DEF GradsOK
  <1>6. grads \in Grads
    BY <1>0, <1>5, GradsIn
  <1>7. f = [walk |-> w, grads |-> grads, todo |-> <<>>, fresh |-> fresh]
    BY <1>0, <1>1, <1>3 DEF Frame
  <1>8. f.walk = w /\ f.grads = grads /\ f.todo = <<>> /\ f.fresh = fresh
    BY <1>7
  <1>9. <<>> \in Seq(Handed) /\ Len(<<>>) = 0
    OBVIOUS
  <1>10. w \in Seq(1 .. Len(ns)) /\ w \in Seq(Nat)
    <2>1. w \in Seq(1 .. Len(ns)) /\ Len(ns) \in Nat
      BY <1>0 DEF WalkOK
    <2>2. \A i \in 1 .. Len(w) : w[i] \in Nat
      BY <2>1, ElementOfSeq
    <2> QED
      BY <2>1, <2>2
  <1>11. f \in Frames
    BY <1>0, <1>6, <1>7, <1>9, <1>10 DEF Frames
  <1>12. \A i \in 1 .. Len(f.todo) : FALSE
    BY <1>8, <1>9
  <1>13. FrameOK(f, ns, slots)
    <2>1. DOMAIN f.grads \subseteq ToSet(f.walk) /\ f.grads \in [DOMAIN f.grads -> Int]
      BY <1>2, <1>4, <1>8
    <2>2. f.todo \in Seq(Handed) /\ Len(f.todo) <= 2
      BY <1>8, <1>9
    <2> QED
      BY <1>0, <1>8, <1>12, <2>1, <2>2, ZenonT(60) DEF FrameOK
  <1>14. ASSUME NEW gs, NEW l \in Leaves, GotAll(fresh, ts, gs, l) = 0
         PROVE  FrameOwes(f, ns, ts, gs, l) = g * ns[n].tan[l]
    <2>1. PICK x \in Int : x = g * ns[n].tan[l]
      <3>1. ns[n].tan[l] \in Int
        BY <1>0, <1>2, NodeTyped
      <3> QED
        BY <1>0, <3>1
    <2>2. HeldFor(grads, ns, l) = g * ns[n].tan[l]
      BY <1>0, <1>2, <1>3, HeldOneSum
    <2>3. DueAll(f.todo, ns, ts, l) = 0
      BY <1>8, <1>9, DueBySize
    <2>4. FrameOwes(f, ns, ts, gs, l) = x + 0 + 0
      BY <1>8, <1>14, <2>1, <2>2, <2>3, Zenon DEF FrameOwes
    <2> QED
      BY <2>1, <2>4
  <1> QED
    BY <1>1, <1>8, <1>11, <1>13, <1>14

(* Backward keeps the invariant.                                           *)
LEMMA BackwardInv ==
  ASSUME AgInv, NEW t, t \in Thread, NEW v, v \in Held, Backward(t, v)
  PROVE  AgInv'
  <1>1. PICK n : n = agVar[v].fn
    OBVIOUS
  <1>2. /\ agFrames[t] = <<>> /\ n # 0 /\ UNCHANGED Aside /\ UNCHANGED agPanicked
        /\ agFrames' = [agFrames EXCEPT ![t] = <<Frame(Walk(n), 1, <<>>)>>] /\ agOwed' = Plus(agOwed, agTan[v])
    BY <1>1 DEF Backward, Idle, Aside
  <1>3. /\ World(agNode, agTan) /\ agGrad \in Seq(Slots) /\ Len(agGrad) = Len(agTan) /\ agTan \in Seq(Tangents)
        /\ agNode \in Seq(NodeRecs) /\ agVar \in Seq(VarRecs) /\ Len(agVar) = Len(agTan)
    BY InvBooks
  <1>4. v \in 1 .. Len(agVar)
    BY <1>3 DEF Held
  <1>5. VarOK(agVar, v, agNode, agTan)
    BY <1>4 DEF AgInv, TapeInv
  <1>6. n \in 1 .. Len(agNode) /\ Plain(agNode, n) /\ agTan[v] = agNode[n].tan
    <2>1. n \in Nat
      <3>1. agVar[v] \in VarRecs
        BY <1>3, <1>4, ElementOfSeq
      <3> QED
        BY <1>1, <3>1 DEF VarRecs
    <2>2. n <= Len(agNode) /\ Plain(agNode, n) /\ agTan[v] = agNode[n].tan
      BY <1>1, <1>2, <1>5 DEF VarOK
    <2> QED
      BY <1>2, <1>3, <2>1, <2>2
  <1>7. PICK w : w = Walk(n)
    OBVIOUS
  <1>8. WalkOK(w, agNode) /\ w # <<>> /\ Head(w) = n /\ \A i \in 1 .. Len(w) : Plain(agNode, w[i])
    <2>1. Tape(agNode)
      BY <1>3, TapeOf
    <2>2. \E f : Visits(agNode, f)
      BY <2>1, VisitsExist
    <2>3. Visits(agNode, visit)
      BY <2>2, VisitIs
    <2>4. PICK f : f = visit
      OBVIOUS
    <2>5. w = Reverse(f[n][<<>>]) /\ Visits(agNode, f)
      BY <1>7, <2>3, <2>4, Zenon DEF Walk
    <2> QED
      BY <1>6, <2>1, <2>5, WalkFrom
  <1>9. PICK f : f = Frame(w, 1, <<>>)
    OBVIOUS
  <1>10. Begins(f, w, 1, <<>>, agNode, agTan, Wanted)
    <2>1. <<>> \in Seq(Nat) /\ 1 \in Int
      OBVIOUS
    <2>2. \A i \in 1 .. Len(w) : \A k \in 1 .. Len(agNode[w[i]].edges) :
            agNode[w[i]].edges[k].kind = "slot" => agNode[w[i]].edges[k].to \in Wanted
      BY <1>8 DEF Plain
    <2> QED
      BY <1>3, <1>8, <1>9, <2>1, <2>2 DEF Begins
  <1>11. /\ f \in Frames /\ FrameOK(f, agNode, Wanted) /\ f.fresh = <<>>
         /\ \A gs, l : l \in Leaves /\ GotAll(<<>>, agTan, gs, l) = 0 => FrameOwes(f, agNode, agTan, gs, l) = 1 * agNode[Head(w)].tan[l]
    BY <1>10, NewFrame
  <1>12. PICK fs2 : fs2 = <<f>>
    OBVIOUS
  <1>13. fs2 \in Seq(Frames) /\ Len(fs2) = 1 /\ fs2[1] = f /\ fs2 # <<>>
    BY <1>11, <1>12
  <1>14. StackOK(fs2, agNode, agTan)
    BY <1>11, <1>13 DEF StackOK
  <1>15. agFrames' = [agFrames EXCEPT ![t] = fs2]
    BY <1>2, <1>7, <1>9, <1>12
  <1>16. FreshKept(agFrames[t], fs2)
    BY <1>13, SMTT(30) DEF FreshKept
  <1>17. agTan[v] \in Tangents /\ agOwed \in Tangents
    BY <1>3, <1>4, ElementOfSeq DEF AgInv, AgTypes
  <1>18. agOwed' \in Tangents /\ \A l \in Leaves : agOwed'[l] = agOwed[l] + agTan[v][l]
    BY <1>2, <1>17 DEF Plus, Tangents
  <1>19. ASSUME NEW l \in Leaves
         PROVE  Owes(fs2, agNode, agTan, agGrad, l) - agOwed'[l] = Owes(agFrames[t], agNode, agTan, agGrad, l) - agOwed[l]
    <2>1. Owes(agFrames[t], agNode, agTan, agGrad, l) = 0
      BY <1>2, InvBooks, OwesTyped
    <2>2. PICK x \in Int, y \in Int : x = agTan[v][l] /\ y = agOwed[l]
      BY <1>17 DEF Tangents
    <2>3. GotAll(<<>>, agTan, agGrad, l) = 0
      <3>1. Len(<<>>) = 0
        OBVIOUS
      <3> QED
        BY <3>1, GotBySize
    <2>4. FrameOwes(f, agNode, agTan, agGrad, l) = 1 * x
      BY <1>6, <1>8, <1>11, <2>2, <2>3, Zenon
    <2>5. Last(fs2) = f
      BY <1>13 DEF Last
    <2>6. Owes(fs2, agNode, agTan, agGrad, l) = Under(fs2, agNode, agTan, l) + FrameOwes(f, agNode, agTan, agGrad, l)
      BY <1>3, <1>13, <1>14, <2>5, OwesTop
    <2>7. Under(fs2, agNode, agTan, l) = 0
      BY <1>13 DEF Under
    <2>8. Owes(fs2, agNode, agTan, agGrad, l) = 0 + 1 * x
      BY <2>4, <2>6, <2>7
    <2>9. agOwed'[l] = y + x
      BY <1>18, <2>2
    <2>10. PICK a \in Int : a = Owes(fs2, agNode, agTan, agGrad, l) /\ a = x
      BY <2>8
    <2>11. a - (y + x) = 0 - y
      BY <2>10
    <2> QED
      BY <2>1, <2>2, <2>9, <2>10, <2>11, Zenon
  <1> QED
    BY <1>2, <1>13, <1>14, <1>15, <1>16, <1>18, <1>19, StackSettles
-----------------------------------------------------------------------------
(* Steps that add variables or nodes.                                      *)

Growth ==
  /\ Bigger(agNode, agTan, agNode', agTan') /\ Grown(agVar, agVar') /\ Grown(agGrad, agGrad')
  /\ agVar' \in Seq(VarRecs) /\ agGrad' \in Seq(Slots) /\ Len(agGrad') = Len(agVar') /\ Len(agTan') = Len(agVar')

(* Each new node and each new variable is as it should be.                 *)
NewNodes ==
  \A n \in 1 .. Len(agNode') :
    n \in 1 .. Len(agNode) \/ (NodeOK(agNode', n, Len(agTan')) /\ (~agRaced => NodeTan(agNode', n, agVar', agTan')))
NewVars == \A v \in 1 .. Len(agVar') : v \in 1 .. Len(agVar) \/ VarOK(agVar', v, agNode', agTan')

(* Operations end, none begins.                                            *)
OpsEnd == agOp' \in [Thread -> OpRecs] /\ \A u \in Thread : agOp'[u] = agOp[u] \/ agOp'[u].op = "none"

(* Thread t may begin a nested call with new fresh leaves.                 *)
OthersKept(t) ==
  /\ agFrames' \in [Thread -> Seq(Frames)] /\ \A u \in Thread \ {t} : agFrames'[u] = agFrames[u]
  /\ StackOK(agFrames'[t], agNode', agTan')
  /\ \A u \in Thread \ {t} : Len(agFrames'[t]) = 2 /\ Len(agFrames[u]) = 2
       => ToSet(agFrames'[t][2].fresh) \cap ToSet(agFrames[u][2].fresh) = {}
  /\ ~agRaced => \A l \in Leaves : Owes(agFrames'[t], agNode', agTan', agGrad', l) = Owes(agFrames[t], agNode, agTan, agGrad, l)

(* What was sound stays sound, and owes what it owed, when the tape grows. *)
LEMMA GrowthKeeps ==
  ASSUME AgInv, Growth
  PROVE  /\ \A v \in 1 .. Len(agVar) : VarOK(agVar', v, agNode', agTan')
         /\ \A u \in Thread : OpOK(agOp[u], agVar') /\ (~agRaced => OpTan(agOp[u], agVar', agTan'))
         /\ \A u \in Thread : StackOK(agFrames[u], agNode', agTan')
         /\ \A u \in Thread, l \in Leaves : Owes(agFrames[u], agNode', agTan', agGrad', l) = Owes(agFrames[u], agNode, agTan, agGrad, l)
         /\ ~agRaced => \A n \in 1 .. Len(agNode) : NodeTan(agNode', n, agVar', agTan')
         /\ \A l \in Leaves : agGrad'[l] = agGrad[l]
  <1>1. PICK ns2, ts2, vs2, g2 : ns2 = agNode' /\ ts2 = agTan' /\ vs2 = agVar' /\ g2 = agGrad'
    OBVIOUS
  <1>2. /\ Bigger(agNode, agTan, ns2, ts2) /\ Grown(agVar, vs2) /\ Grown(agGrad, g2) /\ Grown(agTan, ts2)
    BY <1>1 DEF Growth, Bigger
  <1>3. /\ World(agNode, agTan) /\ agVar \in Seq(VarRecs) /\ Len(agVar) = Len(agTan) /\ Len(LeafVars) <= Len(agVar)
        /\ Len(agGrad) = Len(agTan)
    BY InvBooks
  <1>4. ASSUME NEW v \in 1 .. Len(agVar) PROVE VarOK(vs2, v, ns2, ts2)
    <2>1. VarOK(agVar, v, agNode, agTan)
      BY DEF AgInv, TapeInv
    <2> QED
      BY <1>2, <1>3, <2>1, VarGrown
  <1>5. ASSUME NEW u \in Thread PROVE OpOK(agOp[u], vs2) /\ (~agRaced => OpTan(agOp[u], vs2, ts2))
    <2>1. agOp[u] \in OpRecs /\ OpOK(agOp[u], agVar) /\ (~agRaced => OpTan(agOp[u], agVar, agTan))
      BY DEF AgInv, AgTypes, TapeInv, TanInv
    <2> QED
      BY <1>2, <1>3, <2>1, OpGrown
  <1>6. ASSUME NEW u \in Thread
        PROVE  /\ StackOK(agFrames[u], ns2, ts2)
               /\ \A l \in Leaves : Owes(agFrames[u], ns2, ts2, g2, l) = Owes(agFrames[u], agNode, agTan, agGrad, l)
    <2>1. agFrames[u] \in Seq(Frames) /\ StackOK(agFrames[u], agNode, agTan)
      BY InvBooks
    <2>2. /\ StackOK(agFrames[u], ns2, ts2)
          /\ \A gs, h, l : Grown(gs, h) /\ Len(gs) = Len(agTan) => Owes(agFrames[u], ns2, ts2, h, l) = Owes(agFrames[u], agNode, agTan, gs, l)
      BY <1>2, <2>1, StackGrown
    <2> QED
      BY <1>2, <1>3, <2>2
  <1>7. ASSUME ~agRaced, NEW n \in 1 .. Len(agNode) PROVE NodeTan(ns2, n, vs2, ts2)
    <2>1. NodeTan(agNode, n, agVar, agTan) /\ NodeOK(agNode, n, Len(agTan))
      BY <1>3, <1>7 DEF AgInv, TanInv, World
    <2>2. agNode[n].op = "ckpt" => vs2[agNode[n].cap].data = agVar[agNode[n].cap].data
      <3> SUFFICES ASSUME agNode[n].op = "ckpt" PROVE vs2[agNode[n].cap] = agVar[agNode[n].cap]
        OBVIOUS
      <3>1. agNode[n].cap \in Leaves
        BY <2>1, LeavesAre DEF NodeOK
      <3>2. agNode[n].cap \in 1 .. Len(agVar)
        BY <1>3, <3>1, WantedKnown
      <3> QED
        BY <1>2, <3>2, GrownIn
    <2> QED
      BY <1>2, <2>1, <2>2, NodeTanGrown
  <1>8. ASSUME NEW l \in Leaves PROVE g2[l] = agGrad[l]
    <2>1. l \in 1 .. Len(agGrad)
      BY <1>3, WantedKnown
    <2> QED
      BY <1>2, <2>1, GrownIn
  <1> QED
    BY <1>1, <1>4, <1>5, <1>6, <1>7, <1>8

(* A step that adds sound nodes and variables keeps the invariant.         *)
LEMMA GrowthInv ==
  ASSUME AgInv, NEW t, t \in Thread, Growth, NewNodes, NewVars, OpsEnd, OthersKept(t),
         UNCHANGED <<agRaced, agOwed, agTaken, agPanicked>>
  PROVE  AgInv'
  <1>1. /\ agVar' \in Seq(VarRecs) /\ agGrad' \in Seq(Slots) /\ Len(agGrad') = Len(agVar') /\ Len(agTan') = Len(agVar')
        /\ Bigger(agNode, agTan, agNode', agTan') /\ Grown(agVar, agVar') /\ agNode' \in Seq(NodeRecs) /\ agTan' \in Seq(Tangents)
    BY DEF Growth, Bigger
  <1>2. World(agNode', agTan')
    <2>1. PICK ns2, ts2 : ns2 = agNode' /\ ts2 = agTan'
      OBVIOUS
    <2>2. \A n \in 1 .. Len(ns2) : n \in 1 .. Len(agNode) \/ NodeOK(ns2, n, Len(ts2))
      BY <2>1 DEF NewNodes
    <2>3. World(ns2, ts2)
      BY <1>1, <2>1, <2>2, BiggerWorld
    <2> QED
      BY <2>1, <2>3
  <1>3. AgTypes'
    <2>1. Len(LeafVars) <= Len(agVar')
      BY <1>1, <1>2 DEF World
    <2>2. agOp' \in [Thread -> OpRecs] /\ agFrames' \in [Thread -> Seq(Frames)]
      BY DEF OpsEnd, OthersKept
    <2> QED
      BY <1>1, <2>1, <2>2 DEF AgInv, AgTypes
  <1>4. \A u \in Thread : StackOK(agFrames'[u], agNode', agTan')
    BY GrowthKeeps DEF OthersKept
  <1>5. ASSUME NEW u \in Thread, NEW w \in Thread, u # w, Len(agFrames'[u]) = 2, Len(agFrames'[w]) = 2
        PROVE  ToSet(agFrames'[u][2].fresh) \cap ToSet(agFrames'[w][2].fresh) = {}
    <2>1. CASE u = t
      <3>1. agFrames'[w] = agFrames[w]
        BY <1>5, <2>1 DEF OthersKept
      <3> QED
        BY <1>5, <2>1, <3>1 DEF OthersKept
    <2>2. CASE w = t
      <3>1. agFrames'[u] = agFrames[u]
        BY <1>5, <2>2 DEF OthersKept
      <3> QED
        BY <1>5, <2>2, <3>1 DEF OthersKept
    <2>3. CASE u # t /\ w # t
      <3>1. agFrames'[u] = agFrames[u] /\ agFrames'[w] = agFrames[w]
        BY <2>3 DEF OthersKept
      <3> QED
        BY <1>5, <3>1 DEF AgInv, TapeInv
    <2> QED
      BY <2>1, <2>2, <2>3
  <1>6. TapeInv'
    <2>1. \A n \in 1 .. Len(agNode') : NodeOK(agNode', n, Len(agVar'))
      BY <1>1, <1>2 DEF World
    <2>2. \A v \in 1 .. Len(agVar') : VarOK(agVar', v, agNode', agTan')
      BY GrowthKeeps DEF NewVars
    <2>3. \A u \in Thread : OpOK(agOp'[u], agVar')
      <3> SUFFICES ASSUME NEW u \in Thread PROVE OpOK(agOp'[u], agVar')
        OBVIOUS
      <3>1. CASE agOp'[u] = agOp[u]
        BY <3>1, GrowthKeeps
      <3>2. CASE agOp'[u].op = "none"
        BY <3>2 DEF OpOK
      <3> QED
        BY <3>1, <3>2 DEF OpsEnd
    <2> QED
      BY <1>4, <1>5, <2>1, <2>2, <2>3 DEF TapeInv
  <1>7. TanInv'
    <2> SUFFICES ASSUME ~agRaced
                 PROVE  /\ \A n \in 1 .. Len(agNode') : NodeTan(agNode', n, agVar', agTan')
                        /\ \A u \in Thread : OpTan(agOp'[u], agVar', agTan')
      BY DEF TanInv
    <2>1. \A n \in 1 .. Len(agNode') : NodeTan(agNode', n, agVar', agTan')
      BY GrowthKeeps DEF NewNodes
    <2>2. ASSUME NEW u \in Thread PROVE OpTan(agOp'[u], agVar', agTan')
      <3>1. CASE agOp'[u] = agOp[u]
        BY <3>1, GrowthKeeps
      <3>2. CASE agOp'[u].op = "none"
        BY <3>2 DEF OpTan
      <3> QED
        BY <3>1, <3>2 DEF OpsEnd
    <2> QED
      BY <2>1, <2>2
  <1>8. Books(agFrames', agGrad', agNode', agTan', agTaken', agOwed')
    <2>1. Stacks(agFrames', agNode', agTan')
      BY <1>4 DEF Stacks, OthersKept
    <2>2. agTaken' \in Tangents /\ agOwed' \in Tangents
      BY DEF AgInv, AgTypes
    <2>3. Len(agGrad') = Len(agTan')
      BY <1>1
    <2> QED
      BY <1>1, <1>2, <2>1, <2>2, <2>3 DEF Books
  <1>9. BalanceInv'
    <2> SUFFICES ASSUME ~agRaced, agPanicked = {}, NEW l \in Leaves
                 PROVE  Settled(agFrames', agGrad', agNode', agTan', agTaken', agOwed', l)
      BY DEF BalanceInv
    <2>1. Settled(agFrames, agGrad, agNode, agTan, agTaken, agOwed, l)
      BY DEF AgInv, BalanceInv
    <2>2. \A u \in Thread \ {t} : Owes(agFrames'[u], agNode', agTan', agGrad', l) = Owes(agFrames[u], agNode, agTan, agGrad, l)
      <3> SUFFICES ASSUME NEW u \in Thread \ {t}
                   PROVE  Owes(agFrames'[u], agNode', agTan', agGrad', l) = Owes(agFrames[u], agNode, agTan, agGrad, l)
        OBVIOUS
      <3>1. agFrames'[u] = agFrames[u]
        BY DEF OthersKept
      <3>2. Owes(agFrames[u], agNode', agTan', agGrad', l) = Owes(agFrames[u], agNode, agTan, agGrad, l)
        BY GrowthKeeps
      <3> QED
        BY <3>1, <3>2, Zenon
    <2>3. Net(agFrames', agGrad', agNode', agTan', agTaken', agOwed', t, l) = Net(agFrames, agGrad, agNode, agTan, agTaken, agOwed, t, l)
      <3>1. agGrad'[l] = agGrad[l]
        BY GrowthKeeps
      <3>2. Owes(agFrames'[t], agNode', agTan', agGrad', l) = Owes(agFrames[t], agNode, agTan, agGrad, l)
        BY DEF OthersKept
      <3>3. agTaken' = agTaken /\ agOwed' = agOwed
        OBVIOUS
      <3> QED
        BY <3>1, <3>2, <3>3, Zenon DEF Net
    <2>4. Books(agFrames, agGrad, agNode, agTan, agTaken, agOwed)
      BY InvBooks
    <2>5. Moves(agFrames, agGrad, agNode, agTan, agTaken, agOwed, agFrames', agGrad', agNode', agTan', agTaken', agOwed', t, l)
      BY <1>8, <2>1, <2>2, <2>3, <2>4, Zenon DEF Moves
    <2> QED
      BY <2>5, Settles
  <1> QED
    BY <1>3, <1>6, <1>7, <1>9 DEF AgInv
Pushed(s, x, s2, S) == s \in Seq(S) /\ x \in S /\ s2 = Append(s, x)

(* A sequence with one more element.                                       *)
LEMMA GrownPush ==
  ASSUME NEW s, NEW x, NEW s2, NEW S, Pushed(s, x, s2, S)
  PROVE  /\ Grown(s, s2) /\ s2 \in Seq(S) /\ Len(s2) = Len(s) + 1 /\ s2[Len(s) + 1] = x
         /\ \A i \in 1 .. Len(s2) : i = Len(s) + 1 \/ i \in 1 .. Len(s)
  <1>0. s \in Seq(S) /\ x \in S /\ s2 = Append(s, x)
    BY DEF Pushed
  <1>1. /\ s2 \in Seq(S) /\ Len(s2) = Len(s) + 1 /\ Len(s) \in Nat
        /\ (\A i \in 1 .. Len(s) : s2[i] = s[i]) /\ s2[Len(s) + 1] = x
    BY <1>0, AppendProperties
  <1>2. Grown(s, s2)
    BY <1>1 DEF Grown
  <1>3. PICK k \in Nat : k = Len(s)
    BY <1>1
  <1>4. \A i \in 1 .. k + 1 : i = k + 1 \/ i \in 1 .. k
    OBVIOUS
  <1> QED
    BY <1>1, <1>2, <1>3, <1>4

(* The edge of a variable that a user holds.                               *)
LEMMA EdgeIs ==
  ASSUME AgInv, NEW v, v \in 1 .. Len(agVar), agVar[v].user
  PROVE  /\ LeadsInto(Edge(v), agNode, agTan)
         /\ Edge(v).kind = "slot" => Edge(v).to \in Wanted
         /\ Edge(v).kind = "node" => Plain(agNode, Edge(v).to)
         /\ \A l \in Leaves : Along(Edge(v), agNode, agTan, l) = agTan[v][l]
  <1>1. /\ VarOK(agVar, v, agNode, agTan) /\ agVar[v] \in VarRecs /\ v \in 1 .. Len(agTan) /\ agNode \in Seq(NodeRecs)
        /\ v \in Nat
    <2>1. agVar \in Seq(VarRecs) /\ Len(agVar) = Len(agTan) /\ agNode \in Seq(NodeRecs)
      BY InvBooks
    <2>2. agVar[v] \in VarRecs
      BY <2>1, ElementOfSeq
    <2> QED
      BY <2>1, <2>2 DEF AgInv, TapeInv
  <1>2. PICK x : x = agVar[v]
    OBVIOUS
  <1>3. x.req \in BOOLEAN /\ x.fn \in Nat /\ x.user
    BY <1>1, <1>2 DEF VarRecs
  <1>4. PICK e : e = Edge(v)
    OBVIOUS
  <1>5. CASE ~x.req
    <2>1. e = Detached
      BY <1>2, <1>4, <1>5 DEF Edge
    <2>2. e \in Edges /\ e.kind = "detached"
      BY <2>1 DEF Detached, Edges
    <2>3. agTan[v] = Zero
      BY <1>1, <1>2, <1>5 DEF VarOK
    <2>4. \A l \in Leaves : Along(e, agNode, agTan, l) = agTan[v][l]
      BY <2>2, <2>3 DEF Along, Zero
    <2> QED
      BY <1>4, <2>2, <2>4 DEF LeadsInto
  <1>6. CASE x.req /\ x.fn # 0
    <2>1. e = [kind |-> "node", to |-> x.fn]
      BY <1>2, <1>4, <1>6 DEF Edge
    <2>2. e \in Edges /\ e.kind = "node" /\ e.to = x.fn
      BY <1>3, <2>1 DEF Edges
    <2>3. x.fn <= Len(agNode) /\ Plain(agNode, x.fn) /\ agTan[v] = agNode[x.fn].tan
      BY <1>1, <1>2, <1>6 DEF VarOK
    <2>4. x.fn \in 1 .. Len(agNode)
      BY <1>1, <1>3, <1>6, <2>3
    <2>5. \A l \in Leaves : Along(e, agNode, agTan, l) = agTan[v][l]
      BY <2>2, <2>3 DEF Along
    <2> QED
      BY <1>4, <2>2, <2>3, <2>4, <2>5 DEF LeadsInto
  <1>7. CASE x.req /\ x.fn = 0
    <2>1. e = [kind |-> "slot", to |-> v]
      BY <1>2, <1>4, <1>7 DEF Edge
    <2>2. e \in Edges /\ e.kind = "slot" /\ e.to = v
      BY <1>1, <2>1 DEF Edges
    <2>3. v \in Leaves /\ LeafVars[v].req
      BY <1>1, <1>2, <1>3, <1>7 DEF VarOK
    <2>4. v \in Wanted
      BY <2>3 DEF Wanted
    <2>5. \A l \in Leaves : Along(e, agNode, agTan, l) = agTan[v][l]
      BY <2>2 DEF Along
    <2> QED
      BY <1>1, <1>4, <2>2, <2>4, <2>5 DEF LeadsInto
  <1> QED
    BY <1>3, <1>5, <1>6, <1>7

(* What a new node has to be.                                              *)
Sound(node, ns, ts2) ==
  /\ Len(node.edges) \in {1, 2} /\ Len(node.saved) = Len(node.edges)
  /\ node.op # "ckpt" => Len(node.edges) = 2
  /\ node.op = "ckpt" => node.cap \in Captured
       /\ \A i \in 1 .. Len(node.edges) : node.edges[i].kind = "slot" => node.edges[i].to \in Wanted
  /\ \A i \in 1 .. Len(node.edges) :
       LeadsInto(node.edges[i], ns, ts2) /\ (node.edges[i].kind = "node" => Plain(ns, node.edges[i].to))

(* A sound node makes a bigger tape.                                       *)
LEMMA NodeMade ==
  ASSUME NEW ns, NEW ts, NEW ns2, NEW ts2, World(ns, ts), ts2 \in Seq(Tangents), Grown(ts, ts2),
         NEW node, node \in NodeRecs, ns2 = Append(ns, node), Sound(node, ns, ts2)
  PROVE  /\ Bigger(ns, ts, ns2, ts2) /\ Len(ns2) = Len(ns) + 1 /\ ns2[Len(ns) + 1] = node
         /\ NodeOK(ns2, Len(ns) + 1, Len(ts2))
         /\ \A i \in 1 .. Len(ns2) : i = Len(ns) + 1 \/ i \in 1 .. Len(ns)
  <1>0. ns \in Seq(NodeRecs) /\ Len(ns) \in Nat
    BY DEF World
  <1>1. /\ Grown(ns, ns2) /\ ns2 \in Seq(NodeRecs) /\ Len(ns2) = Len(ns) + 1 /\ ns2[Len(ns) + 1] = node
        /\ \A i \in 1 .. Len(ns2) : i = Len(ns) + 1 \/ i \in 1 .. Len(ns)
    <2>1. Pushed(ns, node, ns2, NodeRecs)
      BY <1>0 DEF Pushed
    <2> QED
      BY <2>1, GrownPush
  <1>2. Bigger(ns, ts, ns2, ts2)
    BY <1>1 DEF Bigger
  <1>3. PICK n : n = Len(ns) + 1
    OBVIOUS
  <1>4. ns2[n] = node /\ 1 .. n - 1 = 1 .. Len(ns)
    BY <1>0, <1>1, <1>3
  <1>5. /\ Len(node.edges) \in {1, 2} /\ Len(node.saved) = Len(node.edges)
        /\ node.op # "ckpt" => Len(node.edges) = 2
        /\ node.op = "ckpt" => node.cap \in Captured
             /\ \A i \in 1 .. Len(node.edges) : node.edges[i].kind = "slot" => node.edges[i].to \in Wanted
    BY DEF Sound
  <1>6. node.op = "ckpt" => Plain(ns2, n)
    BY <1>4, <1>5 DEF Plain
  <1>7. ASSUME NEW i \in 1 .. Len(node.edges)
        PROVE  /\ node.edges[i].kind = "node" => node.edges[i].to \in 1 .. n - 1 /\ Plain(ns2, node.edges[i].to)
               /\ node.edges[i].kind = "slot" => node.edges[i].to \in 1 .. Len(ts2)
    <2>1. LeadsInto(node.edges[i], ns, ts2) /\ (node.edges[i].kind = "node" => Plain(ns, node.edges[i].to))
      BY DEF Sound
    <2>2. /\ node.edges[i].kind = "node" => node.edges[i].to \in 1 .. Len(ns)
          /\ node.edges[i].kind = "slot" => node.edges[i].to \in 1 .. Len(ts2)
      BY <2>1 DEF LeadsInto
    <2>3. PICK m : m = node.edges[i].to
      OBVIOUS
    <2>4. m \in 1 .. Len(ns) => (Plain(ns2, m) <=> Plain(ns, m))
      BY <1>1, PlainGrown
    <2> QED
      BY <1>4, <2>1, <2>2, <2>3, <2>4
  <1>8. NodeOK(ns2, n, Len(ts2))
    BY <1>4, <1>5, <1>6, <1>7 DEF NodeOK
  <1> QED
    BY <1>1, <1>2, <1>3, <1>8

(* What a new variable has to be.                                          *)
Fits(req, fn, tan, ns2) ==
  \/ ~req /\ fn = 0 /\ tan = Zero
  \/ req /\ fn \in 1 .. Len(ns2) /\ Plain(ns2, fn) /\ tan = ns2[fn].tan

(* A fitting variable makes more variables.                                *)
LEMMA VarMade ==
  ASSUME AgInv, NEW d, d \in Int, NEW req, req \in BOOLEAN, NEW fn, fn \in Nat, NEW tan, tan \in Tangents,
         NewVar(d, req, fn, tan), Fits(req, fn, tan, agNode'), agNode' \in Seq(NodeRecs), Grown(agNode, agNode')
  PROVE  Growth /\ NewVars
  <1>1. /\ agVar \in Seq(VarRecs) /\ agGrad \in Seq(Slots) /\ agTan \in Seq(Tangents) /\ World(agNode, agTan)
        /\ Len(agGrad) = Len(agTan) /\ Len(agVar) = Len(agTan) /\ Len(LeafVars) <= Len(agVar) /\ Len(agVar) \in Nat
    BY InvBooks
  <1>2. PICK x : x = [data |-> d, req |-> req, fn |-> fn, user |-> TRUE]
    OBVIOUS
  <1>3. x \in VarRecs /\ x.req = req /\ x.fn = fn /\ x.user
    BY <1>2 DEF VarRecs
  <1>4. PICK vs2, g2, ts2, ns2 : vs2 = agVar' /\ g2 = agGrad' /\ ts2 = agTan' /\ ns2 = agNode'
    OBVIOUS
  <1>5. vs2 = Append(agVar, x) /\ g2 = Append(agGrad, NoGrad) /\ ts2 = Append(agTan, tan)
    BY <1>2, <1>4 DEF NewVar
  <1>6. NoGrad \in Slots
    BY DEF Slots
  <1>7. PICK k : k = Len(agVar) + 1
    OBVIOUS
  <1>8. /\ Grown(agVar, vs2) /\ vs2 \in Seq(VarRecs) /\ Len(vs2) = Len(agVar) + 1 /\ vs2[Len(agVar) + 1] = x
        /\ \A i \in 1 .. Len(vs2) : i = Len(agVar) + 1 \/ i \in 1 .. Len(agVar)
    <2>1. Pushed(agVar, x, vs2, VarRecs)
      BY <1>1, <1>3, <1>5 DEF Pushed
    <2> QED
      BY <2>1, GrownPush
  <1>9. Grown(agGrad, g2) /\ g2 \in Seq(Slots) /\ Len(g2) = Len(agGrad) + 1
    <2>1. Pushed(agGrad, NoGrad, g2, Slots)
      BY <1>1, <1>5, <1>6 DEF Pushed
    <2> QED
      BY <2>1, GrownPush
  <1>10. Grown(agTan, ts2) /\ ts2 \in Seq(Tangents) /\ Len(ts2) = Len(agTan) + 1 /\ ts2[Len(agTan) + 1] = tan
    <2>1. Pushed(agTan, tan, ts2, Tangents)
      BY <1>1, <1>5 DEF Pushed
    <2> QED
      BY <2>1, GrownPush
  <1>11. Growth
    <2>1. Bigger(agNode, agTan, agNode', agTan')
      BY <1>1, <1>4, <1>10 DEF Bigger
    <2>2. Len(g2) = Len(vs2) /\ Len(ts2) = Len(vs2)
      BY <1>1, <1>8, <1>9, <1>10
    <2> QED
      BY <1>4, <1>8, <1>9, <2>1, <2>2 DEF Growth
  <1>12. VarOK(vs2, k, ns2, ts2)
    <2>1. vs2[k].req = req /\ vs2[k].fn = fn /\ vs2[k].user /\ ts2[k] = tan
      BY <1>1, <1>3, <1>7, <1>8, <1>10
    <2>2. k \notin Leaves
      BY <1>1, <1>7, LeavesAre
    <2>3. Len(ns2) \in Nat /\ Fits(req, fn, tan, ns2)
      BY <1>4
    <2>4. CASE ~req /\ fn = 0 /\ tan = Zero
      BY <2>1, <2>2, <2>3, <2>4 DEF VarOK
    <2>5. CASE req /\ fn \in 1 .. Len(ns2) /\ Plain(ns2, fn) /\ tan = ns2[fn].tan
      <3>1. fn <= Len(ns2) /\ fn # 0
        BY <2>3, <2>5
      <3>2. req /\ Plain(ns2, fn) /\ tan = ns2[fn].tan
        BY <2>5
      <3> QED
        BY <2>1, <2>2, <3>1, <3>2, Zenon DEF VarOK
    <2> QED
      BY <2>3, <2>4, <2>5 DEF Fits
  <1>13. NewVars
    BY <1>4, <1>7, <1>8, <1>12 DEF NewVars
  <1> QED
    BY <1>11, <1>13

(* Nobody's calls change.                                                  *)
LEMMA SameStacks ==
  ASSUME AgInv, NEW t, t \in Thread, Growth, UNCHANGED agFrames
  PROVE  OthersKept(t)
  <1>1. agFrames' \in [Thread -> Seq(Frames)] /\ \A u \in Thread \ {t} : agFrames'[u] = agFrames[u]
    BY DEF AgInv, AgTypes
  <1>2. StackOK(agFrames'[t], agNode', agTan')
    BY GrowthKeeps
  <1>3. \A u \in Thread \ {t} : Len(agFrames'[t]) = 2 /\ Len(agFrames[u]) = 2
          => ToSet(agFrames'[t][2].fresh) \cap ToSet(agFrames[u][2].fresh) = {}
    BY DEF AgInv, TapeInv
  <1>4. \A l \in Leaves : Owes(agFrames'[t], agNode', agTan', agGrad', l) = Owes(agFrames[t], agNode, agTan, agGrad, l)
    <2>1. \A l \in Leaves : Owes(agFrames[t], agNode', agTan', agGrad', l) = Owes(agFrames[t], agNode, agTan, agGrad, l)
      BY GrowthKeeps
    <2> QED
      BY <2>1, Zenon
  <1> QED
    BY <1>1, <1>2, <1>3, <1>4 DEF OthersKept

(* Detach keeps the invariant.                                             *)
LEMMA DetachInv ==
  ASSUME AgInv, NEW t, t \in Thread, NEW v, v \in Held, Detach(t, v)
  PROVE  AgInv'
  <1>1. /\ NewVar(agVar[v].data, FALSE, 0, Zero) /\ agNode' = agNode /\ UNCHANGED agFrames /\ agOp' = agOp
        /\ UNCHANGED <<agRaced, agOwed, agTaken, agPanicked>>
    BY DEF Detach
  <1>2. PICK d \in Int : d = agVar[v].data
    <2>1. agVar \in Seq(VarRecs)
      BY InvBooks
    <2>2. v \in 1 .. Len(agVar)
      BY <2>1 DEF Held
    <2>3. agVar[v] \in VarRecs
      BY <2>1, <2>2, ElementOfSeq
    <2> QED
      BY <2>3 DEF VarRecs
  <1>3. NewVar(d, FALSE, 0, Zero) /\ Fits(FALSE, 0, Zero, agNode') /\ Zero \in Tangents /\ 0 \in Nat /\ FALSE \in BOOLEAN
    <2>1. NewVar(d, FALSE, 0, Zero)
      BY <1>1, <1>2, Zenon
    <2>2. Zero \in Tangents
      BY DEF Zero, Tangents
    <2> QED
      BY <2>1, <2>2 DEF Fits
  <1>4. agNode' \in Seq(NodeRecs) /\ Grown(agNode, agNode')
    BY <1>1, InvBooks, GrownRefl
  <1>5. Growth /\ NewVars
    BY <1>3, <1>4, VarMade
  <1>6. NewNodes
    BY <1>1 DEF NewNodes
  <1>7. OpsEnd
    BY <1>1 DEF OpsEnd, AgInv, AgTypes
  <1>8. OthersKept(t)
    BY <1>1, <1>5, SameStacks
  <1> QED
    BY <1>1, <1>5, <1>6, <1>7, <1>8, GrowthInv
(* The node that an operation records.                                     *)
NodeFor(o) ==
  [op |-> o.op, saved |-> Saved(o.args), cap |-> o.cap,
   edges |-> [i \in DOMAIN o.args |-> Edge(o.args[i])], tan |-> o.tan]

(* An operation between its halves, and its parts.                         *)
LEMMA OpIs ==
  ASSUME AgInv, NEW t, t \in Thread, NEW o, o = agOp[t], o # NoOp
  PROVE  /\ o.op \in {"add", "mul", "ckpt"} /\ o.args \in Seq(Nat) /\ o.cap \in Nat /\ o.value \in Int /\ o.tan \in Tangents
         /\ Len(o.args) \in {1, 2} /\ (o.op # "ckpt" => Len(o.args) = 2) /\ (o.op = "ckpt" => o.cap \in Captured)
         /\ \A i \in 1 .. Len(o.args) : o.args[i] \in 1 .. Len(agVar) /\ agVar[o.args[i]].user
         /\ 1 \in 1 .. Len(o.args) /\ (o.op # "ckpt" => 2 \in 1 .. Len(o.args))
  <1>1. o \in OpRecs /\ OpOK(o, agVar)
    BY DEF AgInv, AgTypes, TapeInv
  <1>2. o.op \in {"add", "mul", "ckpt"} /\ o.args \in Seq(Nat) /\ o.cap \in Nat /\ o.value \in Int /\ o.tan \in Tangents
    BY <1>1 DEF OpRecs
  <1>3. o.op # "none"
    BY <1>2
  <1>4. /\ Len(o.args) \in {1, 2} /\ (o.op # "ckpt" => Len(o.args) = 2) /\ (o.op = "ckpt" => o.cap \in Captured)
        /\ \A i \in 1 .. Len(o.args) : o.args[i] \in 1 .. Len(agVar) /\ agVar[o.args[i]].user
    BY <1>1, <1>3 DEF OpOK
  <1>5. PICK k \in {1, 2} : k = Len(o.args)
    BY <1>4, Zenon
  <1>6. 1 \in 1 .. k /\ (k = 2 => 2 \in 1 .. k)
    BY <1>5
  <1> QED
    BY <1>2, <1>4, <1>5, <1>6

(* The node that an operation records is sound.                            *)
LEMMA NodeForIs ==
  ASSUME AgInv, NEW t, t \in Thread, NEW o, o = agOp[t], o # NoOp, NEW node, node = NodeFor(o)
  PROVE  /\ node \in NodeRecs /\ Sound(node, agNode, agTan) /\ node.op = o.op /\ node.cap = o.cap /\ node.tan = o.tan
         /\ Len(node.edges) = Len(o.args)
         /\ \A i \in 1 .. Len(o.args) : node.edges[i] = Edge(o.args[i]) /\ node.saved[i] = agVar[o.args[i]].data
         /\ \A i \in 1 .. Len(node.edges) : node.edges[i].kind = "slot" => node.edges[i].to \in Wanted
  <1>1. /\ o.op \in {"add", "mul", "ckpt"} /\ o.args \in Seq(Nat) /\ o.cap \in Nat /\ o.tan \in Tangents
        /\ Len(o.args) \in {1, 2} /\ (o.op # "ckpt" => Len(o.args) = 2) /\ (o.op = "ckpt" => o.cap \in Captured)
        /\ \A i \in 1 .. Len(o.args) : o.args[i] \in 1 .. Len(agVar) /\ agVar[o.args[i]].user
    BY OpIs
  <1>2. PICK k \in Nat : k = Len(o.args) /\ DOMAIN o.args = 1 .. k
    BY <1>1
  <1>3. PICK es : es = [i \in 1 .. k |-> Edge(o.args[i])]
    OBVIOUS
  <1>4. PICK sv : sv = [i \in 1 .. k |-> agVar[o.args[i]].data]
    OBVIOUS
  <1>5. node = [op |-> o.op, saved |-> sv, cap |-> o.cap, edges |-> es, tan |-> o.tan]
    BY <1>2, <1>3, <1>4 DEF NodeFor, Saved, Data
  <1>6. node.op = o.op /\ node.saved = sv /\ node.cap = o.cap /\ node.edges = es /\ node.tan = o.tan
    BY <1>5
  <1>7. ASSUME NEW i \in 1 .. k
        PROVE  /\ LeadsInto(es[i], agNode, agTan) /\ es[i] \in Edges /\ es[i] = Edge(o.args[i])
               /\ es[i].kind = "slot" => es[i].to \in Wanted
               /\ es[i].kind = "node" => Plain(agNode, es[i].to)
    <2>1. PICK v : v = o.args[i]
      OBVIOUS
    <2>2. v \in 1 .. Len(agVar) /\ agVar[v].user /\ es[i] = Edge(v)
      BY <1>1, <1>2, <1>3, <2>1
    <2>3. /\ LeadsInto(Edge(v), agNode, agTan)
          /\ Edge(v).kind = "slot" => Edge(v).to \in Wanted
          /\ Edge(v).kind = "node" => Plain(agNode, Edge(v).to)
      BY <2>2, EdgeIs
    <2>4. Edge(v) \in Edges
      BY <2>3 DEF LeadsInto
    <2> QED
      BY <2>1, <2>2, <2>3, <2>4
  <1>8. ASSUME NEW i \in 1 .. k PROVE sv[i] \in Int /\ sv[i] = agVar[o.args[i]].data
    <2>1. PICK v : v = o.args[i]
      OBVIOUS
    <2>2. v \in 1 .. Len(agVar) /\ sv[i] = agVar[v].data
      BY <1>1, <1>2, <1>4, <2>1
    <2>3. agVar[v] \in VarRecs
      BY <2>2, InvBooks, ElementOfSeq
    <2> QED
      BY <2>1, <2>2, <2>3 DEF VarRecs
  <1>9. es \in Seq(Edges) /\ Len(es) = k
    <2>1. es \in [1 .. k -> Edges]
      BY <1>3, <1>7
    <2> QED
      BY <2>1
  <1>10. sv \in Seq(Int) /\ Len(sv) = k
    <2>1. sv \in [1 .. k -> Int]
      BY <1>4, <1>8
    <2> QED
      BY <2>1
  <1>11. node \in NodeRecs
    BY <1>1, <1>5, <1>9, <1>10 DEF NodeRecs
  <1>12. Sound(node, agNode, agTan)
    BY <1>1, <1>2, <1>6, <1>7, <1>9, <1>10 DEF Sound
  <1> QED
    BY <1>2, <1>6, <1>7, <1>8, <1>9, <1>11, <1>12

(* It stays sound when variables are added.                                *)
LEMMA SoundGrown ==
  ASSUME NEW node, NEW ns, NEW ts, NEW ts2, Grown(ts, ts2), Sound(node, ns, ts)
  PROVE  Sound(node, ns, ts2)
  <1>1. 1 .. Len(ts) \subseteq 1 .. Len(ts2)
    BY DEF Grown
  <1>2. \A e : LeadsInto(e, ns, ts) => LeadsInto(e, ns, ts2)
    BY <1>1 DEF LeadsInto
  <1> QED
    BY <1>2 DEF Sound

(* The recorded node's derivative is the operation's.                      *)
LEMMA TanForIs ==
  ASSUME AgInv, ~agRaced, NEW t, t \in Thread, NEW o, o = agOp[t], o # NoOp, NEW node, node = NodeFor(o),
         NEW ns2, NEW ts2, NEW vs2, Bigger(agNode, agTan, ns2, ts2), Grown(agVar, vs2), NEW n, ns2[n] = node
  PROVE  NodeTan(ns2, n, vs2, ts2)
  <1>1. /\ node.op = o.op /\ node.cap = o.cap /\ node.tan = o.tan
        /\ \A i \in 1 .. Len(o.args) : node.edges[i] = Edge(o.args[i]) /\ node.saved[i] = agVar[o.args[i]].data
    BY NodeForIs
  <1>2. /\ o.op \in {"add", "mul", "ckpt"} /\ (o.op = "ckpt" => o.cap \in Captured)
        /\ \A i \in 1 .. Len(o.args) : o.args[i] \in 1 .. Len(agVar) /\ agVar[o.args[i]].user
        /\ 1 \in 1 .. Len(o.args) /\ (o.op # "ckpt" => 2 \in 1 .. Len(o.args))
    BY OpIs
  <1>3. OpTan(o, agVar, agTan) /\ o.op # "none"
    BY <1>2 DEF AgInv, TanInv
  <1>4. ASSUME NEW i \in 1 .. Len(o.args), NEW l \in Leaves
        PROVE  Along(node.edges[i], ns2, ts2, l) = agTan[o.args[i]][l]
    <2>1. PICK v : v = o.args[i]
      OBVIOUS
    <2>2. v \in 1 .. Len(agVar) /\ agVar[v].user /\ node.edges[i] = Edge(v)
      BY <1>1, <1>2, <2>1
    <2>3. LeadsInto(Edge(v), agNode, agTan) /\ Along(Edge(v), agNode, agTan, l) = agTan[v][l]
      BY <2>2, EdgeIs
    <2>4. PICK e : e = Edge(v)
      OBVIOUS
    <2>5. Along(e, ns2, ts2, l) = Along(e, agNode, agTan, l)
      BY <2>3, <2>4, AlongGrown
    <2> QED
      BY <2>1, <2>2, <2>3, <2>4, <2>5, Zenon
  <1>5. CASE o.op = "ckpt"
    <2>1. o.cap \in 1 .. Len(agVar) /\ o.cap \in 1 .. Len(agTan)
      BY <1>2, <1>5, InvBooks, WantedKnown, LeavesAre
    <2>2. vs2[o.cap] = agVar[o.cap] /\ ts2[o.cap] = agTan[o.cap]
      <3>1. Grown(agTan, ts2)
        BY DEF Bigger
      <3> QED
        BY <2>1, <3>1, GrownIn
    <2>3. ASSUME NEW l \in Leaves
          PROVE  node.tan[l] = ChainRule("ckpt", node.saved[1], vs2[node.cap].data, Along(node.edges[1], ns2, ts2, l), ts2[node.cap][l])
      <3>1. o.tan[l] = ChainRule("ckpt", agVar[o.args[1]].data, agVar[o.cap].data, agTan[o.args[1]][l], agTan[o.cap][l])
        BY <1>3, <1>5 DEF OpTan
      <3>2. node.saved[1] = agVar[o.args[1]].data
        BY <1>1, <1>2
      <3>3. Along(node.edges[1], ns2, ts2, l) = agTan[o.args[1]][l]
        BY <1>2, <1>4
      <3> QED
        BY <1>1, <2>2, <3>1, <3>2, <3>3, Zenon
    <2> QED
      BY <1>1, <1>5, <2>3 DEF NodeTan
  <1>6. CASE o.op # "ckpt"
    <2>3. ASSUME NEW l \in Leaves
          PROVE  node.tan[l] = ChainRule(node.op, node.saved[1], node.saved[2], Along(node.edges[1], ns2, ts2, l), Along(node.edges[2], ns2, ts2, l))
      <3>1. o.tan[l] = ChainRule(o.op, agVar[o.args[1]].data, agVar[o.args[2]].data, agTan[o.args[1]][l], agTan[o.args[2]][l])
        BY <1>3, <1>6 DEF OpTan
      <3>2. node.saved[1] = agVar[o.args[1]].data /\ node.saved[2] = agVar[o.args[2]].data
        BY <1>1, <1>2, <1>6
      <3>3. Along(node.edges[1], ns2, ts2, l) = agTan[o.args[1]][l] /\ Along(node.edges[2], ns2, ts2, l) = agTan[o.args[2]][l]
        BY <1>2, <1>4, <1>6
      <3> QED
        BY <1>1, <3>1, <3>2, <3>3, Zenon
    <2> QED
      BY <1>1, <1>6, <2>3 DEF NodeTan
  <1> QED
    BY <1>5, <1>6

(* The operation ends.                                                     *)
LEMMA OpGone ==
  ASSUME AgInv, NEW t, t \in Thread, agOp' = [agOp EXCEPT ![t] = NoOp]
  PROVE  OpsEnd
  <1>1. agOp \in [Thread -> OpRecs]
    BY DEF AgInv, AgTypes
  <1>2. NoOp \in OpRecs /\ NoOp.op = "none"
    BY DEF OpRecs, NoOp
  <1>3. PICK no : no = NoOp
    OBVIOUS
  <1>4. agOp' \in [Thread -> OpRecs] /\ \A u \in Thread : agOp'[u] = agOp[u] \/ agOp'[u] = no
    BY <1>1, <1>2, <1>3
  <1> QED
    BY <1>2, <1>3, <1>4 DEF OpsEnd

(* The second half of an operation keeps the invariant.                    *)
LEMMA RecordInv ==
  ASSUME AgInv, NEW t, t \in Thread, Record(t)
  PROVE  AgInv'
  <1>1. PICK o : o = agOp[t]
    OBVIOUS
  <1>2. PICK recorded \in BOOLEAN : recorded = (agEnabled[t] /\ \E i \in DOMAIN o.args : agVar[o.args[i]].req)
    OBVIOUS
  <1>3. PICK node : node = NodeFor(o)
    OBVIOUS
  <1>4. /\ o # NoOp /\ UNCHANGED agFrames /\ UNCHANGED <<agRaced, agOwed, agTaken, agPanicked>>
        /\ agOp' = [agOp EXCEPT ![t] = NoOp]
        /\ agNode' = IF ~recorded THEN agNode ELSE Append(agNode, node)
        /\ NewVar(o.value, recorded, IF recorded THEN Len(agNode) + 1 ELSE 0, IF recorded THEN o.tan ELSE Zero)
    BY <1>1, <1>2, <1>3 DEF Record, NodeFor
  <1>5. o.value \in Int /\ o.tan \in Tangents
    BY <1>1, <1>4, OpIs
  <1>6. OpsEnd
    BY <1>4, OpGone
  <1>7. World(agNode, agTan) /\ agNode \in Seq(NodeRecs) /\ Len(agNode) \in Nat
    BY InvBooks
  <1>8. Growth /\ NewVars /\ NewNodes
    <2>1. CASE ~recorded
      <3>1. NewVar(o.value, FALSE, 0, Zero) /\ agNode' = agNode
        BY <1>4, <2>1
      <3>2. Zero \in Tangents /\ 0 \in Nat /\ FALSE \in BOOLEAN
        BY DEF Zero, Tangents
      <3>3. Fits(FALSE, 0, Zero, agNode')
        BY DEF Fits
      <3>4. agNode' \in Seq(NodeRecs) /\ Grown(agNode, agNode')
        BY <1>7, <3>1, GrownRefl
      <3>5. Growth /\ NewVars
        BY <1>5, <3>1, <3>2, <3>3, <3>4, VarMade
      <3> QED
        BY <3>1, <3>5 DEF NewNodes
    <2>2. CASE recorded
      <3>1. PICK n \in Nat : n = Len(agNode) + 1
        BY <1>7
      <3>2. NewVar(o.value, TRUE, n, o.tan) /\ agNode' = Append(agNode, node)
        BY <1>4, <2>2, <3>1
      <3>3. /\ node \in NodeRecs /\ Sound(node, agNode, agTan) /\ node.tan = o.tan
            /\ \A i \in 1 .. Len(node.edges) : node.edges[i].kind = "slot" => node.edges[i].to \in Wanted
        BY <1>1, <1>3, <1>4, NodeForIs
      <3>4. PICK ns2, ts2, vs2 : ns2 = agNode' /\ ts2 = agTan' /\ vs2 = agVar'
        OBVIOUS
      <3>5. /\ Grown(agNode, ns2) /\ ns2 \in Seq(NodeRecs) /\ Len(ns2) = Len(agNode) + 1 /\ ns2[Len(agNode) + 1] = node
        <4>1. Pushed(agNode, node, ns2, NodeRecs)
          BY <1>7, <3>2, <3>3, <3>4 DEF Pushed
        <4> QED
          BY <4>1, GrownPush
      <3>6. ns2[n] = node /\ n \in 1 .. Len(ns2)
        BY <1>7, <3>1, <3>5
      <3>7. Plain(ns2, n)
        BY <3>3, <3>6 DEF Plain
      <3>8. Fits(TRUE, n, o.tan, agNode')
        BY <3>3, <3>4, <3>6, <3>7 DEF Fits
      <3>9. Growth /\ NewVars
        <4>1. TRUE \in BOOLEAN /\ agNode' \in Seq(NodeRecs) /\ Grown(agNode, agNode')
          BY <3>4, <3>5
        <4> QED
          BY <1>5, <3>1, <3>2, <3>8, <4>1, VarMade
      <3>10. Bigger(agNode, agTan, ns2, ts2) /\ Grown(agVar, vs2) /\ ts2 \in Seq(Tangents) /\ Grown(agTan, ts2)
        BY <3>4, <3>9 DEF Growth, Bigger
      <3>11. Sound(node, agNode, ts2)
        BY <3>3, <3>10, SoundGrown
      <3>12. NodeOK(ns2, n, Len(ts2)) /\ \A i \in 1 .. Len(ns2) : i = n \/ i \in 1 .. Len(agNode)
        <4>1. ns2 = Append(agNode, node)
          BY <3>2, <3>4
        <4>2. NodeOK(ns2, Len(agNode) + 1, Len(ts2)) /\ \A i \in 1 .. Len(ns2) : i = Len(agNode) + 1 \/ i \in 1 .. Len(agNode)
          BY <1>7, <3>3, <3>10, <3>11, <4>1, NodeMade
        <4> QED
          BY <3>1, <4>2
      <3>13. ~agRaced => NodeTan(ns2, n, vs2, ts2)
        BY <1>1, <1>3, <1>4, <3>6, <3>10, TanForIs
      <3>14. NewNodes
        BY <3>4, <3>12, <3>13 DEF NewNodes
      <3> QED
        BY <3>9, <3>14
    <2> QED
      BY <2>1, <2>2
  <1>9. OthersKept(t)
    BY <1>4, <1>8, SameStacks
  <1> QED
    BY <1>4, <1>6, <1>8, <1>9, GrowthInv
-----------------------------------------------------------------------------
(* Recompute.                                                              *)

Joined(s, x, s2, S) == s \in Seq(S) /\ x \in Seq(S) /\ s2 = s \o x

(* A sequence with several more elements.                                  *)
LEMMA GrownJoin ==
  ASSUME NEW s, NEW x, NEW s2, NEW S, Joined(s, x, s2, S)
  PROVE  /\ Grown(s, s2) /\ s2 \in Seq(S) /\ Len(s2) = Len(s) + Len(x)
         /\ \A i \in 1 .. Len(x) : Len(s) + i \in 1 .. Len(s2) /\ s2[Len(s) + i] = x[i]
         /\ \A j \in 1 .. Len(s2) : j \in 1 .. Len(s) \/ \E i \in 1 .. Len(x) : j = Len(s) + i
  <1>0. s \in Seq(S) /\ x \in Seq(S) /\ s2 = s \o x
    BY DEF Joined
  <1>1. PICK m \in Nat, k \in Nat : m = Len(s) /\ k = Len(x)
    BY <1>0
  <1>2. /\ s2 \in Seq(S) /\ Len(s2) = m + k
        /\ \A i \in 1 .. m + k : s2[i] = IF i <= m THEN s[i] ELSE x[i - m]
    BY <1>0, <1>1, ConcatProperties
  <1>3. \A i \in 1 .. m : s2[i] = s[i]
    BY <1>2
  <1>4. Grown(s, s2)
    BY <1>1, <1>2, <1>3 DEF Grown
  <1>5. ASSUME NEW i \in 1 .. k PROVE m + i \in 1 .. m + k /\ s2[m + i] = x[i]
    <2>1. m + i \in 1 .. m + k /\ ~(m + i <= m) /\ (m + i) - m = i
      OBVIOUS
    <2> QED
      BY <1>2, <2>1
  <1>6. ASSUME NEW j \in 1 .. m + k PROVE j \in 1 .. m \/ \E i \in 1 .. k : j = m + i
    <2>1. CASE j <= m
      BY <2>1
    <2>2. CASE j > m
      <3>1. j - m \in 1 .. k /\ j = m + (j - m)
        BY <2>2
      <3> QED
        BY <3>1
    <2> QED
      BY <2>1, <2>2
  <1> QED
    BY <1>1, <1>2, <1>4, <1>5, <1>6

(* The ghost of an edge is the derivative along it.                        *)
LEMMA EdgeTanIs ==
  ASSUME AgInv, NEW e, LeadsInto(e, agNode, agTan)
  PROVE  EdgeTan(e) \in Tangents /\ \A l \in Leaves : EdgeTan(e)[l] = Along(e, agNode, agTan, l)
  <1>1. agNode \in Seq(NodeRecs) /\ agTan \in Seq(Tangents)
    BY InvBooks
  <1>2. e.kind \in {"node", "slot", "detached"}
    BY DEF LeadsInto, Edges
  <1>3. CASE e.kind = "node"
    <2>1. e.to \in 1 .. Len(agNode)
      BY <1>3 DEF LeadsInto
    <2>2. agNode[e.to].tan \in Tangents
      BY <1>1, <2>1, NodeTyped
    <2>3. EdgeTan(e) = agNode[e.to].tan
      BY <1>3 DEF EdgeTan
    <2> QED
      BY <1>3, <2>2, <2>3 DEF Along
  <1>4. CASE e.kind = "slot"
    <2>1. e.to \in 1 .. Len(agTan)
      BY <1>4 DEF LeadsInto
    <2>2. agTan[e.to] \in Tangents
      BY <1>1, <2>1, ElementOfSeq
    <2>3. EdgeTan(e) = agTan[e.to]
      BY <1>4 DEF EdgeTan
    <2> QED
      BY <1>4, <2>2, <2>3 DEF Along
  <1>5. CASE e.kind = "detached"
    <2>1. EdgeTan(e) = Zero
      BY <1>5 DEF EdgeTan
    <2>2. Zero \in Tangents /\ \A l \in Leaves : Zero[l] = 0
      BY DEF Zero, Tangents
    <2>3. \A l \in Leaves : Along(e, agNode, agTan, l) = 0
      BY <1>5 DEF Along
    <2> QED
      BY <2>1, <2>2, <2>3
  <1> QED
    BY <1>2, <1>3, <1>4, <1>5

(* The fresh leaves.                                                       *)
Copies(k, saved) == [i \in 1 .. k |-> [data |-> saved[i], req |-> TRUE, fn |-> 0, user |-> FALSE]]
Unused(k) == [i \in 1 .. k |-> NoGrad]
Copied(k, saved, tans) ==
  /\ k \in Nat /\ saved \in Seq(Int) /\ Len(saved) = k /\ tans \in Seq(Tangents) /\ Len(tans) = k
  /\ agVar' = agVar \o Copies(k, saved) /\ agGrad' = agGrad \o Unused(k) /\ agTan' = agTan \o tans

(* The copies of a checkpoint's operands make more variables.              *)
LEMMA CopiesMade ==
  ASSUME AgInv, NEW k, NEW saved, NEW tans, Copied(k, saved, tans), agNode' \in Seq(NodeRecs), Grown(agNode, agNode')
  PROVE  /\ Growth /\ NewVars
         /\ \A i \in 1 .. k : /\ Len(agVar) + i \in 1 .. Len(agTan')
                              /\ agTan'[Len(agVar) + i] = tans[i] /\ agGrad'[Len(agVar) + i] = NoGrad
  <1>0. /\ k \in Nat /\ saved \in Seq(Int) /\ Len(saved) = k /\ tans \in Seq(Tangents) /\ Len(tans) = k
        /\ agVar' = agVar \o Copies(k, saved) /\ agGrad' = agGrad \o Unused(k) /\ agTan' = agTan \o tans
    BY DEF Copied
  <1>1. /\ agVar \in Seq(VarRecs) /\ agGrad \in Seq(Slots) /\ agTan \in Seq(Tangents) /\ World(agNode, agTan)
        /\ Len(agGrad) = Len(agTan) /\ Len(agVar) = Len(agTan) /\ Len(LeafVars) <= Len(agVar) /\ Len(agVar) \in Nat
    BY InvBooks
  <1>2. PICK cs : cs = Copies(k, saved)
    OBVIOUS
  <1>3. \A i \in 1 .. k : saved[i] \in Int
    BY <1>0, ElementOfSeq
  <1>4. \A i \in 1 .. k : cs[i] \in VarRecs /\ cs[i].req = TRUE /\ cs[i].fn = 0 /\ cs[i].user = FALSE
    BY <1>2, <1>3 DEF Copies, VarRecs
  <1>5. cs \in Seq(VarRecs) /\ Len(cs) = k
    <2>1. cs \in [1 .. k -> VarRecs]
      BY <1>2, <1>4 DEF Copies
    <2> QED
      BY <1>0, <2>1
  <1>6. PICK us : us = Unused(k)
    OBVIOUS
  <1>7. us \in Seq(Slots) /\ Len(us) = k /\ \A i \in 1 .. k : us[i] = NoGrad
    <2>1. NoGrad \in Slots
      BY DEF Slots
    <2>2. us \in [1 .. k -> Slots] /\ \A i \in 1 .. k : us[i] = NoGrad
      BY <1>6, <2>1 DEF Unused
    <2> QED
      BY <1>0, <2>2
  <1>8. PICK vs2, g2, ts2, ns2 : vs2 = agVar' /\ g2 = agGrad' /\ ts2 = agTan' /\ ns2 = agNode'
    OBVIOUS
  <1>9. Joined(agVar, cs, vs2, VarRecs) /\ Joined(agGrad, us, g2, Slots) /\ Joined(agTan, tans, ts2, Tangents)
    BY <1>0, <1>1, <1>2, <1>5, <1>6, <1>7, <1>8 DEF Joined
  <1>10. /\ Grown(agVar, vs2) /\ vs2 \in Seq(VarRecs) /\ Len(vs2) = Len(agVar) + k
         /\ \A i \in 1 .. k : vs2[Len(agVar) + i] = cs[i]
         /\ \A j \in 1 .. Len(vs2) : j \in 1 .. Len(agVar) \/ \E i \in 1 .. k : j = Len(agVar) + i
    BY <1>5, <1>9, GrownJoin
  <1>11. /\ Grown(agGrad, g2) /\ g2 \in Seq(Slots) /\ Len(g2) = Len(agGrad) + k
         /\ \A i \in 1 .. k : g2[Len(agGrad) + i] = us[i]
    BY <1>7, <1>9, GrownJoin
  <1>12. /\ Grown(agTan, ts2) /\ ts2 \in Seq(Tangents) /\ Len(ts2) = Len(agTan) + k
         /\ \A i \in 1 .. k : Len(agTan) + i \in 1 .. Len(ts2) /\ ts2[Len(agTan) + i] = tans[i]
    <2>1. /\ Grown(agTan, ts2) /\ ts2 \in Seq(Tangents) /\ Len(ts2) = Len(agTan) + Len(tans)
          /\ \A i \in 1 .. Len(tans) : Len(agTan) + i \in 1 .. Len(ts2) /\ ts2[Len(agTan) + i] = tans[i]
      <3>1. PICK s0, S0 : s0 = agTan /\ S0 = Tangents
        OBVIOUS
      <3>2. Joined(s0, tans, ts2, S0)
        BY <1>9, <3>1
      <3>3. /\ Grown(s0, ts2) /\ ts2 \in Seq(S0) /\ Len(ts2) = Len(s0) + Len(tans)
            /\ \A i \in 1 .. Len(tans) : Len(s0) + i \in 1 .. Len(ts2) /\ ts2[Len(s0) + i] = tans[i]
        BY <3>2, GrownJoin
      <3> QED
        BY <3>1, <3>3
    <2>2. Len(tans) = k
      BY <1>0
    <2> QED
      BY <2>1, <2>2
  <1>13. Growth
    <2>1. Bigger(agNode, agTan, agNode', agTan')
      BY <1>1, <1>8, <1>12 DEF Bigger
    <2>2. Len(g2) = Len(vs2) /\ Len(ts2) = Len(vs2)
      BY <1>1, <1>10, <1>11, <1>12
    <2> QED
      BY <1>8, <1>10, <1>11, <2>1, <2>2 DEF Growth
  <1>14. ASSUME NEW i \in 1 .. k PROVE VarOK(vs2, Len(agVar) + i, ns2, ts2)
    <2>1. PICK j : j = Len(agVar) + i
      OBVIOUS
    <2>2. vs2[j].req = TRUE /\ vs2[j].fn = 0 /\ vs2[j].user = FALSE
      BY <1>4, <1>10, <2>1
    <2>3. j \notin Leaves
      BY <1>1, <2>1, LeavesAre
    <2>4. 0 <= Len(ns2)
      BY <1>8
    <2>5. VarOK(vs2, j, ns2, ts2)
      BY <2>2, <2>3, <2>4 DEF VarOK
    <2> QED
      BY <2>1, <2>5
  <1>15. NewVars
    BY <1>8, <1>10, <1>14 DEF NewVars
  <1> QED
    BY <1>1, <1>7, <1>8, <1>11, <1>12, <1>13, <1>15

(* Only an outer call meets a checkpoint.                                  *)
LEMMA Outermost ==
  ASSUME AgInv, NEW t, t \in Thread, Ready(t), agNode[Current(t)].op = "ckpt"
  PROVE  /\ Len(agFrames[t]) = 1 /\ agFrames[t][1] = Top(t) /\ agFrames[t] \in Seq(Frames) /\ agFrames[t] # <<>>
         /\ FrameOK(Top(t), agNode, Wanted) /\ Top(t).fresh = <<>>
  <1>1. PICK fs : fs = agFrames[t]
    OBVIOUS
  <1>2. World(agNode, agTan) /\ fs \in Seq(Frames) /\ StackOK(fs, agNode, agTan)
    BY <1>1, InvBooks
  <1>3. /\ fs # <<>> /\ Current(t) = Head(Top(t).walk) /\ Top(t) = Last(fs)
        /\ Top(t).walk # <<>> /\ FrameOK(Top(t), agNode, TopSlots(fs))
    BY <1>1, ReadyTop DEF Top
  <1>4. Len(fs) # 2
    <2> SUFFICES ASSUME Len(fs) = 2 PROVE FALSE
      OBVIOUS
    <2>1. Top(t) = fs[2]
      BY <1>2, <1>3, StackSize
    <2>2. \A i \in 1 .. Len(fs[2].walk) : agNode[fs[2].walk[i]].op = "mul"
      BY <1>2 DEF StackOK
    <2>3. PICK w : w = fs[2].walk
      OBVIOUS
    <2>4. WalkOK(w, agNode) /\ w # <<>> /\ agNode \in Seq(NodeRecs)
      BY <1>3, <2>1, <2>3, InvBooks DEF FrameOK
    <2>5. Head(w) = w[1] /\ 1 \in 1 .. Len(w)
      BY <2>4, WalkTail
    <2>6. agNode[Head(w)].op = "mul"
      BY <2>2, <2>3, <2>5
    <2> QED
      BY <1>3, <2>1, <2>3, <2>6
  <1>5. Len(fs) = 1 /\ Last(fs) = fs[1]
    BY <1>2, <1>3, <1>4, StackSize
  <1>6. FrameOK(fs[1], agNode, Wanted) /\ fs[1].fresh = <<>>
    BY <1>2, <1>5 DEF StackOK
  <1> QED
    BY <1>1, <1>2, <1>3, <1>5, <1>6
(* The node that a recomputation of a checkpoint records.                  *)
Redone(node, j) ==
  [op |-> "mul", saved |-> <<node.saved[1], Data(node.cap)>>, cap |-> 0,
   edges |-> <<[kind |-> "slot", to |-> j], Edge(node.cap)>>,
   tan |-> Plus(Scale(Data(node.cap), EdgeTan(node.edges[1])), Scale(node.saved[1], agTan[node.cap]))]

(* A captured variable is a leaf: its edge leads to no node.               *)
LEMMA CapturedIs ==
  ASSUME AgInv, NEW cap, cap \in Captured
  PROVE  /\ cap \in 1 .. Len(agVar) /\ cap \in 1 .. Len(agTan) /\ agVar[cap].user /\ Data(cap) \in Int /\ agTan[cap] \in Tangents
         /\ Edge(cap) \in Edges /\ LeadsInto(Edge(cap), agNode, agTan) /\ Edge(cap).kind # "node"
         /\ Edge(cap).kind = "slot" => Edge(cap).to \in Wanted
         /\ \A l \in Leaves : Along(Edge(cap), agNode, agTan, l) = agTan[cap][l]
  <1>1. World(agNode, agTan) /\ agVar \in Seq(VarRecs) /\ Len(agVar) = Len(agTan) /\ agTan \in Seq(Tangents)
    BY InvBooks
  <1>2. cap \in Leaves
    BY LeavesAre
  <1>3. cap \in 1 .. Len(agVar) /\ cap \in 1 .. Len(agTan)
    BY <1>1, <1>2, WantedKnown
  <1>4. agVar[cap] \in VarRecs /\ agTan[cap] \in Tangents
    BY <1>1, <1>3, ElementOfSeq
  <1>5. Data(cap) \in Int
    BY <1>4 DEF VarRecs, Data
  <1>6. VarOK(agVar, cap, agNode, agTan)
    BY <1>3 DEF AgInv, TapeInv
  <1>7. agVar[cap].user /\ agVar[cap].fn = 0
    BY <1>2, <1>6 DEF VarOK
  <1>8. /\ LeadsInto(Edge(cap), agNode, agTan)
        /\ Edge(cap).kind = "slot" => Edge(cap).to \in Wanted
        /\ \A l \in Leaves : Along(Edge(cap), agNode, agTan, l) = agTan[cap][l]
    BY <1>3, <1>7, EdgeIs
  <1>9. Edge(cap).kind # "node"
    BY <1>7 DEF Edge, Detached
  <1>10. Edge(cap) \in Edges
    BY <1>8 DEF LeadsInto
  <1> QED
    BY <1>3, <1>4, <1>5, <1>7, <1>8, <1>9, <1>10

(* A checkpoint node, its first operand and its captured variable.         *)
LEMMA CheckpointIs ==
  ASSUME AgInv, NEW c, c \in 1 .. Len(agNode), agNode[c].op = "ckpt"
  PROVE  /\ agNode[c].cap \in Captured /\ agNode[c].saved[1] \in Int /\ agNode[c].saved \in Seq(Int)
         /\ Len(agNode[c].edges) \in {1, 2} /\ Len(agNode[c].saved) = Len(agNode[c].edges)
         /\ \A i \in 1 .. Len(agNode[c].edges) : LeadsInto(agNode[c].edges[i], agNode, agTan)
         /\ 1 \in 1 .. Len(agNode[c].edges)
  <1>1. World(agNode, agTan) /\ agNode \in Seq(NodeRecs)
    BY InvBooks
  <1>2. NodeOK(agNode, c, Len(agTan))
    BY <1>1 DEF World
  <1>3. /\ agNode[c].cap \in Captured /\ Len(agNode[c].edges) \in {1, 2}
        /\ Len(agNode[c].saved) = Len(agNode[c].edges)
    BY <1>2 DEF NodeOK
  <1>4. \A i \in 1 .. Len(agNode[c].edges) : LeadsInto(agNode[c].edges[i], agNode, agTan)
    BY <1>1, EdgeLeads
  <1>5. PICK k \in {1, 2} : k = Len(agNode[c].edges)
    BY <1>3, Zenon
  <1>6. 1 \in 1 .. k
    BY <1>5
  <1>7. agNode[c].saved \in Seq(Int)
    BY <1>1, NodeTyped
  <1>8. agNode[c].saved[1] \in Int
    BY <1>3, <1>5, <1>6, <1>7, ElementOfSeq
  <1> QED
    BY <1>3, <1>4, <1>5, <1>6, <1>7, <1>8

(* The parts of the recomputed node.                                       *)
LEMMA RedoneIs ==
  ASSUME AgInv, NEW c, c \in 1 .. Len(agNode), agNode[c].op = "ckpt", NEW j, j \in Nat, NEW nn, nn = Redone(agNode[c], j)
  PROVE  /\ nn \in NodeRecs /\ nn.op = "mul" /\ Len(nn.edges) = 2 /\ Len(nn.saved) = 2
         /\ nn.edges[1] = [kind |-> "slot", to |-> j] /\ nn.edges[2] = Edge(agNode[c].cap)
         /\ nn.saved[1] = agNode[c].saved[1] /\ nn.saved[2] = Data(agNode[c].cap)
         /\ \A l \in Leaves : nn.tan[l] = ChainRule("mul", agNode[c].saved[1], Data(agNode[c].cap),
                                                    EdgeTan(agNode[c].edges[1])[l], agTan[agNode[c].cap][l])
  <1>1. PICK x, cap, e, d : x = agNode[c].saved[1] /\ cap = agNode[c].cap /\ e = agNode[c].edges[1] /\ d = Data(agNode[c].cap)
    OBVIOUS
  <1>2. x \in Int /\ cap \in Captured /\ LeadsInto(e, agNode, agTan)
    BY <1>1, CheckpointIs
  <1>3. d \in Int /\ agTan[cap] \in Tangents /\ Edge(cap) \in Edges
    BY <1>1, <1>2, CapturedIs
  <1>4. EdgeTan(e) \in Tangents
    BY <1>2, EdgeTanIs
  <1>5. PICK a, b, ec, es : a = EdgeTan(e) /\ b = agTan[cap] /\ ec = Edge(cap) /\ es = [kind |-> "slot", to |-> j]
    OBVIOUS
  <1>6. PICK tan : tan = Plus(Scale(d, a), Scale(x, b))
    OBVIOUS
  <1>7. nn = [op |-> "mul", saved |-> <<x, d>>, cap |-> 0, edges |-> <<es, ec>>, tan |-> tan]
    BY <1>1, <1>5, <1>6, Zenon DEF Redone
  <1>8. tan \in Tangents /\ \A l \in Leaves : tan[l] = d * a[l] + x * b[l]
    BY <1>2, <1>3, <1>4, <1>5, <1>6 DEF Tangents, Plus, Scale
  <1>9. es \in Edges
    BY <1>5 DEF Edges
  <1>10. <<es, ec>> \in Seq(Edges) /\ <<x, d>> \in Seq(Int)
    BY <1>2, <1>3, <1>5, <1>9
  <1>11. nn \in NodeRecs
    BY <1>7, <1>8, <1>10 DEF NodeRecs
  <1>12. /\ nn.op = "mul" /\ Len(nn.edges) = 2 /\ Len(nn.saved) = 2 /\ nn.edges[1] = es /\ nn.edges[2] = ec
         /\ nn.saved[1] = x /\ nn.saved[2] = d /\ nn.tan = tan
    BY <1>7
  <1>13. \A l \in Leaves : tan[l] = ChainRule("mul", x, d, a[l], b[l])
    BY <1>8 DEF ChainRule
  <1> QED
    BY <1>1, <1>5, <1>11, <1>12, <1>13

(* The new node is sound, and its derivative is that of the checkpoint.    *)
LEMMA RedoneSound ==
  ASSUME AgInv, NEW c, c \in 1 .. Len(agNode), agNode[c].op = "ckpt", NEW j, NEW ts2, Grown(agTan, ts2), j \in 1 .. Len(ts2),
         NEW nn, nn = Redone(agNode[c], j)
  PROVE  /\ Sound(nn, agNode, ts2)
         /\ \A i \in 1 .. Len(nn.edges) : nn.edges[i].kind # "node" /\ (nn.edges[i].kind = "slot" => nn.edges[i].to \in Wanted \cup {j})
         /\ ~agRaced => \A l \in Leaves : nn.tan[l] = agNode[c].tan[l]
  <1>0. j \in Nat
    OBVIOUS
  <1>1. /\ nn \in NodeRecs /\ nn.op = "mul" /\ Len(nn.edges) = 2 /\ Len(nn.saved) = 2
        /\ nn.edges[1] = [kind |-> "slot", to |-> j] /\ nn.edges[2] = Edge(agNode[c].cap)
        /\ \A l \in Leaves : nn.tan[l] = ChainRule("mul", agNode[c].saved[1], Data(agNode[c].cap),
                                                   EdgeTan(agNode[c].edges[1])[l], agTan[agNode[c].cap][l])
    BY <1>0, RedoneIs
  <1>2. agNode[c].cap \in Captured /\ LeadsInto(agNode[c].edges[1], agNode, agTan)
    BY CheckpointIs
  <1>3. PICK ec : ec = Edge(agNode[c].cap)
    OBVIOUS
  <1>4. LeadsInto(ec, agNode, agTan) /\ ec.kind # "node" /\ (ec.kind = "slot" => ec.to \in Wanted)
    BY <1>2, <1>3, CapturedIs
  <1>5. LeadsInto(ec, agNode, ts2)
    BY <1>4 DEF LeadsInto, Grown
  <1>6. PICK es : es = [kind |-> "slot", to |-> j]
    OBVIOUS
  <1>7. LeadsInto(es, agNode, ts2) /\ es.kind = "slot" /\ es.to = j
    BY <1>0, <1>6 DEF LeadsInto, Edges
  <1>8. ASSUME NEW i \in 1 .. 2
        PROVE  LeadsInto(nn.edges[i], agNode, ts2) /\ nn.edges[i].kind # "node"
               /\ (nn.edges[i].kind = "slot" => nn.edges[i].to \in Wanted \cup {j})
    <2>1. CASE i = 1
      BY <1>1, <1>6, <1>7, <2>1
    <2>2. CASE i = 2
      BY <1>1, <1>3, <1>4, <1>5, <2>2
    <2> QED
      BY <2>1, <2>2
  <1>9. Sound(nn, agNode, ts2)
    BY <1>1, <1>8 DEF Sound
  <1>10. ASSUME ~agRaced, NEW l \in Leaves PROVE nn.tan[l] = agNode[c].tan[l]
    <2>1. NodeTan(agNode, c, agVar, agTan)
      BY <1>10 DEF AgInv, TanInv
    <2>2. agNode[c].tan[l] = ChainRule("ckpt", agNode[c].saved[1], Data(agNode[c].cap),
                                       Along(agNode[c].edges[1], agNode, agTan, l), agTan[agNode[c].cap][l])
      BY <2>1 DEF NodeTan, Data
    <2>3. EdgeTan(agNode[c].edges[1])[l] = Along(agNode[c].edges[1], agNode, agTan, l)
      BY <1>2, EdgeTanIs
    <2>4. PICK a, b, x, y : /\ a = agNode[c].saved[1] /\ b = Data(agNode[c].cap)
                            /\ x = Along(agNode[c].edges[1], agNode, agTan, l) /\ y = agTan[agNode[c].cap][l]
      OBVIOUS
    <2>5. nn.tan[l] = ChainRule("mul", a, b, x, y)
      BY <1>1, <2>3, <2>4, Zenon
    <2>6. agNode[c].tan[l] = ChainRule("ckpt", a, b, x, y)
      BY <2>2, <2>4, Zenon
    <2>7. ChainRule("ckpt", a, b, x, y) = ChainRule("mul", a, b, x, y)
      BY DEF ChainRule
    <2> QED
      BY <2>5, <2>6, <2>7, Zenon
  <1> QED
    BY <1>1, <1>8, <1>9, <1>10

(* The recomputed node's derivative is that of its edges.                  *)
LEMMA RedoneTan ==
  ASSUME AgInv, NEW c, c \in 1 .. Len(agNode), agNode[c].op = "ckpt", NEW j, j \in Nat, NEW nn, nn = Redone(agNode[c], j),
         NEW ns2, NEW ts2, NEW vs2, Bigger(agNode, agTan, ns2, ts2), NEW n, ns2[n] = nn, ts2[j] = EdgeTan(agNode[c].edges[1])
  PROVE  NodeTan(ns2, n, vs2, ts2)
  <1>1. /\ nn.op = "mul" /\ nn.edges[1] = [kind |-> "slot", to |-> j] /\ nn.edges[2] = Edge(agNode[c].cap)
        /\ nn.saved[1] = agNode[c].saved[1] /\ nn.saved[2] = Data(agNode[c].cap)
        /\ \A l \in Leaves : nn.tan[l] = ChainRule("mul", agNode[c].saved[1], Data(agNode[c].cap),
                                                   EdgeTan(agNode[c].edges[1])[l], agTan[agNode[c].cap][l])
    BY RedoneIs
  <1>2. PICK es, ec : es = nn.edges[1] /\ ec = nn.edges[2]
    OBVIOUS
  <1>3. agNode[c].cap \in Captured
    BY CheckpointIs
  <1>4. LeadsInto(ec, agNode, agTan) /\ \A l \in Leaves : Along(ec, agNode, agTan, l) = agTan[agNode[c].cap][l]
    BY <1>1, <1>2, <1>3, CapturedIs
  <1>5. \A l : Along(ec, ns2, ts2, l) = Along(ec, agNode, agTan, l)
    BY <1>4, AlongGrown
  <1>6. \A l : Along(es, ns2, ts2, l) = EdgeTan(agNode[c].edges[1])[l]
    BY <1>1, <1>2 DEF Along
  <1>7. ASSUME NEW l \in Leaves
        PROVE  nn.tan[l] = ChainRule("mul", nn.saved[1], nn.saved[2], Along(nn.edges[1], ns2, ts2, l), Along(nn.edges[2], ns2, ts2, l))
    BY <1>1, <1>2, <1>4, <1>5, <1>6, Zenon
  <1> QED
    BY <1>1, <1>7 DEF NodeTan

(* The stack after a recomputation: the outer call waits at its checkpoint *)
(* c, the nested one starts at the new node.                               *)
Nests(fs2, f, f1, c, g, new, fresh, ns, ts, ns2, ts2) ==
  /\ World(ns, ts) /\ Bigger(ns, ts, ns2, ts2) /\ World(ns2, ts2)
  /\ f \in Frames /\ FrameOK(f, ns, Wanted) /\ f.fresh = <<>> /\ f.walk # <<>> /\ f.todo = <<>>
  /\ c = Head(f.walk) /\ c \in DOMAIN f.grads /\ ns[c].op = "ckpt" /\ g = f.grads[c]
  /\ new \in 1 .. Len(ns2) /\ ns2[new].op = "mul"
  /\ \A i \in 1 .. Len(ns2[new].edges) :
       /\ ns2[new].edges[i].kind # "node"
       /\ ns2[new].edges[i].kind = "slot" => ns2[new].edges[i].to \in Wanted \cup {fresh[1]}
  /\ FreshOK(fresh, c, ns2, ts2)
  /\ f1 = TakenOut(f) /\ fs2 = <<f1, Frame(<<new>>, g, fresh)>>

(* The stack after a recomputation is sound, and owes what the outer call  *)
(* owed.                                                                   *)
LEMMA NestedStack ==
  ASSUME NEW fs2, NEW f, NEW f1, NEW c, NEW g, NEW new, NEW fresh, NEW ns, NEW ts, NEW ns2, NEW ts2,
         Nests(fs2, f, f1, c, g, new, fresh, ns, ts, ns2, ts2)
  PROVE  /\ fs2 \in Seq(Frames) /\ Len(fs2) = 2 /\ fs2[2].fresh = fresh /\ StackOK(fs2, ns2, ts2)
         /\ \A gs, h, l : Grown(gs, h) /\ Len(gs) = Len(ts) /\ l \in Leaves /\ GotAll(fresh, ts2, h, l) = 0
              => Owes(fs2, ns2, ts2, h, l) = FrameOwes(f1, ns, ts, gs, l) + g * ns2[new].tan[l]
  <1>0. /\ World(ns, ts) /\ Bigger(ns, ts, ns2, ts2) /\ World(ns2, ts2) /\ ns \in Seq(NodeRecs) /\ ns2 \in Seq(NodeRecs)
        /\ f \in Frames /\ FrameOK(f, ns, Wanted) /\ f.fresh = <<>> /\ f.walk # <<>> /\ f.todo = <<>>
        /\ c = Head(f.walk) /\ c \in DOMAIN f.grads /\ ns[c].op = "ckpt" /\ g = f.grads[c]
        /\ new \in 1 .. Len(ns2) /\ ns2[new].op = "mul"
        /\ \A i \in 1 .. Len(ns2[new].edges) :
             /\ ns2[new].edges[i].kind # "node"
             /\ ns2[new].edges[i].kind = "slot" => ns2[new].edges[i].to \in Wanted \cup {fresh[1]}
        /\ FreshOK(fresh, c, ns2, ts2)
        /\ f1 = TakenOut(f) /\ fs2 = <<f1, Frame(<<new>>, g, fresh)>>
    BY DEF Nests, World
  <1>1. /\ FrameStep(f, f1, ns, Wanted) /\ c \notin DOMAIN f1.grads /\ f1.walk = f.walk /\ f1.todo = f.todo
        /\ g \in Int /\ c \in 1 .. Len(ns)
    BY <1>0, TakeOut
  <1>2. f1 \in Frames /\ FrameOK(f1, ns, Wanted) /\ f1.fresh = <<>>
    BY <1>0, <1>1 DEF FrameStep
  <1>3. FrameOK(f1, ns2, Wanted) /\ ns2[c] = ns[c]
    <2>1. FrameOK(f1, ns2, Wanted)
      BY <1>0, <1>2, FrameGrown
    <2>2. ns2[c] = ns[c]
      BY <1>0, <1>1, GrownIn DEF Bigger
    <2> QED
      BY <2>1, <2>2
  <1>4. PICK w : w = <<new>>
    OBVIOUS
  <1>5. Len(w) = 1 /\ w[1] = new /\ w # <<>> /\ Head(w) = new /\ w \in Seq(1 .. Len(ns2))
    BY <1>0, <1>4
  <1>6. \A i \in 1 .. Len(w) : w[i] = new
    BY <1>5
  <1>7. WalkOK(w, ns2)
    <2>1. \A i, j \in 1 .. Len(w) : w[i] = w[j] => i = j
      BY <1>5
    <2>2. \A i \in 1 .. Len(w) : \A k \in 1 .. Len(ns2[w[i]].edges) :
            ns2[w[i]].edges[k].kind = "node" => \E j \in i + 1 .. Len(w) : w[j] = ns2[w[i]].edges[k].to
      BY <1>0, <1>6
    <2> QED
      BY <1>5, <2>1, <2>2 DEF WalkOK
  <1>8. PICK fr : fr = Frame(w, g, fresh)
    OBVIOUS
  <1>9. PICK slots : slots = Wanted \cup {fresh[1]}
    OBVIOUS
  <1>10. fresh \in Seq(Nat)
    <2>1. fresh \in Seq(1 .. Len(ts2))
      BY <1>0 DEF FreshOK
    <2>2. \A i \in 1 .. Len(fresh) : fresh[i] \in Nat
      BY <2>1, ElementOfSeq
    <2> QED
      BY <2>1, <2>2
  <1>11. Begins(fr, w, g, fresh, ns2, ts2, slots)
    <2>1. \A i \in 1 .. Len(w) : \A k \in 1 .. Len(ns2[w[i]].edges) :
            ns2[w[i]].edges[k].kind = "slot" => ns2[w[i]].edges[k].to \in slots
      BY <1>0, <1>6, <1>9
    <2> QED
      BY <1>0, <1>1, <1>5, <1>7, <1>8, <1>10, <2>1 DEF Begins
  <1>12. /\ fr \in Frames /\ FrameOK(fr, ns2, slots) /\ fr.walk = w /\ fr.fresh = fresh
         /\ \A gs, l : l \in Leaves /\ GotAll(fresh, ts2, gs, l) = 0 => FrameOwes(fr, ns2, ts2, gs, l) = g * ns2[Head(w)].tan[l]
    BY <1>11, NewFrame
  <1>13. fs2 = <<f1, fr>>
    BY <1>0, <1>4, <1>8
  <1>14. fs2 \in Seq(Frames) /\ Len(fs2) = 2 /\ fs2[1] = f1 /\ fs2[2] = fr
    BY <1>2, <1>12, <1>13
  <1>15. StackOK(fs2, ns2, ts2)
    <2>1. Head(f1.walk) = c /\ f1.walk # <<>> /\ f1.todo = <<>> /\ ns2[c].op = "ckpt"
      BY <1>0, <1>1, <1>3
    <2>2. \A i \in 1 .. Len(fr.walk) : ns2[fr.walk[i]].op = "mul"
      BY <1>0, <1>6, <1>12
    <2>3. FreshOK(fr.fresh, c, ns2, ts2) /\ FrameOK(fr, ns2, Wanted \cup {fr.fresh[1]})
      BY <1>0, <1>9, <1>12
    <2> QED
      BY <1>1, <1>2, <1>3, <1>14, <2>1, <2>2, <2>3 DEF StackOK
  <1>16. \A gs, h, l : Grown(gs, h) /\ Len(gs) = Len(ts) => FrameOwes(f1, ns2, ts2, h, l) = FrameOwes(f1, ns, ts, gs, l)
    <2>1. Bigger(ns, ts, ns2, ts2) /\ Known(Wanted, ts)
      BY <1>0, WantedKnown
    <2>2. <<>> \in Seq(1 .. Len(ts))
      OBVIOUS
    <2>3. FrameOK(f1, ns, Wanted) /\ f1.fresh \in Seq(1 .. Len(ts))
      BY <1>2, <2>2
    <2> QED
      BY <2>1, <2>3, FrameOwesGrown
  <1>17. ASSUME NEW gs, NEW h, NEW l, Grown(gs, h), Len(gs) = Len(ts), l \in Leaves, GotAll(fresh, ts2, h, l) = 0
         PROVE  Owes(fs2, ns2, ts2, h, l) = FrameOwes(f1, ns, ts, gs, l) + g * ns2[new].tan[l]
    <2>1. FrameOwes(fr, ns2, ts2, h, l) = g * ns2[new].tan[l]
      BY <1>5, <1>12, <1>17
    <2>2. FrameOwes(f1, ns2, ts2, h, l) = FrameOwes(f1, ns, ts, gs, l)
      BY <1>16, <1>17
    <2>3. Owes(fs2, ns2, ts2, h, l) = FrameOwes(f1, ns2, ts2, h, l) + FrameOwes(fr, ns2, ts2, h, l)
      BY <1>14 DEF Owes
    <2> QED
      BY <2>1, <2>2, <2>3, Zenon
  <1> QED
    BY <1>12, <1>14, <1>15, <1>17

(* Two sequences of one element each.                                      *)
LEMMA TwoInOne ==
  ASSUME NEW a, NEW b
  PROVE  <<a>> \o <<b>> = <<a, b>>
  <1>1. PICK S : S = {a, b}
    OBVIOUS
  <1>2. PICK x, y, z : x = <<a>> /\ y = <<b>> /\ z = <<a, b>>
    OBVIOUS
  <1>3. x \in Seq(S) /\ y \in Seq(S) /\ z \in Seq(S) /\ Len(x) = 1 /\ Len(y) = 1 /\ Len(z) = 2
    BY <1>1, <1>2
  <1>4. x[1] = a /\ y[1] = b /\ z[1] = a /\ z[2] = b
    BY <1>2
  <1>5. PICK j : j = x \o y
    OBVIOUS
  <1>6. /\ j \in Seq(S) /\ Len(j) = 2
        /\ \A i \in 1 .. 2 : j[i] = IF i <= 1 THEN x[i] ELSE y[i - 1]
    BY <1>3, <1>5, ConcatProperties
  <1>7. \A i \in 1 .. 2 : j[i] = z[i]
    <2> SUFFICES ASSUME NEW i \in 1 .. 2 PROVE j[i] = z[i]
      OBVIOUS
    <2>1. i = 1 \/ i = 2
      OBVIOUS
    <2>2. j[1] = x[1] /\ j[2] = y[1]
      BY <1>6
    <2> QED
      BY <1>4, <2>1, <2>2
  <1>8. j = z
    BY <1>3, <1>6, <1>7, SeqEqual
  <1> QED
    BY <1>2, <1>5, <1>8

(* What a recomputation builds: the copies, the node and the two calls.    *)
Recomputed(f, c, fresh, nn, tans) ==
  /\ Copied(Len(fresh), agNode[c].saved, tans)
  /\ tans = [i \in 1 .. Len(fresh) |-> EdgeTan(agNode[c].edges[i])]
  /\ fresh = [i \in 1 .. Len(agNode[c].saved) |-> Len(agVar) + i]
  /\ nn = Redone(agNode[c], fresh[1]) /\ agNode' = Append(agNode, nn)

(* Recompute makes the copies, the node and the nested call.               *)
LEMMA RecomputeBuilds ==
  ASSUME AgInv, NEW t, t \in Thread, Recompute(t), NEW f, f = Top(t), NEW c, c = Current(t)
  PROVE  \E fresh, nn, tans :
           /\ Recomputed(f, c, fresh, nn, tans)
           /\ agFrames' = [agFrames EXCEPT ![t] = <<TakenOut(f), Frame(<<Len(agNode) + 1>>, f.grads[c], fresh)>>]
  <1>1. Ready(t) /\ agNode[c].op = "ckpt"
    BY DEF Recompute
  <1>2. /\ c = Head(f.walk) /\ c \in 1 .. Len(agNode)
    BY <1>1, ReadyTop
  <1>3. PICK k : k = Len(agNode[c].saved)
    OBVIOUS
  <1>4. /\ Len(agNode[c].edges) = k /\ k \in {1, 2} /\ agNode[c].saved \in Seq(Int)
        /\ \A i \in 1 .. k : LeadsInto(agNode[c].edges[i], agNode, agTan)
    BY <1>1, <1>2, <1>3, CheckpointIs
  <1>5. k \in Nat /\ 1 \in 1 .. k
    BY <1>4
  <1>6. PICK fresh : fresh = [i \in 1 .. k |-> Len(agVar) + i]
    OBVIOUS
  <1>7. PICK tans : tans = [i \in 1 .. k |-> EdgeTan(agNode[c].edges[i])]
    OBVIOUS
  <1>8. PICK nn : nn = Redone(agNode[c], fresh[1])
    OBVIOUS
  <1>9. Len(fresh) = k
    BY <1>5, <1>6
  <1>10. tans \in Seq(Tangents) /\ Len(tans) = k
    <2>1. \A i \in 1 .. k : EdgeTan(agNode[c].edges[i]) \in Tangents
      BY <1>4, EdgeTanIs
    <2>2. tans \in [1 .. k -> Tangents]
      BY <1>7, <2>1
    <2> QED
      BY <1>5, <2>2
  <1>11. /\ agVar' = agVar \o [i \in 1 .. k |-> [data |-> agNode[c].saved[i], req |-> TRUE, fn |-> 0, user |-> FALSE]]
         /\ agGrad' = agGrad \o [i \in 1 .. k |-> NoGrad]
         /\ agTan' = agTan \o [i \in 1 .. k |-> EdgeTan(agNode[c].edges[i])]
         /\ agNode' = Append(agNode, Redone(agNode[c], [i \in 1 .. k |-> Len(agVar) + i][1]))
         /\ agFrames' = [agFrames EXCEPT ![t] = Append(Front(@), [Top(t) EXCEPT !.grads = Without(@, Current(t))])
              \o <<Frame(<<Len(agNode) + 1>>, Upstream(t), [i \in 1 .. k |-> Len(agVar) + i])>>]
    BY <1>3, Zenon DEF Recompute, Redone
  <1>12. Copied(k, agNode[c].saved, tans)
    BY <1>3, <1>4, <1>5, <1>7, <1>10, <1>11 DEF Copied, Copies, Unused
  <1>13. agNode' = Append(agNode, nn)
    BY <1>6, <1>8, <1>11
  <1>14. Recomputed(f, c, fresh, nn, tans)
    BY <1>3, <1>6, <1>7, <1>8, <1>9, <1>12, <1>13 DEF Recomputed
  <1>15. PICK f1, fr : f1 = TakenOut(f) /\ fr = Frame(<<Len(agNode) + 1>>, f.grads[c], fresh)
    BY SMTT(30)
  <1>16. agFrames' = [agFrames EXCEPT ![t] = Append(Front(@), f1) \o <<fr>>]
    BY <1>2, <1>6, <1>11, <1>15 DEF TakenOut, Upstream
  <1>17. PICK fs : fs = agFrames[t]
    OBVIOUS
  <1>18. Len(fs) = 1 /\ fs \in Seq(Frames)
    BY <1>1, <1>17, Outermost
  <1>19. Append(Front(fs), f1) \o <<fr>> = <<f1, fr>>
    <2>1. Front(fs) = <<>>
      BY <1>18 DEF Front
    <2>2. Append(<<>>, f1) = <<f1>>
      OBVIOUS
    <2>3. <<f1>> \o <<fr>> = <<f1, fr>>
      BY TwoInOne
    <2> QED
      BY <2>1, <2>2, <2>3
  <1>20. agFrames' = [agFrames EXCEPT ![t] = <<f1, fr>>]
    <2>1. agFrames \in [Thread -> Seq(Frames)]
      BY DEF AgInv, AgTypes
    <2> QED
      BY <1>16, <1>17, <1>19, <2>1
  <1> QED
    BY <1>14, <1>15, <1>20

(* They make a bigger, sound tape.                                         *)
LEMMA RecomputedGrows ==
  ASSUME AgInv, NEW c, c \in 1 .. Len(agNode), agNode[c].op = "ckpt", NEW f, NEW fresh, NEW nn, NEW tans,
         Recomputed(f, c, fresh, nn, tans)
  PROVE  /\ Growth /\ NewVars /\ NewNodes
         /\ Bigger(agNode, agTan, agNode', agTan') /\ World(agNode', agTan')
         /\ Len(agNode) + 1 \in 1 .. Len(agNode') /\ agNode'[Len(agNode) + 1] = nn /\ nn.op = "mul"
         /\ \A i \in 1 .. Len(nn.edges) : nn.edges[i].kind # "node" /\ (nn.edges[i].kind = "slot" => nn.edges[i].to \in Wanted \cup {fresh[1]})
         /\ ~agRaced => \A l \in Leaves : nn.tan[l] = agNode[c].tan[l]
         /\ FreshOK(fresh, c, agNode', agTan')
         /\ \A i \in 1 .. Len(fresh) : fresh[i] \notin 1 .. Len(agTan) /\ agGrad'[fresh[i]] = NoGrad
         /\ Len(fresh) \in {1, 2}
  <1>0. PICK k : k = Len(agNode[c].saved)
    OBVIOUS
  <1>1. /\ agNode[c].cap \in Captured /\ agNode[c].saved[1] \in Int /\ agNode[c].saved \in Seq(Int)
        /\ k \in {1, 2} /\ Len(agNode[c].edges) = k /\ 1 \in 1 .. k
        /\ \A i \in 1 .. k : LeadsInto(agNode[c].edges[i], agNode, agTan)
    BY <1>0, CheckpointIs
  <1>2. /\ Copied(Len(fresh), agNode[c].saved, tans) /\ tans = [i \in 1 .. Len(fresh) |-> EdgeTan(agNode[c].edges[i])]
        /\ fresh = [i \in 1 .. k |-> Len(agVar) + i]
        /\ nn = Redone(agNode[c], fresh[1]) /\ agNode' = Append(agNode, nn)
    BY <1>0 DEF Recomputed
  <1>3. k \in Nat /\ Len(fresh) = k /\ \A i \in 1 .. k : fresh[i] = Len(agVar) + i
    BY <1>1, <1>2
  <1>4. /\ World(agNode, agTan) /\ agNode \in Seq(NodeRecs) /\ agTan \in Seq(Tangents) /\ Len(agVar) = Len(agTan) /\ Len(agVar) \in Nat
        /\ Len(LeafVars) <= Len(agVar) /\ Len(agNode) \in Nat
    BY InvBooks
  <1>5. PICK j : j = fresh[1]
    OBVIOUS
  <1>6. j \in Nat
    BY <1>1, <1>3, <1>4, <1>5
  <1>22. nn = Redone(agNode[c], j)
    BY <1>2, <1>5
  <1>7. nn \in NodeRecs /\ nn.op = "mul"
    <2>1. nn \in NodeRecs
      BY <1>6, <1>22, RedoneIs
    <2>2. nn.op = "mul"
      BY <1>22 DEF Redone
    <2> QED
      BY <2>1, <2>2
  <1>8. PICK ns2, ts2, vs2, g2 : ns2 = agNode' /\ ts2 = agTan' /\ vs2 = agVar' /\ g2 = agGrad'
    OBVIOUS
  <1>9. /\ Grown(agNode, ns2) /\ ns2 \in Seq(NodeRecs) /\ Len(ns2) = Len(agNode) + 1 /\ ns2[Len(agNode) + 1] = nn
    <2>1. Pushed(agNode, nn, ns2, NodeRecs)
      BY <1>2, <1>4, <1>7, <1>8 DEF Pushed
    <2> QED
      BY <2>1, GrownPush
  <1>23. Copied(Len(fresh), agNode[c].saved, tans)
    BY <1>2
  <1>10. /\ Growth /\ NewVars
         /\ \A i \in 1 .. Len(fresh) : /\ Len(agVar) + i \in 1 .. Len(agTan')
                                       /\ agTan'[Len(agVar) + i] = tans[i] /\ agGrad'[Len(agVar) + i] = NoGrad
    <2>1. agNode' \in Seq(NodeRecs) /\ Grown(agNode, agNode')
      BY <1>8, <1>9
    <2> QED
      BY <1>23, <2>1, CopiesMade
  <1>11. \A i \in 1 .. k : fresh[i] \in 1 .. Len(ts2) /\ ts2[fresh[i]] = EdgeTan(agNode[c].edges[i]) /\ g2[fresh[i]] = NoGrad
    BY <1>2, <1>3, <1>8, <1>10
  <1>12. j \in 1 .. Len(ts2) /\ ts2[j] = EdgeTan(agNode[c].edges[1])
    BY <1>1, <1>5, <1>11
  <1>13. Bigger(agNode, agTan, ns2, ts2) /\ Grown(agTan, ts2) /\ ts2 \in Seq(Tangents)
    BY <1>8, <1>10 DEF Growth, Bigger
  <1>14. /\ Sound(nn, agNode, ts2)
         /\ \A i \in 1 .. Len(nn.edges) : nn.edges[i].kind # "node" /\ (nn.edges[i].kind = "slot" => nn.edges[i].to \in Wanted \cup {j})
         /\ ~agRaced => \A l \in Leaves : nn.tan[l] = agNode[c].tan[l]
    BY <1>12, <1>13, <1>22, RedoneSound
  <1>15. PICK n : n = Len(agNode) + 1
    OBVIOUS
  <1>16. NodeOK(ns2, n, Len(ts2)) /\ \A i \in 1 .. Len(ns2) : i = n \/ i \in 1 .. Len(agNode)
    <2>1. ns2 = Append(agNode, nn)
      BY <1>2, <1>8
    <2>2. NodeOK(ns2, Len(agNode) + 1, Len(ts2)) /\ \A i \in 1 .. Len(ns2) : i = Len(agNode) + 1 \/ i \in 1 .. Len(agNode)
      BY <1>4, <1>7, <1>13, <1>14, <2>1, NodeMade
    <2> QED
      BY <1>15, <2>2
  <1>17. NodeTan(ns2, n, vs2, ts2)
    BY <1>6, <1>9, <1>12, <1>13, <1>15, <1>22, RedoneTan
  <1>18. NewNodes
    BY <1>8, <1>16, <1>17 DEF NewNodes
  <1>19. World(ns2, ts2)
    <2>1. \A i \in 1 .. Len(ns2) : i \in 1 .. Len(agNode) \/ NodeOK(ns2, i, Len(ts2))
      BY <1>16
    <2> QED
      BY <1>13, <2>1, BiggerWorld
  <1>20. \A i \in 1 .. k : fresh[i] \notin 1 .. Len(agTan) /\ fresh[i] \notin Leaves
    <2> SUFFICES ASSUME NEW i \in 1 .. k PROVE fresh[i] \notin 1 .. Len(agTan) /\ fresh[i] \notin Leaves
      OBVIOUS
    <2>1. fresh[i] \notin 1 .. Len(agTan)
      BY <1>3, <1>4
    <2> QED
      BY <1>4, <2>1, WantedKnown
  <1>21. FreshOK(fresh, c, ns2, ts2)
    <2>1. fresh \in Seq(1 .. Len(ts2))
      <3>1. fresh \in [1 .. k -> 1 .. Len(ts2)]
        BY <1>2, <1>11
      <3> QED
        BY <1>3, <3>1
    <2>2. ns2[c] = agNode[c]
      BY <1>9, GrownIn
    <2>3. ASSUME NEW i \in 1 .. k, NEW l \in Leaves PROVE ts2[fresh[i]][l] = Along(agNode[c].edges[i], ns2, ts2, l)
      <3>1. PICK e : e = agNode[c].edges[i]
        OBVIOUS
      <3>2. LeadsInto(e, agNode, agTan)
        BY <1>1, <3>1
      <3>3. ts2[fresh[i]] = EdgeTan(e)
        BY <1>11, <3>1
      <3>4. EdgeTan(e)[l] = Along(e, agNode, agTan, l)
        BY <3>2, EdgeTanIs
      <3>5. Along(e, ns2, ts2, l) = Along(e, agNode, agTan, l)
        BY <1>13, <3>2, AlongGrown
      <3> QED
        BY <3>1, <3>3, <3>4, <3>5, Zenon
    <2>4. \A i, m \in 1 .. k : fresh[i] = fresh[m] => i = m
      BY <1>3, <1>4
    <2> QED
      BY <1>1, <1>3, <1>20, <2>1, <2>2, <2>3, <2>4 DEF FreshOK
  <1> QED
    BY <1>1, <1>3, <1>4, <1>5, <1>7, <1>8, <1>9, <1>10, <1>11, <1>13, <1>14, <1>15, <1>18, <1>19, <1>20, <1>21

(* Recompute keeps the invariant.                                          *)
LEMMA RecomputeInv ==
  ASSUME AgInv, NEW t, t \in Thread, Recompute(t)
  PROVE  AgInv'
  <1>1. PICK fs, f, c : fs = agFrames[t] /\ f = Top(t) /\ c = Current(t)
    OBVIOUS
  <1>2. /\ Ready(t) /\ Reached(t) /\ agNode[c].op = "ckpt" /\ UNCHANGED <<agOp, agPanicked, agOwed, agTaken, agRaced>>
    BY <1>1 DEF Recompute
  <1>3. f \in Frames /\ c = Head(f.walk) /\ c \in 1 .. Len(agNode) /\ f.walk # <<>> /\ f.todo = <<>>
    BY <1>1, <1>2, ReadyTop
  <1>4. Len(fs) = 1 /\ fs[1] = f /\ fs \in Seq(Frames) /\ fs # <<>> /\ FrameOK(f, agNode, Wanted) /\ f.fresh = <<>>
    BY <1>1, <1>2, Outermost
  <1>5. c \in DOMAIN f.grads
    BY <1>1, <1>2 DEF Reached
  <1>6. PICK fresh, nn, tans :
          /\ Recomputed(f, c, fresh, nn, tans)
          /\ agFrames' = [agFrames EXCEPT ![t] = <<TakenOut(f), Frame(<<Len(agNode) + 1>>, f.grads[c], fresh)>>]
    BY <1>1, RecomputeBuilds
  <1>7. PICK n, f1, g : n = Len(agNode) + 1 /\ f1 = TakenOut(f) /\ g = f.grads[c]
    OBVIOUS
  <1>8. /\ Growth /\ NewVars /\ NewNodes
        /\ Bigger(agNode, agTan, agNode', agTan') /\ World(agNode', agTan')
        /\ n \in 1 .. Len(agNode') /\ agNode'[n] = nn /\ nn.op = "mul"
        /\ \A i \in 1 .. Len(nn.edges) : nn.edges[i].kind # "node" /\ (nn.edges[i].kind = "slot" => nn.edges[i].to \in Wanted \cup {fresh[1]})
        /\ ~agRaced => \A l \in Leaves : nn.tan[l] = agNode[c].tan[l]
        /\ FreshOK(fresh, c, agNode', agTan')
        /\ \A i \in 1 .. Len(fresh) : fresh[i] \notin 1 .. Len(agTan) /\ agGrad'[fresh[i]] = NoGrad
        /\ Len(fresh) \in {1, 2}
    BY <1>2, <1>3, <1>6, <1>7, RecomputedGrows
  <1>9. PICK fs2 : fs2 = <<f1, Frame(<<n>>, g, fresh)>>
    OBVIOUS
  <1>10. agFrames' = [agFrames EXCEPT ![t] = fs2]
    BY <1>6, <1>7, <1>9
  <1>11. PICK ns2, ts2, g2 : ns2 = agNode' /\ ts2 = agTan' /\ g2 = agGrad'
    OBVIOUS
  <1>12. /\ World(agNode, agTan) /\ agGrad \in Seq(Slots) /\ Len(agGrad) = Len(agTan) /\ agNode \in Seq(NodeRecs)
         /\ StackOK(fs, agNode, agTan)
    BY <1>1, InvBooks
  <1>13. Nests(fs2, f, f1, c, g, n, fresh, agNode, agTan, ns2, ts2)
    BY <1>2, <1>3, <1>4, <1>5, <1>7, <1>8, <1>9, <1>11, <1>12 DEF Nests
  <1>14. /\ fs2 \in Seq(Frames) /\ Len(fs2) = 2 /\ fs2[2].fresh = fresh /\ StackOK(fs2, ns2, ts2)
         /\ \A gs, h, l : Grown(gs, h) /\ Len(gs) = Len(agTan) /\ l \in Leaves /\ GotAll(fresh, ts2, h, l) = 0
              => Owes(fs2, ns2, ts2, h, l) = FrameOwes(f1, agNode, agTan, gs, l) + g * ns2[n].tan[l]
    BY <1>13, NestedStack
  <1>15. agFrames \in [Thread -> Seq(Frames)]
    BY DEF AgInv, AgTypes
  <1>16. agFrames' \in [Thread -> Seq(Frames)] /\ agFrames'[t] = fs2 /\ \A u \in Thread \ {t} : agFrames'[u] = agFrames[u]
    BY <1>10, <1>14, <1>15
  <1>17. ASSUME NEW u \in Thread \ {t}, Len(agFrames[u]) = 2
         PROVE  ToSet(fresh) \cap ToSet(agFrames[u][2].fresh) = {}
    <2>1. PICK old : old = agFrames[u][2].fresh
      OBVIOUS
    <2>2. StackOK(agFrames[u], agNode, agTan)
      BY InvBooks
    <2>3. old \in Seq(1 .. Len(agTan))
      BY <1>17, <2>1, <2>2 DEF StackOK, FreshOK
    <2>4. \A i \in 1 .. Len(old) : old[i] \in 1 .. Len(agTan)
      BY <2>3, ElementOfSeq
    <2>5. fresh \in Seq(1 .. Len(agTan'))
      BY <1>8 DEF FreshOK
    <2>6. DOMAIN fresh = 1 .. Len(fresh) /\ DOMAIN old = 1 .. Len(old)
      BY <2>3, <2>5
    <2> QED
      BY <1>8, <2>1, <2>4, <2>6 DEF ToSet
  <1>18. ASSUME ~agRaced, NEW l \in Leaves
         PROVE  Owes(fs2, ns2, ts2, g2, l) = Owes(fs, agNode, agTan, agGrad, l)
    <2>1. GotAll(fresh, ts2, g2, l) = 0
      <3>1. PICK m \in {1, 2} : m = Len(fresh)
        BY <1>8, Zenon
      <3>2. \A i \in 1 .. m : Got(fresh[i], ts2, g2, l) = 0
        <4> SUFFICES ASSUME NEW i \in 1 .. m PROVE Got(fresh[i], ts2, g2, l) = 0
          OBVIOUS
        <4>1. PICK v : v = fresh[i]
          OBVIOUS
        <4>2. g2[v] = NoGrad /\ v \in 1 .. Len(ts2)
          <5>1. fresh \in Seq(1 .. Len(ts2))
            BY <1>8, <1>11 DEF FreshOK
          <5> QED
            BY <1>8, <1>11, <3>1, <4>1, <5>1, ElementOfSeq
        <4>3. ts2[v] \in Tangents
          <5>1. ts2 \in Seq(Tangents)
            BY <1>8, <1>11 DEF Bigger
          <5> QED
            BY <4>2, <5>1, ElementOfSeq
        <4>4. PICK x \in Int : x = ts2[v][l]
          BY <4>3 DEF Tangents
        <4>5. Got(v, ts2, g2, l) = 0 * x
          BY <4>2, <4>4 DEF Got, GradOf
        <4> QED
          BY <4>1, <4>5
      <3>3. PICK p, q : p = Got(fresh[1], ts2, g2, l) /\ q = Got(fresh[2], ts2, g2, l)
        OBVIOUS
      <3>4. GotAll(fresh, ts2, g2, l) = (IF m >= 1 THEN p ELSE 0) + (IF m >= 2 THEN q ELSE 0)
        BY <3>1, <3>3, Zenon DEF GotAll
      <3>5. p = 0 /\ (m = 2 => q = 0)
        BY <3>2, <3>3
      <3> QED
        BY <3>1, <3>4, <3>5
    <2>2. Grown(agGrad, g2)
      BY <1>8, <1>11 DEF Growth
    <2>3. Owes(fs2, ns2, ts2, g2, l) = FrameOwes(f1, agNode, agTan, agGrad, l) + g * ns2[n].tan[l]
      BY <1>12, <1>14, <2>1, <2>2
    <2>4. ns2[n].tan[l] = agNode[c].tan[l]
      BY <1>8, <1>11, <1>18
    <2>5. /\ g \in Int /\ HeldFor(f1.grads, agNode, l) \in Int
          /\ HeldFor(f.grads, agNode, l) = g * agNode[c].tan[l] + HeldFor(f1.grads, agNode, l)
          /\ f1.todo = <<>> /\ f1.fresh = <<>>
      <3>1. /\ FrameStep(f, f1, agNode, Wanted) /\ f1.todo = f.todo /\ f.grads[c] \in Int
            /\ \A m \in Leaves : /\ HeldFor(f1.grads, agNode, m) \in Int
                                  /\ HeldFor(f.grads, agNode, m) = f.grads[c] * agNode[c].tan[m] + HeldFor(f1.grads, agNode, m)
        BY <1>3, <1>4, <1>5, <1>7, <1>12, TakeOut
      <3>2. f1.fresh = f.fresh
        BY <3>1 DEF FrameStep
      <3> QED
        BY <1>3, <1>4, <1>7, <3>1, <3>2
    <2>6. PICK x \in Int : x = agNode[c].tan[l]
      BY <1>3, <1>12, NodeTyped
    <2>7. PICK y \in Int : y = HeldFor(f1.grads, agNode, l)
      BY <2>5
    <2>8. Len(<<>>) = 0
      OBVIOUS
    <2>9. FrameOwes(f1, agNode, agTan, agGrad, l) = y + 0 + 0
      <3>1. DueAll(f1.todo, agNode, agTan, l) = 0
        BY <2>5, <2>8, DueBySize
      <3>2. GotAll(f1.fresh, agTan, agGrad, l) = 0
        BY <2>5, <2>8, GotBySize
      <3> QED
        BY <2>7, <3>1, <3>2, Zenon DEF FrameOwes
    <2>10. FrameOwes(f, agNode, agTan, agGrad, l) = (g * x + y) + 0 + 0
      <3>1. DueAll(f.todo, agNode, agTan, l) = 0
        BY <1>3, <2>8, DueBySize
      <3>2. GotAll(f.fresh, agTan, agGrad, l) = 0
        BY <1>4, <2>8, GotBySize
      <3>3. HeldFor(f.grads, agNode, l) = g * x + y
        BY <2>5, <2>6, <2>7
      <3> QED
        BY <3>1, <3>2, <3>3, Zenon DEF FrameOwes
    <2>11. Owes(fs, agNode, agTan, agGrad, l) = Under(fs, agNode, agTan, l) + FrameOwes(f, agNode, agTan, agGrad, l)
      <3>1. Last(fs) = f
        BY <1>4 DEF Last
      <3>2. Owes(fs, agNode, agTan, agGrad, l) = Under(fs, agNode, agTan, l) + FrameOwes(Last(fs), agNode, agTan, agGrad, l)
        BY <1>4, <1>12, OwesTop
      <3> QED
        BY <3>1, <3>2
    <2>12. Under(fs, agNode, agTan, l) = 0
      BY <1>4 DEF Under
    <2>13. PICK p \in Int : p = g * x
      BY <2>5
    <2>14. Owes(fs, agNode, agTan, agGrad, l) = 0 + ((p + y) + 0 + 0)
      BY <2>10, <2>11, <2>12, <2>13
    <2>15. Owes(fs2, ns2, ts2, g2, l) = (y + 0 + 0) + p
      BY <2>3, <2>4, <2>6, <2>9, <2>13, Zenon
    <2> QED
      BY <2>14, <2>15
  <1>19. OthersKept(t)
    <2>1. StackOK(agFrames'[t], agNode', agTan')
      BY <1>11, <1>14, <1>16
    <2>2. \A u \in Thread \ {t} : Len(agFrames'[t]) = 2 /\ Len(agFrames[u]) = 2
            => ToSet(agFrames'[t][2].fresh) \cap ToSet(agFrames[u][2].fresh) = {}
      BY <1>14, <1>16, <1>17
    <2>3. ~agRaced => \A l \in Leaves : Owes(agFrames'[t], agNode', agTan', agGrad', l) = Owes(agFrames[t], agNode, agTan, agGrad, l)
      BY <1>1, <1>11, <1>16, <1>18, Zenon
    <2> QED
      BY <1>16, <2>1, <2>2, <2>3 DEF OthersKept
  <1>20. OpsEnd
    BY <1>2 DEF OpsEnd, AgInv, AgTypes
  <1> QED
    BY <1>2, <1>8, <1>19, <1>20, GrowthInv

-----------------------------------------------------------------------------
(* The first half of an operation, set_data and zero_grad.                 *)

(* An operation that a caller may ask for.                                 *)
Asked(op, args, cap) ==
  /\ op \in {"add", "mul", "ckpt"} /\ args \in Seq(Held) /\ Len(args) \in {1, 2} /\ (op # "ckpt" => Len(args) = 2)
  /\ cap \in Nat /\ (op = "ckpt" => cap \in Captured)

(* A variable that a user holds, and its parts.                            *)
LEMMA HeldIs ==
  ASSUME AgInv, NEW v, v \in Held
  PROVE  v \in 1 .. Len(agVar) /\ v \in Nat /\ agVar[v].user /\ Data(v) \in Int /\ agTan[v] \in Tangents
  <1>1. agVar \in Seq(VarRecs) /\ agTan \in Seq(Tangents) /\ Len(agVar) = Len(agTan)
    BY InvBooks
  <1>2. v \in 1 .. Len(agVar) /\ agVar[v].user
    BY <1>1 DEF Held
  <1>3. agVar[v] \in VarRecs /\ agTan[v] \in Tangents
    BY <1>1, <1>2, ElementOfSeq
  <1> QED
    BY <1>2, <1>3 DEF Data, VarRecs

(* The first half of an operation keeps the invariant.                     *)
LEMMA ComputeInv ==
  ASSUME AgInv, NEW t, t \in Thread, NEW op, NEW args, NEW cap, Asked(op, args, cap), Compute(t, op, args, cap)
  PROVE  AgInv'
  <1>1. /\ op \in {"add", "mul", "ckpt"} /\ args \in Seq(Held) /\ Len(args) \in {1, 2} /\ (op # "ckpt" => Len(args) = 2)
        /\ cap \in Nat /\ (op = "ckpt" => cap \in Captured)
    BY DEF Asked
  <1>2. PICK a, b : a = args[1] /\ b = IF op = "ckpt" THEN cap ELSE args[2]
    OBVIOUS
  <1>3. PICK value : value = IF op = "add" THEN Data(a) + Data(b) ELSE Data(a) * Data(b)
    OBVIOUS
  <1>4. PICK tan : tan = IF op = "add" THEN Plus(agTan[a], agTan[b]) ELSE Plus(Scale(Data(b), agTan[a]), Scale(Data(a), agTan[b]))
    OBVIOUS
  <1>5. PICK o : o = [op |-> op, args |-> args, cap |-> cap, value |-> value, tan |-> tan]
    OBVIOUS
  <1>6. agOp' = [agOp EXCEPT ![t] = o] /\ UNCHANGED <<agVar, agGrad, agNode, agFrames, agPanicked, agGhosts>>
    BY <1>2, <1>3, <1>4, <1>5, Zenon DEF Compute
  <1>7. PICK k \in {1, 2} : k = Len(args)
    BY <1>1, Zenon
  <1>8. \A i \in 1 .. k : args[i] \in Held
    BY <1>1, <1>7, ElementOfSeq
  <1>9. a \in Held /\ (op # "ckpt" => b \in Held)
    BY <1>1, <1>2, <1>7, <1>8
  <1>10. Data(a) \in Int /\ agTan[a] \in Tangents
    BY <1>9, HeldIs
  <1>11. Data(b) \in Int /\ agTan[b] \in Tangents
    <2>1. CASE op = "ckpt"
      <3>1. b \in Captured
        BY <1>1, <1>2, <2>1
      <3> QED
        BY <3>1, CapturedIs
    <2>2. CASE op # "ckpt"
      BY <1>9, <2>2, HeldIs
    <2> QED
      BY <2>1, <2>2
  <1>12. value \in Int
    BY <1>3, <1>10, <1>11
  <1>13. PICK x, y : x = agTan[a] /\ y = agTan[b]
    OBVIOUS
  <1>14. PICK c \in Int, d \in Int : c = Data(a) /\ d = Data(b)
    BY <1>10, <1>11
  <1>15. /\ x \in Tangents /\ y \in Tangents
         /\ tan = IF op = "add" THEN Plus(x, y) ELSE Plus(Scale(d, x), Scale(c, y))
    BY <1>4, <1>10, <1>11, <1>13, <1>14
  <1>16. tan \in Tangents /\ \A l \in Leaves : tan[l] = ChainRule(op, c, d, x[l], y[l])
    <2>1. CASE op = "add"
      BY <1>15, <2>1 DEF Tangents, Plus, ChainRule
    <2>2. CASE op # "add"
      BY <1>15, <2>2 DEF Tangents, Plus, Scale, ChainRule
    <2> QED
      BY <2>1, <2>2
  <1>17. args \in Seq(Nat)
    <2>1. \A i \in 1 .. Len(args) : args[i] \in Nat
      BY <1>7, <1>8, HeldIs
    <2> QED
      BY <1>1, <2>1
  <1>18. o.op = op /\ o.args = args /\ o.cap = cap /\ o.tan = tan
    BY <1>5
  <1>19. o \in OpRecs
    BY <1>1, <1>5, <1>12, <1>16, <1>17 DEF OpRecs
  <1>20. OpOK(o, agVar)
    <2>1. \A i \in 1 .. Len(args) : args[i] \in 1 .. Len(agVar) /\ agVar[args[i]].user
      BY <1>7, <1>8, HeldIs
    <2> QED
      BY <1>1, <1>18, <2>1 DEF OpOK
  <1>21. OpTan(o, agVar, agTan)
    BY <1>2, <1>13, <1>14, <1>16, <1>18 DEF OpTan, Data
  <1>22. agOp \in [Thread -> OpRecs]
    BY DEF AgInv, AgTypes
  <1>23. agOp' \in [Thread -> OpRecs] /\ \A u \in Thread : agOp'[u] = agOp[u] \/ agOp'[u] = o
    BY <1>6, <1>19, <1>22
  <1>24. AgTypes'
    BY <1>6, <1>23 DEF AgInv, AgTypes, agGhosts
  <1>25. TapeInv'
    <2>1. \A u \in Thread : OpOK(agOp'[u], agVar)
      BY <1>20, <1>23 DEF AgInv, TapeInv
    <2> QED
      BY <1>6, <2>1 DEF AgInv, TapeInv, agGhosts
  <1>26. TanInv'
    <2>1. ~agRaced => \A u \in Thread : OpTan(agOp'[u], agVar, agTan)
      BY <1>21, <1>23 DEF AgInv, TanInv
    <2> QED
      BY <1>6, <2>1 DEF AgInv, TanInv, agGhosts
  <1>27. BalanceInv'
    BY <1>6 DEF AgInv, BalanceInv, agGhosts
  <1> QED
    BY <1>24, <1>25, <1>26, <1>27 DEF AgInv

(* A variable that is read again is an operand, or captured.               *)
LEMMA ReadAgainIs ==
  ASSUME AgInv, NEW v, v \notin ReadAgain
  PROVE  /\ \A u \in Thread : v # agOp[u].cap /\ \A i \in DOMAIN agOp[u].args : agOp[u].args[i] # v
         /\ \A n \in DOMAIN agNode : agNode[n].cap # v
  <1>1. PICK sets : sets = {ToSet(agOp[u].args) \cup {agOp[u].cap} : u \in Thread}
    OBVIOUS
  <1>2. v \notin UNION sets /\ v \notin {agNode[n].cap : n \in DOMAIN agNode}
    BY <1>1 DEF ReadAgain
  <1>3. ASSUME NEW u \in Thread PROVE v # agOp[u].cap /\ \A i \in DOMAIN agOp[u].args : agOp[u].args[i] # v
    <2>1. PICK one : one = ToSet(agOp[u].args) \cup {agOp[u].cap}
      OBVIOUS
    <2>2. one \in sets
      BY <1>1, <2>1
    <2>3. v \notin one
      BY <1>2, <2>2
    <2> QED
      BY <2>1, <2>3 DEF ToSet
  <1>4. \A n \in DOMAIN agNode : agNode[n].cap # v
    BY <1>2
  <1> QED
    BY <1>3, <1>4

(* SetData keeps the invariant: data that is read again is a race.         *)
LEMMA SetDataInv ==
  ASSUME AgInv, NEW t, t \in Thread, NEW v, v \in Leaves, NEW d, d \in NewData, SetData(t, v, d)
  PROVE  AgInv'
  <1>1. /\ agVar' = [agVar EXCEPT ![v].data = d] /\ agRaced' = (agRaced \/ v \in ReadAgain)
        /\ UNCHANGED <<agGrad, agNode, agOp, agFrames, agPanicked, agTan, agOwed, agTaken>>
    BY DEF SetData
  <1>2. /\ agVar \in Seq(VarRecs) /\ World(agNode, agTan) /\ Len(agVar) = Len(agTan) /\ agNode \in Seq(NodeRecs) /\ Len(agVar) \in Nat
    BY InvBooks
  <1>3. v \in 1 .. Len(agVar)
    BY <1>2, WantedKnown
  <1>4. d \in Int
    BY AgAssumption
  <1>5. PICK x : x = agVar[v]
    OBVIOUS
  <1>6. x \in VarRecs
    BY <1>2, <1>3, <1>5, ElementOfSeq
  <1>7. PICK x2 : x2 = [x EXCEPT !.data = d]
    OBVIOUS
  <1>8. x2 \in VarRecs /\ x2.req = x.req /\ x2.fn = x.fn /\ x2.user = x.user
    BY <1>4, <1>6, <1>7 DEF VarRecs
  <1>9. PICK vs2 : vs2 = agVar'
    OBVIOUS
  <1>10. vs2 = [agVar EXCEPT ![v] = x2]
    BY <1>1, <1>5, <1>7, <1>9
  <1>11. vs2 \in Seq(VarRecs) /\ Len(vs2) = Len(agVar) /\ \A w \in 1 .. Len(agVar) : vs2[w] = IF w = v THEN x2 ELSE agVar[w]
    BY <1>2, <1>3, <1>8, <1>10, ExceptSeq
  <1>12. \A w \in 1 .. Len(agVar) : vs2[w].req = agVar[w].req /\ vs2[w].fn = agVar[w].fn /\ vs2[w].user = agVar[w].user
    BY <1>5, <1>8, <1>11
  <1>13. \A w \in 1 .. Len(agVar) : w # v => vs2[w].data = agVar[w].data
    BY <1>11
  <1>14. AgTypes'
    BY <1>1, <1>9, <1>11 DEF AgInv, AgTypes
  <1>15. TapeInv'
    <2>1. \A w \in 1 .. Len(agVar) : VarOK(vs2, w, agNode, agTan)
      <3> SUFFICES ASSUME NEW w \in 1 .. Len(agVar) PROVE VarOK(vs2, w, agNode, agTan)
        OBVIOUS
      <3>1. VarOK(agVar, w, agNode, agTan)
        BY DEF AgInv, TapeInv
      <3>2. vs2[w].req = agVar[w].req /\ vs2[w].fn = agVar[w].fn /\ vs2[w].user = agVar[w].user
        BY <1>12
      <3> QED
        BY <3>1, <3>2, Zenon DEF VarOK
    <2>2. \A u \in Thread : OpOK(agOp[u], vs2)
      <3> SUFFICES ASSUME NEW u \in Thread PROVE OpOK(agOp[u], vs2)
        OBVIOUS
      <3>1. OpOK(agOp[u], agVar)
        BY DEF AgInv, TapeInv
      <3> QED
        BY <1>11, <1>12, <3>1 DEF OpOK
    <2> QED
      BY <1>1, <1>9, <1>11, <2>1, <2>2 DEF AgInv, TapeInv
  <1>16. TanInv'
    <2> SUFFICES ASSUME ~agRaced, v \notin ReadAgain
                 PROVE  /\ \A n \in 1 .. Len(agNode) : NodeTan(agNode, n, vs2, agTan)
                        /\ \A u \in Thread : OpTan(agOp[u], vs2, agTan)
      BY <1>1, <1>9 DEF TanInv
    <2>1. ASSUME NEW n \in 1 .. Len(agNode) PROVE NodeTan(agNode, n, vs2, agTan)
      <3>1. NodeTan(agNode, n, agVar, agTan)
        BY DEF AgInv, TanInv
      <3>2. CASE agNode[n].op = "ckpt"
        <4>1. PICK cap : cap = agNode[n].cap
          OBVIOUS
        <4>2. cap \in Captured
          BY <3>2, <4>1, CheckpointIs
        <4>3. cap \in 1 .. Len(agVar)
          BY <4>2, CapturedIs
        <4>4. cap # v
          <5>1. n \in DOMAIN agNode
            BY <1>2
          <5> QED
            BY <4>1, <5>1, ReadAgainIs
        <4>5. vs2[cap].data = agVar[cap].data
          BY <1>13, <4>3, <4>4
        <4> QED
          BY <3>1, <3>2, <4>1, <4>5 DEF NodeTan
      <3>3. CASE agNode[n].op # "ckpt"
        BY <3>1, <3>3 DEF NodeTan
      <3> QED
        BY <3>2, <3>3
    <2>2. ASSUME NEW u \in Thread PROVE OpTan(agOp[u], vs2, agTan)
      <3>1. PICK o : o = agOp[u]
        OBVIOUS
      <3>2. CASE o = NoOp
        BY <3>1, <3>2 DEF OpTan, NoOp
      <3>3. CASE o # NoOp
        <4>1. /\ o.args \in Seq(Nat) /\ (o.op = "ckpt" => o.cap \in Captured)
              /\ \A i \in 1 .. Len(o.args) : o.args[i] \in 1 .. Len(agVar)
              /\ 1 \in 1 .. Len(o.args) /\ (o.op # "ckpt" => 2 \in 1 .. Len(o.args))
          BY <3>1, <3>3, OpIs
        <4>2. PICK a, b : a = o.args[1] /\ b = IF o.op = "ckpt" THEN o.cap ELSE o.args[2]
          OBVIOUS
        <4>3. o.cap # v /\ \A i \in 1 .. Len(o.args) : o.args[i] # v
          BY <3>1, <4>1, ReadAgainIs
        <4>4. a # v /\ b # v /\ a \in 1 .. Len(agVar)
          BY <4>1, <4>2, <4>3
        <4>5. b \in 1 .. Len(agVar)
          <5>1. CASE o.op = "ckpt"
            <6>1. b \in Captured
              BY <4>1, <4>2, <5>1
            <6> QED
              BY <6>1, CapturedIs
          <5>2. CASE o.op # "ckpt"
            BY <4>1, <4>2, <5>2
          <5> QED
            BY <5>1, <5>2
        <4>6. vs2[a].data = agVar[a].data /\ vs2[b].data = agVar[b].data
          BY <1>13, <4>4, <4>5
        <4>7. OpTan(o, agVar, agTan)
          BY <3>1 DEF AgInv, TanInv
        <4>8. OpTan(o, vs2, agTan)
          BY <4>2, <4>6, <4>7, Zenon DEF OpTan
        <4> QED
          BY <3>1, <4>8
      <3> QED
        BY <3>2, <3>3
    <2> QED
      BY <2>1, <2>2
  <1>17. BalanceInv'
    BY <1>1 DEF AgInv, BalanceInv
  <1> QED
    BY <1>14, <1>15, <1>16, <1>17 DEF AgInv

(* ZeroGrad keeps the invariant: what it takes is booked.                  *)
LEMMA ZeroGradInv ==
  ASSUME AgInv, NEW t, t \in Thread, NEW v, v \in Leaves, ZeroGrad(t, v)
  PROVE  AgInv'
  <1>1. /\ agGrad[v] # NoGrad /\ agTaken' = [agTaken EXCEPT ![v] = @ + agGrad[v][1]] /\ agGrad' = [agGrad EXCEPT ![v] = NoGrad]
        /\ UNCHANGED <<agVar, agNode, agOp, agFrames, agPanicked, agTan, agOwed, agRaced>>
    BY DEF ZeroGrad
  <1>2. /\ agGrad \in Seq(Slots) /\ Len(agGrad) = Len(agTan) /\ World(agNode, agTan)
    BY InvBooks
  <1>3. v \in 1 .. Len(agGrad)
    BY <1>2, WantedKnown
  <1>4. NoGrad \in Slots
    BY DEF Slots
  <1>5. PICK g2, gs : g2 = agGrad' /\ gs = agGrad
    OBVIOUS
  <1>6. g2 \in Seq(Slots) /\ Len(g2) = Len(gs) /\ \A i \in 1 .. Len(gs) : g2[i] = IF i = v THEN NoGrad ELSE gs[i]
    BY <1>1, <1>2, <1>3, <1>4, <1>5, ExceptSeq
  <1>7. OnlyAt(gs, g2, v)
    BY <1>2, <1>5, <1>6 DEF OnlyAt
  <1>8. agTaken \in Tangents
    BY DEF AgInv, AgTypes
  <1>9. PICK g \in Int : g = GradOf(gs[v]) /\ g = gs[v][1]
    <2>1. GradOf(gs[v]) \in Int
      BY <1>2, <1>5, SlotOfLeaf
    <2> QED
      BY <1>1, <1>5, <2>1 DEF GradOf
  <1>10. agTaken' = [agTaken EXCEPT ![v] = @ + g]
    BY <1>1, <1>5, <1>9
  <1>11. agTaken' \in Tangents /\ \A l \in Leaves : agTaken'[l] = IF l = v THEN agTaken[l] + g ELSE agTaken[l]
    BY <1>8, <1>10 DEF Tangents
  <1>12. AgTypes'
    BY <1>1, <1>2, <1>5, <1>6, <1>11 DEF AgInv, AgTypes
  <1>13. TapeInv' /\ TanInv'
    BY <1>1 DEF AgInv, TapeInv, TanInv
  <1>14. BalanceInv'
    <2> SUFFICES ASSUME ~agRaced, agPanicked = {}, NEW l \in Leaves
                 PROVE  Settled(agFrames, g2, agNode, agTan, agTaken', agOwed, l)
      BY <1>1, <1>5 DEF BalanceInv
    <2>1. Settled(agFrames, gs, agNode, agTan, agTaken, agOwed, l)
      BY <1>5 DEF AgInv, BalanceInv
    <2>2. ASSUME NEW u \in Thread
          PROVE  Owes(agFrames[u], agNode, agTan, g2, l) = Owes(agFrames[u], agNode, agTan, gs, l)
      <3>1. v \notin Private(agFrames[u])
        BY NotPrivate
      <3>2. agFrames[u] \in Seq(Frames) /\ StackOK(agFrames[u], agNode, agTan) /\ Len(gs) = Len(agTan)
        BY <1>5, InvBooks
      <3> QED
        BY <1>2, <1>7, <3>1, <3>2, OwesApart
    <2>3. OwedByAll(agFrames, agNode, agTan, g2, l) = OwedByAll(agFrames, agNode, agTan, gs, l)
      <3>1. [u \in Thread |-> Owes(agFrames[u], agNode, agTan, g2, l)] = [u \in Thread |-> Owes(agFrames[u], agNode, agTan, gs, l)]
        BY <2>2
      <3> QED
        BY <3>1, Zenon DEF OwedByAll
    <2>4. GradOf(g2[l]) + agTaken'[l] = GradOf(gs[l]) + agTaken[l]
      <3>1. l \in 1 .. Len(gs)
        BY <1>2, <1>5, WantedKnown
      <3>2. PICK x \in Int : x = agTaken[l]
        BY <1>8 DEF Tangents
      <3>3. CASE l = v
        <4>1. g2[l] = NoGrad
          BY <1>6, <3>1, <3>3
        <4>2. GradOf(g2[l]) = 0
          BY <4>1 DEF GradOf
        <4>3. agTaken'[l] = x + g /\ GradOf(gs[l]) = g
          BY <1>9, <1>11, <3>2, <3>3
        <4> QED
          BY <3>2, <4>2, <4>3
      <3>4. CASE l # v
        BY <1>6, <1>11, <3>1, <3>4
      <3> QED
        BY <3>3, <3>4
    <2> QED
      BY <2>1, <2>3, <2>4, Zenon DEF Settled
  <1> QED
    BY <1>12, <1>13, <1>14 DEF AgInv

-----------------------------------------------------------------------------
(* The theorem.                                                            *)

(* The invariant holds of the leaves alone.                                *)
LEMMA InitInv ==
  ASSUME AgInit
  PROVE  AgInv
  <1>1. /\ agVar = [v \in Leaves |-> [data |-> LeafVars[v].data, req |-> LeafVars[v].req, fn |-> 0, user |-> TRUE]]
        /\ agGrad = [v \in Leaves |-> NoGrad] /\ agNode = <<>>
        /\ agOp = [t \in Thread |-> NoOp] /\ agFrames = [t \in Thread |-> <<>>] /\ agPanicked = {}
        /\ agTan = [v \in Leaves |-> [l \in Leaves |-> IF l = v /\ LeafVars[v].req THEN 1 ELSE 0]]
        /\ agOwed = Zero /\ agTaken = Zero /\ agRaced = FALSE
    BY DEF AgInit
  <1>2. PICK m \in Nat : m = Len(LeafVars) /\ Leaves = 1 .. m
    BY LeavesAre
  <1>3. \A v \in Leaves : LeafVars[v].data \in Int /\ LeafVars[v].req \in BOOLEAN
    <2> SUFFICES ASSUME NEW v \in Leaves PROVE LeafVars[v].data \in Int /\ LeafVars[v].req \in BOOLEAN
      OBVIOUS
    <2>1. LeafVars[v] \in [data : Int, req : BOOLEAN]
      BY <1>2, AgAssumption, ElementOfSeq
    <2> QED
      BY <2>1
  <1>4. agVar \in Seq(VarRecs) /\ Len(agVar) = m
    <2>1. agVar \in [1 .. m -> VarRecs]
      BY <1>1, <1>2, <1>3 DEF VarRecs
    <2> QED
      BY <2>1
  <1>5. agGrad \in Seq(Slots) /\ Len(agGrad) = m
    <2>1. NoGrad \in Slots
      BY DEF Slots
    <2>2. agGrad \in [1 .. m -> Slots]
      BY <1>1, <1>2, <2>1
    <2> QED
      BY <2>2
  <1>6. agTan \in Seq(Tangents) /\ Len(agTan) = m
    <2>1. agTan \in [1 .. m -> Tangents]
      BY <1>1, <1>2 DEF Tangents
    <2> QED
      BY <2>1
  <1>7. agNode \in Seq(NodeRecs) /\ Len(agNode) = 0 /\ 1 .. Len(agNode) = {}
    BY <1>1
  <1>8. Zero \in Tangents /\ \A l \in Leaves : Zero[l] = 0
    BY DEF Zero, Tangents
  <1>9. PICK no : no = NoOp
    OBVIOUS
  <1>10. no \in OpRecs /\ no.op = "none"
    BY <1>9 DEF OpRecs, NoOp
  <1>11. agOp \in [Thread -> OpRecs] /\ \A t \in Thread : agOp[t] = no
    BY <1>1, <1>9, <1>10
  <1>12. agFrames \in [Thread -> Seq(Frames)] /\ \A t \in Thread : agFrames[t] = <<>> /\ Len(agFrames[t]) = 0
    <2>1. PICK e : e = <<>>
      OBVIOUS
    <2>2. e \in Seq(Frames) /\ Len(e) = 0
      BY <2>1
    <2>3. agFrames = [t \in Thread |-> e]
      BY <1>1, <2>1
    <2> QED
      BY <2>1, <2>2, <2>3
  <1>13. AgTypes
    <2>1. Len(LeafVars) <= Len(agVar)
      BY <1>2, <1>4
    <2> QED
      BY <1>1, <1>4, <1>5, <1>6, <1>7, <1>8, <1>11, <1>12, <2>1 DEF AgTypes
  <1>14. ASSUME NEW v \in 1 .. Len(agVar) PROVE VarOK(agVar, v, agNode, agTan)
    <2>1. v \in Leaves
      BY <1>2, <1>4
    <2>2. PICK x : x = agVar[v]
      OBVIOUS
    <2>3. x.fn = 0 /\ x.user = TRUE /\ x.req = LeafVars[v].req
      BY <1>1, <2>1, <2>2
    <2>4. agTan[v] = [l \in Leaves |-> IF l = v /\ LeafVars[v].req THEN 1 ELSE 0]
      BY <1>1, <2>1
    <2>5. ~x.req => agTan[v] = Zero
      BY <2>3, <2>4 DEF Zero
    <2>6. 0 <= Len(agNode)
      BY <1>7
    <2> QED
      BY <2>1, <2>2, <2>3, <2>4, <2>5, <2>6 DEF VarOK
  <1>15. \A t \in Thread : OpOK(agOp[t], agVar) /\ OpTan(agOp[t], agVar, agTan)
    BY <1>10, <1>11 DEF OpOK, OpTan
  <1>16. \A t \in Thread : StackOK(agFrames[t], agNode, agTan)
    BY <1>12 DEF StackOK
  <1>17. TapeInv
    BY <1>7, <1>12, <1>14, <1>15, <1>16 DEF TapeInv
  <1>18. TanInv
    BY <1>7, <1>15 DEF TanInv
  <1>19. BalanceInv
    <2> SUFFICES ASSUME NEW l \in Leaves
                 PROVE  Settled(agFrames, agGrad, agNode, agTan, agTaken, agOwed, l)
      BY DEF BalanceInv
    <2>1. OwedByAll(agFrames, agNode, agTan, agGrad, l) = 0
      BY <1>12, NothingOwed
    <2>2. agGrad[l] = NoGrad
      BY <1>1
    <2>3. GradOf(agGrad[l]) = 0
      BY <2>2 DEF GradOf
    <2>4. agTaken[l] = 0 /\ agOwed[l] = 0
      BY <1>1, <1>8
    <2> QED
      BY <2>1, <2>3, <2>4 DEF Settled
  <1> QED
    BY <1>13, <1>17, <1>18, <1>19 DEF AgInv

(* add and mul are operations that a caller may ask for.                   *)
LEMMA AskedSum ==
  ASSUME NEW a, NEW b, a \in Held, b \in Held
  PROVE  Asked("add", <<a, b>>, 0) /\ Asked("mul", <<a, b>>, 0)
  <1>1. PICK args : args = <<a, b>>
    OBVIOUS
  <1>2. args \in Seq(Held) /\ Len(args) \in {1, 2} /\ Len(args) = 2
    BY <1>1
  <1> QED
    BY <1>1, <1>2 DEF Asked

(* So is a checkpoint of a leaf.                                           *)
LEMMA AskedCheckpoint ==
  ASSUME NEW args, args \in Seq(Held), Len(args) \in {1, 2}, NEW cap, cap \in Captured
  PROVE  Asked("ckpt", args, cap)
  <1>1. cap \in Nat
    BY LeavesAre
  <1> QED
    BY <1>1 DEF Asked

(* Building the graph keeps the invariant.                                 *)
LEMMA BuildInv ==
  ASSUME AgInv, NEW t, t \in Thread, Build(t)
  PROVE  AgInv'
  <1>1. ASSUME NEW flag \in BOOLEAN, EnterGuard(t, flag) PROVE AgInv'
    BY <1>1, Untouched DEF EnterGuard
  <1>2. ASSUME DropGuard(t) PROVE AgInv'
    BY <1>2, Untouched DEF DropGuard
  <1>3. ASSUME NEW v \in Held, Detach(t, v) PROVE AgInv'
    BY <1>3, DetachInv
  <1>4. ASSUME NEW a \in Held, NEW b \in Held, Compute(t, "add", <<a, b>>, 0) PROVE AgInv'
    BY <1>4, AskedSum, ComputeInv
  <1>5. ASSUME NEW a \in Held, NEW b \in Held, Compute(t, "mul", <<a, b>>, 0) PROVE AgInv'
    BY <1>5, AskedSum, ComputeInv
  <1>6. ASSUME NEW cap \in Captured, NEW a \in Held, Compute(t, "ckpt", <<a>>, cap) PROVE AgInv'
    <2>1. PICK args : args = <<a>>
      OBVIOUS
    <2>2. args \in Seq(Held) /\ Len(args) \in {1, 2}
      BY <2>1
    <2>3. Asked("ckpt", args, cap) /\ Compute(t, "ckpt", args, cap)
      BY <1>6, <2>1, <2>2, AskedCheckpoint
    <2> QED
      BY <2>3, ComputeInv
  <1>7. ASSUME NEW cap \in Captured, NEW a \in Held, NEW b \in Held, Compute(t, "ckpt", <<a, b>>, cap) PROVE AgInv'
    <2>1. PICK args : args = <<a, b>>
      OBVIOUS
    <2>2. args \in Seq(Held) /\ Len(args) \in {1, 2}
      BY <2>1
    <2>3. Asked("ckpt", args, cap) /\ Compute(t, "ckpt", args, cap)
      BY <1>7, <2>1, <2>2, AskedCheckpoint
    <2> QED
      BY <2>3, ComputeInv
  <1> QED
    BY <1>1, <1>2, <1>3, <1>4, <1>5, <1>6, <1>7 DEF Build

(* Every step keeps the invariant.                                         *)
LEMMA NextInv ==
  ASSUME AgInv, [AgNext]_agVars
  PROVE  AgInv'
  <1>1. Builder \subseteq Thread /\ Optimiser \subseteq Thread
    BY AgAssumption
  <1>2. ASSUME NEW t \in Builder, Build(t) PROVE AgInv'
    BY <1>1, <1>2, BuildInv
  <1>3. ASSUME NEW t \in Optimiser, Optimise(t) PROVE AgInv'
    <2>1. ASSUME NEW v \in Leaves, NEW d \in NewData, SetData(t, v, d) PROVE AgInv'
      BY <1>1, <2>1, SetDataInv
    <2>2. ASSUME NEW v \in Leaves, ZeroGrad(t, v) PROVE AgInv'
      BY <1>1, <2>2, ZeroGradInv
    <2> QED
      BY <1>3, <2>1, <2>2 DEF Optimise
  <1>4. ASSUME NEW t \in Thread, AgStep(t) PROVE AgInv'
    BY <1>4, RecordInv, ApplyInv, SkipInv, RecomputeInv, PanicInv, AccumulateInv, ReturnInv DEF AgStep
  <1>5. ASSUME NEW t \in Thread, NEW v \in Held, Backward(t, v) PROVE AgInv'
    BY <1>5, BackwardInv
  <1>6. CASE UNCHANGED agVars
    BY <1>6, Untouched DEF agVars
  <1> QED
    BY <1>2, <1>3, <1>4, <1>5, <1>6 DEF AgNext

(* When all calls have returned, what is settled is the derivative.        *)
LEMMA SettledIsDerivative ==
  ASSUME AgInv
  PROVE  GradientsAreDerivatives
  <1> SUFFICES ASSUME \A t \in Thread : agFrames[t] = <<>>, agPanicked = {}, ~agRaced, NEW l \in Leaves
               PROVE  GradOf(agGrad[l]) + agTaken[l] = agOwed[l]
    BY DEF GradientsAreDerivatives
  <1>1. Settled(agFrames, agGrad, agNode, agTan, agTaken, agOwed, l)
    BY DEF AgInv, BalanceInv
  <1>2. OwedByAll(agFrames, agNode, agTan, agGrad, l) = 0
    BY NothingOwed
  <1>3. GradOf(agGrad[l]) \in Int
    BY InvBooks, SlotOfLeaf
  <1>4. agTaken[l] \in Int
    BY DEF AgInv, AgTypes, Tangents
  <1>5. PICK x \in Int : x = GradOf(agGrad[l]) + agTaken[l]
    BY <1>3, <1>4
  <1>6. x + 0 = agOwed[l]
    BY <1>1, <1>2, <1>5, Zenon DEF Settled
  <1> QED
    BY <1>5, <1>6

(* Reverse mode agrees with forward mode, for any number of threads, of    *)
(* leaves and of operations, however backward(), the two halves of each    *)
(* operation, set_data, zero_grad and the recomputation of checkpoints     *)
(* interleave: backward, accumulate_into_edge, CheckpointBackward::apply.  *)
THEOREM GradientsMatchForwardMode == AgSpec => []GradientsAreDerivatives
  <1>1. AgInit => AgInv
    BY InitInv
  <1>2. AgInv /\ [AgNext]_agVars => AgInv'
    BY NextInv
  <1>3. AgInv => GradientsAreDerivatives
    BY SettledIsDerivative
  <1> QED
    BY <1>1, <1>2, <1>3, PTL DEF AgSpec

(* The tape is sound in every state: edges lead to older nodes or to       *)
(* existing slots, never to the node of a recomputation; a checkpoint      *)
(* captures a leaf, so that a nested call meets no other checkpoint; the   *)
(* walk under way is topological, and each gradient it holds is for a node *)
(* still ahead; and two recomputations under way share no fresh leaf       *)
(* (visit, Variable::edge, CheckpointNBackward::apply).                    *)
THEOREM TapeIsSound == AgSpec => []TapeInv
  <1>1. AgInit => AgInv
    BY InitInv
  <1>2. AgInv /\ [AgNext]_agVars => AgInv'
    BY NextInv
  <1>3. AgInv => TapeInv
    BY DEF AgInv
  <1> QED
    BY <1>1, <1>2, <1>3, PTL DEF AgSpec

=============================================================================
