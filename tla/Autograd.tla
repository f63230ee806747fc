------------------------------ MODULE Autograd ------------------------------
(***************************************************************************)
(* Reverse-mode autograd (rustorch-autograd): variables share a data cell  *)
(* and a gradient slot between threads, every operation that records       *)
(* appends a node whose edges point at earlier nodes or at leaf slots, and *)
(* backward() walks the nodes in reverse topological order.  The grad mode *)
(* is a thread-local flag set by scoped guards.  A checkpointed operation  *)
(* records no inner nodes: its backward re-runs the closure on fresh       *)
(* leaves and runs backward() on the result.                               *)
(*                                                                         *)
(* Tensors are scalars over the integers, where products and sums are      *)
(* exact.  The closure of every checkpoint is f(args) = args[1] * cap, cap *)
(* a captured variable; a second argument is one that f does not use.  The *)
(* ghost variables agTan (forward-mode derivatives, fixed when a variable  *)
(* is made), agOwed and agTaken say what the slots should have received.   *)
(***************************************************************************)
EXTENDS Integers, Sequences, FiniteSets, SequencesExt

CONSTANTS
  Thread,      \* threads that share the variables, and call backward()
  Builder,     \* those that run operations and enter grad-mode scopes
  Optimiser,   \* those that call set_data and zero_grad
  LeafVars,    \* the variables that exist at first: [data, req] records
  Captured,    \* the variables a checkpoint closure may capture
  NewData,     \* what set_data may write
  MaxOps,      \* add, mul and detach
  MaxCkpt,     \* checkpointed calls
  MaxBackward, \* calls of backward()
  MaxSet,      \* calls of set_data
  MaxGuards,   \* grad-mode scopes entered
  MaxAgCalls   \* all of these together, zero_grad included

NoGrad == <<>>
Detached == [kind |-> "detached", to |-> 0]

Leaves == DOMAIN LeafVars
ASSUME AgAssumption ==
  /\ LeafVars \in Seq([data : Int, req : BOOLEAN])
  /\ IsFiniteSet(Thread) /\ Builder \subseteq Thread /\ Optimiser \subseteq Thread
  /\ Captured \subseteq Leaves /\ NewData \subseteq Int
  /\ {MaxOps, MaxCkpt, MaxBackward, MaxSet, MaxGuards, MaxAgCalls} \subseteq Nat

VARIABLES
  agVar,      \* the variables: data, requires_grad, grad_fn (a node, 0 for none),
              \* and whether a user holds them or only a recomputation does
  agGrad,     \* their gradient slots: NoGrad or <<g>>
  agNode,     \* the backward nodes: op, saved values, captured variable, edges,
              \* and, a ghost, the derivative of what the node's operation returned
  agEnabled,  \* GRAD_ENABLED of each thread
  agGuards,   \* each thread's live guards: what they set, what they restore
  agOp,       \* the operation a thread has computed and not yet recorded
  agFrames,   \* each thread's nested calls of backward()
  agPanicked, \* threads whose backward panicked
  agTan,      \* ghost: d variable / d leaf along what was recorded
  agOwed,     \* ghost: the sum of the derivatives of all backward() calls
  agTaken,    \* ghost: what zero_grad discarded
  agRaced,    \* ghost: set_data hit a variable that is re-read later
  agBudget    \* calls left, by kind

agGhosts == <<agTan, agOwed, agTaken, agRaced>>
agModes == <<agEnabled, agGuards>>
agVars == <<agVar, agGrad, agNode, agModes, agOp, agFrames, agPanicked, agGhosts, agBudget>>

Zero == [l \in Leaves |-> 0]
NoOp == [op |-> "none", args |-> <<>>, cap |-> 0, value |-> 0, tan |-> Zero]
Idle(t) == t \notin agPanicked /\ agOp[t] = NoOp /\ agFrames[t] = <<>>
Spend(what) ==
  /\ agBudget[what] > 0 /\ agBudget.calls > 0
  /\ agBudget' = [agBudget EXCEPT ![what] = @ - 1, !.calls = @ - 1]

AgInit ==
  /\ agVar = [v \in Leaves |-> [data |-> LeafVars[v].data, req |-> LeafVars[v].req, fn |-> 0,
                              user |-> TRUE]]
  /\ agGrad = [v \in Leaves |-> NoGrad]
  /\ agNode = <<>>
  /\ agEnabled = [t \in Thread |-> TRUE]
  /\ agGuards = [t \in Thread |-> <<>>]
  /\ agOp = [t \in Thread |-> NoOp]
  /\ agFrames = [t \in Thread |-> <<>>]
  /\ agPanicked = {}
  /\ agTan = [v \in Leaves |-> [l \in Leaves |-> IF l = v /\ LeafVars[v].req THEN 1 ELSE 0]]
  /\ agOwed = Zero /\ agTaken = Zero
  /\ agRaced = FALSE
  /\ agBudget = [ops |-> MaxOps, ckpt |-> MaxCkpt, backward |-> MaxBackward, set |-> MaxSet,
                 guards |-> MaxGuards, zero |-> 1, calls |-> MaxAgCalls]

-----------------------------------------------------------------------------
(* Grad mode.                                                               *)

(* NoGradGuard::enter and WithGradGuard::enter.                             *)
EnterGuard(t, flag) ==
  /\ Idle(t)
  /\ Spend("guards")
  /\ agGuards' = [agGuards EXCEPT ![t] = Append(@, [sets |-> flag, previous |-> agEnabled[t]])]
  /\ agEnabled' = [agEnabled EXCEPT ![t] = flag]
  /\ UNCHANGED <<agVar, agGrad, agNode, agOp, agFrames, agPanicked, agGhosts>>

Restored(guard) == guard.previous

(* The innermost guard goes out of scope.                                   *)
DropGuard(t) ==
  /\ Idle(t)
  /\ agGuards[t] # <<>>
  /\ agEnabled' = [agEnabled EXCEPT ![t] = Restored(Last(agGuards[t]))]
  /\ agGuards' = [agGuards EXCEPT ![t] = Front(@)]
  /\ UNCHANGED <<agVar, agGrad, agNode, agOp, agFrames, agPanicked, agGhosts, agBudget>>

-----------------------------------------------------------------------------
(* Variables.                                                               *)

(* Variable::edge.                                                          *)
Edge(v) ==
  IF ~agVar[v].req THEN Detached
  ELSE IF agVar[v].fn # 0 THEN [kind |-> "node", to |-> agVar[v].fn]
  ELSE [kind |-> "slot", to |-> v]

NewVar(data, req, fn, tan) ==
  /\ agVar' = Append(agVar, [data |-> data, req |-> req, fn |-> fn, user |-> TRUE])
  /\ agGrad' = Append(agGrad, NoGrad)
  /\ agTan' = Append(agTan, tan)

Detach(t, v) ==
  /\ Idle(t)
  /\ Spend("ops")
  /\ NewVar(agVar[v].data, FALSE, 0, Zero)
  /\ UNCHANGED <<agNode, agModes, agOp, agFrames, agPanicked, agOwed, agTaken, agRaced>>

(* The variables whose data cell will be read again: operands between the   *)
(* forward computation and the recording, and captures of a checkpoint.     *)
ReadAgain ==
  (UNION {ToSet(agOp[t].args) \cup {agOp[t].cap} : t \in Thread})
    \cup {agNode[n].cap : n \in DOMAIN agNode}

(* An optimiser's set_data through its clone of a leaf.                     *)
SetData(t, v, d) ==
  /\ Idle(t)
  /\ Spend("set")
  /\ agVar' = [agVar EXCEPT ![v].data = d]
  /\ agRaced' = (agRaced \/ v \in ReadAgain)
  /\ UNCHANGED <<agGrad, agNode, agModes, agOp, agFrames, agPanicked, agTan, agOwed, agTaken>>

ZeroGrad(t, v) ==
  /\ Idle(t)
  /\ agGrad[v] # NoGrad
  /\ Spend("zero")
  /\ agTaken' = [agTaken EXCEPT ![v] = @ + agGrad[v][1]]
  /\ agGrad' = [agGrad EXCEPT ![v] = NoGrad]
  /\ UNCHANGED <<agVar, agNode, agModes, agOp, agFrames, agPanicked, agTan, agOwed, agRaced>>

-----------------------------------------------------------------------------
(* Operations: add, mul, checkpoint (one argument) and checkpoint_n (two).  *)

Scale(k, tan) == [l \in Leaves |-> k * tan[l]]
Plus(f, g) == [l \in Leaves |-> f[l] + g[l]]
Data(v) == agVar[v].data

(* The forward computation reads the operands; for a checkpoint it runs     *)
(* under no_grad and records nothing.                                       *)
Compute(t, op, args, cap) ==
  /\ Idle(t)
  /\ Spend(IF op = "ckpt" THEN "ckpt" ELSE "ops")
  /\ LET a == args[1]
         b == IF op = "ckpt" THEN cap ELSE args[2]
     IN agOp' = [agOp EXCEPT ![t] =
          [op |-> op, args |-> args, cap |-> cap,
           value |-> IF op = "add" THEN Data(a) + Data(b) ELSE Data(a) * Data(b),
           tan |-> IF op = "add" THEN Plus(agTan[a], agTan[b])
                   ELSE Plus(Scale(Data(b), agTan[a]), Scale(Data(a), agTan[b]))]]
  /\ UNCHANGED <<agVar, agGrad, agNode, agModes, agFrames, agPanicked, agGhosts>>

Saved(args) == [i \in DOMAIN args |-> Data(args[i])]

(* The second half of the operation: the node, if the thread's mode and an  *)
(* operand ask for one, saves the operands' tensors, read once more.        *)
Record(t) ==
  LET o == agOp[t]
      recorded == agEnabled[t] /\ \E i \in DOMAIN o.args : agVar[o.args[i]].req
  IN /\ o # NoOp
     /\ NewVar(o.value, recorded, IF recorded THEN Len(agNode) + 1 ELSE 0,
               IF recorded THEN o.tan ELSE Zero)
     /\ agNode' = IF ~recorded THEN agNode
                  ELSE Append(agNode, [op |-> o.op, saved |-> Saved(o.args), cap |-> o.cap,
                                       edges |-> [i \in DOMAIN o.args |-> Edge(o.args[i])],
                                       tan |-> o.tan])
     /\ agOp' = [agOp EXCEPT ![t] = NoOp]
     /\ UNCHANGED <<agModes, agFrames, agPanicked, agOwed, agTaken, agRaced, agBudget>>

-----------------------------------------------------------------------------
(* backward().                                                              *)

(* visit: depth-first, a node after everything its one or two edges reach.  *)
(* Edges lead to older nodes only, so the nodes visited and not yet pushed  *)
(* are never met again.  The graph does not change under a walk.            *)
visit[n \in DOMAIN agNode] ==
  [topo \in Seq(DOMAIN agNode) |->
     LET es == agNode[n].edges
         Via(e, acc) == IF e.kind = "node" THEN visit[e.to][acc] ELSE acc
         first == Via(es[1], topo)
     IN  IF n \in ToSet(topo) THEN topo
         ELSE Append(IF Len(es) = 1 THEN first ELSE Via(es[2], first), n)]

(* The order in which the nodes are applied.                                *)
Walk(root) == Reverse(visit[root][<<>>])

Frame(walk, g, fresh) ==
  [walk |-> walk, grads |-> [n \in {Head(walk)} |-> g], todo |-> <<>>, fresh |-> fresh]
Top(t) == Last(agFrames[t])
SetTop(t, f) == agFrames' = [agFrames EXCEPT ![t] = Append(Front(@), f)]

(* backward(output, None).  Without a grad_fn it fails with NoGradFn and    *)
(* changes nothing.                                                         *)
Backward(t, v) ==
  /\ Idle(t)
  /\ agVar[v].fn # 0
  /\ Spend("backward")
  /\ agFrames' = [agFrames EXCEPT ![t] = <<Frame(Walk(agVar[v].fn), 1, <<>>)>>]
  /\ agOwed' = Plus(agOwed, agTan[v])
  /\ UNCHANGED <<agVar, agGrad, agNode, agModes, agOp, agPanicked, agTan, agTaken, agRaced>>

GradOf(slot) == IF slot = NoGrad THEN 0 ELSE slot[1]

(* Under the slot's lock: take, add, store.                                 *)
IntoSlot(v, g) == [agGrad EXCEPT ![v] = <<GradOf(@) + g>>]

(* Mutant: a node's second gradient replaces its first.                     *)
MutIntoNode(grads, n, g) == [m \in DOMAIN grads \cup {n} |-> IF m = n THEN g ELSE grads[m]]

IntoNode(grads, n, g) ==
  [m \in DOMAIN grads \cup {n} |->
     IF m # n THEN grads[m] ELSE IF n \in DOMAIN grads THEN grads[n] + g ELSE g]

(* The node's turn is over: its edges take what it hands them, one a step. *)
Deliver(frame, handed) == [frame EXCEPT !.walk = Tail(@), !.todo = handed]

(* grads.remove: the gradient goes to the node that is applied.             *)
Without(grads, n) == [m \in DOMAIN grads \ {n} |-> grads[m]]

(* What a node of the tape hands to its edges.                              *)
InputGrads(node, g) ==
  IF node.op = "add" THEN <<g, g>> ELSE <<g * node.saved[2], g * node.saved[1]>>

(* The next node of the walk that has received a gradient.                  *)
Current(t) == Head(Top(t).walk)
Ready(t) ==
  /\ agFrames[t] # <<>>
  /\ Top(t).todo = <<>> /\ Top(t).walk # <<>>
Upstream(t) == Top(t).grads[Current(t)]
Reached(t) == Current(t) \in DOMAIN Top(t).grads

Apply(t) ==
  /\ Ready(t) /\ Reached(t)
  /\ agNode[Current(t)].op # "ckpt"
  /\ LET node == agNode[Current(t)]
         gs == InputGrads(node, Upstream(t))
     IN SetTop(t, Deliver([Top(t) EXCEPT !.grads = Without(@, Current(t))],
                          [i \in 1 .. 2 |-> [edge |-> node.edges[i], g |-> <<gs[i]>>]]))
  /\ UNCHANGED <<agVar, agGrad, agNode, agModes, agOp, agPanicked, agGhosts, agBudget>>

(* No path reached this node: an input the checkpointed closure ignores.    *)
Skip(t) ==
  /\ Ready(t) /\ ~Reached(t)
  /\ SetTop(t, [Top(t) EXCEPT !.walk = Tail(@)])
  /\ UNCHANGED <<agVar, agGrad, agNode, agModes, agOp, agPanicked, agGhosts, agBudget>>

(* The derivative of what an edge leads to.                                 *)
EdgeTan(e) ==
  CASE e.kind = "node" -> agNode[e.to].tan
    [] e.kind = "slot" -> agTan[e.to]
    [] e.kind = "detached" -> Zero

(* CheckpointBackward::apply and CheckpointNBackward::apply with gradients  *)
(* enabled: the closure runs on fresh leaves, which stand for the arguments *)
(* and record one mul node, and a nested backward() starts from it.         *)
Recompute(t) ==
  /\ Ready(t) /\ Reached(t)
  /\ agNode[Current(t)].op = "ckpt"
  /\ agEnabled[t]
  /\ LET node == agNode[Current(t)]
         k == Len(node.saved)
         new == Len(agNode) + 1
         fresh == [i \in 1 .. k |-> Len(agVar) + i]
     IN /\ agVar' = agVar \o [i \in 1 .. k |->
             [data |-> node.saved[i], req |-> TRUE, fn |-> 0, user |-> FALSE]]
        /\ agGrad' = agGrad \o [i \in 1 .. k |-> NoGrad]
        /\ agTan' = agTan \o [i \in 1 .. k |-> EdgeTan(node.edges[i])]
        /\ agNode' = Append(agNode,
             [op |-> "mul", saved |-> <<node.saved[1], Data(node.cap)>>, cap |-> 0,
              edges |-> <<[kind |-> "slot", to |-> fresh[1]], Edge(node.cap)>>,
              tan |-> Plus(Scale(Data(node.cap), EdgeTan(node.edges[1])),
                           Scale(node.saved[1], agTan[node.cap]))])
        /\ agFrames' = [agFrames EXCEPT ![t] =
             Append(Front(@), [Top(t) EXCEPT !.grads = Without(@, Current(t))])
               \o <<Frame(<<new>>, Upstream(t), fresh)>>]
  /\ UNCHANGED <<agModes, agOp, agPanicked, agOwed, agTaken, agRaced, agBudget>>

(* The same with gradients disabled: the closure's result has no grad_fn,   *)
(* the nested backward() fails and its expect() panics.  Unwinding drops    *)
(* the thread's guards.                                                     *)
Panic(t) ==
  /\ Ready(t) /\ Reached(t)
  /\ agNode[Current(t)].op = "ckpt"
  /\ ~agEnabled[t]
  /\ agPanicked' = agPanicked \cup {t}
  /\ agFrames' = [agFrames EXCEPT ![t] = <<>>]
  /\ agGuards' = [agGuards EXCEPT ![t] = <<>>]
  /\ agEnabled' = [agEnabled EXCEPT ![t] = agGuards[t][1].previous]
  /\ UNCHANGED <<agVar, agGrad, agNode, agOp, agGhosts, agBudget>>

(* accumulate_into_edge: the next edge takes its gradient, if it was handed *)
(* one.  A detached edge drops it.                                          *)
Accumulate(t) ==
  /\ agFrames[t] # <<>>
  /\ Top(t).todo # <<>>
  /\ LET h == Head(Top(t).todo)
         rest == [Top(t) EXCEPT !.todo = Tail(@)]
     IN \/ /\ h.g # NoGrad /\ h.edge.kind = "node"
           /\ SetTop(t, [rest EXCEPT !.grads = IntoNode(@, h.edge.to, h.g[1])])
           /\ UNCHANGED agGrad
        \/ /\ h.g # NoGrad /\ h.edge.kind = "slot"
           /\ SetTop(t, rest)
           /\ agGrad' = IntoSlot(h.edge.to, h.g[1])
        \/ /\ h.g = NoGrad \/ h.edge.kind = "detached"
           /\ SetTop(t, rest)
           /\ UNCHANGED agGrad
  /\ UNCHANGED <<agVar, agNode, agModes, agOp, agPanicked, agGhosts, agBudget>>

(* A call of backward() returns.  A nested one hands the gradients of its   *)
(* fresh leaves to the edges of the checkpoint node; an unused leaf has     *)
(* none.                                                                    *)
Return(t) ==
  /\ agFrames[t] # <<>>
  /\ Top(t).todo = <<>> /\ Top(t).walk = <<>>
  /\ LET below == Front(agFrames[t])
         outer == Last(below)
         edges == agNode[Head(outer.walk)].edges
         handed == [i \in DOMAIN Top(t).fresh |->
                      [edge |-> edges[i], g |-> agGrad[Top(t).fresh[i]]]]
     IN agFrames' = [agFrames EXCEPT ![t] =
          IF below = <<>> THEN <<>> ELSE Append(Front(below), Deliver(outer, handed))]
  /\ UNCHANGED <<agVar, agGrad, agNode, agModes, agOp, agPanicked, agGhosts, agBudget>>

-----------------------------------------------------------------------------
Held == {v \in DOMAIN agVar : agVar[v].user}

(* What a caller may ask of the library on an idle thread.  Sums are asked  *)
(* for in one order only, as addition commutes.                             *)
Build(t) ==
  \/ \E flag \in BOOLEAN : EnterGuard(t, flag)
  \/ DropGuard(t)
  \/ \E v \in Held : Detach(t, v)
  \/ \E a, b \in Held : a <= b /\ Compute(t, "add", <<a, b>>, 0)
  \/ \E a, b \in Held : Compute(t, "mul", <<a, b>>, 0)
  \/ \E cap \in Captured, a \in Held : Compute(t, "ckpt", <<a>>, cap)
  \/ \E cap \in Captured, a, b \in Held : a # b /\ Compute(t, "ckpt", <<a, b>>, cap)
Optimise(t) ==
  \/ \E v \in Leaves, d \in NewData : SetData(t, v, d)
  \/ \E v \in Leaves : ZeroGrad(t, v)

(* What the thread then does by itself.                                     *)
AgStep(t) ==
  \/ Record(t) \/ Apply(t) \/ Skip(t) \/ Recompute(t) \/ Panic(t) \/ Accumulate(t) \/ Return(t)

AgNext ==
  \/ \E t \in Builder : Build(t)
  \/ \E t \in Optimiser : Optimise(t)
  \/ \E t \in Thread : AgStep(t) \/ \E v \in Held : Backward(t, v)
AgSpec == AgInit /\ [][AgNext]_agVars

-----------------------------------------------------------------------------
(* Reverse mode agrees with forward mode: when no call of backward() is     *)
(* under way, every leaf's slot, with what zero_grad took from it, holds    *)
(* the sum over all the calls of the derivative of their outputs, however   *)
(* the calls, set_data and zero_grad interleaved (backward, accumulate_into *)
(* _edge, the saved tensors of the ops, the recomputation of checkpoints).  *)
(* Two cases are excepted: a set_data of a variable that an operation or a  *)
(* checkpoint reads again, and a thread that panicked.                      *)
GradientsAreDerivatives ==
  (\A t \in Thread : agFrames[t] = <<>>) /\ agPanicked = {} /\ ~agRaced
    => \A l \in Leaves : GradOf(agGrad[l]) + agTaken[l] = agOwed[l]

=============================================================================
