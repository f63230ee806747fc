------------------------------ MODULE Tensors ------------------------------
(***************************************************************************)
(* Tensors, their views and the in-place operations (rustorch-core,        *)
(* tensor_impl.rs, view.rs, storage.rs, version.rs) with the out-of-place  *)
(* elementwise operations of the CPU backend (iterator.rs).                *)
(* A handle is a Tensor value: an Arc of a storage, a layout and the       *)
(* shared version counter.  `want` is not in the code: the elements that   *)
(* the definition of the operations gives the handle, in row-major order.  *)
(* `suspect` says what the handle's history went through: `view` on a      *)
(* tensor that does not start its storage ("offset"), a binary operation   *)
(* with an operand that is not contiguous ("strides").                     *)
(***************************************************************************)
EXTENDS Layouts, Numbers, FiniteSets

CONSTANTS
  MaxTensors,      \* bound on the tensors alive at once
  StartShapes,     \* the shapes of the tensors it creates
  MaxTensorCalls   \* bound on the calls of a behaviour

(* The smallest shape whose transpose has other strides, for StartShapes.   *)
Matrix == {<<2, 3>>}

VARIABLES
  stores,      \* sequence of storages: [cells, version]
  handles,     \* Slot -> handle or Free
  tensorCalls

Slot == 1 .. MaxTensors

tensorVars == <<stores, handles, tensorCalls>>

Free == [free |-> TRUE]
Live == {s \in Slot : "free" \notin DOMAIN handles[s]}

TensorInit == stores = <<>> /\ handles = [s \in Slot |-> Free] /\ tensorCalls = 0

TensorOf(h) == [shape |-> h.shape, strides |-> h.strides, off |-> h.off, cells |-> stores[h.st].cells]

Handle(t, st, want, suspect) ==
  [shape |-> t.shape, strides |-> t.strides, off |-> t.off, st |-> st, want |-> want, suspect |-> suspect]

Calls == tensorCalls < MaxTensorCalls /\ tensorCalls' = tensorCalls + 1
Creates == Calls /\ Live # Slot
(* The slot a new tensor takes.                                             *)
NextFree == CHOOSE s \in Slot \ Live : \A r \in Slot \ Live : s <= r

(* A tensor in storage of its own.                                          *)
PlaceAt(shape, cells, want, suspect) ==
  /\ stores' = Append(stores, [cells |-> cells, version |-> 0])
  /\ handles' = [handles EXCEPT ![NextFree] =
                   Handle(FromCells(shape, cells), Len(stores) + 1, want, suspect)]

FromVec ==
  /\ Creates
  /\ \E shape \in StartShapes :
       LET cells == [i \in 0 .. numel(shape) - 1 |-> (11 * (Len(stores) + 1)) + i]
       IN  PlaceAt(shape, cells, cells, {})

Drop(s) ==
  /\ s \in Live /\ Calls
  /\ handles' = [handles EXCEPT ![s] = Free]
  /\ UNCHANGED stores

(* A view shares the storage and its version counter.  `want` is stated by  *)
(* coordinates: which element of the source each coordinate of the view     *)
(* names.                                                                   *)
Shares(src, t, wanted, suspect) ==
  /\ src \in Live /\ Creates
  /\ handles' = [handles EXCEPT ![NextFree] = Handle(t, handles[src].st, wanted, suspect)]
  /\ UNCHANGED stores

(* The elements of h at the coordinates that `pick` gives for each          *)
(* coordinate of the new shape.                                             *)
Picked(h, shape, pick) ==
  [i \in 0 .. numel(shape) - 1 |->
     h.want[Dot(pick[decode_coords(i, shape)], compute_contiguous_strides(h.shape))]]

ViewAs(src) ==
  /\ src \in Live
  /\ is_contiguous(handles[src])
  /\ \E shape \in {<<numel(handles[src].shape)>>, <<1>> \o handles[src].shape, Reverse(handles[src].shape)} :
       Shares(src, view(handles[src], shape), handles[src].want,
              handles[src].suspect \cup IF handles[src].off = 0 THEN {} ELSE {"offset"})

Transpose(src) ==
  /\ src \in Live
  /\ LET h == handles[src]
     IN  \E a, b \in DOMAIN h.shape :
           /\ a <= b
           /\ LET t == transpose(h, a, b)
              IN  Shares(src, t,
                         Picked(h, t.shape, [c \in CoordsOf(t.shape) |-> Swapped(c, a, b)]), h.suspect)

Permute(src) ==
  /\ src \in Live
  /\ LET h == handles[src]
     IN  \E perm \in {p \in [DOMAIN h.shape -> DOMAIN h.shape] : IsInjective(p)} :
           LET t == permute(h, perm)
           IN  Shares(src, t,
                      Picked(h, t.shape, [c \in CoordsOf(t.shape) |->
                               [j \in DOMAIN h.shape |-> c[CHOOSE i \in DOMAIN perm : perm[i] = j]]]),
                      h.suspect)

Unsqueeze(src) ==
  /\ src \in Live
  /\ Len(handles[src].shape) < 3
  /\ \E axis \in 1 .. Len(handles[src].shape) + 1 :
       Shares(src, unsqueeze(handles[src], axis), handles[src].want, handles[src].suspect)

Squeeze(src) ==
  /\ src \in Live
  /\ \E axis \in DOMAIN handles[src].shape :
       /\ handles[src].shape[axis] = 1
       /\ Shares(src, squeeze(handles[src], axis), handles[src].want, handles[src].suspect)

Narrow(src) ==
  /\ src \in Live
  /\ LET h == handles[src]
     IN  \E axis \in DOMAIN h.shape, start \in 0 .. 2, length \in 0 .. 2 :
           /\ start + length <= h.shape[axis]
           /\ LET t == narrow(h, axis, start, length)
              IN  Shares(src, t,
                         Picked(h, t.shape, [c \in CoordsOf(t.shape) |-> [c EXCEPT ![axis] = @ + start]]),
                         h.suspect)

Slice(src) ==
  /\ src \in Live
  /\ LET h == handles[src]
     IN  \E axis \in DOMAIN h.shape, start \in 0 .. 1, step \in {1, 2} :
           /\ start <= h.shape[axis]
           /\ LET t == slice(h, axis, start, h.shape[axis], step)
              IN  Shares(src, t,
                         Picked(h, t.shape, [c \in CoordsOf(t.shape) |-> [c EXCEPT ![axis] = start + (@ * step)]]),
                         h.suspect)

(* contiguous() and clone(): a dense tensor is shared, another is copied.   *)
Contiguous(src) ==
  /\ src \in Live
  /\ LET h == handles[src]
     IN  IF Dense(h)
         THEN Shares(src, h, h.want, h.suspect)
         ELSE /\ Creates
              /\ PlaceAt(h.shape, Elements(TensorOf(h)), h.want, h.suspect)

(* ------------------------- in-place operations ------------------------- *)

Arith(op, a, b) ==
  CASE op = "add_" -> (a + b) % P
    [] op = "sub_" -> (a - b) % P
    [] op = "mul_" -> (a * b) % P

MutUnique(s) == TRUE

(* Arc::get_mut: the storage can be written through its only handle.        *)
Unique(s) == \A other \in Live \ {s} : handles[other].st # handles[s].st

Bump(store, cells) == [cells |-> cells, version |-> store.version + 1]

(* The operation refuses (Aliased) a storage that another tensor shares.    *)
WriteInPlace(s, cells, want, suspect) ==
  LET st == handles[s].st
  IN  IF Unique(s)
      THEN /\ stores' = [stores EXCEPT ![st] = Bump(@, cells)]
           /\ handles' = [handles EXCEPT ![s].want = want, ![s].suspect = suspect]
      ELSE UNCHANGED <<stores, handles>>

(* for i in 0..n: lhs[li] = op(lhs[li], rhs[ri]), one after another.        *)
Looped(n, cells, at, with) ==
  LET after[i \in 0 .. n] ==
        IF i = 0 THEN cells ELSE [after[i - 1] EXCEPT ![at[i - 1]] = with[i - 1]]
  IN  after[n]

Strided(h) == IF is_contiguous(h) THEN {} ELSE {"strides"}

Broadcast(h, target) ==
  LET full == FromCells(h.shape, h.want)
  IN  Elements([full EXCEPT !.shape = target, !.strides = expand_strides_to(h.shape, target)])

(* The dense path indexes both storages from 0; the other takes its own     *)
(* strides from the layout and those of the operand from its shape.         *)
BinaryInplace(s, r) ==
  /\ s \in Live /\ r \in Live /\ s # r /\ Calls
  /\ ExpandsTo(handles[r].shape, handles[s].shape)
  /\ \E op \in {"add_", "sub_", "mul_"} :
       LET h == handles[s]
           o == handles[r]
           n == numel(h.shape)
           dense == Dense(h) /\ Dense(o) /\ h.shape = o.shape
           rhs == expand_strides_to(o.shape, h.shape)
           li == [i \in 0 .. n - 1 |-> IF dense THEN i ELSE strided_index(i, h.shape, h.strides, h.off)]
           ri == [i \in 0 .. n - 1 |-> IF dense THEN i ELSE strided_index(i, h.shape, rhs, o.off)]
           cells == stores[h.st].cells
           other == stores[o.st].cells
           wide == Broadcast(o, h.shape)
       IN  IF dense /\ n = 0
           THEN UNCHANGED <<stores, handles>>
           ELSE WriteInPlace(s,
                  Looped(n, cells, li, [i \in 0 .. n - 1 |-> Arith(op, cells[li[i]], other[ri[i]])]),
                  [i \in 0 .. n - 1 |-> Arith(op, h.want[i], wide[i])],
                  h.suspect \cup o.suspect \cup Strided(o))

(* neg_, abs_, fill_ and zero_, dense or strided.                           *)
UnaryInplace(s) ==
  /\ s \in Live /\ Calls
  /\ \E op \in {"neg_", "fill_"} :
       LET h == handles[s]
           n == numel(h.shape)
           at == [i \in 0 .. n - 1 |-> IF Dense(h) /\ op = "neg_" THEN i ELSE strided_index(i, h.shape, h.strides, h.off)]
           cells == stores[h.st].cells
           f(x) == IF op = "neg_" THEN (-x) % P ELSE 7
       IN  WriteInPlace(s, Looped(n, cells, at, [i \in 0 .. n - 1 |-> f(cells[at[i]])]),
                        [i \in 0 .. n - 1 |-> f(h.want[i])], h.suspect)

(* copy_ takes the strides of both layouts.                                 *)
CopyInplace(s, r) ==
  /\ s \in Live /\ r \in Live /\ s # r /\ Calls
  /\ handles[s].shape = handles[r].shape
  /\ LET h == handles[s]
         o == handles[r]
         n == numel(h.shape)
         at == [i \in 0 .. n - 1 |-> strided_index(i, h.shape, h.strides, h.off)]
         from == [i \in 0 .. n - 1 |-> stores[o.st].cells[strided_index(i, o.shape, o.strides, o.off)]]
     IN  WriteInPlace(s, Looped(n, stores[h.st].cells, at, from), o.want, o.suspect)

(* ---------------------- out-of-place elementwise ----------------------- *)

(* map_binary, into storage of its own.                                     *)
MapBinary(a, b) ==
  /\ a \in Live /\ b \in Live /\ Creates
  /\ Broadcastable(handles[a].shape, handles[b].shape)
  /\ LET l == handles[a]
         r == handles[b]
         shape == broadcast_with(l.shape, r.shape)
         lhs == OperandOf(TensorOf(l), shape, Zipped(l, r))
         rhs == OperandOf(TensorOf(r), shape, Zipped(l, r))
     IN  PlaceAt(shape, [i \in 0 .. numel(shape) - 1 |-> Arith("sub_", lhs[i], rhs[i])],
               [i \in 0 .. numel(shape) - 1 |-> Arith("sub_", Broadcast(l, shape)[i], Broadcast(r, shape)[i])],
               l.suspect \cup r.suspect \cup Strided(l) \cup Strided(r))

(* map_unary: the fast path for a dense tensor, otherwise its own strides.  *)
MapUnary(a) ==
  /\ a \in Live /\ Creates
  /\ LET h == handles[a]
         read == IF Dense(h) THEN AsSlice(TensorOf(h)) ELSE Elements(TensorOf(h))
     IN  PlaceAt(h.shape, [i \in DOMAIN read |-> (3 * read[i]) % P],
               [i \in DOMAIN h.want |-> (3 * h.want[i]) % P], h.suspect)

TensorNext ==
  \/ FromVec
  \/ \E s \in Slot :
       \/ Drop(s) \/ UnaryInplace(s) \/ ViewAs(s) \/ Transpose(s) \/ Permute(s) \/ Unsqueeze(s)
       \/ Squeeze(s) \/ Narrow(s) \/ Slice(s) \/ Contiguous(s) \/ MapUnary(s)
  \/ \E s, r \in Slot : BinaryInplace(s, r) \/ CopyInplace(s, r) \/ MapBinary(s, r)

TensorSpec == TensorInit /\ [][TensorNext]_tensorVars

Reads(s) == Elements(TensorOf(handles[s])) = handles[s].want

(* A tensor reads the elements that the calls which made it say it has,     *)
(* through any chain of views, copies, in-place and out-of-place            *)
(* operations; in-place writes are seen by no other tensor.  Binary         *)
(* operations on operands that are not contiguous, and views of tensors     *)
(* that do not start their storage, are left out: see BinaryReadsStrides.   *)
TensorsReadTheirElements == \A s \in Live : handles[s].suspect = {} => Reads(s)

(* The same with the results of every binary operation included:            *)
(* BinaryOpPlan says it has the operand's "Strides for `lhs` aligned to     *)
(* `out_shape`".                                                            *)
BinaryReadsStrides == \A s \in Live : "offset" \notin handles[s].suspect => Reads(s)
=============================================================================
