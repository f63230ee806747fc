------------------------------ MODULE Layouts ------------------------------
(***************************************************************************)
(* Shapes, strides and views of the tensor core (rustorch-core, shape.rs,  *)
(* layout.rs, view.rs and the element iterator of convert.rs).             *)
(* A tensor here is a record: shape, strides and off say which storage     *)
(* elements it addresses, cells is the storage, indexed from 0.  Axes are  *)
(* numbered from 1, as sequences are.                                      *)
(***************************************************************************)
EXTENDS Integers, Sequences, SequencesExt

(* The product of the sizes of axes lo .. hi.                               *)
Product(shape, lo, hi) ==
  LET upto[i \in lo - 1 .. hi] == IF i < lo THEN 1 ELSE shape[i] * upto[i - 1] IN upto[hi]
numel(shape) == Product(shape, 1, Len(shape))

(* The elements that one step along `axis` skips in row-major order.        *)
Inner(shape, axis) == Product(shape, axis + 1, Len(shape))
Outer(shape, axis) == Product(shape, 1, axis - 1)
compute_contiguous_strides(shape) == [axis \in DOMAIN shape |-> Inner(shape, axis)]

(* The contiguous flag: axes of size 1 are not looked at, an empty tensor   *)
(* is contiguous whatever its strides.                                      *)
is_contiguous(t) ==
  \/ \E axis \in DOMAIN t.shape : t.shape[axis] = 0
  \/ \A axis \in DOMAIN t.shape : t.shape[axis] # 1 => t.strides[axis] = Inner(t.shape, axis)

Dense(t) == is_contiguous(t) /\ t.off = 0

(* The coordinate of element `linear` along an axis.                        *)
Coordinate(linear, shape, axis) == (linear \div Inner(shape, axis)) % shape[axis]
decode_coords(linear, shape) == [axis \in DOMAIN shape |-> Coordinate(linear, shape, axis)]

Dot(coords, strides) ==
  LET upto[i \in 0 .. Len(coords)] == IF i = 0 THEN 0 ELSE (coords[i] * strides[i]) + upto[i - 1]
  IN  upto[Len(coords)]

(* strided_index and linear_to_offset: the storage element of `linear`.     *)
strided_index(linear, shape, strides, off) == off + Dot(decode_coords(linear, shape), strides)

CoordsOf(shape) == {decode_coords(i, shape) : i \in 0 .. numel(shape) - 1}

(* A tensor of these elements in row-major order, in storage of its own.    *)
FromCells(shape, cells) ==
  [shape |-> shape, strides |-> compute_contiguous_strides(shape), off |-> 0, cells |-> cells]

(* iter_elements: the elements in row-major order, whatever the layout.     *)
Elements(t) ==
  [i \in 0 .. numel(t.shape) - 1 |-> t.cells[strided_index(i, t.shape, t.strides, t.off)]]

(* The element at a coordinate.                                             *)
At(t, coords) == t.cells[t.off + Dot(coords, t.strides)]

(* as_slice: the first elements of the storage, for dense tensors only.     *)
AsSlice(t) == [i \in 0 .. numel(t.shape) - 1 |-> t.cells[i]]

(* A dense tensor is returned as it is, with its storage.                   *)
contiguous(t) == IF Dense(t) THEN t ELSE FromCells(t.shape, Elements(t))

(* ------------------------------ broadcasting --------------------------- *)

DimFromRight(shape, i) == IF i <= Len(shape) THEN shape[Len(shape) + 1 - i] ELSE 1
Longest(a, b) == IF Len(a) > Len(b) THEN Len(a) ELSE Len(b)

Broadcastable(a, b) ==
  \A i \in 1 .. Longest(a, b) :
    LET l == DimFromRight(a, i)
        r == DimFromRight(b, i)
    IN  l = r \/ l = 1 \/ r = 1

broadcast_with(a, b) ==
  LET n == Longest(a, b)
      dim(i) == LET l == DimFromRight(a, i)
                    r == DimFromRight(b, i)
                IN  IF l = r THEN l ELSE IF l = 1 THEN r ELSE l
  IN  [axis \in 1 .. n |-> dim(n + 1 - axis)]

ExpandsTo(shape, target) ==
  /\ Len(shape) <= Len(target)
  /\ \A i \in DOMAIN shape :
       shape[i] = target[Len(target) - Len(shape) + i] \/ shape[i] = 1

(* The strides are those of a contiguous tensor of this shape: the          *)
(* receiver is a Shape and knows nothing of the tensor's own strides.       *)
expand_strides_to(shape, target) ==
  LET lead == Len(target) - Len(shape)
  IN  [axis \in DOMAIN target |->
         IF axis > lead /\ shape[axis - lead] = target[axis] THEN Inner(shape, axis - lead) ELSE 0]

(* What a binary operation reads of its operands, in the order of the       *)
(* result: two dense tensors of one shape are zipped, other operands are    *)
(* walked by BinaryOpPlan, which keeps their offsets and takes strides from *)
(* their shapes.                                                            *)
Zipped(l, r) == l.shape = r.shape /\ Dense(l) /\ Dense(r)
Planned(t, shape) == Elements([t EXCEPT !.shape = shape, !.strides = expand_strides_to(t.shape, shape)])
OperandOf(t, shape, zipped) == IF zipped THEN AsSlice(t) ELSE Planned(t, shape)

(* -------------------------------- views -------------------------------- *)

Swapped(s, a, b) == [i \in DOMAIN s |-> s[IF i = a THEN b ELSE IF i = b THEN a ELSE i]]

(* The contiguous layout it is given starts at storage element 0.           *)
view(t, shape) ==
  [t EXCEPT !.shape = shape, !.strides = compute_contiguous_strides(shape), !.off = 0]

transpose(t, a, b) ==
  [t EXCEPT !.shape = Swapped(t.shape, a, b), !.strides = Swapped(t.strides, a, b)]

permute(t, perm) ==
  [t EXCEPT !.shape = [i \in DOMAIN perm |-> t.shape[perm[i]]],
            !.strides = [i \in DOMAIN perm |-> t.strides[perm[i]]]]

unsqueeze(t, axis) ==
  [t EXCEPT !.shape = InsertAt(t.shape, axis, 1),
            !.strides = InsertAt(t.strides, axis, IF axis <= Len(t.shape) THEN t.strides[axis] ELSE 1)]

squeeze(t, axis) ==
  [t EXCEPT !.shape = RemoveAt(t.shape, axis), !.strides = RemoveAt(t.strides, axis)]

narrow(t, axis, start, length) ==
  [t EXCEPT !.shape[axis] = length, !.off = t.off + (start * t.strides[axis])]

slice(t, axis, start, end, step) ==
  [t EXCEPT !.shape[axis] = IF start = end THEN 0 ELSE ((end - start - 1) \div step) + 1,
            !.strides[axis] = step * t.strides[axis],
            !.off = t.off + (start * t.strides[axis])]
=============================================================================
