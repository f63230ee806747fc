--------------------------- MODULE PredictService ---------------------------
(***************************************************************************)
(* What POST /predict promises, without batches, tasks and locks: calls    *)
(* are taken in or refused, stand in one bounded line, and are served from *)
(* its front, at most MaxBatch at a time, each with its own output or with *)
(* null.  Nobody who was taken in is refused later, overtaken or           *)
(* forgotten.                                                              *)
(***************************************************************************)
EXTENDS Integers, Sequences

CONSTANTS
  Call,      \* the calls
  Capacity,  \* calls that can be in the line
  MaxBatch   \* calls served at a time

VARIABLES
  line,     \* the calls taken in and not yet served
  outcome   \* outcome[c]: what has become of call c

vars == <<line, outcome>>

Init == line = <<>> /\ outcome = [c \in Call |-> "open"]

TakeIn(c) ==
  /\ outcome[c] = "open"
  /\ Len(line) < Capacity
  /\ line' = Append(line, c)
  /\ outcome' = [outcome EXCEPT ![c] = "accepted"]

Refuse(c) ==
  /\ outcome[c] = "open"
  /\ outcome' = [outcome EXCEPT ![c] = "refused"]
  /\ UNCHANGED line

(* The client leaves; its place in the line is kept.                        *)
Leave(c) ==
  /\ outcome[c] = "accepted"
  /\ outcome' = [outcome EXCEPT ![c] = "left"]
  /\ UNCHANGED line

(* The first n calls are served; whoever has left gets nothing.             *)
Serve(n) ==
  /\ line' = SubSeq(line, n + 1, Len(line))
  /\ \A c \in Call :
       IF outcome[c] = "accepted" /\ \E i \in 1 .. n : line[i] = c
       THEN outcome'[c] \in {"own", "null"}
       ELSE outcome'[c] = outcome[c]
  /\ outcome' \in [Call -> {"open", "accepted", "refused", "left", "own", "null"}]

ServeSome == \E n \in 1 .. MaxBatch : n <= Len(line) /\ Serve(n)

Next == (\E c \in Call : TakeIn(c) \/ Refuse(c) \/ Leave(c)) \/ ServeSome

Spec == Init /\ [][Next]_vars
=============================================================================
