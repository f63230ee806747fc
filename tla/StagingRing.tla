---------------------------- MODULE StagingRing ----------------------------
(***************************************************************************)
(* The ring of staging buffers for uploads (rustorch-wgpu/src/staging.rs). *)
(* upload() writes the payload into a slot at once and records a copy into *)
(* the caller's encoder; the copy reads the slot when the GPU executes the *)
(* submitted encoder.  poll(Wait) waits for what was submitted, and cannot *)
(* wait for copies that are only recorded.                                 *)
(*                                                                         *)
(* Payloads are numbered by their upload and land in a destination of      *)
(* their own.  The queue and the GPU (external) execute copies in order.   *)
(***************************************************************************)
EXTENDS Integers, Sequences, SequencesExt

CONSTANTS
  NumSlots,   \* StagingRing.num_slots
  MaxUploads  \* uploads made

ASSUME RingAssumption == NumSlots \in Nat \ {0} /\ MaxUploads \in Nat

VARIABLES
  rgSlots,    \* what each allocated slot holds
  rgTagged,   \* whether its last_submission is set
  rgNext,     \* the round-robin cursor
  rgSpilled,  \* spilled
  rgUploads,  \* uploads so far
  rgEncoder,  \* copies recorded and not submitted: [slot, payload]
  rgQueue,    \* copies submitted and not executed
  rgLanded,   \* what each destination received, 0 for nothing yet
  rgOverrun   \* ghost: payloads whose slot was taken again before a submit

ringVars == <<rgSlots, rgTagged, rgNext, rgSpilled, rgUploads, rgEncoder, rgQueue, rgLanded, rgOverrun>>

SpillSlot == 0

RingInit ==
  /\ rgSlots = <<>> /\ rgTagged = <<>> /\ rgNext = 1
  /\ rgSpilled = 0 /\ rgUploads = 0
  /\ rgEncoder = <<>> /\ rgQueue = <<>>
  /\ rgLanded = [p \in 1 .. MaxUploads |-> 0]
  /\ rgOverrun = {}

(* A copy reads its staging buffer when it is executed; a spilled payload   *)
(* has a buffer of its own.                                                 *)
Read(copy) == IF copy.slot = SpillSlot THEN copy.payload ELSE rgSlots[copy.slot]

(* Each destination is the target of one copy.                              *)
Executed(copies, landed) ==
  [p \in DOMAIN landed |->
     LET mine == {c \in ToSet(copies) : c.payload = p}
     IN  IF mine = {} THEN landed[p] ELSE Read(CHOOSE c \in mine : TRUE)]

(* ensure_slot: a new slot until there are NumSlots, then round robin.      *)
SlotIndex == IF Len(rgSlots) < NumSlots THEN Len(rgSlots) + 1 ELSE rgNext
NextSlot == (SlotIndex % NumSlots) + 1

(* Mutant: the slot is mapped without waiting for the device.               *)
MutPolled == <<>>

(* The copies that upload() waits for before it maps the slot: map_async is *)
(* followed by a blocking poll, tagged or not.                              *)
Polled == rgQueue

Upload ==
  /\ rgUploads < MaxUploads
  /\ LET p == rgUploads + 1
         i == SlotIndex
     IN /\ rgUploads' = p
        /\ rgLanded' = Executed(Polled, rgLanded)
        /\ rgQueue' = SubSeq(rgQueue, Len(Polled) + 1, Len(rgQueue))
        /\ rgSlots' = IF i > Len(rgSlots) THEN Append(rgSlots, p) ELSE [rgSlots EXCEPT ![i] = p]
        /\ rgTagged' = IF i > Len(rgSlots) THEN Append(rgTagged, FALSE) ELSE rgTagged
        /\ rgNext' = NextSlot
        /\ rgEncoder' = Append(rgEncoder, [slot |-> i, payload |-> p])
        /\ rgOverrun' = rgOverrun \cup {c.payload : c \in {d \in ToSet(rgEncoder) : d.slot = i}}
  /\ UNCHANGED rgSpilled

(* A payload larger than a slot goes through a one-shot buffer.             *)
Spill ==
  /\ rgUploads < MaxUploads
  /\ rgUploads' = rgUploads + 1
  /\ rgSpilled' = rgSpilled + 1
  /\ rgEncoder' = Append(rgEncoder, [slot |-> SpillSlot, payload |-> rgUploads + 1])
  /\ UNCHANGED <<rgSlots, rgTagged, rgNext, rgQueue, rgLanded, rgOverrun>>

(* The caller submits its encoder and calls record_submission, which tags   *)
(* the slots that have no tag.                                              *)
Submit ==
  /\ rgEncoder # <<>>
  /\ rgQueue' = rgQueue \o rgEncoder
  /\ rgEncoder' = <<>>
  /\ rgTagged' = [i \in DOMAIN rgTagged |-> TRUE]
  /\ UNCHANGED <<rgSlots, rgNext, rgSpilled, rgUploads, rgLanded, rgOverrun>>

GpuCopies ==
  /\ rgQueue # <<>>
  /\ rgLanded' = Executed(<<Head(rgQueue)>>, rgLanded)
  /\ rgQueue' = Tail(rgQueue)
  /\ UNCHANGED <<rgSlots, rgTagged, rgNext, rgSpilled, rgUploads, rgEncoder, rgOverrun>>

RingNext == Upload \/ Spill \/ Submit \/ GpuCopies

RingSpec == RingInit /\ [][RingNext]_ringVars

-----------------------------------------------------------------------------
(* An upload arrives as it was sent, whatever uploads, submissions and GPU  *)
(* progress come between, unless its slot was taken again while its copy    *)
(* was still unsubmitted (StagingRing::upload).                             *)
UploadArrivesIntact ==
  \A p \in 1 .. MaxUploads : rgLanded[p] \in {0, p} \/ p \in rgOverrun
=============================================================================
