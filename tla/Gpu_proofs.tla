----------------------------- MODULE Gpu_proofs -----------------------------
(*****************************************************************************)
(* For every number of slots and of uploads: an upload through the staging   *)
(* ring arrives as it was sent, unless its slot was taken again before its   *)
(* copy was submitted.  For every set of threads, bucket sizes and policies: *)
(* every buffer of the pool has a place, and the bytes pooled stay within    *)
(* the policy.  For every set of streams and sizes: the CUDA allocator keeps *)
(* the streams' pools apart, forgets no deferred block and loses no memory.  *)
(* For every number of simdgroups, lanes, experts and choices, and for all   *)
(* logits: both routers choose the most probable experts, in order, the      *)
(* first in case of a tie.                                                   *)
(*****************************************************************************)
EXTENDS StagingRing, BufferPool, CachingAllocator, TopK, SequenceTheorems, FiniteSums_proofs

-----------------------------------------------------------------------------
(* The staging ring.                                                       *)

Copy == [slot : Nat, payload : 1 .. MaxUploads]

RingTypes ==
  /\ rgSlots \in Seq(Nat) /\ Len(rgSlots) <= NumSlots
  /\ rgNext \in 1 .. NumSlots
  /\ rgUploads \in Nat
  /\ rgEncoder \in Seq(Copy) /\ rgQueue \in Seq(Copy)
  /\ rgLanded \in [1 .. MaxUploads -> Nat]

(* A copy will read its own payload, or its slot was taken again.           *)
CopySound(c) ==
  \/ c.slot = SpillSlot
  \/ /\ c.slot \in DOMAIN rgSlots
     /\ rgSlots[c.slot] = c.payload \/ c.payload \in rgOverrun

(* That holds from the upload to the execution, recorded or submitted.      *)
CopiesSound ==
  /\ \A i \in DOMAIN rgEncoder : CopySound(rgEncoder[i])
  /\ \A i \in DOMAIN rgQueue : CopySound(rgQueue[i])

RingInv == RingTypes /\ CopiesSound /\ UploadArrivesIntact

-----------------------------------------------------------------------------
LEMMA SlotInRange ==
  ASSUME RingTypes
  PROVE  /\ SlotIndex \in 1 .. NumSlots /\ NextSlot \in 1 .. NumSlots
         /\ SlotIndex <= Len(rgSlots) \/ SlotIndex = Len(rgSlots) + 1
  <1>1. Len(rgSlots) \in Nat
    BY LenProperties DEF RingTypes
  <1>2. SlotIndex \in 1 .. NumSlots
    BY <1>1, RingAssumption DEF RingTypes, SlotIndex
  <1>3. SlotIndex % NumSlots \in 0 .. NumSlots - 1
    BY <1>2, RingAssumption
  <1>4. NextSlot \in 1 .. NumSlots
    BY <1>3, RingAssumption DEF NextSlot
  <1>5. SlotIndex <= Len(rgSlots) \/ SlotIndex = Len(rgSlots) + 1
    BY <1>1, RingAssumption DEF RingTypes, SlotIndex
  <1> QED
    BY <1>2, <1>4, <1>5

(* Executing sound copies keeps what has landed intact.                     *)
LEMMA ExecutedIntact ==
  ASSUME RingTypes, UploadArrivesIntact, NEW copies \in Seq(Copy),
         \A i \in DOMAIN copies : CopySound(copies[i])
  PROVE  /\ Executed(copies, rgLanded) \in [1 .. MaxUploads -> Nat]
         /\ \A p \in 1 .. MaxUploads : Executed(copies, rgLanded)[p] \in {0, p} \/ p \in rgOverrun
  <1> DEFINE mine(p) == {c \in ToSet(copies) : c.payload = p}
  <1>1. DOMAIN rgLanded = 1 .. MaxUploads
    BY DEF RingTypes
  <1>2. ASSUME NEW p \in 1 .. MaxUploads
        PROVE  /\ Executed(copies, rgLanded)[p] \in Nat
               /\ Executed(copies, rgLanded)[p] \in {0, p} \/ p \in rgOverrun
    <2>1. Executed(copies, rgLanded)[p] =
            IF mine(p) = {} THEN rgLanded[p] ELSE Read(CHOOSE c \in mine(p) : TRUE)
      BY <1>1 DEF Executed
    <2>2. CASE mine(p) = {}
      BY <2>1, <2>2 DEF RingTypes, UploadArrivesIntact
    <2>3. CASE mine(p) # {}
      <3>1. PICK c : c \in mine(p) /\ Executed(copies, rgLanded)[p] = Read(c)
        BY <2>1, <2>3
      <3>2. c \in ToSet(copies) /\ c.payload = p
        BY <3>1
      <3>3. CopySound(c) /\ c \in Copy
        BY <3>2, ElementOfSeq, LenProperties DEF ToSet
      <3>4. CASE c.slot = SpillSlot
        BY <3>1, <3>2, <3>4 DEF Read
      <3>5. CASE c.slot # SpillSlot
        BY <3>1, <3>2, <3>3, <3>5 DEF Read, CopySound, RingTypes
      <3> QED
        BY <3>4, <3>5
    <2> QED
      BY <2>2, <2>3
  <1>3. Executed(copies, rgLanded) = [p \in 1 .. MaxUploads |-> Executed(copies, rgLanded)[p]]
    BY <1>1 DEF Executed
  <1> QED
    BY <1>2, <1>3

-----------------------------------------------------------------------------
LEMMA RingInvInit == RingInit => RingInv
  BY RingAssumption DEF RingInit, RingInv, RingTypes, CopiesSound, UploadArrivesIntact

(* An upload waits for every submitted copy before it writes its slot; the  *)
(* recorded ones that read the slot are overrun.                            *)
LEMMA UploadKeeps == RingInv /\ Upload => RingInv'
  <1> SUFFICES ASSUME RingInv, Upload PROVE RingInv'
    OBVIOUS
  <1>0. RingTypes /\ CopiesSound /\ UploadArrivesIntact
    BY DEF RingInv
  <1> DEFINE p == rgUploads + 1
             i == SlotIndex
             copy == [slot |-> i, payload |-> p]
  <1>1. /\ i \in 1 .. NumSlots /\ NextSlot \in 1 .. NumSlots
        /\ i <= Len(rgSlots) \/ i = Len(rgSlots) + 1
    BY <1>0, SlotInRange
  <1>2. /\ rgUploads' = p /\ p \in 1 .. MaxUploads
        /\ rgLanded' = Executed(rgQueue, rgLanded)
        /\ rgQueue' = SubSeq(rgQueue, Len(rgQueue) + 1, Len(rgQueue))
        /\ rgSlots' = IF i > Len(rgSlots) THEN Append(rgSlots, p) ELSE [rgSlots EXCEPT ![i] = p]
        /\ rgNext' = NextSlot
        /\ rgEncoder' = Append(rgEncoder, copy)
        /\ rgOverrun' = rgOverrun \cup {c.payload : c \in {d \in ToSet(rgEncoder) : d.slot = i}}
    BY <1>0, RingAssumption DEF Upload, Polled, RingTypes
  <1>3. rgQueue' = <<>>
    BY <1>0, <1>2 DEF RingTypes
  <1>4. /\ rgSlots' \in Seq(Nat) /\ Len(rgSlots') <= NumSlots
        /\ i \in DOMAIN rgSlots' /\ rgSlots'[i] = p
        /\ \A j \in DOMAIN rgSlots : j \in DOMAIN rgSlots' /\ (j # i => rgSlots'[j] = rgSlots[j])
    <2>0. /\ rgSlots \in Seq(Nat) /\ Len(rgSlots) \in Nat /\ DOMAIN rgSlots = 1 .. Len(rgSlots)
          /\ Len(rgSlots) <= NumSlots
      BY <1>0, LenProperties DEF RingTypes
    <2>1. CASE i <= Len(rgSlots)
      BY <1>1, <1>2, <2>0, <2>1, ExceptSeq
    <2>2. CASE i = Len(rgSlots) + 1
      <3>1. rgSlots' = Append(rgSlots, p)
        BY <1>1, <1>2, <2>0, <2>2
      <3> QED
        <4>1. p \in Nat
          BY <1>2, RingAssumption
        <4>2. /\ rgSlots' \in Seq(Nat) /\ Len(rgSlots') = Len(rgSlots) + 1
              /\ rgSlots'[i] = p /\ DOMAIN rgSlots' = 1 .. Len(rgSlots) + 1
              /\ \A j \in 1 .. Len(rgSlots) : rgSlots'[j] = rgSlots[j]
          BY <2>0, <2>2, <3>1, <4>1, AppendProperties
        <4> QED
          BY <1>1, <2>0, <2>2, <4>2
    <2> QED
      BY <1>1, <2>1, <2>2
  <1>5. copy \in Copy
    BY <1>1, <1>2, RingAssumption DEF Copy
  <1>6. /\ rgEncoder' \in Seq(Copy) /\ DOMAIN rgEncoder' = 1 .. Len(rgEncoder) + 1
        /\ \A k \in 1 .. Len(rgEncoder) : rgEncoder'[k] = rgEncoder[k] /\ k \in DOMAIN rgEncoder
        /\ rgEncoder'[Len(rgEncoder) + 1] = copy /\ Len(rgEncoder) \in Nat
    BY <1>0, <1>2, <1>5, AppendProperties, LenProperties DEF RingTypes
  <1>7. rgLanded' \in [1 .. MaxUploads -> Nat] /\ UploadArrivesIntact'
    <2>1. /\ rgLanded' \in [1 .. MaxUploads -> Nat]
          /\ \A q \in 1 .. MaxUploads : rgLanded'[q] \in {0, q} \/ q \in rgOverrun
      BY <1>0, <1>2, ExecutedIntact DEF CopiesSound, RingTypes
    <2> QED
      BY <1>2, <2>1 DEF UploadArrivesIntact
  <1>8. ASSUME NEW k \in DOMAIN rgEncoder' PROVE CopySound(rgEncoder[k])'
    <2>1. CASE k = Len(rgEncoder) + 1
      BY <1>4, <1>6, <2>1 DEF CopySound
    <2>2. CASE k # Len(rgEncoder) + 1
      <3>1. k \in DOMAIN rgEncoder /\ rgEncoder'[k] = rgEncoder[k]
        BY <1>6, <1>8, <2>2
      <3>2. CopySound(rgEncoder[k])
        BY <1>0, <3>1 DEF CopiesSound
      <3>3. rgEncoder[k].slot = i => rgEncoder[k].payload \in rgOverrun'
        BY <1>2, <3>1 DEF ToSet
      <3> QED
        BY <1>2, <1>4, <3>1, <3>2, <3>3 DEF CopySound
    <2> QED
      BY <2>1, <2>2
  <1>9. CopiesSound'
    BY <1>3, <1>8 DEF CopiesSound
  <1> QED
    BY <1>0, <1>1, <1>2, <1>3, <1>4, <1>6, <1>7, <1>9 DEF RingInv, RingTypes

LEMMA RingInvStep == RingInv /\ [RingNext]_ringVars => RingInv'
  <1> SUFFICES ASSUME RingInv, [RingNext]_ringVars PROVE RingInv'
    OBVIOUS
  <1>0. RingTypes /\ CopiesSound /\ UploadArrivesIntact
    BY DEF RingInv
  <1>1. CASE Upload
    BY <1>1, UploadKeeps
  <1>2. CASE Spill
    <2> DEFINE copy == [slot |-> SpillSlot, payload |-> rgUploads + 1]
    <2>1. copy \in Copy /\ copy.slot = SpillSlot
      BY <1>0, <1>2, RingAssumption DEF Copy, SpillSlot, Spill, RingTypes
    <2>2. /\ rgEncoder' \in Seq(Copy) /\ DOMAIN rgEncoder' = 1 .. Len(rgEncoder) + 1
          /\ \A k \in 1 .. Len(rgEncoder) : rgEncoder'[k] = rgEncoder[k] /\ k \in DOMAIN rgEncoder
          /\ rgEncoder'[Len(rgEncoder) + 1] = copy /\ Len(rgEncoder) \in Nat
      BY <1>0, <1>2, <2>1, AppendProperties, LenProperties DEF RingTypes, Spill
    <2>3. /\ UNCHANGED <<rgSlots, rgNext, rgQueue, rgLanded, rgOverrun>>
          /\ rgUploads' = rgUploads + 1
      BY <1>2 DEF Spill
    <2>4. ASSUME NEW k \in DOMAIN rgEncoder' PROVE CopySound(rgEncoder[k])'
      <3>1. CASE k = Len(rgEncoder) + 1
        BY <2>1, <2>2, <3>1 DEF CopySound
      <3>2. CASE k # Len(rgEncoder) + 1
        <4>1. k \in DOMAIN rgEncoder /\ rgEncoder'[k] = rgEncoder[k]
          BY <2>2, <2>4, <3>2
        <4> QED
          BY <1>0, <2>3, <4>1 DEF CopiesSound, CopySound
      <3> QED
        BY <3>1, <3>2
    <2>5. \A k \in DOMAIN rgQueue' : CopySound(rgQueue[k])'
      BY <1>0, <2>3 DEF CopiesSound, CopySound
    <2> QED
      BY <1>0, <2>2, <2>3, <2>4, <2>5 DEF RingInv, RingTypes, CopiesSound, UploadArrivesIntact
  <1>3. CASE Submit
    <2>1. /\ rgQueue' = rgQueue \o rgEncoder /\ rgEncoder' = <<>>
          /\ UNCHANGED <<rgSlots, rgNext, rgUploads, rgLanded, rgOverrun>>
      BY <1>3 DEF Submit
    <2>2. rgQueue' \in Seq(Copy)
      BY <1>0, <2>1, ConcatProperties DEF RingTypes
    <2>3. ASSUME NEW k \in DOMAIN rgQueue'
          PROVE  \/ k \in DOMAIN rgQueue /\ rgQueue'[k] = rgQueue[k]
                 \/ k - Len(rgQueue) \in DOMAIN rgEncoder /\ rgQueue'[k] = rgEncoder[k - Len(rgQueue)]
      BY <1>0, <2>1, <2>3, ConcatProperties, LenProperties DEF RingTypes
    <2>4. \A k \in DOMAIN rgQueue' : CopySound(rgQueue'[k])
      BY <1>0, <2>3 DEF CopiesSound
    <2>5. CopiesSound'
      BY <2>1, <2>4 DEF CopiesSound, CopySound
    <2> QED
      BY <1>0, <2>1, <2>2, <2>5 DEF RingInv, RingTypes, UploadArrivesIntact
  <1>4. CASE GpuCopies
    <2>1. /\ rgQueue # <<>> /\ rgLanded' = Executed(<<Head(rgQueue)>>, rgLanded) /\ rgQueue' = Tail(rgQueue)
          /\ UNCHANGED <<rgSlots, rgNext, rgUploads, rgEncoder, rgOverrun>>
      BY <1>4 DEF GpuCopies
    <2>2. /\ Head(rgQueue) = rgQueue[1] /\ 1 \in DOMAIN rgQueue /\ rgQueue[1] \in Copy
          /\ rgQueue' \in Seq(Copy)
          /\ \A k \in DOMAIN rgQueue' : k + 1 \in DOMAIN rgQueue /\ rgQueue'[k] = rgQueue[k + 1]
      BY <1>0, <2>1, HeadTailProperties, EmptySeq, LenProperties, ElementOfSeq DEF RingTypes
    <2>3. <<Head(rgQueue)>> \in Seq(Copy) /\ \A k \in DOMAIN <<Head(rgQueue)>> : CopySound(<<Head(rgQueue)>>[k])
      BY <1>0, <2>2 DEF CopiesSound
    <2>4. /\ rgLanded' \in [1 .. MaxUploads -> Nat]
          /\ \A q \in 1 .. MaxUploads : rgLanded'[q] \in {0, q} \/ q \in rgOverrun
      BY <1>0, <2>1, <2>3, ExecutedIntact
    <2>5. \A k \in DOMAIN rgQueue' : CopySound(rgQueue'[k])
      BY <1>0, <2>2 DEF CopiesSound
    <2>6. CopiesSound'
      BY <1>0, <2>1, <2>5 DEF CopiesSound, CopySound
    <2> QED
      BY <1>0, <2>1, <2>2, <2>4, <2>6 DEF RingInv, RingTypes, UploadArrivesIntact
  <1>5. CASE UNCHANGED ringVars
    BY <1>0, <1>5 DEF ringVars, RingInv, RingTypes, CopiesSound, CopySound, UploadArrivesIntact
  <1> QED
    BY <1>1, <1>2, <1>3, <1>4, <1>5 DEF RingNext

-----------------------------------------------------------------------------
(* An upload arrives as it was sent, for every number of slots and whatever *)
(* uploads, spills, submissions and GPU progress come between, unless its   *)
(* slot was taken again while its copy was unsubmitted (staging.rs,         *)
(* StagingRing::upload).                                                    *)
THEOREM UploadsArriveIntact == RingSpec => []UploadArrivesIntact
  <1>1. RingInv => UploadArrivesIntact
    BY DEF RingInv
  <1> QED
    BY RingInvInit, RingInvStep, <1>1, PTL DEF RingSpec

-----------------------------------------------------------------------------
(* The pool.                                                               *)
Pc ==
  {PoolIdle, [at |-> "failed"]}
    \cup [at : {"pop", "create", "evict"}, bucket : Bucket, tries : {0, 1, 2}]
    \cup [at : {"push"}, bucket : Bucket, policy : Policy, bytes : Nat]

PoolTypes ==
  /\ plBins \in [Bucket -> Nat]
  /\ plPolicy \in Policy
  /\ plHeld \in [PoolThread -> [Bucket -> Nat]]
  /\ plPc \in [PoolThread -> Pc]

Loads == SumFunction([t \in PoolThread |-> Load(t)])

(* What thread t is going to add to the pool, going by what it read.       *)
Promised(t) ==
  IF plPc[t].at = "push" /\ plPc[t].bytes + plPc[t].bucket <= plPc[t].policy.max_bytes
  THEN plPc[t].bucket ELSE 0

Promises == SumFunction([t \in PoolThread |-> Promised(t)])

ByteCaps   == {p.max_bytes : p \in Policy}
BucketCaps == {p.max_per_bucket : p \in Policy}

(* The byte cap counts the buffers on their way: at most one thread has    *)
(* read a byte count that is still right, each other one brings a buffer.  *)
Room ==
  /\ plBytes + Promises <= Max(ByteCaps) + (Cardinality(PoolThread) - 1) * Max(Bucket)
  /\ \A b \in Bucket : plBins[b] <= Max(BucketCaps)

PoolInv == PoolTypes /\ EveryBufferHasAPlace /\ Room

LEMMA CapsBound ==
  /\ Max(Bucket) \in Nat /\ \A b \in Bucket : b \in Nat /\ b <= Max(Bucket)
  /\ Max(ByteCaps) \in Nat /\ Max(BucketCaps) \in Nat
  /\ \A p \in Policy : /\ p.max_bytes \in Nat /\ p.max_bytes <= Max(ByteCaps)
                       /\ p.max_per_bucket \in Nat /\ p.max_per_bucket <= Max(BucketCaps)
  <1>1. Max(Bucket) \in Bucket /\ \A b \in Bucket : b <= Max(Bucket)
    BY PoolAssumption, MaxOfFinite
  <1>2. \A p \in Policy : p.max_bytes \in Nat /\ p.max_per_bucket \in Nat
    BY PoolAssumption
  <1>3. IsFiniteSet(ByteCaps) /\ IsFiniteSet(BucketCaps)
    <2> DEFINE f == [p \in Policy |-> p.max_bytes]
               g == [p \in Policy |-> p.max_per_bucket]
    <2>1. f \in Surjection(Policy, ByteCaps) /\ g \in Surjection(Policy, BucketCaps)
      BY DEF Surjection, ByteCaps, BucketCaps
    <2> HIDE DEF f, g
    <2> QED
      BY <2>1, PoolAssumption, FS_Surjection
  <1>4. /\ ByteCaps # {} /\ ByteCaps \subseteq Nat /\ BucketCaps # {} /\ BucketCaps \subseteq Nat
        /\ \A p \in Policy : p.max_bytes \in ByteCaps /\ p.max_per_bucket \in BucketCaps
    BY <1>2, PoolAssumption DEF ByteCaps, BucketCaps
  <1>5. Max(ByteCaps) \in ByteCaps /\ \A k \in ByteCaps : k <= Max(ByteCaps)
    BY <1>3, <1>4, MaxOfFinite
  <1>6. Max(BucketCaps) \in BucketCaps /\ \A k \in BucketCaps : k <= Max(BucketCaps)
    BY <1>3, <1>4, MaxOfFinite
  <1> QED
    BY <1>1, <1>2, <1>4, <1>5, <1>6, PoolAssumption

(* The bytes of a set of bins, and what one buffer more or less changes.   *)
LEMMA BytesChange ==
  ASSUME NEW x \in [Bucket -> Nat], NEW y \in [Bucket -> Nat], NEW b \in Bucket,
         \A c \in Bucket \ {b} : x[c] = y[c]
  PROVE  /\ BytesOf(x) \in Int /\ BytesOf(y) \in Int
         /\ y[b] = x[b] + 1 => BytesOf(y) = BytesOf(x) + b
         /\ y[b] = x[b] - 1 => BytesOf(y) = BytesOf(x) - b
  <1>1. PICK e : e = [c \in Bucket |-> c * x[c]]
    OBVIOUS
  <1>2. PICK f : f = [c \in Bucket |-> c * y[c]]
    OBVIOUS
  <1>3. \A c \in Bucket : c \in Nat /\ x[c] \in Nat /\ y[c] \in Nat
    BY PoolAssumption
  <1>4. \A c \in Bucket : e[c] \in Int /\ f[c] \in Int
    BY <1>1, <1>2, <1>3
  <1>5. \A c \in Bucket \ {b} : e[c] = f[c]
    BY <1>1, <1>2
  <1>6. BytesOf(x) = SumFunctionOnSet(e, Bucket) /\ BytesOf(y) = SumFunctionOnSet(f, Bucket)
    BY <1>1, <1>2 DEF BytesOf, SumFunction
  <1>7. /\ BytesOf(x) \in Int /\ BytesOf(y) \in Int
        /\ BytesOf(y) - f[b] = BytesOf(x) - e[b]
    <2>1. \A c \in Bucket : e[c] \in Int /\ f[c] \in Int
      BY <1>4
    <2>2. IsFiniteSet(Bucket)
      BY PoolAssumption
    <2>3. /\ SumFunctionOnSet(e, Bucket) \in Int /\ SumFunctionOnSet(f, Bucket) \in Int
          /\ SumFunctionOnSet(f, Bucket) - f[b] = SumFunctionOnSet(e, Bucket) - e[b]
      BY <1>5, <2>1, <2>2, SumChange
    <2> QED
      BY <1>6, <2>3
  <1>8. e[b] = b * x[b] /\ f[b] = b * y[b] /\ e[b] \in Int /\ f[b] \in Int
    BY <1>1, <1>2, <1>4
  <1>9. y[b] = x[b] + 1 => f[b] = e[b] + b
    <2> HAVE y[b] = x[b] + 1
    <2>1. b * (x[b] + 1) = b * x[b] + b
      BY <1>3
    <2> QED
      BY <1>8, <2>1
  <1>10. y[b] = x[b] - 1 => f[b] = e[b] - b
    <2> HAVE y[b] = x[b] - 1
    <2>1. b * (x[b] - 1) = b * x[b] - b
      BY <1>3
    <2> QED
      BY <1>8, <2>1
  <1>11. b \in Nat
    BY <1>3
  <1> QED
    BY <1>7, <1>8, <1>9, <1>10, <1>11

LEMMA BytesType ==
  ASSUME NEW x \in [Bucket -> Nat]
  PROVE  BytesOf(x) \in Nat
  <1> DEFINE e == [c \in Bucket |-> c * x[c]]
  <1>1. \A c \in Bucket : e[c] \in Nat
    BY PoolAssumption
  <1> DEFINE vs == {e[c] : c \in Bucket}
  <1>2. e \in Surjection(Bucket, vs)
    BY DEF Surjection
  <1>3. vs \subseteq Nat /\ vs # {} /\ \A c \in Bucket : e[c] \in vs
    <2>1. \A c \in Bucket : e[c] \in vs
      OBVIOUS
    <2>2. Bucket # {}
      BY PoolAssumption
    <2> HIDE DEF e
    <2>3. vs \subseteq Nat
      BY <1>1
    <2> HIDE DEF vs
    <2> QED
      BY <2>1, <2>2, <2>3
  <1>4. BytesOf(x) = SumFunctionOnSet(e, Bucket)
    BY DEF BytesOf, SumFunction
  <1> HIDE DEF e, vs
  <1>5. IsFiniteSet(vs)
    BY <1>2, PoolAssumption, FS_Surjection
  <1>6. Max(vs) \in Nat /\ \A k \in vs : k <= Max(vs)
    BY <1>3, <1>5, MaxOfFinite
  <1>7. PICK m \in Nat : m = Max(vs)
    BY <1>6
  <1>8. \A c \in Bucket : e[c] \in 0 .. m
    BY <1>1, <1>3, <1>6, <1>7
  <1> QED
    BY <1>4, <1>8, PoolAssumption, SumBounded

LEMMA NoBytes == BytesOf(Empty) = 0
  <1> DEFINE e == [c \in Bucket |-> c * Empty[c]]
  <1>1. \A c \in Bucket : e[c] \in 0 .. 0
    BY PoolAssumption DEF Empty
  <1>2. BytesOf(Empty) = SumFunctionOnSet(e, Bucket)
    BY DEF BytesOf, SumFunction
  <1> HIDE DEF e
  <1>3. SumFunctionOnSet(e, Bucket) \in Nat /\ SumFunctionOnSet(e, Bucket) <= Cardinality(Bucket) * 0
    BY <1>1, PoolAssumption, SumBounded
  <1>4. Cardinality(Bucket) \in Nat
    BY PoolAssumption, FS_CardinalityType
  <1> QED
    BY <1>2, <1>3, <1>4

(* What a thread is doing decides the fields of its state.                 *)
LEMMA PcFields ==
  ASSUME PoolTypes, NEW t \in PoolThread
  PROVE  /\ plPc[t].at \in {"pop", "create", "evict"} =>
              plPc[t] \in [at : {"pop", "create", "evict"}, bucket : Bucket, tries : {0, 1, 2}]
         /\ plPc[t].at = "push" =>
              plPc[t] \in [at : {"push"}, bucket : Bucket, policy : Policy, bytes : Nat]
  BY DEF PoolTypes, Pc, PoolIdle

LEMMA LoadTypes ==
  ASSUME PoolTypes, NEW t \in PoolThread
  PROVE  Load(t) \in Nat /\ Promised(t) \in 0 .. Max(Bucket)
  <1>1. BytesOf(plHeld[t]) \in Nat
    BY BytesType DEF PoolTypes
  <1>2. CASE plPc[t].at = "push"
    <2>1. plPc[t].bucket \in Bucket
      BY <1>2, PcFields
    <2> QED
      BY <1>1, <2>1, CapsBound DEF Load, Promised
  <1>3. CASE plPc[t].at # "push"
    BY <1>1, <1>3, CapsBound DEF Load, Promised
  <1> QED
    BY <1>2, <1>3

LEMMA LoadTypesAt ==
  /\ PoolTypes => \A t \in PoolThread : Load(t) \in Nat /\ Promised(t) \in 0 .. Max(Bucket)
  /\ PoolTypes' => \A t \in PoolThread : Load(t)' \in Nat /\ Promised(t)' \in 0 .. Max(Bucket)
  <1>1. PoolTypes => \A t \in PoolThread : Load(t) \in Nat /\ Promised(t) \in 0 .. Max(Bucket)
    BY LoadTypes
  <1>2. (PoolTypes => \A t \in PoolThread : Load(t) \in Nat /\ Promised(t) \in 0 .. Max(Bucket))'
    BY <1>1, PTL
  <1> QED
    BY <1>1, <1>2

(* A step of one thread changes the sums by what it changes for itself.    *)
LEMMA ThreadStep ==
  ASSUME PoolTypes, PoolTypes', NEW t \in PoolThread,
         \A u \in PoolThread \ {t} : plHeld'[u] = plHeld[u] /\ plPc'[u] = plPc[u]
  PROVE  /\ Loads \in Int /\ Loads' \in Int /\ Load(t) \in Nat /\ Load(t)' \in Nat
         /\ Loads' - Load(t)' = Loads - Load(t)
         /\ Promises \in Nat /\ Promises' \in Nat /\ Promised(t) \in Nat /\ Promised(t)' \in Nat
         /\ Promises' - Promised(t)' = Promises - Promised(t)
         /\ Promises' - Promised(t)' <= (Cardinality(PoolThread) - 1) * Max(Bucket)
  <1>1. PICK e : e = [u \in PoolThread |-> Load(u)]
    OBVIOUS
  <1>2. PICK f : f = [u \in PoolThread |-> Load(u)']
    OBVIOUS
  <1>3. PICK g : g = [u \in PoolThread |-> Promised(u)]
    OBVIOUS
  <1>4. PICK h : h = [u \in PoolThread |-> Promised(u)']
    OBVIOUS
  <1>5. PICK m \in Nat : m = Max(Bucket)
    BY CapsBound
  <1>6. \A u \in PoolThread : /\ e[u] = Load(u) /\ f[u] = Load(u)' /\ e[u] \in Nat /\ f[u] \in Nat
                              /\ g[u] = Promised(u) /\ g[u] \in 0 .. m
                              /\ h[u] = Promised(u)' /\ h[u] \in 0 .. m
    BY <1>1, <1>2, <1>3, <1>4, <1>5, LoadTypesAt
  <1>7. \A u \in PoolThread \ {t} : e[u] = f[u] /\ g[u] = h[u]
    BY <1>6 DEF Load, Promised
  <1>8. /\ Loads = SumFunctionOnSet(e, PoolThread) /\ Loads' = SumFunctionOnSet(f, PoolThread)
        /\ Promises = SumFunctionOnSet(g, PoolThread) /\ Promises' = SumFunctionOnSet(h, PoolThread)
    BY <1>1, <1>2, <1>3, <1>4 DEF Loads, Promises, SumFunction
  <1>9. IsFiniteSet(PoolThread)
    BY PoolAssumption
  <1>10. /\ SumFunctionOnSet(e, PoolThread) \in Int /\ SumFunctionOnSet(f, PoolThread) \in Int
         /\ SumFunctionOnSet(f, PoolThread) - f[t] = SumFunctionOnSet(e, PoolThread) - e[t]
    <2>1. \A u \in PoolThread : e[u] \in Int /\ f[u] \in Int
      BY <1>6
    <2> QED
      BY <1>7, <1>9, <2>1, SumChange
  <1>11. /\ SumFunctionOnSet(g, PoolThread) \in Int /\ SumFunctionOnSet(h, PoolThread) \in Int
         /\ SumFunctionOnSet(h, PoolThread) - h[t] = SumFunctionOnSet(g, PoolThread) - g[t]
    <2>1. \A u \in PoolThread : g[u] \in Int /\ h[u] \in Int
      BY <1>6
    <2> QED
      BY <1>7, <1>9, <2>1, SumChange
  <1>12. SumFunctionOnSet(g, PoolThread) \in Nat /\ SumFunctionOnSet(h, PoolThread) \in Nat
    <2>1. \A u \in PoolThread : g[u] \in 0 .. m /\ h[u] \in 0 .. m
      BY <1>6
    <2> QED
      BY <1>9, <2>1, SumBounded
  <1>13. SumFunctionOnSet(h, PoolThread) - h[t] <= (Cardinality(PoolThread) - 1) * m
    <2>1. \A u \in PoolThread : h[u] \in Int /\ h[u] \in 0 .. m
      BY <1>6
    <2>2. SumFunctionOnSet(h, PoolThread) = h[t] + SumFunctionOnSet(h, PoolThread \ {t})
      BY <1>9, <2>1, SumRemove
    <2>3. /\ IsFiniteSet(PoolThread \ {t})
          /\ Cardinality(PoolThread \ {t}) = Cardinality(PoolThread) - 1
      BY <1>9, FS_RemoveElement
    <2>4. /\ SumFunctionOnSet(h, PoolThread \ {t}) \in Nat
          /\ SumFunctionOnSet(h, PoolThread \ {t}) <= Cardinality(PoolThread \ {t}) * m
      BY <2>1, <2>3, SumBounded
    <2> QED
      BY <2>1, <2>2, <2>3, <2>4
  <1>14. Load(t) \in Nat /\ Load(t)' \in Nat /\ Promised(t) \in Nat /\ Promised(t)' \in Nat
    BY <1>6
  <1>15. e[t] = Load(t) /\ f[t] = Load(t)' /\ g[t] = Promised(t) /\ h[t] = Promised(t)'
    BY <1>6
  <1> QED
    BY <1>5, <1>8, <1>10, <1>11, <1>12, <1>13, <1>14, <1>15

(* A step that moves bytes between the device, the bins and one thread,    *)
(* and promises the pool no more than there is room for.                   *)
LEMMA ThreadKeepsInv ==
  ASSUME PoolInv, PoolTypes', NEW t \in PoolThread,
         \A u \in PoolThread \ {t} : plHeld'[u] = plHeld[u] /\ plPc'[u] = plPc[u],
         plBytes' = BytesOf(plBins'),
         plDevice' = plDevice + (BytesOf(plBins') - BytesOf(plBins)) + (Load(t)' - Load(t)),
         \/ plBytes' + Promised(t)' <= plBytes + Promised(t)
         \/ plBytes' + Promised(t)' <= Max(ByteCaps),
         \A b \in Bucket : plBins'[b] <= Max(BucketCaps)
  PROVE  PoolInv'
  <1>1. PoolTypes /\ EveryBufferHasAPlace /\ Room
    BY DEF PoolInv
  <1>2. /\ Loads \in Int /\ Loads' \in Int /\ Load(t) \in Nat /\ Load(t)' \in Nat
        /\ Loads' - Load(t)' = Loads - Load(t)
        /\ Promises \in Nat /\ Promises' \in Nat /\ Promised(t) \in Nat /\ Promised(t)' \in Nat
        /\ Promises' - Promised(t)' = Promises - Promised(t)
        /\ Promises' - Promised(t)' <= (Cardinality(PoolThread) - 1) * Max(Bucket)
    BY <1>1, ThreadStep
  <1>3. BytesOf(plBins) \in Nat /\ BytesOf(plBins') \in Nat
    BY <1>1, BytesType DEF PoolTypes
  <1>4. plDevice = BytesOf(plBins) + Loads /\ plBytes = BytesOf(plBins)
    BY <1>1 DEF EveryBufferHasAPlace, Loads
  <1>5. plDevice \in Int /\ plBytes \in Nat /\ plBytes' \in Nat
    BY <1>2, <1>3, <1>4
  <1>6. PICK spare \in Int : spare = (Cardinality(PoolThread) - 1) * Max(Bucket)
    BY CapsBound, PoolAssumption, FS_CardinalityType
  <1>7. PICK cap \in Nat : cap = Max(ByteCaps)
    BY CapsBound
  <1>8. plDevice' = BytesOf(plBins') + Loads'
    BY <1>2, <1>3, <1>4, <1>5
  <1>9. plBytes' + Promises' <= cap + spare
    <2>1. plBytes + Promises <= cap + spare
      BY <1>1, <1>6, <1>7 DEF Room
    <2> QED
      BY <1>2, <1>5, <1>6, <1>7, <2>1
  <1>10. EveryBufferHasAPlace'
    BY <1>8 DEF EveryBufferHasAPlace, Loads
  <1>11. Room'
    BY <1>6, <1>7, <1>9 DEF Room
  <1> QED
    BY <1>10, <1>11 DEF PoolInv

-----------------------------------------------------------------------------
LEMMA PoolInvInit == PoolInit => PoolInv
  <1> SUFFICES ASSUME PoolInit PROVE PoolInv
    OBVIOUS
  <1>1. PoolTypes
    BY PoolAssumption DEF PoolInit, PoolTypes, Empty, Pc, PoolIdle
  <1>2. ASSUME NEW t \in PoolThread PROVE Load(t) = 0 /\ Promised(t) = 0
    <2>1. plHeld[t] = Empty /\ plPc[t].at = "idle"
      BY DEF PoolInit, PoolIdle
    <2> QED
      BY <2>1, NoBytes DEF Load, Promised
  <1>3. PICK e : e = [t \in PoolThread |-> Load(t)]
    OBVIOUS
  <1>4. PICK g : g = [t \in PoolThread |-> Promised(t)]
    OBVIOUS
  <1>5. \A t \in PoolThread : e[t] \in 0 .. 0 /\ g[t] \in 0 .. 0
    BY <1>2, <1>3, <1>4
  <1>6. IsFiniteSet(PoolThread) /\ Cardinality(PoolThread) \in Nat /\ Cardinality(PoolThread) # 0
    BY PoolAssumption, FS_CardinalityType, FS_EmptySet
  <1>7. SumFunctionOnSet(e, PoolThread) = 0 /\ SumFunctionOnSet(g, PoolThread) = 0
    <2>1. /\ SumFunctionOnSet(e, PoolThread) \in Nat /\ SumFunctionOnSet(g, PoolThread) \in Nat
          /\ SumFunctionOnSet(e, PoolThread) <= Cardinality(PoolThread) * 0
          /\ SumFunctionOnSet(g, PoolThread) <= Cardinality(PoolThread) * 0
      BY <1>5, <1>6, SumBounded
    <2> QED
      BY <1>6, <2>1
  <1>8. Loads = 0 /\ Promises = 0
    BY <1>3, <1>4, <1>7 DEF Loads, Promises, SumFunction
  <1>9. plBytes = 0 /\ plDevice = 0 /\ BytesOf(plBins) = 0
    BY NoBytes DEF PoolInit
  <1>10. EveryBufferHasAPlace
    BY <1>8, <1>9 DEF EveryBufferHasAPlace, Loads
  <1>11. 0 <= (Cardinality(PoolThread) - 1) * Max(Bucket) /\ (Cardinality(PoolThread) - 1) * Max(Bucket) \in Int
    BY <1>6, CapsBound
  <1>12. plBytes + Promises <= Max(ByteCaps) + (Cardinality(PoolThread) - 1) * Max(Bucket)
    BY <1>8, <1>9, <1>11, CapsBound
  <1>13. \A b \in Bucket : plBins[b] <= Max(BucketCaps)
    BY CapsBound DEF PoolInit, Empty
  <1> QED
    BY <1>1, <1>10, <1>12, <1>13 DEF PoolInv, Room

(* Steps that touch only the thread's own place in the code.               *)
LEMMA PoolMoves ==
  ASSUME PoolInv, NEW t \in PoolThread, NEW p \in Pc, p.at # "push", plPc[t].at # "push",
         plPc' = [plPc EXCEPT ![t] = p],
         UNCHANGED <<plBins, plBytes, plPolicy, plHeld, plDevice>>
  PROVE  PoolInv'
  <1>1. PoolTypes /\ EveryBufferHasAPlace /\ Room
    BY DEF PoolInv
  <1>2. PoolTypes'
    BY <1>1 DEF PoolTypes
  <1>3. plPc'[t] = p /\ \A u \in PoolThread \ {t} : plHeld'[u] = plHeld[u] /\ plPc'[u] = plPc[u]
    BY <1>1 DEF PoolTypes
  <1>4. Load(t)' = Load(t) /\ Promised(t)' = Promised(t)
    BY <1>3 DEF Load, Promised
  <1>5. Load(t) \in Nat /\ Promised(t) \in Nat
    BY <1>1, LoadTypesAt, CapsBound
  <1>6. BytesOf(plBins) \in Nat /\ plBytes = BytesOf(plBins)
    BY <1>1, BytesType DEF PoolTypes, EveryBufferHasAPlace
  <1>7. plDevice \in Int
    <2>1. Loads \in Int
      BY <1>1, <1>2, <1>3, ThreadStep
    <2>2. plDevice = BytesOf(plBins) + Loads
      BY <1>1 DEF EveryBufferHasAPlace, Loads
    <2> QED
      BY <1>6, <2>1, <2>2
  <1>8. plDevice' = plDevice + (BytesOf(plBins') - BytesOf(plBins)) + (Load(t)' - Load(t))
    BY <1>4, <1>5, <1>6, <1>7
  <1>9. plBytes' + Promised(t)' <= plBytes + Promised(t)
    BY <1>4, <1>5, <1>6
  <1>10. \A b \in Bucket : plBins'[b] <= Max(BucketCaps)
    BY <1>1 DEF Room
  <1>11. plBytes' = BytesOf(plBins')
    BY <1>6
  <1> QED
    BY <1>2, <1>3, <1>8, <1>9, <1>10, <1>11, ThreadKeepsInv

(* What every step of a thread starts from.                                *)
LEMMA PoolFacts ==
  ASSUME PoolInv, NEW t \in PoolThread
  PROVE  /\ PoolTypes /\ plBytes = BytesOf(plBins) /\ plBytes \in Nat /\ plDevice \in Int
         /\ plBins \in [Bucket -> Nat] /\ plHeld[t] \in [Bucket -> Nat] /\ plPc[t] \in Pc
         /\ Load(t) \in Nat /\ Promised(t) \in Nat /\ BytesOf(plHeld[t]) \in Nat
         /\ \A b \in Bucket : plBins[b] <= Max(BucketCaps)
  <1>1. PoolTypes /\ EveryBufferHasAPlace /\ Room
    BY DEF PoolInv
  <1>2. BytesOf(plBins) \in Nat /\ BytesOf(plHeld[t]) \in Nat
    BY <1>1, BytesType DEF PoolTypes
  <1>3. Load(t) \in Nat /\ Promised(t) \in Nat
    BY <1>1, LoadTypesAt, CapsBound
  <1>4. PICK e : e = [u \in PoolThread |-> Load(u)]
    OBVIOUS
  <1>5. \A u \in PoolThread : e[u] \in Int
    BY <1>1, <1>4, LoadTypesAt
  <1>6. SumFunctionOnSet(e, PoolThread) \in Int
    BY <1>5, PoolAssumption, SumRemove
  <1>7. plDevice \in Int /\ plBytes \in Nat
    BY <1>1, <1>2, <1>4, <1>6 DEF EveryBufferHasAPlace, SumFunction
  <1> QED
    BY <1>1, <1>2, <1>3, <1>7 DEF PoolTypes, EveryBufferHasAPlace, Room

LEMMA PoolHit ==
  ASSUME PoolInv, NEW t \in PoolThread, Hit(t)
  PROVE  PoolInv'
  <1>1. PICK b \in Bucket : b = plPc[t].bucket
    BY PoolFacts, PcFields DEF Hit
  <1>2. /\ plPc[t].at = "pop" /\ plBins[b] > 0 /\ plBins' = [plBins EXCEPT ![b] = @ - 1]
        /\ plBytes' = plBytes - b /\ plHeld' = [plHeld EXCEPT ![t][b] = @ + 1]
        /\ plPc' = [plPc EXCEPT ![t] = PoolIdle] /\ UNCHANGED <<plPolicy, plDevice>>
    BY <1>1 DEF Hit, Goto
  <1>3. /\ PoolTypes /\ plBytes = BytesOf(plBins) /\ plBytes \in Nat /\ plDevice \in Int /\ b \in Nat
        /\ plBins \in [Bucket -> Nat] /\ plHeld[t] \in [Bucket -> Nat] /\ BytesOf(plHeld[t]) \in Nat
        /\ \A c \in Bucket : plBins[c] <= Max(BucketCaps)
    BY PoolFacts, CapsBound
  <1>4. /\ plBins' \in [Bucket -> Nat] /\ plBins'[b] = plBins[b] - 1
        /\ \A c \in Bucket \ {b} : plBins[c] = plBins'[c]
    BY <1>2, <1>3
  <1>5. /\ plHeld' \in [PoolThread -> [Bucket -> Nat]] /\ plHeld'[t] \in [Bucket -> Nat]
        /\ plHeld'[t][b] = plHeld[t][b] + 1
        /\ \A c \in Bucket \ {b} : plHeld[t][c] = plHeld'[t][c]
        /\ \A u \in PoolThread \ {t} : plHeld'[u] = plHeld[u]
    BY <1>2, <1>3 DEF PoolTypes
  <1>6. /\ plPc' \in [PoolThread -> Pc] /\ plPc'[t] = PoolIdle
        /\ \A u \in PoolThread \ {t} : plPc'[u] = plPc[u]
    BY <1>2, <1>3 DEF PoolTypes, Pc
  <1>7. PoolTypes'
    BY <1>2, <1>3, <1>4, <1>5, <1>6 DEF PoolTypes
  <1>8. BytesOf(plBins') = BytesOf(plBins) - b
    BY <1>3, <1>4, BytesChange
  <1>9. BytesOf(plHeld'[t]) = BytesOf(plHeld[t]) + b
    BY <1>3, <1>5, BytesChange
  <1>10. Load(t) = BytesOf(plHeld[t]) /\ Load(t)' = BytesOf(plHeld[t]) + b /\ Promised(t) = 0 /\ Promised(t)' = 0
    BY <1>2, <1>3, <1>6, <1>9 DEF Load, Promised, PoolIdle
  <1>11. plDevice' = plDevice + (BytesOf(plBins') - BytesOf(plBins)) + (Load(t)' - Load(t))
    BY <1>2, <1>3, <1>8, <1>10
  <1>12. plBytes' + Promised(t)' <= plBytes + Promised(t) /\ plBytes' = BytesOf(plBins')
    BY <1>2, <1>3, <1>8, <1>10
  <1>13. \A c \in Bucket : plBins'[c] <= Max(BucketCaps)
    <2>1. \A c \in Bucket : plBins[c] \in Nat
      BY <1>3
    <2>2. plBins'[b] <= Max(BucketCaps)
      BY <1>3, <1>4, <2>1, CapsBound
    <2> QED
      BY <1>3, <1>4, <2>2
  <1> QED
    BY <1>5, <1>6, <1>7, <1>11, <1>12, <1>13, ThreadKeepsInv

LEMMA PoolCreate ==
  ASSUME PoolInv, NEW t \in PoolThread, CreateBuffer(t)
  PROVE  PoolInv'
  <1>1. PICK b \in Bucket : b = plPc[t].bucket
    BY PoolFacts, PcFields DEF CreateBuffer
  <1>2. /\ plPc[t].at = "create" /\ plDevice' = plDevice + b
        /\ plHeld' = [plHeld EXCEPT ![t][b] = @ + 1]
        /\ plPc' = [plPc EXCEPT ![t] = PoolIdle] /\ UNCHANGED <<plPolicy, plBins, plBytes>>
    BY <1>1 DEF CreateBuffer, Goto
  <1>3. /\ PoolTypes /\ plBytes = BytesOf(plBins) /\ plBytes \in Nat /\ plDevice \in Int /\ b \in Nat
        /\ plHeld[t] \in [Bucket -> Nat] /\ BytesOf(plHeld[t]) \in Nat
        /\ \A c \in Bucket : plBins[c] <= Max(BucketCaps)
    BY PoolFacts, CapsBound
  <1>4. /\ plHeld' \in [PoolThread -> [Bucket -> Nat]] /\ plHeld'[t] \in [Bucket -> Nat]
        /\ plHeld'[t][b] = plHeld[t][b] + 1
        /\ \A c \in Bucket \ {b} : plHeld[t][c] = plHeld'[t][c]
        /\ \A u \in PoolThread \ {t} : plHeld'[u] = plHeld[u]
    BY <1>2, <1>3 DEF PoolTypes
  <1>5. /\ plPc' \in [PoolThread -> Pc] /\ plPc'[t] = PoolIdle
        /\ \A u \in PoolThread \ {t} : plPc'[u] = plPc[u]
    BY <1>2, <1>3 DEF PoolTypes, Pc
  <1>6. PoolTypes'
    BY <1>2, <1>3, <1>4, <1>5 DEF PoolTypes
  <1>7. BytesOf(plHeld'[t]) = BytesOf(plHeld[t]) + b
    BY <1>3, <1>4, BytesChange
  <1>8. Load(t) = BytesOf(plHeld[t]) /\ Load(t)' = BytesOf(plHeld[t]) + b /\ Promised(t) = 0 /\ Promised(t)' = 0
    BY <1>2, <1>3, <1>5, <1>7 DEF Load, Promised, PoolIdle
  <1>9. plDevice' = plDevice + (BytesOf(plBins') - BytesOf(plBins)) + (Load(t)' - Load(t))
    BY <1>2, <1>3, <1>8
  <1>10. plBytes' + Promised(t)' <= plBytes + Promised(t) /\ plBytes' = BytesOf(plBins')
    BY <1>2, <1>3, <1>8
  <1>11. \A c \in Bucket : plBins'[c] <= Max(BucketCaps)
    BY <1>2, <1>3
  <1> QED
    BY <1>4, <1>5, <1>6, <1>9, <1>10, <1>11, ThreadKeepsInv

LEMMA PoolEvict ==
  ASSUME PoolInv, NEW t \in PoolThread, EvictAll(t)
  PROVE  PoolInv'
  <1>1. /\ PoolTypes /\ plBytes = BytesOf(plBins) /\ plBytes \in Nat /\ plDevice \in Int
        /\ Load(t) \in Nat /\ Promised(t) \in Nat
    BY PoolFacts
  <1>2. plPc[t] \in [at : {"pop", "create", "evict"}, bucket : Bucket, tries : {0, 1, 2}]
    BY <1>1, PcFields DEF EvictAll
  <1>3. PICK p \in Pc : p.at # "push" /\ plPc' = [plPc EXCEPT ![t] = p]
    <2> DEFINE p == IF BuffersOf(plBins) = 0 THEN [at |-> "failed"]
                    ELSE [at |-> "pop", bucket |-> plPc[t].bucket, tries |-> 2]
    <2>1. p \in Pc /\ p.at # "push"
      BY <1>2 DEF Pc
    <2>2. plPc' = [plPc EXCEPT ![t] = p]
      BY DEF EvictAll, Goto
    <2> QED
      BY <2>1, <2>2
  <1>4. /\ plPc[t].at = "evict" /\ plBins' = Empty /\ plBytes' = plBytes - BytesOf(plBins)
        /\ plDevice' = plDevice - BytesOf(plBins) /\ UNCHANGED <<plPolicy, plHeld>>
    BY DEF EvictAll, EvictedBytes
  <1>5. /\ plPc' \in [PoolThread -> Pc] /\ plPc'[t] = p
        /\ \A u \in PoolThread \ {t} : plHeld'[u] = plHeld[u] /\ plPc'[u] = plPc[u]
    BY <1>1, <1>3, <1>4 DEF PoolTypes
  <1>6. PoolTypes'
    BY <1>1, <1>4, <1>5 DEF PoolTypes, Empty
  <1>7. BytesOf(plBins') = 0
    BY <1>4, NoBytes
  <1>8. Load(t)' = Load(t) /\ Promised(t)' = Promised(t)
    BY <1>3, <1>4, <1>5 DEF Load, Promised
  <1>9. plDevice' = plDevice + (BytesOf(plBins') - BytesOf(plBins)) + (Load(t)' - Load(t))
    BY <1>1, <1>4, <1>7, <1>8
  <1>10. plBytes' + Promised(t)' <= plBytes + Promised(t) /\ plBytes' = BytesOf(plBins')
    BY <1>1, <1>4, <1>7, <1>8
  <1>11. \A c \in Bucket : plBins'[c] <= Max(BucketCaps)
    BY <1>4, CapsBound DEF Empty
  <1> QED
    BY <1>5, <1>6, <1>9, <1>10, <1>11, ThreadKeepsInv

(* The thread promises a buffer only if the count it read leaves room.     *)
LEMMA PoolReleaseRead ==
  ASSUME PoolInv, NEW t \in PoolThread, NEW b \in Bucket, ReleaseRead(t, b)
  PROVE  PoolInv'
  <1>1. PICK p : p = [at |-> "push", bucket |-> b, policy |-> plPolicy, bytes |-> plBytes]
    OBVIOUS
  <1>2. /\ plPc[t] = PoolIdle /\ plHeld[t][b] > 0 /\ plHeld' = [plHeld EXCEPT ![t][b] = @ - 1]
        /\ plPc' = [plPc EXCEPT ![t] = p] /\ UNCHANGED <<plPolicy, plBins, plBytes, plDevice>>
    BY <1>1 DEF ReleaseRead, Goto
  <1>3. /\ PoolTypes /\ plBytes = BytesOf(plBins) /\ plBytes \in Nat /\ plDevice \in Int /\ b \in Nat
        /\ plHeld[t] \in [Bucket -> Nat] /\ BytesOf(plHeld[t]) \in Nat /\ plPolicy \in Policy
        /\ \A c \in Bucket : plBins[c] <= Max(BucketCaps)
    BY PoolFacts, CapsBound DEF PoolTypes
  <1>4. /\ plHeld' \in [PoolThread -> [Bucket -> Nat]] /\ plHeld'[t] \in [Bucket -> Nat]
        /\ plHeld'[t][b] = plHeld[t][b] - 1
        /\ \A c \in Bucket \ {b} : plHeld[t][c] = plHeld'[t][c]
        /\ \A u \in PoolThread \ {t} : plHeld'[u] = plHeld[u]
    BY <1>2, <1>3 DEF PoolTypes
  <1>5. p \in Pc
    BY <1>1, <1>3 DEF Pc
  <1>6. /\ plPc' \in [PoolThread -> Pc] /\ plPc'[t] = p
        /\ \A u \in PoolThread \ {t} : plPc'[u] = plPc[u]
    BY <1>2, <1>3, <1>5 DEF PoolTypes
  <1>7. PoolTypes'
    BY <1>2, <1>3, <1>4, <1>6 DEF PoolTypes
  <1>8. BytesOf(plHeld'[t]) = BytesOf(plHeld[t]) - b
    BY <1>3, <1>4, BytesChange
  <1>9. Load(t) = BytesOf(plHeld[t]) /\ Promised(t) = 0
    BY <1>2, <1>3 DEF Load, Promised, PoolIdle
  <1>10. Load(t)' = BytesOf(plHeld[t])
    BY <1>1, <1>3, <1>6, <1>8 DEF Load
  <1>11. Promised(t)' = 0 \/ plBytes' + Promised(t)' <= Max(ByteCaps)
    <2>1. Promised(t)' = IF plBytes + b <= plPolicy.max_bytes THEN b ELSE 0
      BY <1>1, <1>6 DEF Promised
    <2>2. plPolicy.max_bytes \in Nat /\ plPolicy.max_bytes <= Max(ByteCaps) /\ Max(ByteCaps) \in Nat
      BY <1>3, CapsBound
    <2> QED
      BY <1>2, <1>3, <2>1, <2>2
  <1>12. \/ plBytes' + Promised(t)' <= plBytes + Promised(t)
         \/ plBytes' + Promised(t)' <= Max(ByteCaps)
    BY <1>2, <1>3, <1>9, <1>11
  <1>13. plDevice' = plDevice + (BytesOf(plBins') - BytesOf(plBins)) + (Load(t)' - Load(t))
    BY <1>2, <1>3, <1>9, <1>10
  <1>14. plBytes' = BytesOf(plBins') /\ \A c \in Bucket : plBins'[c] <= Max(BucketCaps)
    BY <1>2, <1>3
  <1> QED
    BY <1>4, <1>6, <1>7, <1>12, <1>13, <1>14, ThreadKeepsInv

(* And keeps its promise, or drops the buffer.                             *)
LEMMA PoolReleasePush ==
  ASSUME PoolInv, NEW t \in PoolThread, ReleasePush(t)
  PROVE  PoolInv'
  <1>1. PICK p \in [at : {"push"}, bucket : Bucket, policy : Policy, bytes : Nat] : p = plPc[t]
    BY PoolFacts, PcFields DEF ReleasePush
  <1>2. PICK b \in Bucket : b = p.bucket
    BY <1>1
  <1>3. PICK rejected \in BOOLEAN : rejected = Rejects(p, plBins[b])
    BY DEF Rejects
  <1>4. /\ plBins' = IF rejected THEN plBins ELSE [plBins EXCEPT ![b] = @ + 1]
        /\ plBytes' = IF rejected THEN plBytes ELSE plBytes + b
        /\ plDevice' = IF rejected THEN plDevice - b ELSE plDevice
        /\ plPc' = [plPc EXCEPT ![t] = PoolIdle] /\ UNCHANGED <<plPolicy, plHeld>>
    BY <1>1, <1>2, <1>3 DEF ReleasePush, Goto, Pooled
  <1>5. /\ PoolTypes /\ plBytes = BytesOf(plBins) /\ plBytes \in Nat /\ plDevice \in Int /\ b \in Nat
        /\ plBins \in [Bucket -> Nat] /\ BytesOf(plHeld[t]) \in Nat
        /\ Promised(t) \in Nat
        /\ \A c \in Bucket : plBins[c] <= Max(BucketCaps)
    BY PoolFacts, CapsBound
  <1>6. /\ plPc' \in [PoolThread -> Pc] /\ plPc'[t] = PoolIdle
        /\ \A u \in PoolThread \ {t} : plHeld'[u] = plHeld[u] /\ plPc'[u] = plPc[u]
    BY <1>4, <1>5 DEF PoolTypes, Pc
  <1>7. Load(t) = BytesOf(plHeld[t]) + b
    BY <1>1, <1>2 DEF Load
  <1>8. Load(t)' = BytesOf(plHeld[t]) /\ Promised(t)' = 0
    BY <1>4, <1>5, <1>6 DEF Load, Promised, PoolIdle
  <1>9. CASE rejected
    <2>1. PoolTypes'
      BY <1>4, <1>5, <1>6, <1>9 DEF PoolTypes
    <2>2. plDevice' = plDevice + (BytesOf(plBins') - BytesOf(plBins)) + (Load(t)' - Load(t))
      BY <1>4, <1>5, <1>7, <1>8, <1>9
    <2>3. plBytes' + Promised(t)' <= plBytes + Promised(t) /\ plBytes' = BytesOf(plBins')
      BY <1>4, <1>5, <1>8, <1>9
    <2>4. \A c \in Bucket : plBins'[c] <= Max(BucketCaps)
      BY <1>4, <1>5, <1>9
    <2> QED
      BY <1>6, <2>1, <2>2, <2>3, <2>4, ThreadKeepsInv
  <1>10. CASE ~rejected
    <2>1. /\ plBins' \in [Bucket -> Nat] /\ plBins'[b] = plBins[b] + 1
          /\ \A c \in Bucket \ {b} : plBins[c] = plBins'[c]
      BY <1>4, <1>5, <1>10
    <2>2. PoolTypes'
      BY <1>4, <1>5, <1>6, <2>1 DEF PoolTypes
    <2>3. BytesOf(plBins') = BytesOf(plBins) + b
      BY <1>5, <2>1, BytesChange
    <2>4. plBytes' = plBytes + b /\ plDevice' = plDevice
      BY <1>4, <1>10
    <2>5. plDevice' = plDevice + (BytesOf(plBins') - BytesOf(plBins)) + (Load(t)' - Load(t))
      BY <1>5, <1>7, <1>8, <2>3, <2>4
    <2>6. /\ p.policy \in Policy /\ p.bytes \in Nat /\ p.at = "push"
          /\ p.policy.max_bytes \in Nat /\ p.policy.max_per_bucket \in Nat
          /\ p.policy.max_per_bucket <= Max(BucketCaps) /\ Max(BucketCaps) \in Nat
      BY <1>1, CapsBound
    <2>7. p.bytes + b <= p.policy.max_bytes /\ plBins[b] < p.policy.max_per_bucket
      <3>1. ~Rejects(p, plBins[b])
        BY <1>3, <1>10
      <3>2. plBins[b] \in Nat
        BY <1>5
      <3> QED
        BY <1>2, <1>5, <2>6, <3>1, <3>2 DEF Rejects
    <2>8. Promised(t) = b
      BY <1>1, <1>2, <2>6, <2>7 DEF Promised
    <2>9. plBytes' + Promised(t)' <= plBytes + Promised(t) /\ plBytes' = BytesOf(plBins')
      BY <1>5, <1>8, <2>3, <2>4, <2>8
    <2>10. \A c \in Bucket : plBins'[c] <= Max(BucketCaps)
      BY <1>5, <2>1, <2>6, <2>7
    <2> QED
      BY <1>6, <2>2, <2>5, <2>9, <2>10, ThreadKeepsInv
  <1> QED
    BY <1>9, <1>10

LEMMA PoolInvStep == PoolInv /\ [PoolNext]_poolVars => PoolInv'
  <1> SUFFICES ASSUME PoolInv, [PoolNext]_poolVars PROVE PoolInv'
    OBVIOUS
  <1>0. PoolTypes
    BY DEF PoolInv
  <1>1. ASSUME NEW t \in PoolThread, NEW b \in Bucket, NEW tries \in {0, 1}, Acquire(t, b, tries)
        PROVE  PoolInv'
    <2>1. PICK p \in Pc : p = [at |-> "pop", bucket |-> b, tries |-> tries]
      BY DEF Pc
    <2>2. p.at # "push" /\ plPc[t].at # "push"
      BY <1>1, <2>1 DEF Acquire, PoolIdle
    <2>3. /\ plPc' = [plPc EXCEPT ![t] = p]
          /\ UNCHANGED <<plBins, plBytes, plPolicy, plHeld, plDevice>>
      BY <1>1, <2>1 DEF Acquire, Goto
    <2> QED
      BY <2>1, <2>2, <2>3, PoolMoves
  <1>2. ASSUME NEW t \in PoolThread, NEW b \in Bucket, ReleaseRead(t, b) PROVE PoolInv'
    BY <1>2, PoolReleaseRead
  <1>3. ASSUME NEW t \in PoolThread, Hit(t) PROVE PoolInv'
    BY <1>3, PoolHit
  <1>4. ASSUME NEW t \in PoolThread, Miss(t) PROVE PoolInv'
    <2>1. plPc[t] \in [at : {"pop", "create", "evict"}, bucket : Bucket, tries : {0, 1, 2}]
      BY <1>0, <1>4, PcFields DEF Miss
    <2>2. PICK p : p = [plPc[t] EXCEPT !.at = "create"]
      OBVIOUS
    <2>3. p \in Pc /\ p.at # "push"
      BY <2>1, <2>2 DEF Pc
    <2> QED
      BY <1>4, <2>2, <2>3, PoolMoves DEF Miss, Goto
  <1>5. ASSUME NEW t \in PoolThread, CreateBuffer(t) PROVE PoolInv'
    BY <1>5, PoolCreate
  <1>6. ASSUME NEW t \in PoolThread, CreateFails(t) PROVE PoolInv'
    <2>1. plPc[t] \in [at : {"pop", "create", "evict"}, bucket : Bucket, tries : {0, 1, 2}]
      BY <1>0, <1>6, PcFields DEF CreateFails
    <2>2. PICK p : p = IF plPc[t].tries = 1 THEN [plPc[t] EXCEPT !.at = "evict"] ELSE [at |-> "failed"]
      OBVIOUS
    <2>3. p \in Pc /\ p.at # "push"
      BY <2>1, <2>2 DEF Pc
    <2> QED
      BY <1>6, <2>2, <2>3, PoolMoves DEF CreateFails, Goto
  <1>7. ASSUME NEW t \in PoolThread, EvictAll(t) PROVE PoolInv'
    BY <1>7, PoolEvict
  <1>8. ASSUME NEW t \in PoolThread, ReleasePush(t) PROVE PoolInv'
    BY <1>8, PoolReleasePush
  <1>9. ASSUME UNCHANGED <<plBins, plBytes, plHeld, plPc, plDevice>>, plPolicy' \in Policy PROVE PoolInv'
    <2>1. PoolTypes'
      BY <1>0, <1>9 DEF PoolTypes
    <2>2. \A t \in PoolThread : Load(t)' = Load(t) /\ Promised(t)' = Promised(t)
      BY <1>9 DEF Load, Promised
    <2>3. EveryBufferHasAPlace'
      BY <1>9, <2>2 DEF PoolInv, EveryBufferHasAPlace
    <2>4. Promises' = Promises
      BY <2>2 DEF Promises
    <2>5. Room'
      BY <1>9, <2>4 DEF PoolInv, Room
    <2> QED
      BY <2>1, <2>3, <2>5 DEF PoolInv
  <1>10. ASSUME NEW p \in Policy, SetPolicy(p) PROVE PoolInv'
    BY <1>9, <1>10 DEF SetPolicy
  <1>11. CASE UNCHANGED poolVars
    BY <1>0, <1>9, <1>11 DEF poolVars, PoolTypes
  <1> QED
    BY <1>1, <1>2, <1>3, <1>4, <1>5, <1>6, <1>7, <1>8, <1>10, <1>11 DEF PoolNext

(* However many threads acquire, release, evict and change the policy,     *)
(* every byte the device handed out is pooled, held or on its way back,    *)
(* and bytes_pooled is the content of the bins (cache.rs, BufferPool).     *)
THEOREM BuffersAreAccountedFor == PoolSpec => []EveryBufferHasAPlace
  <1>1. PoolInv => EveryBufferHasAPlace
    BY DEF PoolInv
  <1> QED
    BY <1>1, PoolInvInit, PoolInvStep, PTL DEF PoolSpec

(* Whatever policies are installed, the stale count of try_release costs   *)
(* the pool at most one buffer per other thread (cache.rs, try_release).   *)
THEOREM PoolIsBounded == PoolSpec => []PoolBounded
  <1>1. PoolInv => PoolBounded
    <2> SUFFICES ASSUME PoolInv PROVE PoolBounded
      OBVIOUS
    <2>1. PICK t \in PoolThread : TRUE
      BY PoolAssumption
    <2>2. plBytes \in Nat /\ PoolTypes
      BY <2>1, PoolFacts
    <2>3. PICK g : g = [u \in PoolThread |-> Promised(u)]
      OBVIOUS
    <2>4. PICK m \in Nat : m = Max(Bucket)
      BY CapsBound
    <2>5. \A u \in PoolThread : g[u] \in 0 .. m
      BY <2>2, <2>3, <2>4, LoadTypesAt
    <2>6. SumFunctionOnSet(g, PoolThread) \in Nat
      BY <2>5, PoolAssumption, SumBounded
    <2>7. Promises \in Nat
      BY <2>3, <2>6 DEF Promises, SumFunction
    <2>8. (Cardinality(PoolThread) - 1) * Max(Bucket) \in Int
      BY CapsBound, PoolAssumption, FS_CardinalityType
    <2>9. plBytes <= Max(ByteCaps) + (Cardinality(PoolThread) - 1) * Max(Bucket)
      BY <2>2, <2>7, <2>8, CapsBound DEF PoolInv, Room
    <2> QED
      BY <2>9 DEF PoolInv, Room, PoolBounded, ByteCaps, BucketCaps
  <1> QED
    BY <1>1, PoolInvInit, PoolInvStep, PTL DEF PoolSpec

-----------------------------------------------------------------------------
(* The caching allocator.  What the heap is between any two steps.         *)

BlockRecord ==
  [addr : Nat, size : Nat, seg : Nat, prev : Nat, next : Nat,
   st : {"free", "inuse", "pending"}, rec : Seq(Stream)]
Segment == [stream : Stream, total : Nat]
Heap ==
  [blocks : Seq(BlockRecord), segs : Seq(Segment),
   bins : [Stream -> [Bin -> Seq(Nat)]], pending : [Stream -> Seq(Nat)]]

(* Links stay within a segment and, however stale, never lead in a circle: *)
(* some numbering of the blocks increases along all of them.               *)
Ordered(h, r) ==
  \A i \in DOMAIN h.blocks :
    /\ h.blocks[i].next # None =>
         /\ h.blocks[i].next \in DOMAIN h.blocks
         /\ h.blocks[h.blocks[i].next].seg = h.blocks[i].seg
         /\ r[i] < r[h.blocks[i].next]
    /\ h.blocks[i].prev # None =>
         /\ h.blocks[i].prev \in DOMAIN h.blocks
         /\ h.blocks[h.blocks[i].prev].seg = h.blocks[i].seg
         /\ r[h.blocks[i].prev] < r[i]
Linked(h) == \E r \in [DOMAIN h.blocks -> Nat] : Ordered(h, r)

(* Every block lies in a segment, and every segment has a block.           *)
Segmented(h) ==
  /\ \A i \in DOMAIN h.blocks : h.blocks[i].seg \in DOMAIN h.segs
  /\ \A g \in DOMAIN h.segs : \E i \in DOMAIN h.blocks : h.blocks[i].seg = g

(* The lists name blocks, and a stream's bins those of its own segments.   *)
Listed(h) ==
  /\ \A s \in Stream : \A b \in Bin : \A i \in ToSet(h.bins[s][b]) :
       i \in DOMAIN h.blocks /\ StreamOf(h, i) = s
  /\ \A s \in Stream : ToSet(h.pending[s]) \subseteq DOMAIN h.blocks

HeapOk(h) == h \in Heap /\ Linked(h) /\ Segmented(h) /\ Listed(h)

(* A call's loops are about blocks.                                        *)
Locked(h, m) ==
  /\ m \in [at : {"idle", "merge", "drain"}, cur : Nat, on : Stream \cup {NoStream}, rest : Seq(Nat)]
  /\ m.at = "merge" => m.cur \in DOMAIN h.blocks
  /\ m.at = "drain" => m.rest # <<>> /\ m.on \in Stream
  /\ m.on = NoStream => m.rest = <<>>
  /\ ToSet(m.rest) \subseteq DOMAIN h.blocks

(* A pointer names a block of a segment of its stream.                     *)
Pointing(h, p) ==
  /\ p \in [Handle -> [idx : Nat, addr : Nat, size : Nat, stream : Stream \cup {NoStream}]]
  /\ \A k \in Handle : p[k] # Nothing =>
       p[k].idx \in DOMAIN h.blocks /\ StreamOf(h, p[k].idx) = p[k].stream

(* PendingIsReleasable, of a heap and the state of the call at work.       *)
Owed(h, on, rest, s, i) ==
  Count(h.pending[s], i) + IF on = s THEN Count(rest, i) ELSE 0
EntriesOf(h, m, s, i) == Owed(h, m.on, m.rest, s, i)
Waiting(h, m) ==
  \A i \in DOMAIN h.blocks : h.blocks[i].st = "pending" =>
    /\ h.blocks[i].rec # <<>>
    /\ \A s \in Stream : Count(h.blocks[i].rec, s) <= EntriesOf(h, m, s, i)

(* Of the segments, those in T were given back and hold nothing; the      *)
(* blocks of each of the others make up its size.                          *)
SizesOf(h) == [i \in DOMAIN h.blocks |-> h.blocks[i].size]
Within(h, g) == {i \in DOMAIN h.blocks : h.blocks[i].seg = g}
Accounted(h, T) ==
  /\ T \subseteq DOMAIN h.segs
  /\ \A i \in DOMAIN h.blocks : h.blocks[i].seg \in T => h.blocks[i].size = 0
  /\ \A g \in DOMAIN h.segs \ T :
       h.segs[g].total = SumFunctionOnSet(SizesOf(h), Within(h, g))

Sound(h, T) == HeapOk(h) /\ Accounted(h, T)

Reserved(h, T) ==
  SumFunctionOnSet([g \in DOMAIN h.segs |-> h.segs[g].total], DOMAIN h.segs \ T)

AllocInv ==
  /\ Sound(heap, trimmed) /\ Locked(heap, mutex) /\ Pointing(heap, held) /\ Waiting(heap, mutex)
  /\ next \in Nat /\ reserved = Reserved(heap, trimmed)

-----------------------------------------------------------------------------
(* Sequences and how often an element occurs in them.                      *)
LEMMA CountType ==
  ASSUME NEW S, NEW q \in Seq(S), NEW x
  PROVE  IsFiniteSet({j \in DOMAIN q : q[j] = x}) /\ Count(q, x) \in Nat
  <1>1. DOMAIN q = 1 .. Len(q) /\ Len(q) \in Nat
    BY LenProperties
  <1>2. IsFiniteSet(1 .. Len(q))
    BY <1>1, FS_Interval
  <1>3. IsFiniteSet({j \in DOMAIN q : q[j] = x})
    BY <1>1, <1>2, FS_Subset
  <1> QED
    BY <1>3, FS_CardinalityType DEF Count

LEMMA Injects ==
  ASSUME NEW S, NEW T, IsFiniteSet(T), NEW f \in [S -> T],
         \A a, b \in S : f[a] = f[b] => a = b
  PROVE  Cardinality(S) <= Cardinality(T)
  <1>1. f \in Injection(S, T)
    BY DEF Injection, IsInjective
  <1> QED
    BY <1>1, FS_Injection

LEMMA RemovedFirst ==
  ASSUME NEW S, NEW q \in Seq(S), NEW x, x \in ToSet(q)
  PROVE  /\ RemoveFirst(q, x) \in Seq(S) /\ Len(RemoveFirst(q, x)) = Len(q) - 1
         /\ \E p \in 1 .. Len(q) : /\ q[p] = x
              /\ \A j \in 1 .. Len(q) - 1 : RemoveFirst(q, x)[j] = IF j < p THEN q[j] ELSE q[j + 1]
  <1>1. DOMAIN q = 1 .. Len(q) /\ Len(q) \in Nat /\ \A i \in 1 .. Len(q) : q[i] \in S
    BY LenProperties
  <1> DEFINE I == {i \in 1 .. Len(q) : q[i] = x}
  <1>2. \E i \in 1 .. Len(q) : q[i] = x
    BY <1>1 DEF ToSet
  <1>3. I # {} /\ I \in SUBSET Nat
    BY <1>1, <1>2
  <1>4. PICK p : p = Min(I)
    OBVIOUS
  <1>5. p \in 1 .. Len(q) /\ q[p] = x
    BY <1>3, <1>4, MinOf
  <1>6. RemoveFirst(q, x) = RemoveAt(q, p)
    BY <1>2, <1>3, <1>4 DEF RemoveFirst, SelectInSeq
  <1>7. PICK u : u = SubSeq(q, 1, p - 1)
    OBVIOUS
  <1>8. PICK v : v = SubSeq(q, p + 1, Len(q))
    OBVIOUS
  <1>9. /\ u \in Seq(S) /\ Len(u) = p - 1 /\ \A j \in 1 .. p - 1 : u[j] = q[j]
    <2>1. p - 1 \in Int /\ \A i \in 1 .. p - 1 : q[i] \in S
      BY <1>1, <1>5
    <2>2. PICK m \in Int : m = p - 1
      BY <2>1
    <2>3. /\ SubSeq(q, 1, m) \in Seq(S) /\ Len(SubSeq(q, 1, m)) = IF 1 <= m THEN m - 1 + 1 ELSE 0
          /\ \A i \in 1 .. m - 1 + 1 : SubSeq(q, 1, m)[i] = q[1 + i - 1]
      BY <2>1, <2>2, SubSeqProperties
    <2> QED
      BY <1>1, <1>5, <1>7, <2>2, <2>3
  <1>10. /\ v \in Seq(S) /\ Len(v) = Len(q) - p /\ \A j \in 1 .. Len(q) - p : v[j] = q[p + j]
    <2>1. \A i \in p + 1 .. Len(q) : q[i] \in S
      BY <1>1, <1>5
    <2>2. PICK m \in Int : m = p + 1
      BY <1>1, <1>5
    <2>3. PICK n \in Int : n = Len(q)
      <3>1. Len(q) \in Int
        BY <1>1
      <3> QED
        BY <3>1
    <2>4. /\ SubSeq(q, m, n) \in Seq(S) /\ Len(SubSeq(q, m, n)) = IF m <= n THEN n - m + 1 ELSE 0
          /\ \A i \in 1 .. n - m + 1 : SubSeq(q, m, n)[i] = q[m + i - 1]
      BY <2>1, <2>2, <2>3, SubSeqProperties
    <2>5. Len(q) \in Nat /\ p \in 1 .. Len(q)
      BY <1>1, <1>5
    <2>6. v = SubSeq(q, m, n)
      BY <1>8, <2>2, <2>3
    <2>7. n - m + 1 = Len(q) - p /\ (m <= n \/ Len(q) - p = 0)
      BY <2>2, <2>3, <2>5
    <2>8. Len(v) = Len(q) - p
      BY <2>2, <2>3, <2>4, <2>5, <2>6, <2>7
    <2>9. ASSUME NEW j \in 1 .. Len(q) - p PROVE v[j] = q[p + j]
      <3>1. v[j] = q[m + j - 1]
        BY <2>4, <2>6, <2>7
      <3>2. m + j - 1 = p + j
        BY <2>2, <2>5
      <3> QED
        BY <3>1, <3>2
    <2> QED
      BY <2>4, <2>6, <2>8, <2>9
  <1>11. RemoveFirst(q, x) = u \o v
    BY <1>6, <1>7, <1>8 DEF RemoveAt
  <1>12. /\ u \o v \in Seq(S) /\ Len(u \o v) = Len(u) + Len(v)
         /\ \A i \in 1 .. Len(u) + Len(v) : (u \o v)[i] = IF i <= Len(u) THEN u[i] ELSE v[i - Len(u)]
    BY <1>9, <1>10, ConcatProperties
  <1>13. Len(u) + Len(v) = Len(q) - 1
    BY <1>1, <1>5, <1>9, <1>10
  <1>14. ASSUME NEW j \in 1 .. Len(q) - 1 PROVE (u \o v)[j] = IF j < p THEN q[j] ELSE q[j + 1]
    <2>1. CASE j < p
      BY <1>1, <1>5, <1>9, <1>12, <1>13, <2>1
    <2>2. CASE j >= p
      <3>1. j - Len(u) \in 1 .. Len(q) - p /\ ~(j <= Len(u)) /\ p + (j - Len(u)) = j + 1
        BY <1>1, <1>5, <1>9, <2>2
      <3> QED
        BY <1>1, <1>5, <1>10, <1>12, <1>13, <2>2, <3>1, SMTT(30)
    <2>3. j < p \/ j >= p
      BY <1>5
    <2> QED
      BY <2>1, <2>2, <2>3
  <1> QED
    BY <1>5, <1>11, <1>12, <1>13, <1>14

LEMMA RemovedElements ==
  ASSUME NEW S, NEW q \in Seq(S), NEW x, x \in ToSet(q)
  PROVE  ToSet(RemoveFirst(q, x)) \subseteq ToSet(q)
  <1>1. PICK t : t = RemoveFirst(q, x)
    OBVIOUS
  <1>2. t \in Seq(S) /\ Len(t) = Len(q) - 1
    BY <1>1, RemovedFirst
  <1>3. DOMAIN t = 1 .. Len(q) - 1 /\ DOMAIN q = 1 .. Len(q) /\ Len(q) \in Nat
    BY <1>2, LenProperties
  <1>4. \A j \in DOMAIN t : \E k \in DOMAIN q : t[j] = q[k]
    <2>1. PICK p \in 1 .. Len(q) : /\ q[p] = x
            /\ \A j \in 1 .. Len(q) - 1 : t[j] = IF j < p THEN q[j] ELSE q[j + 1]
      BY <1>1, RemovedFirst
    <2> TAKE j \in DOMAIN t
    <2>2. j \in 1 .. Len(q) - 1 /\ j \in DOMAIN q /\ j + 1 \in DOMAIN q
      BY <1>3
    <2> QED
      BY <2>1, <2>2
  <1> QED
    BY <1>1, <1>4 DEF ToSet

LEMMA CountRemoved ==
  ASSUME NEW S, NEW q \in Seq(S), NEW x, x \in ToSet(q), NEW y
  PROVE  Count(RemoveFirst(q, x), y) <= Count(q, y) - (IF y = x THEN 1 ELSE 0)
  <1>1. PICK t : t = RemoveFirst(q, x)
    OBVIOUS
  <1>2. t \in Seq(S) /\ Len(t) = Len(q) - 1
    BY <1>1, RemovedFirst
  <1>3. PICK p \in 1 .. Len(q) : /\ q[p] = x
          /\ \A j \in 1 .. Len(q) - 1 : t[j] = IF j < p THEN q[j] ELSE q[j + 1]
    BY <1>1, RemovedFirst
  <1>4. DOMAIN t = 1 .. Len(q) - 1 /\ DOMAIN q = 1 .. Len(q) /\ Len(q) \in Nat
    BY <1>2, LenProperties
  <1> DEFINE T == {j \in DOMAIN t : t[j] = y}
             Q == {j \in DOMAIN q : q[j] = y}
             f == [j \in T |-> IF j < p THEN j ELSE j + 1]
  <1>5. f \in [T -> Q \ {p}] /\ \A j, k \in T : f[j] = f[k] => j = k
    <2>1. ASSUME NEW j \in T PROVE f[j] \in Q \ {p}
      BY <1>3, <1>4
    <2>2. ASSUME NEW j \in T, NEW k \in T, f[j] = f[k] PROVE j = k
      BY <1>3, <1>4, <2>2
    <2> QED
      BY <2>1, <2>2
  <1>6. IsFiniteSet(Q) /\ Cardinality(Q) \in Nat
    BY CountType DEF Count
  <1>7. p \in Q <=> y = x
    BY <1>3, <1>4
  <1> HIDE DEF T, Q, f
  <1>8. /\ IsFiniteSet(Q \ {p})
        /\ Cardinality(Q \ {p}) = IF p \in Q THEN Cardinality(Q) - 1 ELSE Cardinality(Q)
    BY <1>6, FS_RemoveElement
  <1>9. Cardinality(T) <= Cardinality(Q \ {p})
    BY <1>5, <1>8, Injects
  <1>10. Count(t, y) = Cardinality(T) /\ Count(q, y) = Cardinality(Q)
    BY DEF Count, T, Q
  <1> QED
    BY <1>1, <1>6, <1>7, <1>8, <1>9, <1>10

LEMMA CountTail ==
  ASSUME NEW S, NEW q \in Seq(S), q # <<>>, NEW y
  PROVE  Count(q, y) - (IF y = Head(q) THEN 1 ELSE 0) <= Count(Tail(q), y)
  <1>1. PICK t : t = Tail(q)
    OBVIOUS
  <1>2. t \in Seq(S) /\ Len(t) = Len(q) - 1 /\ \A j \in 1 .. Len(t) : t[j] = q[j + 1]
    BY <1>1, HeadTailProperties
  <1>3. DOMAIN t = 1 .. Len(q) - 1 /\ DOMAIN q = 1 .. Len(q) /\ Len(q) \in Nat /\ 1 \in DOMAIN q
    BY <1>2, LenProperties, EmptySeq
  <1>4. Head(q) = q[1]
    OBVIOUS
  <1> DEFINE T == {j \in DOMAIN t : t[j] = y}
             Q == {j \in DOMAIN q : q[j] = y}
             f == [j \in Q \ {1} |-> j - 1]
  <1>5. f \in [Q \ {1} -> T] /\ \A j, k \in Q \ {1} : f[j] = f[k] => j = k
    <2>1. ASSUME NEW j \in Q \ {1} PROVE f[j] \in T
      <3>1. j - 1 \in 1 .. Len(t) /\ j \in DOMAIN q /\ q[j] = y /\ (j - 1) + 1 = j
        BY <1>2, <1>3
      <3> QED
        BY <1>2, <1>3, <3>1
    <2>2. ASSUME NEW j \in Q \ {1}, NEW k \in Q \ {1}, f[j] = f[k] PROVE j = k
      BY <1>3, <2>2
    <2> QED
      BY <2>1, <2>2
  <1>6. IsFiniteSet(Q) /\ Cardinality(Q) \in Nat /\ IsFiniteSet(T) /\ Cardinality(T) \in Nat
    BY <1>2, CountType DEF Count
  <1>7. 1 \in Q <=> y = Head(q)
    BY <1>3, <1>4
  <1> HIDE DEF T, Q, f
  <1>8. Cardinality(Q \ {1}) = IF 1 \in Q THEN Cardinality(Q) - 1 ELSE Cardinality(Q)
    BY <1>6, FS_RemoveElement
  <1>9. Cardinality(Q \ {1}) <= Cardinality(T)
    BY <1>5, <1>6, Injects
  <1>10. Count(t, y) = Cardinality(T) /\ Count(q, y) = Cardinality(Q)
    BY DEF Count, T, Q
  <1> QED
    BY <1>1, <1>6, <1>7, <1>8, <1>9, <1>10

(* n entries for x at the end of a list.                                   *)
LEMMA CountExtended ==
  ASSUME NEW q \in Seq(Nat), NEW x \in Nat, NEW e \in Seq(Nat), \A j \in 1 .. Len(e) : e[j] = x
  PROVE  /\ q \o e \in Seq(Nat) /\ ToSet(q \o e) \subseteq ToSet(q) \cup {x}
         /\ \A y : Count(q, y) <= Count(q \o e, y)
         /\ Len(e) <= Count(q \o e, x)
  <1>1. PICK t : t = q \o e
    OBVIOUS
  <1>2. PICK n \in Nat : n = Len(e)
    BY LenProperties
  <1>3. \A j \in 1 .. n : e[j] = x
    BY <1>2
  <1>4. /\ t \in Seq(Nat) /\ Len(t) = Len(q) + n
        /\ \A i \in 1 .. Len(q) + n : t[i] = IF i <= Len(q) THEN q[i] ELSE e[i - Len(q)]
    BY <1>1, <1>2, ConcatProperties
  <1>5. DOMAIN t = 1 .. Len(q) + n /\ DOMAIN q = 1 .. Len(q) /\ Len(q) \in Nat
    BY <1>4, LenProperties
  <1>6. \A i \in 1 .. Len(q) + n : t[i] = IF i <= Len(q) THEN q[i] ELSE x
    <2> TAKE i \in 1 .. Len(q) + n
    <2>1. ~(i <= Len(q)) => i - Len(q) \in 1 .. n
      BY <1>5
    <2> QED
      BY <1>3, <1>4, <2>1
  <1>7. ToSet(t) \subseteq ToSet(q) \cup {x}
    BY <1>5, <1>6 DEF ToSet
  <1>8. ASSUME NEW y PROVE Count(q, y) <= Count(t, y)
    <2> DEFINE Q == {j \in DOMAIN q : q[j] = y}
               T == {j \in DOMAIN t : t[j] = y}
    <2>1. Q \subseteq T
      BY <1>5, <1>6
    <2>2. IsFiniteSet(T)
      BY <1>4, CountType
    <2> HIDE DEF Q, T
    <2>3. Cardinality(Q) <= Cardinality(T)
      BY <2>1, <2>2, FS_Subset
    <2> QED
      BY <2>3 DEF Count, Q, T
  <1>9. n <= Count(t, x)
    <2> DEFINE T == {j \in DOMAIN t : t[j] = x}
               f == [j \in 1 .. n |-> Len(q) + j]
    <2>1. f \in [1 .. n -> T] /\ \A j, k \in 1 .. n : f[j] = f[k] => j = k
      <3>1. \A j \in 1 .. n : f[j] \in T
        BY <1>5, <1>6
      <3>2. \A j, k \in 1 .. n : f[j] = f[k] => j = k
        BY <1>5
      <3> QED
        BY <3>1, <3>2
    <2>2. IsFiniteSet(T)
      BY <1>4, CountType
    <2> HIDE DEF T, f
    <2>3. Cardinality(1 .. n) = n
      BY FS_Interval
    <2>4. Cardinality(1 .. n) <= Cardinality(T)
      BY <2>1, <2>2, Injects
    <2> QED
      BY <2>3, <2>4 DEF Count, T
  <1> QED
    BY <1>1, <1>2, <1>4, <1>7, <1>8, <1>9


-----------------------------------------------------------------------------
(* What the operations make of a heap.                                     *)
LEMMA SizeType ==
  ASSUME NEW c \in BlockRecord
  PROVE  c.size \in Int
  BY DEF BlockRecord

LEMMA HeapTypes ==
  ASSUME NEW h \in Heap
  PROVE  /\ h.blocks \in Seq(BlockRecord) /\ h.segs \in Seq(Segment)
         /\ h.bins \in [Stream -> [Bin -> Seq(Nat)]] /\ h.pending \in [Stream -> Seq(Nat)]
         /\ DOMAIN h.blocks = 1 .. Len(h.blocks) /\ Len(h.blocks) \in Nat
         /\ DOMAIN h.segs = 1 .. Len(h.segs) /\ Len(h.segs) \in Nat
         /\ \A i \in DOMAIN h.blocks : h.blocks[i] \in BlockRecord
         /\ \A g \in DOMAIN h.segs : h.segs[g] \in Segment
         /\ IsFiniteSet(DOMAIN h.blocks) /\ IsFiniteSet(DOMAIN h.segs)
  <1>1. /\ h.blocks \in Seq(BlockRecord) /\ h.segs \in Seq(Segment)
        /\ h.bins \in [Stream -> [Bin -> Seq(Nat)]] /\ h.pending \in [Stream -> Seq(Nat)]
    BY DEF Heap
  <1>2. /\ DOMAIN h.blocks = 1 .. Len(h.blocks) /\ Len(h.blocks) \in Nat
        /\ DOMAIN h.segs = 1 .. Len(h.segs) /\ Len(h.segs) \in Nat
    BY <1>1, LenProperties
  <1>3. /\ \A i \in DOMAIN h.blocks : h.blocks[i] \in BlockRecord
        /\ \A g \in DOMAIN h.segs : h.segs[g] \in Segment
    BY <1>1, <1>2, ElementOfSeq
  <1>4. IsFiniteSet(1 .. Len(h.blocks)) /\ IsFiniteSet(1 .. Len(h.segs))
    <2>1. PICK m \in Int : m = Len(h.blocks)
      BY <1>2
    <2>2. PICK n \in Int : n = Len(h.segs)
      BY <1>2
    <2>3. IsFiniteSet(1 .. m) /\ IsFiniteSet(1 .. n)
      BY FS_Interval
    <2> QED
      BY <2>1, <2>2, <2>3
  <1> QED
    BY <1>1, <1>2, <1>3, <1>4

(* k has the blocks of h, up to their states and sizes.                    *)
SameLinks(h, k) ==
  /\ k.segs = h.segs /\ DOMAIN k.blocks = DOMAIN h.blocks
  /\ \A i \in DOMAIN h.blocks :
       /\ k.blocks[i].seg = h.blocks[i].seg
       /\ k.blocks[i].prev = h.blocks[i].prev /\ k.blocks[i].next = h.blocks[i].next

(* Its lists name blocks of h, as those of h do.                           *)
ListsOf(h, k) ==
  /\ \A s \in Stream : \A b \in Bin : \A i \in ToSet(k.bins[s][b]) :
       i \in DOMAIN h.blocks /\ StreamOf(h, i) = s
  /\ \A s \in Stream : ToSet(k.pending[s]) \subseteq DOMAIN h.blocks

(* Every block of h is one of k, on the same stream.                       *)
Grown(h, k) ==
  /\ DOMAIN h.blocks \subseteq DOMAIN k.blocks
  /\ \A i \in DOMAIN h.blocks : StreamOf(k, i) = StreamOf(h, i)

LEMMA StaysOk ==
  ASSUME NEW h, HeapOk(h), NEW k \in Heap, SameLinks(h, k), ListsOf(h, k)
  PROVE  HeapOk(k) /\ Grown(h, k)
  <1>1. Grown(h, k)
    BY DEF Grown, SameLinks, StreamOf
  <1>2. PICK r \in [DOMAIN h.blocks -> Nat] : Ordered(h, r)
    BY DEF HeapOk, Linked
  <1>3. Ordered(k, r)
    BY <1>2 DEF Ordered, SameLinks
  <1>4. Linked(k)
    BY <1>2, <1>3 DEF Linked, SameLinks
  <1>5. Segmented(k)
    BY DEF HeapOk, Segmented, SameLinks
  <1>6. Listed(k)
    BY <1>1 DEF ListsOf, Listed, Grown, SameLinks
  <1> QED
    BY <1>1, <1>4, <1>5, <1>6 DEF HeapOk

LEMMA StaysSound ==
  ASSUME NEW h, NEW T, Sound(h, T), NEW k \in Heap, SameLinks(h, k), ListsOf(h, k),
         \A i \in DOMAIN h.blocks : k.blocks[i].size = h.blocks[i].size
  PROVE  Sound(k, T) /\ Grown(h, k)
  <1>1. HeapOk(k) /\ Grown(h, k)
    BY StaysOk DEF Sound
  <1>2. SizesOf(k) = SizesOf(h) /\ \A g : Within(k, g) = Within(h, g)
    BY DEF SizesOf, Within, SameLinks
  <1>3. Accounted(k, T)
    BY <1>2 DEF Sound, Accounted, SameLinks
  <1> QED
    BY <1>1, <1>3 DEF Sound

LEMMA AppendedElements ==
  ASSUME NEW S, NEW q \in Seq(S), NEW x \in S
  PROVE  Append(q, x) \in Seq(S) /\ ToSet(Append(q, x)) \subseteq ToSet(q) \cup {x}
  <1>1. PICK t : t = Append(q, x)
    OBVIOUS
  <1>2. /\ t \in Seq(S) /\ Len(t) = Len(q) + 1
        /\ \A j \in 1 .. Len(q) : t[j] = q[j]
        /\ t[Len(q) + 1] = x
    BY <1>1, AppendProperties
  <1>3. DOMAIN t = 1 .. Len(q) + 1 /\ DOMAIN q = 1 .. Len(q) /\ Len(q) \in Nat
    BY <1>2, LenProperties
  <1>4. \A j \in DOMAIN t : j \in DOMAIN q \/ j = Len(q) + 1
    BY <1>3
  <1> QED
    BY <1>1, <1>2, <1>3, <1>4 DEF ToSet

LEMMA TailElements ==
  ASSUME NEW S, NEW q \in Seq(S), q # <<>>
  PROVE  /\ Tail(q) \in Seq(S) /\ ToSet(Tail(q)) \subseteq ToSet(q)
         /\ Head(q) \in S /\ Head(q) \in ToSet(q)
  <1>1. PICK t : t = Tail(q)
    OBVIOUS
  <1>2. t \in Seq(S) /\ Len(t) = Len(q) - 1 /\ \A j \in 1 .. Len(t) : t[j] = q[j + 1]
    BY <1>1, HeadTailProperties
  <1>3. DOMAIN t = 1 .. Len(t) /\ DOMAIN q = 1 .. Len(q) /\ Len(q) \in Nat /\ 1 \in DOMAIN q
    BY <1>2, LenProperties, EmptySeq
  <1>4. \A j \in DOMAIN t : j + 1 \in DOMAIN q /\ t[j] = q[j + 1]
    BY <1>2, <1>3
  <1>5. Head(q) = q[1]
    OBVIOUS
  <1>6. Head(q) \in S
    BY HeadTailProperties
  <1> QED
    BY <1>1, <1>2, <1>3, <1>4, <1>5, <1>6 DEF ToSet

LEMMA Streams ==
  ASSUME NEW h, HeapOk(h), NEW i \in DOMAIN h.blocks
  PROVE  StreamOf(h, i) \in Stream
  <1>1. h.blocks[i].seg \in DOMAIN h.segs
    BY DEF HeapOk, Segmented
  <1>2. h.segs[h.blocks[i].seg] \in Segment
    BY <1>1, HeapTypes DEF HeapOk
  <1> QED
    BY <1>2 DEF StreamOf, Segment

(* The bins are filled with blocks of their streams.                       *)
LEMMA Rebinned ==
  ASSUME NEW h, NEW T, Sound(h, T), NEW k \in Heap,
         k.blocks = h.blocks, k.segs = h.segs, k.pending = h.pending,
         \A s \in Stream : \A b \in Bin : \A i \in ToSet(k.bins[s][b]) :
           i \in ToSet(h.bins[s][b]) \/ (i \in DOMAIN h.blocks /\ StreamOf(h, i) = s)
  PROVE  Sound(k, T) /\ Grown(h, k)
  <1>1. SameLinks(h, k)
    BY DEF SameLinks
  <1>2. ListsOf(h, k)
    BY DEF ListsOf, Sound, HeapOk, Listed
  <1> QED
    BY <1>1, <1>2, StaysSound

LEMMA PushBackSound ==
  ASSUME NEW h, NEW T, Sound(h, T), NEW i \in DOMAIN h.blocks, NEW k, k = PushBack(h, i)
  PROVE  /\ Sound(k, T) /\ Grown(h, k)
         /\ k.blocks = h.blocks /\ k.pending = h.pending /\ k.segs = h.segs
  <1>1. PICK s \in Stream : s = StreamOf(h, i)
    BY Streams DEF Sound
  <1>2. PICK c : c = bin_index(h.blocks[i].size)
    OBVIOUS
  <1>3. h.bins \in [Stream -> [Bin -> Seq(Nat)]] /\ i \in Nat
    BY HeapTypes DEF Sound, HeapOk
  <1>4. PICK B : B = [h.bins EXCEPT ![s][c] = Append(@, i)]
    OBVIOUS
  <1>5. \A t \in Stream, b \in Bin : /\ Append(h.bins[t][b], i) \in Seq(Nat)
          /\ ToSet(Append(h.bins[t][b], i)) \subseteq ToSet(h.bins[t][b]) \cup {i}
    <2> TAKE t \in Stream, b \in Bin
    <2>1. PICK q \in Seq(Nat) : q = h.bins[t][b]
      BY <1>3
    <2>2. Append(q, i) \in Seq(Nat) /\ ToSet(Append(q, i)) \subseteq ToSet(q) \cup {i}
      BY <1>3, AppendedElements
    <2> QED
      BY <2>1, <2>2
  <1>6. \A t \in Stream, b \in Bin :
          B[t][b] = IF t = s /\ b = c THEN Append(h.bins[t][b], i) ELSE h.bins[t][b]
    BY <1>3, <1>4
  <1>7. B \in [Stream -> [Bin -> Seq(Nat)]]
    BY <1>3, <1>4, <1>5
  <1>8. \A t \in Stream : \A b \in Bin : \A j \in ToSet(B[t][b]) :
          j \in ToSet(h.bins[t][b]) \/ (j \in DOMAIN h.blocks /\ StreamOf(h, j) = t)
    BY <1>1, <1>5, <1>6
  <1>9. h \in Heap
    BY DEF Sound, HeapOk
  <1>10. /\ k \in Heap /\ k.bins = B
         /\ k.blocks = h.blocks /\ k.segs = h.segs /\ k.pending = h.pending
    BY <1>1, <1>2, <1>4, <1>7, <1>9 DEF PushBack, Heap
  <1> QED
    BY <1>8, <1>10, Rebinned

LEMMA UnbinSound ==
  ASSUME NEW h, NEW T, Sound(h, T), NEW i \in DOMAIN h.blocks, NEW k, k = Unbin(h, i)
  PROVE  /\ Sound(k, T) /\ Grown(h, k)
         /\ k.blocks = h.blocks /\ k.pending = h.pending /\ k.segs = h.segs
  <1>1. PICK s \in Stream : s = StreamOf(h, i)
    BY Streams DEF Sound
  <1>2. h.bins \in [Stream -> [Bin -> Seq(Nat)]] /\ h \in Heap
    BY HeapTypes DEF Sound, HeapOk
  <1> DEFINE Without(q) == IF i \in ToSet(q) THEN RemoveFirst(q, i) ELSE q
  <1>3. PICK B : B = [h.bins EXCEPT ![s] = [b \in Bin |-> Without(@[b])]]
    OBVIOUS
  <1>4. \A t \in Stream, b \in Bin : /\ Without(h.bins[t][b]) \in Seq(Nat)
          /\ ToSet(Without(h.bins[t][b])) \subseteq ToSet(h.bins[t][b])
    <2> TAKE t \in Stream, b \in Bin
    <2>1. PICK q \in Seq(Nat) : q = h.bins[t][b]
      BY <1>2
    <2>2. Without(q) \in Seq(Nat) /\ ToSet(Without(q)) \subseteq ToSet(q)
      BY RemovedFirst, RemovedElements
    <2> QED
      BY <2>1, <2>2
  <1>5. \A t \in Stream, b \in Bin :
          B[t][b] = IF t = s THEN Without(h.bins[t][b]) ELSE h.bins[t][b]
    BY <1>2, <1>3
  <1>6. B \in [Stream -> [Bin -> Seq(Nat)]]
    BY <1>2, <1>3, <1>4
  <1>7. \A t \in Stream : \A b \in Bin : \A j \in ToSet(B[t][b]) : j \in ToSet(h.bins[t][b])
    BY <1>4, <1>5
  <1>8. k = [h EXCEPT !.bins = B]
    BY <1>1, <1>2, <1>3 DEF Unbin, Heap
  <1>9. /\ k \in Heap /\ k.bins = B
        /\ k.blocks = h.blocks /\ k.segs = h.segs /\ k.pending = h.pending
    BY <1>2, <1>6, <1>8 DEF Heap
  <1> QED
    BY <1>7, <1>9, Rebinned

(* Merging two neighbours moves the size of one to the other.              *)
LEMMA AbsorbSound ==
  ASSUME NEW h, NEW T, Sound(h, T), NEW a \in DOMAIN h.blocks, NEW b \in DOMAIN h.blocks,
         h.blocks[a].next = b \/ h.blocks[b].prev = a, NEW k, k = Absorb(h, a, b)
  PROVE  /\ Sound(k, T) /\ Grown(h, k) /\ k.pending = h.pending /\ k.segs = h.segs
         /\ DOMAIN k.blocks = DOMAIN h.blocks
         /\ \A i \in DOMAIN h.blocks : k.blocks[i].st = h.blocks[i].st /\ k.blocks[i].rec = h.blocks[i].rec
  <1>1. /\ h \in Heap /\ DOMAIN h.blocks = 1 .. Len(h.blocks) /\ Len(h.blocks) \in Nat
        /\ \A i \in DOMAIN h.blocks : h.blocks[i] \in BlockRecord
        /\ IsFiniteSet(DOMAIN h.blocks)
    BY HeapTypes DEF Sound, HeapOk
  <1>2. PICK r \in [DOMAIN h.blocks -> Nat] : Ordered(h, r)
    BY DEF Sound, HeapOk, Linked
  <1>3. PICK x \in Nat : x = h.blocks[b].next
    BY <1>1 DEF BlockRecord
  <1>4. h.blocks[a].seg = h.blocks[b].seg /\ r[a] < r[b]
    BY <1>1, <1>2 DEF Ordered, None
  <1>5. x # None => x \in DOMAIN h.blocks /\ h.blocks[x].seg = h.blocks[b].seg /\ r[b] < r[x]
    BY <1>2, <1>3 DEF Ordered
  <1>6. a # b
    BY <1>2, <1>4
  <1>7. PICK C : C = [i \in DOMAIN h.blocks |->
          Block(h.blocks[i].addr,
                IF i = b THEN 0 ELSE IF i = a THEN h.blocks[i].size + h.blocks[b].size ELSE h.blocks[i].size,
                h.blocks[i].seg,
                IF i = x THEN a ELSE h.blocks[i].prev,
                IF i = a THEN x ELSE h.blocks[i].next,
                h.blocks[i].st, h.blocks[i].rec)]
    OBVIOUS
  <1>8. ASSUME NEW i \in DOMAIN h.blocks
        PROVE  /\ C[i] \in BlockRecord
               /\ C[i].size = IF i = b THEN 0 ELSE IF i = a THEN h.blocks[a].size + h.blocks[b].size ELSE h.blocks[i].size
               /\ C[i].next = IF i = a THEN x ELSE h.blocks[i].next
               /\ C[i].prev = IF i = x THEN a ELSE h.blocks[i].prev
               /\ C[i].seg = h.blocks[i].seg /\ C[i].st = h.blocks[i].st /\ C[i].rec = h.blocks[i].rec
    <2>1. h.blocks[i] \in BlockRecord /\ h.blocks[b] \in BlockRecord /\ a \in Nat
      BY <1>1
    <2>2. PICK c : c = h.blocks[i]
      OBVIOUS
    <2>3. PICK n : n = IF i = b THEN 0 ELSE IF i = a THEN c.size + h.blocks[b].size ELSE c.size
      OBVIOUS
    <2>4. PICK p : p = IF i = x THEN a ELSE c.prev
      OBVIOUS
    <2>5. PICK y : y = IF i = a THEN x ELSE c.next
      OBVIOUS
    <2>6. c.size \in Nat /\ h.blocks[b].size \in Nat /\ c.prev \in Nat /\ c.next \in Nat
      BY <2>1, <2>2 DEF BlockRecord
    <2>7. n \in Nat /\ p \in Nat /\ y \in Nat
      BY <1>3, <2>1, <2>3, <2>4, <2>5, <2>6
    <2>8. C[i] = Block(c.addr, n, c.seg, p, y, c.st, c.rec)
      BY <1>7, <2>2, <2>3, <2>4, <2>5
    <2>9. /\ C[i] \in BlockRecord /\ C[i].size = n /\ C[i].next = y /\ C[i].prev = p
          /\ C[i].seg = c.seg /\ C[i].st = c.st /\ C[i].rec = c.rec
      BY <2>1, <2>2, <2>7, <2>8 DEF BlockRecord, Block
    <2> QED
      BY <2>2, <2>3, <2>4, <2>5, <2>9
  <1>9. C \in Seq(BlockRecord) /\ DOMAIN C = DOMAIN h.blocks
    <2>1. DOMAIN C = 1 .. Len(h.blocks) /\ Len(h.blocks) \in Nat
      BY <1>1, <1>7
    <2>2. C \in [1 .. Len(h.blocks) -> BlockRecord]
      <3>1. C = [i \in DOMAIN C |-> C[i]]
        BY <1>7
      <3> QED
        BY <1>1, <1>8, <2>1, <3>1
    <2> QED
      BY <1>1, <2>1, <2>2, SeqDef
  <1>10. PICK g : g = [h EXCEPT !.blocks = C]
    OBVIOUS
  <1>11. g \in Heap /\ g.blocks = C /\ g.segs = h.segs /\ g.bins = h.bins /\ g.pending = h.pending
    BY <1>1, <1>9, <1>10 DEF Heap
  <1>12. Grown(h, g)
    BY <1>8, <1>9, <1>11 DEF Grown, StreamOf
  <1>13. Ordered(g, r)
    <2> SUFFICES ASSUME NEW i \in DOMAIN h.blocks
                 PROVE  /\ C[i].next # None => /\ C[i].next \in DOMAIN h.blocks
                             /\ C[C[i].next].seg = C[i].seg /\ r[i] < r[C[i].next]
                        /\ C[i].prev # None => /\ C[i].prev \in DOMAIN h.blocks
                             /\ C[C[i].prev].seg = C[i].seg /\ r[C[i].prev] < r[i]
      BY <1>9, <1>11 DEF Ordered
    <2>1. /\ h.blocks[i].next # None => /\ h.blocks[i].next \in DOMAIN h.blocks
             /\ h.blocks[h.blocks[i].next].seg = h.blocks[i].seg /\ r[i] < r[h.blocks[i].next]
          /\ h.blocks[i].prev # None => /\ h.blocks[i].prev \in DOMAIN h.blocks
             /\ h.blocks[h.blocks[i].prev].seg = h.blocks[i].seg /\ r[h.blocks[i].prev] < r[i]
      BY <1>2 DEF Ordered
    <2>2. x # None => r[a] < r[x]
      <3>1. r[a] \in Nat /\ r[b] \in Nat
        BY <1>2
      <3>2. x \in DOMAIN h.blocks => r[x] \in Nat
        BY <1>2
      <3> QED
        BY <1>4, <1>5, <3>1, <3>2
    <2>3. C[i].next # None => /\ C[i].next \in DOMAIN h.blocks
             /\ C[C[i].next].seg = C[i].seg /\ r[i] < r[C[i].next]
      <3>1. CASE i = a
        BY <1>4, <1>5, <1>8, <2>2, <3>1
      <3>2. CASE i # a
        BY <1>8, <2>1, <3>2
      <3> QED
        BY <3>1, <3>2
    <2>4. C[i].prev # None => /\ C[i].prev \in DOMAIN h.blocks
             /\ C[C[i].prev].seg = C[i].seg /\ r[C[i].prev] < r[i]
      <3>1. CASE i = x
        <4>1. x # None
          BY <1>1, <3>1 DEF None
        <4> QED
          BY <1>4, <1>5, <1>8, <2>2, <3>1, <4>1
      <3>2. CASE i # x
        BY <1>8, <2>1, <3>2
      <3> QED
        BY <3>1, <3>2
    <2> QED
      BY <2>3, <2>4
  <1>14. HeapOk(g)
    <2>1. Linked(g)
      BY <1>2, <1>9, <1>11, <1>13 DEF Linked
    <2>2. Segmented(g)
      <3>1. \A i \in DOMAIN h.blocks : C[i].seg = h.blocks[i].seg
        BY <1>8
      <3>2. Segmented(h)
        BY DEF Sound, HeapOk
      <3> QED
        BY <1>9, <1>11, <3>1, <3>2 DEF Segmented
    <2>3. Listed(g)
      BY <1>9, <1>11, <1>12 DEF Grown, Sound, HeapOk, Listed
    <2> QED
      BY <1>11, <2>1, <2>2, <2>3 DEF HeapOk
  <1>15. \A j : Within(g, j) = Within(h, j)
    BY <1>8, <1>9, <1>11 DEF Within
  <1>16. ASSUME NEW i \in DOMAIN h.blocks
         PROVE  /\ SizesOf(h)[i] = h.blocks[i].size /\ SizesOf(h)[i] \in Int
                /\ SizesOf(g)[i] = C[i].size /\ SizesOf(g)[i] \in Int
    <2>1. h.blocks[i] \in BlockRecord /\ C[i] \in BlockRecord
      BY <1>1, <1>8
    <2> QED
      BY <1>9, <1>11, <2>1 DEF SizesOf, BlockRecord
  <1>17. ASSUME NEW j \in DOMAIN h.segs
         PROVE  SumFunctionOnSet(SizesOf(g), Within(g, j)) = SumFunctionOnSet(SizesOf(h), Within(h, j))
    <2>1. PICK S : S = Within(h, j)
      OBVIOUS
    <2>2. S \subseteq DOMAIN h.blocks /\ (a \in S <=> b \in S) /\ IsFiniteSet(S)
      BY <1>1, <1>4, <2>1, FS_Subset DEF Within
    <2>3. \A i \in S \ {a, b} : SizesOf(h)[i] = SizesOf(g)[i]
      BY <1>8, <1>16, <2>2
    <2>4. \A i \in S : SizesOf(h)[i] \in Int /\ SizesOf(g)[i] \in Int
      BY <1>16, <2>2
    <2>5. SizesOf(h)[a] + SizesOf(h)[b] = SizesOf(g)[a] + SizesOf(g)[b]
      BY <1>6, <1>8, <1>16
    <2>6. CASE a \in S
      <3>1. PICK e : e = SizesOf(h)
        OBVIOUS
      <3>2. PICK f : f = SizesOf(g)
        OBVIOUS
      <3>3. SumFunctionOnSet(e, S) = SumFunctionOnSet(f, S)
        BY <1>6, <2>2, <2>3, <2>4, <2>5, <2>6, <3>1, <3>2, SumTransfer
      <3> QED
        BY <1>15, <2>1, <3>1, <3>2, <3>3
    <2>7. CASE a \notin S
      <3>1. \A i \in S : SizesOf(g)[i] = SizesOf(h)[i]
        BY <2>2, <2>3, <2>7
      <3> QED
        BY <1>15, <2>1, <2>2, <3>1, SumAgrees
    <2> QED
      BY <2>6, <2>7
  <1>18. Accounted(g, T)
    <2>1. \A i \in DOMAIN g.blocks : g.blocks[i].seg \in T => g.blocks[i].size = 0
      BY <1>4, <1>8, <1>9, <1>11 DEF Sound, Accounted
    <2> QED
      BY <1>11, <1>17, <2>1 DEF Sound, Accounted
  <1>19. Sound(g, T) /\ b \in DOMAIN g.blocks
    BY <1>9, <1>11, <1>14, <1>18 DEF Sound
  <1>20. k = Unbin(g, b)
    BY <1>3, <1>7, <1>10 DEF Absorb
  <1>21. /\ Sound(k, T) /\ Grown(g, k)
         /\ k.blocks = g.blocks /\ k.pending = g.pending /\ k.segs = g.segs
    BY <1>19, <1>20, UnbinSound
  <1>22. Grown(h, k)
    BY <1>9, <1>11, <1>12, <1>21 DEF Grown
  <1> QED
    BY <1>8, <1>9, <1>11, <1>21, <1>22

(* One block changes state, and blocks are put on pending lists.           *)
LEMMA Restated ==
  ASSUME NEW h, NEW T, Sound(h, T), NEW i \in DOMAIN h.blocks, NEW c \in BlockRecord,
         c.seg = h.blocks[i].seg, c.size = h.blocks[i].size,
         c.prev = h.blocks[i].prev, c.next = h.blocks[i].next,
         NEW k \in Heap, k.blocks = [h.blocks EXCEPT ![i] = c], k.segs = h.segs, k.bins = h.bins,
         \A s \in Stream : ToSet(k.pending[s]) \subseteq DOMAIN h.blocks
  PROVE  Sound(k, T) /\ Grown(h, k)
  <1>1. /\ DOMAIN k.blocks = DOMAIN h.blocks
        /\ \A j \in DOMAIN h.blocks : k.blocks[j] = IF j = i THEN c ELSE h.blocks[j]
    OBVIOUS
  <1>2. SameLinks(h, k)
    BY <1>1 DEF SameLinks
  <1>3. ListsOf(h, k)
    BY DEF ListsOf, Sound, HeapOk, Listed
  <1>4. \A j \in DOMAIN h.blocks : k.blocks[j].size = h.blocks[j].size
    BY <1>1
  <1> QED
    BY <1>2, <1>3, <1>4, StaysSound

LEMMA MarkSound ==
  ASSUME NEW h, NEW T, Sound(h, T), NEW i \in DOMAIN h.blocks,
         NEW st \in {"free", "inuse", "pending"}, NEW q \in Seq(Stream),
         NEW k, k = Mark(h, i, st, q)
  PROVE  /\ Sound(k, T) /\ Grown(h, k) /\ DOMAIN k.blocks = DOMAIN h.blocks
         /\ \A j \in DOMAIN h.blocks \ {i} : k.blocks[j] = h.blocks[j]
         /\ k.blocks[i].st = st /\ k.blocks[i].rec = q
         /\ k.blocks[i].addr = h.blocks[i].addr /\ k.blocks[i].size = h.blocks[i].size
         /\ k.pending = h.pending /\ k.segs = h.segs
  <1>1. /\ h.blocks \in Seq(BlockRecord) /\ h.blocks[i] \in BlockRecord /\ h \in Heap
        /\ DOMAIN h.blocks = 1 .. Len(h.blocks) /\ Len(h.blocks) \in Nat
    BY HeapTypes DEF Sound, HeapOk
  <1>2. PICK b \in BlockRecord : b = h.blocks[i]
    BY <1>1
  <1>3. PICK c : c = [b EXCEPT !.st = st, !.rec = q]
    OBVIOUS
  <1>4. /\ c \in BlockRecord /\ c.st = st /\ c.rec = q /\ c.addr = b.addr
        /\ c.seg = b.seg /\ c.size = b.size /\ c.prev = b.prev /\ c.next = b.next
    BY <1>3 DEF BlockRecord
  <1>5. PICK K : K = [h.blocks EXCEPT ![i] = c]
    OBVIOUS
  <1>6. k = [h EXCEPT !.blocks = K]
    <2>1. k = [h EXCEPT !.blocks[i] = [h.blocks[i] EXCEPT !.st = st, !.rec = q]]
      BY Zenon DEF Mark
    <2>2. k = [h EXCEPT !.blocks[i] = c]
      BY <1>2, <1>3, <2>1, Zenon
    <2> QED
      BY <1>1, <1>5, <2>2 DEF Heap
  <1>7. /\ DOMAIN K = DOMAIN h.blocks /\ K[i] = c
        /\ \A j \in DOMAIN h.blocks \ {i} : K[j] = h.blocks[j]
    BY <1>5
  <1>8. K \in Seq(BlockRecord)
    <2>1. \A j \in 1 .. Len(h.blocks) : h.blocks[j] \in BlockRecord
      BY <1>1, HeapTypes
    <2>2. K \in [1 .. Len(h.blocks) -> BlockRecord]
      BY <1>1, <1>4, <1>5, <2>1
    <2> QED
      BY <1>1, <2>2, SeqDef
  <1>9. /\ k.blocks = K /\ k.segs = h.segs /\ k.bins = h.bins /\ k.pending = h.pending
        /\ k \in Heap
    BY <1>1, <1>6, <1>8 DEF Heap
  <1>10. \A s \in Stream : ToSet(k.pending[s]) \subseteq DOMAIN h.blocks
    BY <1>9 DEF Sound, HeapOk, Listed
  <1>11. Sound(k, T) /\ Grown(h, k)
    BY <1>2, <1>4, <1>5, <1>9, <1>10, Restated
  <1> QED
    BY <1>2, <1>4, <1>7, <1>9, <1>11

LEMMA UseSound ==
  ASSUME NEW h, NEW T, Sound(h, T), NEW i \in DOMAIN h.blocks, NEW k, k = Use(h, i)
  PROVE  /\ Sound(k, T) /\ Grown(h, k) /\ DOMAIN k.blocks = DOMAIN h.blocks
         /\ \A j \in DOMAIN h.blocks \ {i} : k.blocks[j] = h.blocks[j]
         /\ k.blocks[i].st = "inuse" /\ k.pending = h.pending /\ k.segs = h.segs
  <1>0. <<>> \in Seq(Stream)
    OBVIOUS
  <1>1. PICK e \in Seq(Stream) : e = <<>>
    BY <1>0
  <1>2. PICK u \in {"free", "inuse", "pending"} : u = "inuse"
    OBVIOUS
  <1>3. k = Mark(h, i, u, e)
    BY <1>1, <1>2 DEF Use
  <1>4. /\ Sound(k, T) /\ Grown(h, k) /\ DOMAIN k.blocks = DOMAIN h.blocks
        /\ \A j \in DOMAIN h.blocks \ {i} : k.blocks[j] = h.blocks[j]
        /\ k.blocks[i].st = u /\ k.pending = h.pending /\ k.segs = h.segs
    BY <1>3, MarkSound
  <1> QED
    BY <1>2, <1>4

(* The pending lists change, and name blocks still.                        *)
LEMMA Relisted ==
  ASSUME NEW h, NEW T, Sound(h, T), NEW P \in [Stream -> Seq(Nat)],
         \A s \in Stream : ToSet(P[s]) \subseteq DOMAIN h.blocks,
         NEW k, k = [h EXCEPT !.pending = P]
  PROVE  /\ Sound(k, T) /\ Grown(h, k)
         /\ k.blocks = h.blocks /\ k.pending = P /\ k.segs = h.segs
  <1>1. h \in Heap
    BY DEF Sound, HeapOk
  <1>2. /\ k.blocks = h.blocks /\ k.segs = h.segs /\ k.bins = h.bins /\ k.pending = P
        /\ k \in Heap
    BY <1>1 DEF Heap
  <1>3. SameLinks(h, k)
    BY <1>2 DEF SameLinks
  <1>4. ListsOf(h, k)
    BY <1>2 DEF ListsOf, Sound, HeapOk, Listed
  <1> QED
    BY <1>2, <1>3, <1>4, StaysSound

LEMMA DeferSound ==
  ASSUME NEW h, NEW T, Sound(h, T), NEW i \in DOMAIN h.blocks, NEW k, k = Defer(h, i)
  PROVE  /\ Sound(k, T) /\ Grown(h, k) /\ DOMAIN k.blocks = DOMAIN h.blocks /\ k.segs = h.segs
         /\ \A j \in DOMAIN h.blocks \ {i} : k.blocks[j] = h.blocks[j]
         /\ k.blocks[i].st = "pending" /\ k.blocks[i].rec = h.blocks[i].rec
         /\ \A s \in Stream : \A j : Count(h.pending[s], j) <= Count(k.pending[s], j)
         /\ \A s \in Stream : Count(h.blocks[i].rec, s) <= Count(k.pending[s], i)
  <1>1. /\ h.blocks[i] \in BlockRecord /\ h.pending \in [Stream -> Seq(Nat)] /\ i \in Nat
    BY HeapTypes DEF Sound, HeapOk
  <1>2. PICK q \in Seq(Stream) : q = h.blocks[i].rec
    BY <1>1 DEF BlockRecord
  <1>3. PICK g : g = Mark(h, i, "pending", q)
    OBVIOUS
  <1>4. /\ Sound(g, T) /\ Grown(h, g) /\ DOMAIN g.blocks = DOMAIN h.blocks
        /\ \A j \in DOMAIN h.blocks \ {i} : g.blocks[j] = h.blocks[j]
        /\ g.blocks[i].st = "pending" /\ g.blocks[i].rec = q
        /\ g.pending = h.pending /\ g.segs = h.segs
    BY <1>3, MarkSound
  <1>5. PICK P : P = [s \in Stream |-> h.pending[s] \o [j \in 1 .. Count(q, s) |-> i]]
    OBVIOUS
  <1>6. k = [g EXCEPT !.pending = P]
    BY <1>2, <1>3, <1>5, Zenon DEF Defer
  <1>7. ASSUME NEW s \in Stream
        PROVE  /\ P[s] \in Seq(Nat) /\ ToSet(P[s]) \subseteq ToSet(h.pending[s]) \cup {i}
               /\ Count(q, s) <= Count(P[s], i)
               /\ \A j : Count(h.pending[s], j) <= Count(P[s], j)
    <2>1. PICK n \in Nat : n = Count(q, s)
      BY <1>2, CountType
    <2>2. PICK p \in Seq(Nat) : p = h.pending[s]
      BY <1>1
    <2>3. P[s] = p \o [j \in 1 .. n |-> i]
      BY <1>5, <2>1, <2>2
    <2>4. /\ P[s] \in Seq(Nat) /\ ToSet(P[s]) \subseteq ToSet(p) \cup {i}
          /\ n <= Count(P[s], i) /\ \A j : Count(p, j) <= Count(P[s], j)
      <3>1. PICK t : t = P[s]
        OBVIOUS
      <3>2. PICK e : e = [j \in 1 .. n |-> i]
        OBVIOUS
      <3>3. i \in Nat
        BY <1>1
      <3>4. e \in Seq(Nat) /\ Len(e) = n /\ \A j \in 1 .. n : e[j] = i
        BY <3>2, <3>3
      <3>5. t = p \o e
        BY <2>3, <3>1, <3>2
      <3>6. /\ t \in Seq(Nat) /\ ToSet(t) \subseteq ToSet(p) \cup {i}
            /\ n <= Count(t, i) /\ \A j : Count(p, j) <= Count(t, j)
        BY <1>1, <3>3, <3>4, <3>5, CountExtended
      <3> QED
        BY <3>1, <3>6
    <2> QED
      BY <2>1, <2>2, <2>4
  <1>8. P \in [Stream -> Seq(Nat)]
    BY <1>5, <1>7
  <1>9. \A s \in Stream : ToSet(P[s]) \subseteq DOMAIN g.blocks
    <2>1. \A s \in Stream : ToSet(h.pending[s]) \subseteq DOMAIN h.blocks
      BY DEF Sound, HeapOk, Listed
    <2> QED
      BY <1>4, <1>7, <2>1
  <1>10. /\ Sound(k, T) /\ Grown(g, k)
         /\ k.blocks = g.blocks /\ k.pending = P /\ k.segs = g.segs
    BY <1>4, <1>6, <1>8, <1>9, Relisted
  <1>11. Grown(h, k)
    BY <1>4, <1>10 DEF Grown
  <1> QED
    BY <1>2, <1>4, <1>7, <1>10, <1>11

(* Splitting a block divides its size between it and a new one.            *)
LEMMA SplitSound ==
  ASSUME NEW h, NEW T, Sound(h, T), NEW i \in DOMAIN h.blocks, NEW n \in Nat,
         n < h.blocks[i].size, NEW k, k = Len(h.blocks) + 1, NEW g, g = Split(h, i, n)
  PROVE  /\ Sound(g, T) /\ Grown(h, g) /\ g.pending = h.pending /\ g.segs = h.segs
         /\ DOMAIN g.blocks = 1 .. k /\ k \notin DOMAIN h.blocks
         /\ g.blocks[k].st = "free"
         /\ \A j \in DOMAIN h.blocks : g.blocks[j].st = h.blocks[j].st /\ g.blocks[j].rec = h.blocks[j].rec
  <1>1. /\ h \in Heap /\ DOMAIN h.blocks = 1 .. Len(h.blocks) /\ Len(h.blocks) \in Nat
        /\ \A j \in DOMAIN h.blocks : h.blocks[j] \in BlockRecord
        /\ IsFiniteSet(DOMAIN h.blocks)
    BY HeapTypes DEF Sound, HeapOk
  <1>2. PICK r \in [DOMAIN h.blocks -> Nat] : Ordered(h, r)
    BY DEF Sound, HeapOk, Linked
  <1>3. PICK x \in Nat : x = h.blocks[i].next
    BY <1>1 DEF BlockRecord
  <1>4. x # None => x \in DOMAIN h.blocks /\ h.blocks[x].seg = h.blocks[i].seg /\ r[i] < r[x]
    BY <1>2, <1>3 DEF Ordered
  <1>5. /\ k \in Nat /\ k \notin DOMAIN h.blocks /\ 1 .. k = DOMAIN h.blocks \cup {k}
        /\ k # None /\ i # k /\ x # k
    BY <1>1, <1>4 DEF None
  <1>6. PICK C : C = [j \in 1 .. k |->
          IF j = k THEN Block(h.blocks[i].addr + n, h.blocks[i].size - n, h.blocks[i].seg, i, x, "free", <<>>)
          ELSE Block(h.blocks[j].addr,
                     IF j = i THEN n ELSE h.blocks[j].size,
                     h.blocks[j].seg,
                     IF j = x THEN k ELSE h.blocks[j].prev,
                     IF j = i THEN k ELSE h.blocks[j].next,
                     h.blocks[j].st, h.blocks[j].rec)]
    OBVIOUS
  <1>7. ASSUME NEW j \in DOMAIN h.blocks
        PROVE  /\ C[j] \in BlockRecord
               /\ C[j].size = IF j = i THEN n ELSE h.blocks[j].size
               /\ C[j].next = IF j = i THEN k ELSE h.blocks[j].next
               /\ C[j].prev = IF j = x THEN k ELSE h.blocks[j].prev
               /\ C[j].seg = h.blocks[j].seg /\ C[j].st = h.blocks[j].st /\ C[j].rec = h.blocks[j].rec
    <2>1. PICK c \in BlockRecord : c = h.blocks[j]
      BY <1>1
    <2>2. PICK m : m = IF j = i THEN n ELSE c.size
      OBVIOUS
    <2>3. PICK p : p = IF j = x THEN k ELSE c.prev
      OBVIOUS
    <2>4. PICK y : y = IF j = i THEN k ELSE c.next
      OBVIOUS
    <2>5. c.size \in Nat /\ c.prev \in Nat /\ c.next \in Nat
      BY DEF BlockRecord
    <2>6. m \in Nat /\ p \in Nat /\ y \in Nat
      BY <1>5, <2>2, <2>3, <2>4, <2>5
    <2>7. j \in 1 .. k /\ j # k
      BY <1>5
    <2>8. C[j] = Block(c.addr, m, c.seg, p, y, c.st, c.rec)
      BY <1>6, <2>1, <2>2, <2>3, <2>4, <2>7
    <2>9. /\ C[j] \in BlockRecord /\ C[j].size = m /\ C[j].next = y /\ C[j].prev = p
          /\ C[j].seg = c.seg /\ C[j].st = c.st /\ C[j].rec = c.rec
      BY <2>6, <2>8 DEF BlockRecord, Block
    <2> QED
      BY <2>1, <2>2, <2>3, <2>4, <2>9
  <1>8. /\ C[k] \in BlockRecord /\ C[k].size = h.blocks[i].size - n /\ C[k].next = x
        /\ C[k].prev = i /\ C[k].seg = h.blocks[i].seg /\ C[k].st = "free"
    <2>1. PICK c \in BlockRecord : c = h.blocks[i]
      BY <1>1
    <2>2. PICK m : m = c.size - n
      OBVIOUS
    <2>3. PICK a : a = c.addr + n
      OBVIOUS
    <2>4. c.size \in Nat /\ c.addr \in Nat /\ n < c.size
      BY <2>1 DEF BlockRecord
    <2>5. m \in Nat /\ a \in Nat /\ i \in Nat
      <3>1. PICK z \in Nat : z = c.size
        BY <2>4
      <3>2. PICK y \in Nat : y = c.addr
        BY <2>4
      <3>3. m = z - n /\ n < z /\ a = y + n
        BY <2>2, <2>3, <2>4, <3>1, <3>2
      <3>4. m \in Nat /\ a \in Nat
        BY <3>3
      <3>5. i \in Nat
        BY <1>1
      <3> QED
        BY <3>4, <3>5
    <2>6. k \in 1 .. k
      BY <1>5
    <2>7. C[k] = Block(a, m, c.seg, i, x, "free", <<>>)
      BY <1>6, <2>1, <2>2, <2>3, <2>6
    <2>8. /\ C[k] \in BlockRecord /\ C[k].size = m /\ C[k].next = x /\ C[k].prev = i
          /\ C[k].seg = c.seg /\ C[k].st = "free"
      BY <2>5, <2>7 DEF BlockRecord, Block
    <2> QED
      BY <2>1, <2>2, <2>8
  <1>9. C \in Seq(BlockRecord) /\ DOMAIN C = 1 .. k
    <2>1. DOMAIN C = 1 .. k
      BY <1>6
    <2>2. C \in [1 .. k -> BlockRecord]
      <3>1. C = [j \in DOMAIN C |-> C[j]]
        BY <1>6
      <3>2. \A j \in 1 .. k : C[j] \in BlockRecord
        BY <1>5, <1>7, <1>8
      <3> QED
        BY <2>1, <3>1, <3>2
    <2> QED
      BY <1>5, <2>1, <2>2, SeqDef
  <1>10. g = [h EXCEPT !.blocks = C]
    BY <1>3, <1>6, Zenon DEF Split
  <1>11. g \in Heap /\ g.blocks = C /\ g.segs = h.segs /\ g.bins = h.bins /\ g.pending = h.pending
    BY <1>1, <1>9, <1>10 DEF Heap
  <1>12. Grown(h, g)
    BY <1>5, <1>7, <1>9, <1>11 DEF Grown, StreamOf
  <1>13. PICK R : R = [j \in 1 .. k |-> IF j = k THEN 2 * r[i] + 1 ELSE 2 * r[j]]
    OBVIOUS
  <1>14. /\ R \in [1 .. k -> Nat] /\ R[k] = 2 * r[i] + 1
         /\ \A j \in DOMAIN h.blocks : R[j] = 2 * r[j]
    <2>1. \A j \in DOMAIN h.blocks : r[j] \in Nat
      BY <1>2
    <2>2. \A j \in 1 .. k : (IF j = k THEN 2 * r[i] + 1 ELSE 2 * r[j]) \in Nat
      BY <1>5, <2>1
    <2> QED
      BY <1>5, <1>13, <2>2
  <1>15. ASSUME NEW a \in DOMAIN h.blocks, NEW b \in DOMAIN h.blocks, r[a] < r[b]
         PROVE  R[a] < R[b]
    <2>1. r[a] \in Nat /\ r[b] \in Nat
      BY <1>2
    <2> QED
      BY <1>14, <1>15, <2>1
  <1>16. R[i] < R[k] /\ (x # None => R[k] < R[x])
    <2>1. r[i] \in Nat /\ (x # None => r[x] \in Nat)
      BY <1>2, <1>4
    <2> QED
      BY <1>4, <1>14, <2>1
  <1>17. Ordered(g, R)
    <2> SUFFICES ASSUME NEW j \in 1 .. k
                 PROVE  /\ C[j].next # None => /\ C[j].next \in 1 .. k
                             /\ C[C[j].next].seg = C[j].seg /\ R[j] < R[C[j].next]
                        /\ C[j].prev # None => /\ C[j].prev \in 1 .. k
                             /\ C[C[j].prev].seg = C[j].seg /\ R[C[j].prev] < R[j]
      BY <1>9, <1>11 DEF Ordered
    <2>1. CASE j = k
      <3>1. x # None => C[x].seg = h.blocks[i].seg
        BY <1>4, <1>7
      <3>2. C[i].seg = h.blocks[i].seg
        BY <1>7
      <3> QED
        BY <1>4, <1>5, <1>8, <1>16, <2>1, <3>1, <3>2
    <2>2. CASE j \in DOMAIN h.blocks
      <3>1. /\ h.blocks[j].next # None => /\ h.blocks[j].next \in DOMAIN h.blocks
               /\ h.blocks[h.blocks[j].next].seg = h.blocks[j].seg /\ r[j] < r[h.blocks[j].next]
            /\ h.blocks[j].prev # None => /\ h.blocks[j].prev \in DOMAIN h.blocks
               /\ h.blocks[h.blocks[j].prev].seg = h.blocks[j].seg /\ r[h.blocks[j].prev] < r[j]
        BY <1>2, <2>2 DEF Ordered
      <3>2. C[j].next # None => /\ C[j].next \in 1 .. k
               /\ C[C[j].next].seg = C[j].seg /\ R[j] < R[C[j].next]
        <4>1. CASE j = i
          BY <1>5, <1>7, <1>8, <1>16, <4>1
        <4>2. CASE j # i
          BY <1>5, <1>7, <1>15, <2>2, <3>1, <4>2, SMTT(30)
        <4> QED
          BY <4>1, <4>2
      <3>3. C[j].prev # None => /\ C[j].prev \in 1 .. k
               /\ C[C[j].prev].seg = C[j].seg /\ R[C[j].prev] < R[j]
        <4>1. CASE j = x
          <5>1. x # None
            BY <1>1, <2>2, <4>1 DEF None
          <5> QED
            BY <1>4, <1>5, <1>7, <1>8, <1>16, <2>2, <4>1, <5>1, SMTT(30)
        <4>2. CASE j # x
          <5>1. PICK p : p = h.blocks[j].prev
            OBVIOUS
          <5>2. C[j].prev = p /\ C[j].seg = h.blocks[j].seg
            BY <1>7, <2>2, <4>2, <5>1
          <5>3. CASE p # None
            <6>1. p \in DOMAIN h.blocks /\ h.blocks[p].seg = h.blocks[j].seg /\ r[p] < r[j]
              BY <3>1, <5>1, <5>3
            <6>2. C[p].seg = h.blocks[p].seg /\ R[p] < R[j] /\ p \in 1 .. k
              BY <1>5, <1>7, <1>15, <2>2, <6>1
            <6> QED
              BY <5>2, <6>1, <6>2
          <5> QED
            BY <5>2, <5>3
        <4> QED
          BY <4>1, <4>2
      <3> QED
        BY <3>2, <3>3
    <2> QED
      BY <1>5, <2>1, <2>2
  <1>18. HeapOk(g)
    <2>1. Linked(g)
      BY <1>9, <1>11, <1>14, <1>17 DEF Linked
    <2>2. Segmented(g)
      <3>1. \A j \in DOMAIN h.blocks : C[j].seg = h.blocks[j].seg
        BY <1>7
      <3>2. Segmented(h)
        BY DEF Sound, HeapOk
      <3>3. \A j \in 1 .. k : C[j].seg \in DOMAIN h.segs
        BY <1>5, <1>8, <3>1, <3>2 DEF Segmented
      <3>4. \A m \in DOMAIN h.segs : \E j \in 1 .. k : C[j].seg = m
        BY <1>5, <3>1, <3>2 DEF Segmented
      <3> QED
        BY <1>9, <1>11, <3>3, <3>4 DEF Segmented
    <2>3. Listed(g)
      BY <1>11, <1>12 DEF Grown, Sound, HeapOk, Listed
    <2> QED
      BY <1>11, <2>1, <2>2, <2>3 DEF HeapOk
  <1>19. /\ \A j \in DOMAIN h.blocks : /\ SizesOf(h)[j] = h.blocks[j].size /\ SizesOf(h)[j] \in Int
              /\ SizesOf(g)[j] = C[j].size /\ SizesOf(g)[j] \in Int
         /\ SizesOf(g)[k] = h.blocks[i].size - n /\ SizesOf(g)[k] \in Int
    <2>1. \A j \in DOMAIN h.blocks : h.blocks[j].size \in Int /\ C[j].size \in Int
      <3> TAKE j \in DOMAIN h.blocks
      <3>1. h.blocks[j] \in BlockRecord /\ C[j] \in BlockRecord
        BY <1>1, <1>7
      <3> QED
        BY <3>1, SizeType
    <2>2. C[k].size \in Int
      BY <1>8, SizeType
    <2>3. k \in DOMAIN C /\ \A j \in DOMAIN h.blocks : j \in DOMAIN C
      BY <1>5, <1>9
    <2> QED
      BY <1>8, <1>11, <2>1, <2>2, <2>3 DEF SizesOf
  <1>20. ASSUME NEW j \in DOMAIN h.segs
         PROVE  SumFunctionOnSet(SizesOf(g), Within(g, j)) = SumFunctionOnSet(SizesOf(h), Within(h, j))
    <2>1. PICK S : S = Within(h, j)
      OBVIOUS
    <2>2. PICK e : e = SizesOf(h)
      OBVIOUS
    <2>3. PICK f : f = SizesOf(g)
      OBVIOUS
    <2>4. S \subseteq DOMAIN h.blocks /\ IsFiniteSet(S) /\ k \notin S
      BY <1>1, <1>5, <2>1, FS_Subset DEF Within
    <2>5. \A m \in S : e[m] \in Int /\ f[m] \in Int
      BY <1>19, <2>2, <2>3, <2>4
    <2>6. \A m \in S \ {i} : e[m] = f[m]
      BY <1>7, <1>19, <2>2, <2>3, <2>4
    <2>7. CASE h.blocks[i].seg = j
      <3>1. i \in S
        BY <2>1, <2>7 DEF Within
      <3>2. Within(g, j) = S \cup {k}
        <4>1. \A m \in DOMAIN h.blocks : C[m].seg = h.blocks[m].seg
          BY <1>7
        <4> QED
          BY <1>5, <1>8, <1>9, <1>11, <2>1, <2>7, <4>1 DEF Within
      <3>3. f[k] \in Int /\ e[i] \in Int /\ f[i] \in Int /\ e[i] = f[i] + f[k]
        <4>1. /\ e[i] = h.blocks[i].size /\ f[i] = n /\ f[k] = h.blocks[i].size - n
              /\ h.blocks[i].size \in Int /\ f[k] \in Int
          BY <1>7, <1>19, <2>2, <2>3
        <4>2. PICK z \in Int : z = h.blocks[i].size
          BY <4>1
        <4>3. e[i] = z /\ f[i] = n /\ f[k] = z - n
          BY <4>1, <4>2
        <4> QED
          BY <4>1, <4>3
      <3>4. IsFiniteSet(S) /\ k \notin S
        BY <2>4
      <3>5. SumFunctionOnSet(f, S \cup {k}) = SumFunctionOnSet(e, S)
        <4>1. PICK y : y = k
          OBVIOUS
        <4>2. PICK U : U = S \cup {y}
          OBVIOUS
        <4>3. f[y] \in Int /\ y \notin S /\ IsFiniteSet(S) /\ y \in U /\ e[i] = f[i] + f[y]
          BY <3>3, <3>4, <4>1, <4>2
        <4>4. SumFunctionOnSet(f, U) = SumFunctionOnSet(e, S)
          BY <2>5, <2>6, <3>1, <4>2, <4>3, SumDivided
        <4> QED
          BY <4>1, <4>2, <4>4
      <3> QED
        BY <2>1, <2>2, <2>3, <3>2, <3>5
    <2>8. CASE h.blocks[i].seg # j
      <3>1. i \notin S
        BY <2>1, <2>8 DEF Within
      <3>2. Within(g, j) = S
        <4>1. \A m \in DOMAIN h.blocks : C[m].seg = h.blocks[m].seg
          BY <1>7
        <4> QED
          BY <1>5, <1>8, <1>9, <1>11, <2>1, <2>8, <4>1 DEF Within
      <3>3. \A m \in S : e[m] = f[m]
        BY <2>6, <3>1
      <3>4. SumFunctionOnSet(e, S) = SumFunctionOnSet(f, S)
        BY <2>4, <3>3, SumAgrees
      <3> QED
        BY <2>1, <2>2, <2>3, <3>2, <3>4
    <2> QED
      BY <2>7, <2>8
  <1>21. Accounted(g, T)
    <2>1. h.blocks[i].seg \notin T
      <3>1. h.blocks[i].seg \in T => h.blocks[i].size = 0
        BY DEF Sound, Accounted
      <3> QED
        BY <3>1
    <2>2. \A j \in DOMAIN h.blocks : C[j].seg \in T => C[j].size = 0
      BY <1>7, <2>1 DEF Sound, Accounted
    <2>3. \A j \in DOMAIN g.blocks : g.blocks[j].seg \in T => g.blocks[j].size = 0
      BY <1>5, <1>8, <1>9, <1>11, <2>1, <2>2
    <2> QED
      BY <1>11, <1>20, <2>3 DEF Sound, Accounted
  <1> QED
    BY <1>5, <1>7, <1>8, <1>9, <1>11, <1>12, <1>18, <1>21 DEF Sound

(* A new segment is one new block.                                         *)
Fresh(h, k, q) == k = Len(h.blocks) + 1 /\ q = Len(h.segs) + 1

LEMMA SegmentSound ==
  ASSUME NEW h, NEW T, Sound(h, T), NEW a \in Nat, NEW n \in Nat, NEW s \in Stream,
         NEW k, NEW q, Fresh(h, k, q),
         NEW g, g = AllocSegment(h, a, n, s)
  PROVE  /\ Sound(g, T) /\ Grown(h, g) /\ g.pending = h.pending
         /\ DOMAIN g.blocks = 1 .. k /\ k \notin DOMAIN h.blocks
         /\ StreamOf(g, k) = s /\ g.blocks[k].st = "inuse" /\ g.blocks[k].size = n /\ g.blocks[k].addr = a
         /\ \A j \in DOMAIN h.blocks : g.blocks[j] = h.blocks[j]
         /\ DOMAIN g.segs = 1 .. q /\ q \notin DOMAIN h.segs /\ g.segs[q].total = n
         /\ \A j \in DOMAIN h.segs : g.segs[j] = h.segs[j]
  <1> k = Len(h.blocks) + 1 /\ q = Len(h.segs) + 1
    BY DEF Fresh
  <1>1. /\ h \in Heap /\ DOMAIN h.blocks = 1 .. Len(h.blocks) /\ Len(h.blocks) \in Nat
        /\ DOMAIN h.segs = 1 .. Len(h.segs) /\ Len(h.segs) \in Nat
        /\ h.blocks \in Seq(BlockRecord) /\ h.segs \in Seq(Segment)
        /\ \A j \in DOMAIN h.blocks : h.blocks[j] \in BlockRecord
        /\ IsFiniteSet(DOMAIN h.blocks)
    BY HeapTypes DEF Sound, HeapOk
  <1>2. PICK r \in [DOMAIN h.blocks -> Nat] : Ordered(h, r)
    BY DEF Sound, HeapOk, Linked
  <1>3. /\ k \in Nat /\ k \notin DOMAIN h.blocks /\ 1 .. k = DOMAIN h.blocks \cup {k}
    BY <1>1
  <1>4. /\ q \in Nat /\ q \notin DOMAIN h.segs /\ 1 .. q = DOMAIN h.segs \cup {q}
    BY <1>1
  <1>5. PICK c : c = Block(a, n, q, None, None, "inuse", <<>>)
    OBVIOUS
  <1>6. /\ c \in BlockRecord /\ c.addr = a /\ c.size = n /\ c.seg = q
        /\ c.prev = None /\ c.next = None /\ c.st = "inuse"
    BY <1>4, <1>5 DEF BlockRecord, Block, None
  <1>7. PICK d : d = [stream |-> s, total |-> n]
    OBVIOUS
  <1>8. d \in Segment /\ d.stream = s /\ d.total = n
    BY <1>7 DEF Segment
  <1>9. PICK C : C = Append(h.blocks, c)
    OBVIOUS
  <1>10. /\ C \in Seq(BlockRecord) /\ DOMAIN C = 1 .. k /\ C[k] = c
         /\ \A j \in DOMAIN h.blocks : C[j] = h.blocks[j]
    <2>1. /\ C \in Seq(BlockRecord) /\ Len(C) = Len(h.blocks) + 1 /\ C[Len(h.blocks) + 1] = c
          /\ \A j \in 1 .. Len(h.blocks) : C[j] = h.blocks[j]
      BY <1>1, <1>6, <1>9, AppendProperties
    <2>2. DOMAIN C = 1 .. Len(C)
      BY <2>1, LenProperties
    <2> QED
      BY <1>1, <2>1, <2>2
  <1>11. PICK D : D = Append(h.segs, d)
    OBVIOUS
  <1>12. /\ D \in Seq(Segment) /\ DOMAIN D = 1 .. q /\ D[q] = d
         /\ \A j \in DOMAIN h.segs : D[j] = h.segs[j]
    <2>1. /\ D \in Seq(Segment) /\ Len(D) = Len(h.segs) + 1 /\ D[Len(h.segs) + 1] = d
          /\ \A j \in 1 .. Len(h.segs) : D[j] = h.segs[j]
      BY <1>1, <1>8, <1>11, AppendProperties
    <2>2. DOMAIN D = 1 .. Len(D)
      BY <2>1, LenProperties
    <2> QED
      BY <1>1, <2>1, <2>2
  <1>13. g = [h EXCEPT !.blocks = C, !.segs = D]
    BY <1>5, <1>7, <1>9, <1>11, Zenon DEF AllocSegment
  <1>14. g \in Heap /\ g.blocks = C /\ g.segs = D /\ g.bins = h.bins /\ g.pending = h.pending
    BY <1>1, <1>10, <1>12, <1>13 DEF Heap
  <1>15. Segmented(h) /\ Listed(h)
    BY DEF Sound, HeapOk
  <1>16. Grown(h, g)
    BY <1>3, <1>10, <1>12, <1>14, <1>15, SMTT(30) DEF Grown, StreamOf, Segmented
  <1>17. StreamOf(g, k) = s
    BY <1>6, <1>8, <1>10, <1>12, <1>14 DEF StreamOf
  <1>18. Linked(g)
    <2>1. PICK R : R = [j \in 1 .. k |-> IF j = k THEN 0 ELSE r[j]]
      OBVIOUS
    <2>2. R \in [1 .. k -> Nat] /\ \A j \in DOMAIN h.blocks : R[j] = r[j]
      BY <1>3, <2>1
    <2>3. Ordered(g, R)
      BY <1>2, <1>3, <1>6, <1>10, <1>14, <2>2, SMTT(30) DEF Ordered
    <2> QED
      BY <1>10, <1>14, <2>2, <2>3 DEF Linked
  <1>19. Segmented(g)
    <2>1. \A j \in 1 .. k : C[j].seg \in 1 .. q
      BY <1>3, <1>4, <1>6, <1>10, <1>15 DEF Segmented
    <2>2. \A m \in 1 .. q : \E j \in 1 .. k : C[j].seg = m
      <3> TAKE m \in 1 .. q
      <3>1. CASE m = q
        BY <1>3, <1>6, <1>10, <3>1
      <3>2. CASE m \in DOMAIN h.segs
        <4>1. PICK j \in DOMAIN h.blocks : h.blocks[j].seg = m
          BY <1>15, <3>2 DEF Segmented
        <4> QED
          BY <1>3, <1>10, <4>1
      <3> QED
        BY <1>4, <3>1, <3>2
    <2> QED
      BY <1>10, <1>12, <1>14, <2>1, <2>2 DEF Segmented
  <1>20. Listed(g)
    BY <1>14, <1>15, <1>16 DEF Grown, Listed
  <1>21. /\ \A j \in DOMAIN h.blocks : SizesOf(g)[j] = SizesOf(h)[j]
         /\ SizesOf(g)[k] = n
    BY <1>3, <1>6, <1>10, <1>14 DEF SizesOf
  <1>22. \A m \in DOMAIN h.segs : Within(g, m) = Within(h, m)
    BY <1>3, <1>4, <1>6, <1>10, <1>14 DEF Within
  <1>23. Within(g, q) = {k}
    BY <1>3, <1>4, <1>6, <1>10, <1>14, <1>15, SMTT(30) DEF Within, Segmented
  <1>24. ASSUME NEW m \in DOMAIN h.segs
         PROVE  SumFunctionOnSet(SizesOf(g), Within(g, m)) = SumFunctionOnSet(SizesOf(h), Within(h, m))
    <2>1. PICK S : S = Within(h, m)
      OBVIOUS
    <2>2. S \subseteq DOMAIN h.blocks /\ IsFiniteSet(S)
      BY <1>1, <2>1, FS_Subset DEF Within
    <2>3. \A j \in S : SizesOf(g)[j] = SizesOf(h)[j]
      BY <1>21, <2>2
    <2>4. SumFunctionOnSet(SizesOf(g), S) = SumFunctionOnSet(SizesOf(h), S)
      BY <2>2, <2>3, SumAgrees
    <2> QED
      BY <1>22, <2>1, <2>4
  <1>25. SumFunctionOnSet(SizesOf(g), Within(g, q)) = n
    <2>1. PICK y : y = k
      OBVIOUS
    <2>2. PICK f : f = SizesOf(g)
      OBVIOUS
    <2>3. f[y] \in Int /\ f[y] = n
      BY <1>21, <2>1, <2>2
    <2>4. SumFunctionOnSet(f, {y}) = f[y]
      BY <2>3, SumSingle
    <2> QED
      BY <1>23, <2>1, <2>2, <2>3, <2>4
  <1>26. Accounted(g, T)
    <2>1. Accounted(h, T)
      BY DEF Sound
    <2>2. T \subseteq DOMAIN g.segs /\ q \notin T
      BY <1>4, <1>12, <1>14, <2>1 DEF Accounted
    <2>3. \A j \in DOMAIN g.blocks : g.blocks[j].seg \in T => g.blocks[j].size = 0
      BY <1>3, <1>6, <1>10, <1>14, <2>1, <2>2 DEF Accounted
    <2>4. ASSUME NEW m \in DOMAIN g.segs \ T
          PROVE  g.segs[m].total = SumFunctionOnSet(SizesOf(g), Within(g, m))
      <3>1. CASE m = q
        BY <1>8, <1>12, <1>14, <1>25, <3>1
      <3>2. CASE m \in DOMAIN h.segs
        <4>1. g.segs[m] = h.segs[m]
          BY <1>12, <1>14, <3>2
        <4>2. h.segs[m].total = SumFunctionOnSet(SizesOf(h), Within(h, m))
          BY <2>1, <3>2 DEF Accounted
        <4> QED
          BY <1>24, <3>2, <4>1, <4>2
      <3> QED
        BY <1>4, <1>12, <1>14, <3>1, <3>2
    <2> QED
      BY <2>2, <2>3, <2>4 DEF Accounted
  <1>27. Sound(g, T)
    BY <1>14, <1>18, <1>19, <1>20, <1>26 DEF Sound, HeapOk
  <1> QED
    BY <1>3, <1>4, <1>6, <1>8, <1>10, <1>12, <1>14, <1>16, <1>17, <1>27

(* The segments in G are given back.                                       *)
LEMMA TrimSound ==
  ASSUME NEW h, NEW T, Sound(h, T), NEW G, G \subseteq DOMAIN h.segs, NEW g, g = Trim(h, G)
  PROVE  /\ Sound(g, T \cup G) /\ Grown(h, g) /\ g.pending = h.pending /\ g.segs = h.segs
         /\ DOMAIN g.blocks = DOMAIN h.blocks
         /\ \A j \in DOMAIN h.blocks : g.blocks[j].st = h.blocks[j].st /\ g.blocks[j].rec = h.blocks[j].rec
  <1>1. /\ h \in Heap /\ DOMAIN h.blocks = 1 .. Len(h.blocks) /\ Len(h.blocks) \in Nat
        /\ \A j \in DOMAIN h.blocks : h.blocks[j] \in BlockRecord
        /\ IsFiniteSet(DOMAIN h.blocks)
    BY HeapTypes DEF Sound, HeapOk
  <1>2. PICK C : C = [i \in DOMAIN h.blocks |->
          IF h.blocks[i].seg \in G THEN [h.blocks[i] EXCEPT !.size = 0] ELSE h.blocks[i]]
    OBVIOUS
  <1>3. ASSUME NEW j \in DOMAIN h.blocks
        PROVE  /\ C[j] \in BlockRecord
               /\ C[j].size = IF h.blocks[j].seg \in G THEN 0 ELSE h.blocks[j].size
               /\ C[j].seg = h.blocks[j].seg /\ C[j].prev = h.blocks[j].prev /\ C[j].next = h.blocks[j].next
               /\ C[j].st = h.blocks[j].st /\ C[j].rec = h.blocks[j].rec
    <2>1. PICK c \in BlockRecord : c = h.blocks[j]
      BY <1>1
    <2>2. CASE c.seg \in G
      <3>1. C[j] = [c EXCEPT !.size = 0]
        BY <1>2, <2>1, <2>2
      <3> QED
        BY <2>1, <2>2, <3>1 DEF BlockRecord
    <2>3. CASE c.seg \notin G
      <3>1. C[j] = c
        BY <1>2, <2>1, <2>3
      <3> QED
        BY <2>1, <2>3, <3>1
    <2> QED
      BY <2>2, <2>3
  <1>4. C \in Seq(BlockRecord) /\ DOMAIN C = DOMAIN h.blocks
    <2>1. DOMAIN C = 1 .. Len(h.blocks)
      BY <1>1, <1>2
    <2>2. C \in [1 .. Len(h.blocks) -> BlockRecord]
      <3>1. C = [i \in DOMAIN C |-> C[i]]
        BY <1>2
      <3> QED
        BY <1>1, <1>3, <2>1, <3>1
    <2> QED
      BY <1>1, <2>1, <2>2, SeqDef
  <1>5. g = [h EXCEPT !.blocks = C]
    BY <1>2, Zenon DEF Trim
  <1>6. g \in Heap /\ g.blocks = C /\ g.segs = h.segs /\ g.bins = h.bins /\ g.pending = h.pending
    BY <1>1, <1>4, <1>5 DEF Heap
  <1>7. SameLinks(h, g)
    BY <1>3, <1>4, <1>6 DEF SameLinks
  <1>8. ListsOf(h, g)
    BY <1>6 DEF ListsOf, Sound, HeapOk, Listed
  <1>9. HeapOk(g) /\ Grown(h, g)
    BY <1>6, <1>7, <1>8, StaysOk DEF Sound
  <1>10. \A m : Within(g, m) = Within(h, m)
    BY <1>3, <1>4, <1>6 DEF Within
  <1>11. ASSUME NEW m \in DOMAIN h.segs \ (T \cup G)
         PROVE  SumFunctionOnSet(SizesOf(g), Within(g, m)) = SumFunctionOnSet(SizesOf(h), Within(h, m))
    <2>1. PICK S : S = Within(h, m)
      OBVIOUS
    <2>2. S \subseteq DOMAIN h.blocks /\ IsFiniteSet(S)
      BY <1>1, <2>1, FS_Subset DEF Within
    <2>3. \A j \in S : SizesOf(g)[j] = SizesOf(h)[j]
      <3> TAKE j \in S
      <3>1. j \in DOMAIN h.blocks /\ h.blocks[j].seg \notin G
        BY <2>1, <2>2 DEF Within
      <3> QED
        BY <1>3, <1>4, <1>6, <3>1 DEF SizesOf
    <2>4. SumFunctionOnSet(SizesOf(g), S) = SumFunctionOnSet(SizesOf(h), S)
      BY <2>2, <2>3, SumAgrees
    <2> QED
      BY <1>10, <2>1, <2>4
  <1>12. Accounted(g, T \cup G)
    <2>1. Accounted(h, T)
      BY DEF Sound
    <2>2. \A j \in DOMAIN g.blocks : g.blocks[j].seg \in T \cup G => g.blocks[j].size = 0
      BY <1>3, <1>4, <1>6, <2>1 DEF Accounted
    <2>3. T \cup G \subseteq DOMAIN g.segs
      BY <1>6, <2>1 DEF Accounted
    <2>4. \A m \in DOMAIN g.segs \ (T \cup G) :
            g.segs[m].total = SumFunctionOnSet(SizesOf(g), Within(g, m))
      BY <1>6, <1>11, <2>1 DEF Accounted
    <2> QED
      BY <2>2, <2>3, <2>4 DEF Accounted
  <1> QED
    BY <1>3, <1>4, <1>6, <1>9, <1>12 DEF Sound

-----------------------------------------------------------------------------
(* What callers and the call at work rely on outlives the operations.      *)
LEMMA LockedStays ==
  ASSUME NEW h, NEW k, NEW m, Locked(h, m), Grown(h, k)
  PROVE  Locked(k, m)
  BY DEF Locked, Grown

LEMMA PointingStays ==
  ASSUME NEW h, NEW k, NEW p, Pointing(h, p), Grown(h, k)
  PROVE  Pointing(k, p)
  BY DEF Pointing, Grown

LEMMA WaitingStays ==
  ASSUME NEW h, NEW k, NEW m, NEW n, Waiting(h, m),
         \A i \in DOMAIN k.blocks : k.blocks[i].st = "pending" =>
           i \in DOMAIN h.blocks /\ h.blocks[i].st = "pending" /\ k.blocks[i].rec = h.blocks[i].rec,
         \A s \in Stream : \A i \in DOMAIN h.blocks : EntriesOf(k, n, s, i) = EntriesOf(h, m, s, i)
  PROVE  Waiting(k, n)
  BY DEF Waiting

LEMMA CountEmpty ==
  ASSUME NEW x
  PROVE  Count(<<>>, x) = 0
  <1>1. {j \in DOMAIN <<>> : <<>>[j] = x} = {}
    OBVIOUS
  <1> QED
    BY <1>1, FS_EmptySet DEF Count

(* A call that has list q of stream s left owes what is on it.             *)
Owes(h, m, s, q) == \A t \in Stream : \A i : EntriesOf(h, m, t, i) = Owed(h, s, q, t, i)

(* Draining on releases the mutex when the list is empty, and counts the   *)
(* same entries either way.                                                *)
LEMMA DrainingOn ==
  ASSUME NEW h, NEW s \in Stream \cup {NoStream}, NEW q \in Seq(Nat), s = NoStream => q = <<>>,
         ToSet(q) \subseteq DOMAIN h.blocks, NEW m, m = Draining(s, q)
  PROVE  Locked(h, m) /\ Owes(h, m, s, q)
  <1>1. NoStream \notin Stream
    BY AllocatorAssumption
  <1>2. CASE q = <<>>
    <2>1. m = [at |-> "idle", cur |-> None, on |-> NoStream, rest |-> <<>>]
      BY <1>2 DEF Draining, Unlocked
    <2>2. m.at = "idle" /\ m.on = NoStream /\ m.rest = q /\ m.cur = None
      BY <1>2, <2>1
    <2>3. Locked(h, m)
      <3>1. m \in [at : {"idle", "merge", "drain"}, cur : Nat, on : Stream \cup {NoStream}, rest : Seq(Nat)]
        <4>1. None \in Nat /\ <<>> \in Seq(Nat)
          BY DEF None
        <4> QED
          BY <2>1, <4>1
      <3> QED
        BY <1>2, <2>2, <3>1 DEF Locked
    <2>4. ASSUME NEW t \in Stream, NEW i
          PROVE  EntriesOf(h, m, t, i) = Owed(h, s, q, t, i)
      <3>1. m.on # t
        BY <1>1, <2>2
      <3>2. Count(q, i) = 0
        BY <1>2, CountEmpty
      <3> QED
        BY <3>1, <3>2 DEF EntriesOf, Owed
    <2> QED
      BY <2>3, <2>4 DEF Owes
  <1>3. CASE q # <<>>
    <2>1. m = [at |-> "drain", cur |-> None, on |-> s, rest |-> q]
      BY <1>3 DEF Draining
    <2>2. m.at = "drain" /\ m.on = s /\ m.rest = q /\ s \in Stream
      BY <1>3, <2>1
    <2>3. Locked(h, m)
      <3>1. m \in [at : {"idle", "merge", "drain"}, cur : Nat, on : Stream \cup {NoStream}, rest : Seq(Nat)]
        BY <2>1 DEF None
      <3> QED
        BY <1>1, <1>3, <2>2, <3>1 DEF Locked
    <2>4. ASSUME NEW t \in Stream, NEW i
          PROVE  EntriesOf(h, m, t, i) = Owed(h, s, q, t, i)
      BY <2>2 DEF EntriesOf, Owed
    <2> QED
      BY <2>3, <2>4 DEF Owes
  <1> QED
    BY <1>2, <1>3

LEMMA MergingOn ==
  ASSUME NEW h, NEW i \in DOMAIN h.blocks, i \in Nat, NEW s \in Stream \cup {NoStream}, NEW q \in Seq(Nat),
         s = NoStream => q = <<>>, ToSet(q) \subseteq DOMAIN h.blocks, NEW m, m = Merging(i, s, q)
  PROVE  Locked(h, m) /\ m.on = s /\ m.rest = q
  BY DEF Locked, Merging

-----------------------------------------------------------------------------
(* What the calls look up.                                                 *)
LEMMA BinOf ==
  ASSUME NEW n \in Size
  PROVE  bin_index(n) \in Bin
  <1>1. n \in Nat /\ \E b \in Bin : n = 2^b
    BY AllocatorAssumption
  <1> DEFINE B == {b \in Bin : n <= 2^b}
  <1>2. B \subseteq Nat /\ B # {}
    <2>1. Bin \subseteq Nat
      BY DEF Bin
    <2>2. PICK b \in Bin : n = 2^b
      BY <1>1
    <2>3. n <= n
      BY <1>1
    <2> QED
      BY <2>1, <2>2, <2>3
  <1>3. PICK b \in B : \A c \in B : b <= c
    BY <1>2, Least
  <1>4. b \in Bin /\ n <= 2^b /\ \A c \in Bin : n <= 2^c => b <= c
    BY <1>3
  <1> QED
    BY <1>4 DEF bin_index

LEMMA PopSound ==
  ASSUME NEW h, NEW T, Sound(h, T), NEW s \in Stream, NEW c \in Bin, h.bins[s][c] # <<>>,
         NEW k, k = [h EXCEPT !.bins[s][c] = Tail(@)], NEW i, i = Head(h.bins[s][c])
  PROVE  /\ Sound(k, T) /\ Grown(h, k)
         /\ k.blocks = h.blocks /\ k.pending = h.pending /\ k.segs = h.segs
         /\ i \in DOMAIN h.blocks /\ StreamOf(h, i) = s
  <1>1. h.bins \in [Stream -> [Bin -> Seq(Nat)]] /\ h \in Heap
    BY HeapTypes DEF Sound, HeapOk
  <1>2. PICK q \in Seq(Nat) : q = h.bins[s][c]
    BY <1>1
  <1>3. /\ Tail(q) \in Seq(Nat) /\ ToSet(Tail(q)) \subseteq ToSet(q)
        /\ Head(q) \in ToSet(q)
    BY <1>2, TailElements
  <1>4. PICK B : B = [h.bins EXCEPT ![s][c] = Tail(@)]
    OBVIOUS
  <1>5. \A t \in Stream, b \in Bin : B[t][b] = IF t = s /\ b = c THEN Tail(q) ELSE h.bins[t][b]
    BY <1>1, <1>2, <1>4
  <1>6. B \in [Stream -> [Bin -> Seq(Nat)]]
    BY <1>1, <1>2, <1>3, <1>4
  <1>7. \A t \in Stream : \A b \in Bin : \A j \in ToSet(B[t][b]) : j \in ToSet(h.bins[t][b])
    BY <1>2, <1>3, <1>5
  <1>8. /\ k \in Heap /\ k.bins = B
        /\ k.blocks = h.blocks /\ k.segs = h.segs /\ k.pending = h.pending
    BY <1>1, <1>4, <1>6 DEF Heap
  <1>9. Sound(k, T) /\ Grown(h, k)
    BY <1>7, <1>8, Rebinned
  <1>10. i \in DOMAIN h.blocks /\ StreamOf(h, i) = s
    BY <1>2, <1>3 DEF Sound, HeapOk, Listed
  <1> QED
    BY <1>8, <1>9, <1>10

(* A block found to be split is a free one of the stream, large enough.    *)
LEMMA SplittableFits ==
  ASSUME NEW h \in Heap, NEW s, NEW n, FindSplittable(h, s, n) # None
  PROVE  FindSplittable(h, s, n) \in Fits(h, s, n)
  <1> DEFINE F == Fits(h, s, n)
             Z == {h.blocks[i].size : i \in F}
             L == {i \in F : \A j \in F : h.blocks[i].size <= h.blocks[j].size}
  <1>1. F # {} /\ FindSplittable(h, s, n) = Min(L)
    BY DEF FindSplittable
  <1>2. F \subseteq DOMAIN h.blocks
    BY DEF Fits
  <1>3. DOMAIN h.blocks \subseteq Nat /\ \A i \in DOMAIN h.blocks : h.blocks[i].size \in Nat
    <2>1. DOMAIN h.blocks = 1 .. Len(h.blocks) /\ \A i \in DOMAIN h.blocks : h.blocks[i] \in BlockRecord
      BY HeapTypes
    <2> QED
      BY <2>1 DEF BlockRecord
  <1> HIDE DEF F
  <1>4. Z \in SUBSET Nat /\ Z # {}
    BY <1>1, <1>2, <1>3
  <1>5. PICK z \in Z : \A y \in Z : z <= y
    <2> HIDE DEF Z
    <2> QED
      BY <1>4, Least
  <1>6. PICK i \in F : h.blocks[i].size = z
    BY <1>5
  <1>7. i \in L
    BY <1>5, <1>6
  <1>8. L \in SUBSET Nat /\ L # {} /\ L \subseteq F
    BY <1>2, <1>3, <1>7
  <1> HIDE DEF L
  <1>9. Min(L) \in L
    BY <1>8, MinOf
  <1> QED
    BY <1>1, <1>8, <1>9 DEF F

LEMMA NamedInUse ==
  ASSUME heap \in Heap, NEW ptr, Named(ptr) # None
  PROVE  Named(ptr) \in DOMAIN heap.blocks /\ heap.blocks[Named(ptr)].st = "inuse"
  <1> DEFINE I == {i \in DOMAIN heap.blocks :
                     heap.blocks[i].addr = ptr.addr /\ heap.blocks[i].st = "inuse"}
  <1>1. I # {} /\ Named(ptr) = Min(I)
    BY DEF Named
  <1>2. PICK h \in Heap : h = heap
    OBVIOUS
  <1>3. DOMAIN h.blocks = 1 .. Len(h.blocks)
    BY HeapTypes
  <1>4. DOMAIN h.blocks \subseteq Nat
    BY <1>3
  <1>5. I \in SUBSET Nat
    BY <1>2, <1>4
  <1>6. PICK J : J = I
    OBVIOUS
  <1>7. Min(J) \in J
    <2> HIDE DEF I
    <2> QED
      BY <1>1, <1>5, <1>6, MinOf
  <1>8. Named(ptr) \in I
    <2> HIDE DEF I
    <2> QED
      BY <1>1, <1>6, <1>7
  <1> QED
    BY <1>8

-----------------------------------------------------------------------------
(* The steps.                                                              *)

(* Every part of the invariant but the one on the statistics.              *)
Parts(h, m, p, T) == Sound(h, T) /\ Locked(h, m) /\ Pointing(h, p) /\ Waiting(h, m)

(* A block handed out in heap h.                                           *)
LEMMA ServeStep ==
  ASSUME Parts(heap, mutex, held, trimmed), NEW h, NEW i \in DOMAIN h.blocks, NEW s \in Stream,
         Sound(h, trimmed), Grown(heap, h), StreamOf(h, i) = s, h.pending = heap.pending,
         \A j \in DOMAIN h.blocks : h.blocks[j].st = "pending" =>
           j \in DOMAIN heap.blocks /\ heap.blocks[j].st = "pending" /\ h.blocks[j].rec = heap.blocks[j].rec,
         Serve(h, i, s), mutex' = mutex, trimmed' = trimmed
  PROVE  Parts(heap', mutex', held', trimmed')
  <1>1. PICK x : x = heap
    OBVIOUS
  <1>2. PICK m : m = mutex
    OBVIOUS
  <1>3. PICK p : p = held
    OBVIOUS
  <1>4. Sound(x, trimmed) /\ Locked(x, m) /\ Pointing(x, p) /\ Waiting(x, m) /\ Grown(x, h)
    BY <1>1, <1>2, <1>3 DEF Parts
  <1>5. Locked(h, m) /\ Pointing(h, p)
    BY <1>4, LockedStays, PointingStays
  <1>6. Waiting(h, m)
    <2>1. \A t \in Stream : \A j \in DOMAIN x.blocks : EntriesOf(h, m, t, j) = EntriesOf(x, m, t, j)
      BY <1>1 DEF EntriesOf, Owed
    <2>2. \A j \in DOMAIN h.blocks : h.blocks[j].st = "pending" =>
            j \in DOMAIN x.blocks /\ x.blocks[j].st = "pending" /\ h.blocks[j].rec = x.blocks[j].rec
      BY <1>1
    <2> QED
      BY <1>4, <2>1, <2>2, WaitingStays
  <1>7. h.blocks[i] \in BlockRecord /\ i \in Nat
    BY HeapTypes DEF Sound, HeapOk
  <1>8. PICK z : z = [idx |-> i, addr |-> h.blocks[i].addr, size |-> h.blocks[i].size, stream |-> s]
    OBVIOUS
  <1>9. /\ z \in [idx : Nat, addr : Nat, size : Nat, stream : Stream \cup {NoStream}]
        /\ z.idx = i /\ z.stream = s
    BY <1>7, <1>8 DEF BlockRecord
  <1>10. PICK e : held' = [held EXCEPT ![e] = z]
    BY <1>8 DEF Serve
  <1>11. PICK y : y = held'
    OBVIOUS
  <1>12. y = [p EXCEPT ![e] = z]
    BY <1>3, <1>10, <1>11
  <1>13. Pointing(h, y)
    BY <1>5, <1>9, <1>12 DEF Pointing
  <1>14. heap' = h
    BY DEF Serve
  <1> QED
    BY <1>2, <1>5, <1>6, <1>11, <1>13, <1>14 DEF Parts

LEMMA AllocHitStep ==
  ASSUME Parts(heap, mutex, held, trimmed), NEW s \in Stream, NEW n \in Size, AllocHit(s, n)
  PROVE  Parts(heap', mutex', held', trimmed') /\ heap'.segs = heap.segs
  <1>1. PICK x : x = heap
    OBVIOUS
  <1>2. PICK T : T = trimmed
    OBVIOUS
  <1>3. Sound(x, T)
    BY <1>1, <1>2 DEF Parts
  <1>4. PICK c \in Bin : c = bin_index(n)
    BY BinOf
  <1>5. PICK i : i = Popped(s, n)
    OBVIOUS
  <1>6. x.bins[s][c] # <<>> /\ i = Head(x.bins[s][c])
    BY <1>1, <1>4, <1>5 DEF AllocHit, Popped
  <1>7. PICK g : g = [x EXCEPT !.bins[s][c] = Tail(@)]
    OBVIOUS
  <1>8. /\ Sound(g, T) /\ Grown(x, g) /\ g.blocks = x.blocks /\ g.pending = x.pending /\ g.segs = x.segs
        /\ i \in DOMAIN x.blocks /\ StreamOf(x, i) = s
    BY <1>3, <1>6, <1>7, PopSound
  <1>9. PICK h : h = Use(g, i)
    OBVIOUS
  <1>10. /\ Sound(h, T) /\ Grown(g, h) /\ DOMAIN h.blocks = DOMAIN g.blocks
         /\ \A j \in DOMAIN g.blocks \ {i} : h.blocks[j] = g.blocks[j]
         /\ h.blocks[i].st = "inuse" /\ h.pending = g.pending /\ h.segs = g.segs
    <2>1. i \in DOMAIN g.blocks
      BY <1>8
    <2> QED
      BY <1>8, <1>9, <2>1, UseSound
  <1>11. Grown(x, h) /\ StreamOf(h, i) = s
    BY <1>8, <1>10 DEF Grown
  <1>12. Serve(h, i, s) /\ mutex' = mutex /\ trimmed' = trimmed
    BY <1>1, <1>4, <1>5, <1>7, <1>9 DEF AllocHit
  <1>13. \A j \in DOMAIN h.blocks : h.blocks[j].st = "pending" =>
            j \in DOMAIN x.blocks /\ x.blocks[j].st = "pending" /\ h.blocks[j].rec = x.blocks[j].rec
    BY <1>8, <1>10
  <1>14. Parts(heap', mutex', held', trimmed')
    BY <1>1, <1>2, <1>8, <1>10, <1>11, <1>12, <1>13, ServeStep
  <1>15. heap' = h
    BY <1>12 DEF Serve
  <1> QED
    BY <1>1, <1>8, <1>10, <1>14, <1>15

LEMMA AllocSplitStep ==
  ASSUME Parts(heap, mutex, held, trimmed), NEW s \in Stream, NEW n \in Size, AllocSplit(s, n)
  PROVE  Parts(heap', mutex', held', trimmed') /\ heap'.segs = heap.segs
  <1>1. PICK x : x = heap
    OBVIOUS
  <1>2. PICK T : T = trimmed
    OBVIOUS
  <1>3. Sound(x, T) /\ x \in Heap
    BY <1>1, <1>2 DEF Parts, Sound, HeapOk
  <1>4. PICK i : i = FindSplittable(x, s, n)
    OBVIOUS
  <1>5. i \in DOMAIN x.blocks /\ StreamOf(x, i) = s /\ x.blocks[i].size >= n
    <2>1. FindSplittable(x, s, n) # None
      BY <1>1 DEF AllocSplit
    <2>2. i \in Fits(x, s, n)
      BY <1>3, <1>4, <2>1, SplittableFits
    <2> QED
      BY <2>2 DEF Fits
  <1>6. PICK k : k = Len(x.blocks) + 1
    OBVIOUS
  <1>7. PICK g : g = IF x.blocks[i].size > n THEN PushBack(Split(x, i, n), k) ELSE x
    OBVIOUS
  <1>8. /\ Sound(g, T) /\ Grown(x, g) /\ g.pending = x.pending /\ g.segs = x.segs
        /\ i \in DOMAIN g.blocks
        /\ \A j \in DOMAIN g.blocks : g.blocks[j].st = "pending" =>
             j \in DOMAIN x.blocks /\ x.blocks[j].st = "pending" /\ g.blocks[j].rec = x.blocks[j].rec
    <2>1. CASE x.blocks[i].size > n
      <3>1. n \in Nat /\ n < x.blocks[i].size
        <4>1. n \in Nat /\ x.blocks[i] \in BlockRecord
          BY <1>3, <1>5, HeapTypes, AllocatorAssumption
        <4> QED
          BY <2>1, <4>1 DEF BlockRecord
      <3>2. PICK f : f = Split(x, i, n)
        OBVIOUS
      <3>3. /\ Sound(f, T) /\ Grown(x, f) /\ f.pending = x.pending /\ f.segs = x.segs
            /\ DOMAIN f.blocks = 1 .. k /\ k \notin DOMAIN x.blocks
            /\ f.blocks[k].st = "free"
            /\ \A j \in DOMAIN x.blocks : f.blocks[j].st = x.blocks[j].st /\ f.blocks[j].rec = x.blocks[j].rec
        BY <1>3, <1>5, <1>6, <3>1, <3>2, SplitSound
      <3>4. 1 .. k = DOMAIN x.blocks \cup {k} /\ k \in 1 .. k
        <4>1. DOMAIN x.blocks = 1 .. Len(x.blocks) /\ Len(x.blocks) \in Nat
          BY <1>3, HeapTypes
        <4> QED
          BY <1>6, <4>1
      <3>5. g = PushBack(f, k)
        BY <1>7, <2>1, <3>2
      <3>6. /\ Sound(g, T) /\ Grown(f, g)
            /\ g.blocks = f.blocks /\ g.pending = f.pending /\ g.segs = f.segs
        BY <3>3, <3>4, <3>5, PushBackSound
      <3>7. Grown(x, g)
        BY <3>3, <3>6 DEF Grown
      <3>8. \A j \in DOMAIN f.blocks : f.blocks[j].st = "pending" =>
             j \in DOMAIN x.blocks /\ x.blocks[j].st = "pending" /\ f.blocks[j].rec = x.blocks[j].rec
        BY <3>3, <3>4
      <3> QED
        BY <1>5, <3>3, <3>4, <3>6, <3>7, <3>8
    <2>2. CASE ~(x.blocks[i].size > n)
      <3>1. g = x
        BY <1>7, <2>2
      <3> QED
        BY <1>3, <1>5, <3>1 DEF Grown
    <2> QED
      BY <2>1, <2>2
  <1>9. PICK h : h = Use(g, i)
    OBVIOUS
  <1>10. /\ Sound(h, T) /\ Grown(g, h) /\ DOMAIN h.blocks = DOMAIN g.blocks
         /\ \A j \in DOMAIN g.blocks \ {i} : h.blocks[j] = g.blocks[j]
         /\ h.blocks[i].st = "inuse" /\ h.pending = g.pending /\ h.segs = g.segs
    BY <1>8, <1>9, UseSound
  <1>11. Grown(x, h) /\ StreamOf(h, i) = s
    BY <1>5, <1>8, <1>10 DEF Grown
  <1>12. Serve(h, i, s) /\ mutex' = mutex /\ trimmed' = trimmed
    <2>1. h = SplitAndUse(x, i, n)
      BY <1>6, <1>7, <1>9 DEF SplitAndUse
    <2> QED
      BY <1>1, <1>4, <2>1 DEF AllocSplit
  <1>13. \A j \in DOMAIN h.blocks : h.blocks[j].st = "pending" =>
            j \in DOMAIN x.blocks /\ x.blocks[j].st = "pending" /\ h.blocks[j].rec = x.blocks[j].rec
    BY <1>8, <1>10
  <1>14. Parts(heap', mutex', held', trimmed')
    BY <1>1, <1>2, <1>8, <1>10, <1>11, <1>12, <1>13, ServeStep
  <1>15. heap' = h
    BY <1>12 DEF Serve
  <1> QED
    BY <1>1, <1>8, <1>10, <1>14, <1>15

LEMMA AllocMissStep ==
  ASSUME Parts(heap, mutex, held, trimmed), next \in Nat, reserved = Reserved(heap, trimmed),
         NEW s \in Stream, NEW n \in Size, AllocMiss(s, n)
  PROVE  Parts(heap', mutex', held', trimmed') /\ next' \in Nat /\ reserved' = Reserved(heap', trimmed')
  <1>1. PICK x : x = heap
    OBVIOUS
  <1>2. PICK T : T = trimmed
    OBVIOUS
  <1>3. Sound(x, T) /\ x \in Heap
    BY <1>1, <1>2 DEF Parts, Sound, HeapOk
  <1>4. PICK a : a = NextAddr(n)
    OBVIOUS
  <1>5. n \in Nat /\ a \in Nat
    <2>1. n \in Nat
      BY AllocatorAssumption
    <2>2. CASE next = None
      BY <1>4, <2>1, <2>2 DEF NextAddr
    <2>3. CASE next # None
      BY <1>4, <2>1, <2>3 DEF NextAddr
    <2> QED
      BY <2>1, <2>2, <2>3
  <1>6. PICK k : k = Len(x.blocks) + 1
    OBVIOUS
  <1>7. PICK q : q = Len(x.segs) + 1
    OBVIOUS
  <1>8. PICK h : h = AllocSegment(x, a, n, s)
    OBVIOUS
  <1>9. /\ Sound(h, T) /\ Grown(x, h) /\ h.pending = x.pending
        /\ DOMAIN h.blocks = 1 .. k /\ k \notin DOMAIN x.blocks
        /\ StreamOf(h, k) = s /\ h.blocks[k].st = "inuse"
        /\ \A j \in DOMAIN x.blocks : h.blocks[j] = x.blocks[j]
        /\ DOMAIN h.segs = 1 .. q /\ q \notin DOMAIN x.segs /\ h.segs[q].total = n
        /\ \A j \in DOMAIN x.segs : h.segs[j] = x.segs[j]
    <2>1. Fresh(x, k, q)
      BY <1>6, <1>7 DEF Fresh
    <2> QED
      BY <1>3, <1>5, <1>8, <2>1, SegmentSound
  <1>10. /\ DOMAIN x.blocks = 1 .. Len(x.blocks) /\ Len(x.blocks) \in Nat
         /\ DOMAIN x.segs = 1 .. Len(x.segs) /\ Len(x.segs) \in Nat
         /\ IsFiniteSet(DOMAIN x.segs) /\ \A g \in DOMAIN x.segs : x.segs[g] \in Segment
    BY <1>3, HeapTypes
  <1>11. 1 .. k = DOMAIN x.blocks \cup {k} /\ k \in 1 .. k /\ 1 .. q = DOMAIN x.segs \cup {q}
    BY <1>6, <1>7, <1>10
  <1>12. Serve(h, k, s) /\ mutex' = mutex /\ trimmed' = trimmed
    BY <1>1, <1>4, <1>6, <1>8 DEF AllocMiss
  <1>13. \A j \in DOMAIN h.blocks : h.blocks[j].st = "pending" =>
            j \in DOMAIN x.blocks /\ x.blocks[j].st = "pending" /\ h.blocks[j].rec = x.blocks[j].rec
    BY <1>9, <1>11
  <1>14. Parts(heap', mutex', held', trimmed')
    <2>1. k \in DOMAIN h.blocks
      BY <1>9, <1>11
    <2> QED
      BY <1>1, <1>2, <1>9, <1>12, <1>13, <2>1, ServeStep
  <1>15. heap' = h
    BY <1>12 DEF Serve
  <1>16. next' \in Nat /\ reserved' = reserved + n
    BY <1>4, <1>5 DEF AllocMiss
  <1>17. Reserved(h, T) = Reserved(x, T) + n
    <2> DEFINE e == [g \in DOMAIN x.segs |-> x.segs[g].total]
               f == [g \in DOMAIN h.segs |-> h.segs[g].total]
               S == DOMAIN x.segs \ T
               U == DOMAIN h.segs \ T
    <2>1. T \subseteq DOMAIN x.segs
      BY <1>3 DEF Sound, Accounted
    <2>2. U = S \cup {q} /\ q \notin S /\ IsFiniteSet(S)
      <3>1. IsFiniteSet(S)
        BY <1>10, FS_Subset
      <3> QED
        BY <1>9, <1>11, <2>1, <3>1
    <2>3. f[q] = n /\ q \in DOMAIN h.segs
      BY <1>9, <1>11
    <2>4. \A g \in S : e[g] \in Int /\ f[g] = e[g]
      <3> TAKE g \in S
      <3>1. x.segs[g] \in Segment
        BY <1>10
      <3>2. x.segs[g].total \in Int
        BY <3>1 DEF Segment
      <3> QED
        BY <1>9, <1>11, <3>2
    <2>5. Reserved(x, T) = SumFunctionOnSet(e, S) /\ Reserved(h, T) = SumFunctionOnSet(f, U)
      BY DEF Reserved
    <2> HIDE DEF e, f, S, U
    <2>6. PICK y : y = q
      OBVIOUS
    <2>7. /\ IsFiniteSet(U) /\ U \ {y} = S /\ y \in U /\ f[y] = n
          /\ \A g \in U : f[g] \in Int
      <3>1. IsFiniteSet(U)
        BY <2>2, FS_AddElement
      <3> QED
        BY <1>5, <2>2, <2>3, <2>4, <2>6, <3>1
    <2>8. SumFunctionOnSet(f, U) = f[y] + SumFunctionOnSet(f, U \ {y})
      BY <2>7, SumRemove
    <2>9. SumFunctionOnSet(f, S) = SumFunctionOnSet(e, S) /\ SumFunctionOnSet(e, S) \in Int
      BY <2>2, <2>4, SumAgrees, SumRemove
    <2>10. SumFunctionOnSet(f, U) = n + SumFunctionOnSet(e, S)
      BY <2>7, <2>8, <2>9
    <2> QED
      BY <1>5, <2>5, <2>9, <2>10
  <1> QED
    BY <1>1, <1>2, <1>12, <1>14, <1>15, <1>16, <1>17

-----------------------------------------------------------------------------
(* The other calls and their loops.                                        *)
LEMMA PartsKept ==
  ASSUME NEW h, NEW k, NEW m, NEW n, NEW p, NEW q, NEW T, NEW U, Parts(h, m, p, T),
         Sound(k, U), Grown(h, k), Locked(k, n), Pointing(h, q),
         \A i \in DOMAIN k.blocks : k.blocks[i].st = "pending" =>
           i \in DOMAIN h.blocks /\ h.blocks[i].st = "pending" /\ k.blocks[i].rec = h.blocks[i].rec,
         \A s \in Stream : \A i \in DOMAIN h.blocks : EntriesOf(k, n, s, i) = EntriesOf(h, m, s, i)
  PROVE  Parts(k, n, q, U)
  <1>1. Waiting(k, n)
    BY WaitingStays DEF Parts
  <1>2. Pointing(k, q)
    BY PointingStays
  <1> QED
    BY <1>1, <1>2 DEF Parts

LEMMA EmptyHand ==
  ASSUME NEW h, NEW p, Pointing(h, p), NEW k \in Handle, NEW q, q = [p EXCEPT ![k] = Nothing]
  PROVE  Pointing(h, q)
  <1>1. Nothing \in [idx : Nat, addr : Nat, size : Nat, stream : Stream \cup {NoStream}]
    BY DEF Nothing, None
  <1> QED
    BY <1>1 DEF Pointing

(* Between calls no entry is on its way.                                   *)
LEMMA EntriesUnlocked ==
  ASSUME NEW h \in Heap, NEW m, m.on = NoStream, NEW s \in Stream, NEW i
  PROVE  EntriesOf(h, m, s, i) = Count(h.pending[s], i) /\ Count(h.pending[s], i) \in Int
  <1>1. h.pending[s] \in Seq(Nat)
    BY HeapTypes
  <1>2. Count(h.pending[s], i) \in Nat
    BY <1>1, CountType
  <1>3. m.on # s
    BY AllocatorAssumption
  <1> QED
    BY <1>2, <1>3 DEF EntriesOf, Owed

(* A block put on the lists of its streams waits for each of them.         *)
LEMMA DeferWaits ==
  ASSUME NEW h, NEW T, Sound(h, T), NEW m, m.on = NoStream, Waiting(h, m),
         NEW i \in DOMAIN h.blocks, h.blocks[i].rec # <<>>, NEW k, k = Defer(h, i)
  PROVE  Waiting(k, m)
  <1>1. /\ Sound(k, T) /\ DOMAIN k.blocks = DOMAIN h.blocks
        /\ \A j \in DOMAIN h.blocks \ {i} : k.blocks[j] = h.blocks[j]
        /\ k.blocks[i].st = "pending" /\ k.blocks[i].rec = h.blocks[i].rec
        /\ \A s \in Stream : \A j : Count(h.pending[s], j) <= Count(k.pending[s], j)
        /\ \A s \in Stream : Count(h.blocks[i].rec, s) <= Count(k.pending[s], i)
    <2>1. Sound(k, T) /\ DOMAIN k.blocks = DOMAIN h.blocks
      BY DeferSound
    <2>2. /\ \A j \in DOMAIN h.blocks \ {i} : k.blocks[j] = h.blocks[j]
          /\ k.blocks[i].st = "pending" /\ k.blocks[i].rec = h.blocks[i].rec
      BY DeferSound
    <2>3. \A s \in Stream : \A j : Count(h.pending[s], j) <= Count(k.pending[s], j)
      BY DeferSound
    <2>4. \A s \in Stream : Count(h.blocks[i].rec, s) <= Count(k.pending[s], i)
      BY DeferSound
    <2> QED
      BY <2>1, <2>2, <2>3, <2>4
  <1>2. h \in Heap /\ k \in Heap
    BY <1>1 DEF Sound, HeapOk
  <1>3. ASSUME NEW j \in DOMAIN k.blocks, k.blocks[j].st = "pending", NEW s \in Stream
        PROVE  k.blocks[j].rec # <<>> /\ Count(k.blocks[j].rec, s) <= EntriesOf(k, m, s, j)
    <2>1. /\ EntriesOf(k, m, s, j) = Count(k.pending[s], j) /\ Count(k.pending[s], j) \in Int
          /\ EntriesOf(h, m, s, j) = Count(h.pending[s], j) /\ Count(h.pending[s], j) \in Int
      BY <1>2, EntriesUnlocked
    <2>2. CASE j = i
      BY <1>1, <2>1, <2>2
    <2>3. CASE j # i
      <3>1. j \in DOMAIN h.blocks /\ k.blocks[j] = h.blocks[j]
        BY <1>1, <1>3, <2>3
      <3>2. h.blocks[j].rec # <<>> /\ Count(h.blocks[j].rec, s) <= Count(h.pending[s], j)
        BY <1>3, <2>1, <3>1 DEF Waiting
      <3>3. Count(h.blocks[j].rec, s) \in Int
        <4>1. h.blocks[j] \in BlockRecord
          BY <1>2, <3>1, HeapTypes
        <4>2. h.blocks[j].rec \in Seq(Stream)
          BY <4>1 DEF BlockRecord
        <4>3. Count(h.blocks[j].rec, s) \in Nat
          BY <4>2, CountType
        <4> QED
          BY <4>3
      <3>4. Count(h.pending[s], j) <= Count(k.pending[s], j)
        BY <1>1
      <3>5. PICK a \in Int : a = Count(h.blocks[j].rec, s)
        BY <3>3
      <3>6. PICK b \in Int : b = Count(h.pending[s], j)
        BY <2>1
      <3>7. PICK c \in Int : c = Count(k.pending[s], j)
        BY <2>1
      <3>8. a <= c
        BY <3>2, <3>4, <3>5, <3>6, <3>7
      <3> QED
        BY <2>1, <3>1, <3>2, <3>5, <3>7, <3>8
    <2> QED
      BY <2>2, <2>3
  <1>4. ASSUME NEW j \in DOMAIN k.blocks, k.blocks[j].st = "pending"
        PROVE  k.blocks[j].rec # <<>>
    <2>1. CASE j = i
      BY <1>1, <2>1
    <2>2. CASE j # i
      BY <1>1, <1>4, <2>2 DEF Waiting
    <2> QED
      BY <2>1, <2>2
  <1> QED
    BY <1>3, <1>4 DEF Waiting

LEMMA FreeStep ==
  ASSUME Parts(heap, mutex, held, trimmed), NEW k \in Handle, Free(k)
  PROVE  Parts(heap', mutex', held', trimmed') /\ heap'.segs = heap.segs
  <1>1. PICK x : x = heap
    OBVIOUS
  <1>2. PICK m : m = mutex
    OBVIOUS
  <1>3. PICK p : p = held
    OBVIOUS
  <1>4. PICK T : T = trimmed
    OBVIOUS
  <1>5. PICK q : q = held'
    OBVIOUS
  <1>6. /\ Parts(x, m, p, T) /\ Sound(x, T) /\ x \in Heap /\ Locked(x, m) /\ Pointing(x, p)
        /\ Waiting(x, m)
    BY <1>1, <1>2, <1>3, <1>4 DEF Parts, Sound, HeapOk
  <1>7. Pointing(x, q)
    <2>1. q = [p EXCEPT ![k] = Nothing]
      BY <1>3, <1>5 DEF Free
    <2> QED
      BY <1>6, <2>1, EmptyHand
  <1>8. m.on = NoStream /\ trimmed' = T
    BY <1>2, <1>4 DEF Free, Call, Unlocked
  <1>9. PICK i : i = Named(held[k])
    OBVIOUS
  <1>10. \/ heap' = x /\ mutex' = m
         \/ i # None /\ x.blocks[i].rec # <<>> /\ heap' = Defer(x, i) /\ mutex' = m
         \/ i # None /\ heap' = Mark(x, i, "free", <<>>) /\ mutex' = Merging(i, NoStream, <<>>)
    BY <1>1, <1>2, <1>9 DEF Free
  <1>11. i # None => i \in DOMAIN x.blocks /\ i \in Nat
    <2>1. i # None => i \in DOMAIN x.blocks
      BY <1>1, <1>6, <1>9, NamedInUse
    <2>2. DOMAIN x.blocks = 1 .. Len(x.blocks) /\ Len(x.blocks) \in Nat
      BY <1>6, HeapTypes
    <2> QED
      BY <2>1, <2>2
  <1>12. PICK y : y = heap'
    OBVIOUS
  <1>13. CASE heap' = x /\ mutex' = m
    <2>1. Parts(x, m, q, T)
      BY <1>6, <1>7 DEF Parts
    <2> QED
      BY <1>1, <1>5, <1>8, <1>13, <2>1
  <1>14. CASE i # None /\ x.blocks[i].rec # <<>> /\ heap' = Defer(x, i) /\ mutex' = m
    <2>1. y = Defer(x, i) /\ i \in DOMAIN x.blocks
      BY <1>11, <1>12, <1>14
    <2>2. Sound(y, T) /\ Grown(x, y) /\ y.segs = x.segs
      BY <1>6, <2>1, DeferSound
    <2>3. Waiting(y, m)
      BY <1>6, <1>8, <1>14, <2>1, DeferWaits
    <2>4. Locked(y, m) /\ Pointing(y, q)
      BY <1>6, <1>7, <2>2, LockedStays, PointingStays
    <2>5. Parts(y, m, q, T)
      BY <2>2, <2>3, <2>4 DEF Parts
    <2> QED
      BY <1>1, <1>5, <1>8, <1>12, <1>14, <2>2, <2>5
  <1>15. CASE i # None /\ heap' = Mark(x, i, "free", <<>>) /\ mutex' = Merging(i, NoStream, <<>>)
    <2>1. <<>> \in Seq(Stream) /\ <<>> \in Seq(Nat)
      OBVIOUS
    <2>2. PICK e \in Seq(Stream) : e = <<>>
      BY <2>1
    <2>3. PICK u \in {"free", "inuse", "pending"} : u = "free"
      OBVIOUS
    <2>4. y = Mark(x, i, u, e) /\ i \in DOMAIN x.blocks /\ i \in Nat
      BY <1>11, <1>12, <1>15, <2>2, <2>3
    <2>5. /\ Sound(y, T) /\ Grown(x, y) /\ DOMAIN y.blocks = DOMAIN x.blocks
          /\ \A j \in DOMAIN x.blocks \ {i} : y.blocks[j] = x.blocks[j]
          /\ y.blocks[i].st = u /\ y.pending = x.pending /\ y.segs = x.segs
      BY <1>6, <2>4, MarkSound
    <2>6. PICK n : n = mutex'
      OBVIOUS
    <2>7. PICK z \in Seq(Nat) : z = <<>>
      BY <2>1
    <2>8. PICK on \in Stream \cup {NoStream} : on = NoStream
      OBVIOUS
    <2>9. n = Merging(i, on, z)
      BY <1>15, <2>6, <2>7, <2>8
    <2>10. ToSet(z) \subseteq DOMAIN y.blocks
      BY <2>7 DEF ToSet
    <2>11. Locked(y, n) /\ n.on = NoStream
      <3>1. Locked(y, n) /\ n.on = on /\ n.rest = z
        <4>1. i \in DOMAIN y.blocks /\ (on = NoStream => z = <<>>)
          BY <2>4, <2>5, <2>7
        <4> QED
          BY <2>4, <2>9, <2>10, <4>1 DEF Locked, Merging
      <3> QED
        BY <2>8, <3>1
    <2>12. \A s \in Stream : \A j \in DOMAIN x.blocks : EntriesOf(y, n, s, j) = EntriesOf(x, m, s, j)
      <3>1. y \in Heap
        BY <2>5 DEF Sound, HeapOk
      <3> QED
        BY <1>6, <1>8, <2>5, <2>11, <3>1, EntriesUnlocked, SMTT(30)
    <2>13. \A j \in DOMAIN y.blocks : y.blocks[j].st = "pending" =>
             j \in DOMAIN x.blocks /\ x.blocks[j].st = "pending" /\ y.blocks[j].rec = x.blocks[j].rec
      <3>1. u # "pending"
        BY <2>3
      <3> QED
        BY <2>5, <3>1
    <2>14. Parts(y, n, q, T)
      BY <1>6, <1>7, <2>5, <2>11, <2>12, <2>13, PartsKept
    <2> QED
      BY <1>1, <1>5, <1>8, <1>12, <2>5, <2>6, <2>14
  <1> QED
    BY <1>10, <1>13, <1>14, <1>15

LEMMA RecordStep ==
  ASSUME Parts(heap, mutex, held, trimmed), NEW k \in Handle, NEW s \in Stream, RecordStream(k, s)
  PROVE  Parts(heap', mutex', held', trimmed') /\ heap'.segs = heap.segs
  <1>1. PICK x : x = heap
    OBVIOUS
  <1>2. PICK m : m = mutex
    OBVIOUS
  <1>3. PICK p : p = held
    OBVIOUS
  <1>4. PICK T : T = trimmed
    OBVIOUS
  <1>5. PICK i : i = Named(held[k])
    OBVIOUS
  <1>6. PICK y : y = heap'
    OBVIOUS
  <1>7. /\ Parts(x, m, p, T) /\ Sound(x, T) /\ x \in Heap /\ Locked(x, m) /\ Pointing(x, p)
    BY <1>1, <1>2, <1>3, <1>4 DEF Parts, Sound, HeapOk
  <1>8. i \in DOMAIN x.blocks /\ x.blocks[i].st = "inuse"
    BY <1>1, <1>5, <1>7, NamedInUse DEF RecordStream
  <1>9. Append(x.blocks[i].rec, s) \in Seq(Stream)
    <2>1. x.blocks[i] \in BlockRecord
      BY <1>7, <1>8, HeapTypes
    <2>2. x.blocks[i].rec \in Seq(Stream)
      BY <2>1 DEF BlockRecord
    <2> QED
      BY <2>2, AppendProperties
  <1>10. PICK e \in Seq(Stream) : e = Append(x.blocks[i].rec, s)
    BY <1>9
  <1>11. PICK u \in {"free", "inuse", "pending"} : u = "inuse"
    OBVIOUS
  <1>12. y = Mark(x, i, u, e) /\ mutex' = m /\ held' = p /\ trimmed' = T
    BY <1>1, <1>2, <1>3, <1>4, <1>5, <1>6, <1>10, <1>11 DEF RecordStream
  <1>13. /\ Sound(y, T) /\ Grown(x, y) /\ DOMAIN y.blocks = DOMAIN x.blocks
         /\ \A j \in DOMAIN x.blocks \ {i} : y.blocks[j] = x.blocks[j]
         /\ y.blocks[i].st = u /\ y.pending = x.pending /\ y.segs = x.segs
    BY <1>7, <1>8, <1>12, MarkSound
  <1>14. \A t \in Stream : \A j \in DOMAIN x.blocks : EntriesOf(y, m, t, j) = EntriesOf(x, m, t, j)
    BY <1>13 DEF EntriesOf, Owed
  <1>15. \A j \in DOMAIN y.blocks : y.blocks[j].st = "pending" =>
           j \in DOMAIN x.blocks /\ x.blocks[j].st = "pending" /\ y.blocks[j].rec = x.blocks[j].rec
    <2>1. u # "pending"
      BY <1>11
    <2> QED
      BY <1>13, <2>1
  <1>16. Locked(y, m)
    BY <1>7, <1>13, LockedStays
  <1>17. Parts(y, m, p, T)
    BY <1>7, <1>13, <1>14, <1>15, <1>16, PartsKept
  <1> QED
    BY <1>1, <1>6, <1>12, <1>13, <1>17

LEMMA SynchronizeStep ==
  ASSUME Parts(heap, mutex, held, trimmed), NEW s \in Stream, SynchronizeStream(s)
  PROVE  Parts(heap', mutex', held', trimmed') /\ heap'.segs = heap.segs
  <1>1. PICK x : x = heap
    OBVIOUS
  <1>2. PICK m : m = mutex
    OBVIOUS
  <1>3. PICK p : p = held
    OBVIOUS
  <1>4. PICK T : T = trimmed
    OBVIOUS
  <1>5. PICK y : y = heap'
    OBVIOUS
  <1>6. PICK n : n = mutex'
    OBVIOUS
  <1>7. Parts(x, m, p, T) /\ Sound(x, T) /\ x \in Heap /\ Pointing(x, p) /\ Listed(x)
    BY <1>1, <1>2, <1>3, <1>4 DEF Parts, Sound, HeapOk
  <1>8. PICK q : q = x.pending[s]
    OBVIOUS
  <1>9. /\ y = [x EXCEPT !.pending[s] = <<>>] /\ n = Draining(s, q) /\ m.on = NoStream
        /\ held' = p /\ trimmed' = T
    BY <1>1, <1>2, <1>3, <1>4, <1>5, <1>6, <1>8 DEF SynchronizeStream, Call, Unlocked
  <1>10. x.pending \in [Stream -> Seq(Nat)]
    BY <1>7, HeapTypes
  <1>11. q \in Seq(Nat) /\ ToSet(q) \subseteq DOMAIN x.blocks
    BY <1>7, <1>8, <1>10 DEF Listed
  <1>12. PICK P : P = [x.pending EXCEPT ![s] = <<>>]
    OBVIOUS
  <1>13. /\ P \in [Stream -> Seq(Nat)] /\ P[s] = <<>>
         /\ \A t \in Stream \ {s} : P[t] = x.pending[t]
    <2>1. <<>> \in Seq(Nat)
      OBVIOUS
    <2> QED
      BY <1>10, <1>12, <2>1
  <1>14. \A t \in Stream : ToSet(P[t]) \subseteq DOMAIN x.blocks
    <2>1. ToSet(<<>>) = {}
      BY DEF ToSet
    <2> QED
      BY <1>7, <1>13, <2>1 DEF Listed
  <1>15. y = [x EXCEPT !.pending = P]
    BY <1>9, <1>12, Zenon
  <1>16. /\ Sound(y, T) /\ Grown(x, y)
         /\ y.blocks = x.blocks /\ y.pending = P /\ y.segs = x.segs
    BY <1>7, <1>13, <1>14, <1>15, Relisted
  <1>17. /\ Locked(y, n)
         /\ \A t \in Stream : \A i : EntriesOf(y, n, t, i) = Owed(y, s, q, t, i)
    <2>1. s # NoStream
      BY AllocatorAssumption
    <2>2. PICK z \in Stream \cup {NoStream} : z = s
      OBVIOUS
    <2>3. n = Draining(z, q) /\ (z = NoStream => q = <<>>) /\ ToSet(q) \subseteq DOMAIN y.blocks
      BY <1>9, <1>11, <1>16, <2>1, <2>2
    <2>4. /\ Locked(y, n)
          /\ \A t \in Stream : \A i : EntriesOf(y, n, t, i) = Owed(y, z, q, t, i)
      <3>1. Locked(y, n) /\ Owes(y, n, z, q)
        BY <1>11, <2>3, DrainingOn
      <3> QED
        BY <3>1 DEF Owes
    <2> QED
      BY <2>2, <2>4
  <1>18. ASSUME NEW t \in Stream, NEW i \in DOMAIN x.blocks
         PROVE  EntriesOf(y, n, t, i) = EntriesOf(x, m, t, i)
    <2>1. EntriesOf(x, m, t, i) = Count(x.pending[t], i) /\ Count(x.pending[t], i) \in Int
      BY <1>7, <1>9, EntriesUnlocked
    <2>2. EntriesOf(y, n, t, i) = Count(P[t], i) + IF s = t THEN Count(q, i) ELSE 0
      BY <1>16, <1>17 DEF Owed
    <2>3. CASE t = s
      <3>1. Count(P[t], i) = 0
        BY <1>13, <2>3, CountEmpty
      <3> QED
        BY <1>8, <2>1, <2>2, <2>3, <3>1
    <2>4. CASE t # s
      BY <1>13, <2>1, <2>2, <2>4
    <2> QED
      BY <2>3, <2>4
  <1>19. \A i \in DOMAIN y.blocks : y.blocks[i].st = "pending" =>
           i \in DOMAIN x.blocks /\ x.blocks[i].st = "pending" /\ y.blocks[i].rec = x.blocks[i].rec
    BY <1>16
  <1>20. Parts(y, n, p, T)
    BY <1>7, <1>16, <1>17, <1>18, <1>19, PartsKept
  <1> QED
    BY <1>1, <1>5, <1>6, <1>9, <1>16, <1>20

(* The neighbours a merge looks at are blocks.                             *)
LEMMA Neighbours ==
  ASSUME NEW h, HeapOk(h), NEW i \in DOMAIN h.blocks
  PROVE  /\ h.blocks[i].prev # None => h.blocks[i].prev \in DOMAIN h.blocks
         /\ h.blocks[i].next # None => h.blocks[i].next \in DOMAIN h.blocks
  <1>1. PICK r \in [DOMAIN h.blocks -> Nat] : Ordered(h, r)
    BY DEF HeapOk, Linked
  <1> QED
    BY <1>1 DEF Ordered

LEMMA AbsorbParts ==
  ASSUME NEW h, NEW m, NEW p, NEW T, Parts(h, m, p, T),
         NEW a \in DOMAIN h.blocks, NEW b \in DOMAIN h.blocks,
         h.blocks[a].next = b \/ h.blocks[b].prev = a, NEW k, k = Absorb(h, a, b),
         NEW n, Locked(h, n), n.on = m.on, n.rest = m.rest
  PROVE  Parts(k, n, p, T) /\ k.segs = h.segs
  <1>1. Sound(h, T) /\ Pointing(h, p)
    BY DEF Parts
  <1>2. /\ Sound(k, T) /\ Grown(h, k) /\ k.pending = h.pending /\ k.segs = h.segs
        /\ DOMAIN k.blocks = DOMAIN h.blocks
        /\ \A i \in DOMAIN h.blocks : k.blocks[i].st = h.blocks[i].st /\ k.blocks[i].rec = h.blocks[i].rec
    BY <1>1, AbsorbSound
  <1>3. Locked(k, n)
    BY <1>2, LockedStays
  <1>4. \A s \in Stream : \A i \in DOMAIN h.blocks : EntriesOf(k, n, s, i) = EntriesOf(h, m, s, i)
    BY <1>2 DEF EntriesOf, Owed
  <1>5. \A i \in DOMAIN k.blocks : k.blocks[i].st = "pending" =>
          i \in DOMAIN h.blocks /\ h.blocks[i].st = "pending" /\ k.blocks[i].rec = h.blocks[i].rec
    BY <1>2
  <1>6. Parts(k, n, p, T)
    BY <1>1, <1>2, <1>3, <1>4, <1>5, PartsKept
  <1> QED
    BY <1>2, <1>6

LEMMA MergePrevStep ==
  ASSUME Parts(heap, mutex, held, trimmed), MergePrev
  PROVE  Parts(heap', mutex', held', trimmed') /\ heap'.segs = heap.segs
  <1>1. PICK x : x = heap
    OBVIOUS
  <1>2. PICK m : m = mutex
    OBVIOUS
  <1>3. PICK p : p = held
    OBVIOUS
  <1>4. PICK T : T = trimmed
    OBVIOUS
  <1>5. PICK y : y = heap'
    OBVIOUS
  <1>6. PICK n : n = mutex'
    OBVIOUS
  <1>7. PICK b : b = m.cur
    OBVIOUS
  <1>8. PICK a : a = x.blocks[b].prev
    OBVIOUS
  <1>9. Parts(x, m, p, T) /\ HeapOk(x) /\ Locked(x, m)
    BY <1>1, <1>2, <1>3, <1>4 DEF Parts, Sound
  <1>10. /\ m.at = "merge" /\ a # None /\ y = Absorb(x, a, b) /\ n = [m EXCEPT !.cur = a]
         /\ held' = p /\ trimmed' = T
    BY <1>1, <1>2, <1>3, <1>4, <1>5, <1>6, <1>7, <1>8 DEF MergePrev, Prev, IsFree
  <1>11. b \in DOMAIN x.blocks
    BY <1>7, <1>9, <1>10 DEF Locked
  <1>12. a \in DOMAIN x.blocks
    BY <1>8, <1>9, <1>10, <1>11, Neighbours
  <1>13. a \in Nat
    <2>1. x \in Heap
      BY <1>9 DEF HeapOk
    <2>2. DOMAIN x.blocks = 1 .. Len(x.blocks) /\ Len(x.blocks) \in Nat
      BY <2>1, HeapTypes
    <2> QED
      BY <1>12, <2>2
  <1>14. Locked(x, n) /\ n.on = m.on /\ n.rest = m.rest
    BY <1>9, <1>10, <1>12, <1>13 DEF Locked
  <1>15. Parts(y, n, p, T) /\ y.segs = x.segs
    <2>1. x.blocks[b].prev = a
      BY <1>8
    <2>2. y = Absorb(x, a, b)
      BY <1>10
    <2> QED
      BY <1>9, <1>11, <1>12, <1>14, <2>1, <2>2, AbsorbParts
  <1> QED
    BY <1>1, <1>5, <1>6, <1>10, <1>15

LEMMA MergeNextStep ==
  ASSUME Parts(heap, mutex, held, trimmed), MergeNext
  PROVE  Parts(heap', mutex', held', trimmed') /\ heap'.segs = heap.segs
  <1>1. PICK x : x = heap
    OBVIOUS
  <1>2. PICK m : m = mutex
    OBVIOUS
  <1>3. PICK p : p = held
    OBVIOUS
  <1>4. PICK T : T = trimmed
    OBVIOUS
  <1>5. PICK y : y = heap'
    OBVIOUS
  <1>6. PICK a : a = m.cur
    OBVIOUS
  <1>7. PICK b : b = x.blocks[a].next
    OBVIOUS
  <1>8. Parts(x, m, p, T) /\ HeapOk(x) /\ Locked(x, m)
    BY <1>1, <1>2, <1>3, <1>4 DEF Parts, Sound
  <1>9. /\ m.at = "merge" /\ b # None /\ y = Absorb(x, a, b)
        /\ mutex' = m /\ held' = p /\ trimmed' = T
    BY <1>1, <1>2, <1>3, <1>4, <1>5, <1>6, <1>7 DEF MergeNext, Succ, IsFree
  <1>10. a \in DOMAIN x.blocks
    BY <1>6, <1>8, <1>9 DEF Locked
  <1>11. b \in DOMAIN x.blocks
    BY <1>7, <1>8, <1>9, <1>10, Neighbours
  <1>12. Parts(y, m, p, T) /\ y.segs = x.segs
    BY <1>7, <1>8, <1>9, <1>10, <1>11, AbsorbParts
  <1> QED
    BY <1>1, <1>5, <1>9, <1>12

LEMMA ReturnToBinStep ==
  ASSUME Parts(heap, mutex, held, trimmed), ReturnToBin
  PROVE  Parts(heap', mutex', held', trimmed') /\ heap'.segs = heap.segs
  <1>1. PICK x : x = heap
    OBVIOUS
  <1>2. PICK m : m = mutex
    OBVIOUS
  <1>3. PICK p : p = held
    OBVIOUS
  <1>4. PICK T : T = trimmed
    OBVIOUS
  <1>5. PICK y : y = heap'
    OBVIOUS
  <1>6. PICK n : n = mutex'
    OBVIOUS
  <1>7. PICK i : i = m.cur
    OBVIOUS
  <1>8. PICK s : s = m.on
    OBVIOUS
  <1>9. PICK q : q = m.rest
    OBVIOUS
  <1>10. Parts(x, m, p, T) /\ Sound(x, T) /\ Locked(x, m) /\ Pointing(x, p)
    BY <1>1, <1>2, <1>3, <1>4 DEF Parts
  <1>11. /\ m.at = "merge" /\ y = PushBack(x, i) /\ n = Draining(s, q)
         /\ held' = p /\ trimmed' = T
    BY <1>1, <1>2, <1>3, <1>4, <1>5, <1>6, <1>7, <1>8, <1>9 DEF ReturnToBin
  <1>12. /\ i \in DOMAIN x.blocks /\ s \in Stream \cup {NoStream} /\ q \in Seq(Nat)
         /\ (s = NoStream => q = <<>>) /\ ToSet(q) \subseteq DOMAIN x.blocks
    BY <1>7, <1>8, <1>9, <1>10, <1>11 DEF Locked
  <1>13. /\ Sound(y, T) /\ Grown(x, y)
         /\ y.blocks = x.blocks /\ y.pending = x.pending /\ y.segs = x.segs
    BY <1>10, <1>11, <1>12, PushBackSound
  <1>14. ToSet(q) \subseteq DOMAIN y.blocks
    BY <1>12, <1>13
  <1>15. /\ Locked(y, n)
         /\ \A t \in Stream : \A j : EntriesOf(y, n, t, j) = Owed(y, s, q, t, j)
    <2>1. Locked(y, n) /\ Owes(y, n, s, q)
      BY <1>11, <1>12, <1>14, DrainingOn
    <2> QED
      BY <2>1 DEF Owes
  <1>16. \A t \in Stream : \A j \in DOMAIN x.blocks : EntriesOf(y, n, t, j) = EntriesOf(x, m, t, j)
    BY <1>8, <1>9, <1>13, <1>15 DEF EntriesOf, Owed
  <1>17. \A j \in DOMAIN y.blocks : y.blocks[j].st = "pending" =>
           j \in DOMAIN x.blocks /\ x.blocks[j].st = "pending" /\ y.blocks[j].rec = x.blocks[j].rec
    BY <1>13
  <1>18. Parts(y, n, p, T)
    BY <1>10, <1>13, <1>15, <1>16, <1>17, PartsKept
  <1> QED
    BY <1>1, <1>5, <1>6, <1>11, <1>13, <1>18

(* One occurrence of x, if there is one, is taken off list q.              *)
Less(q, x) == IF x \in ToSet(q) THEN RemoveFirst(q, x) ELSE q

LEMMA LeftOver ==
  ASSUME NEW S, NEW q \in Seq(S), NEW x, NEW l, l = Less(q, x), NEW y
  PROVE  /\ l \in Seq(S) /\ Count(l, y) \in Nat /\ Count(q, y) \in Nat
         /\ y # x => Count(l, y) <= Count(q, y)
         /\ y = x => Count(l, y) = 0 \/ Count(l, y) <= Count(q, y) - 1
  <1>1. Count(q, y) \in Nat
    BY CountType
  <1>2. CASE x \in ToSet(q)
    <2>1. l = RemoveFirst(q, x)
      BY <1>2 DEF Less
    <2>2. l \in Seq(S)
      BY <1>2, <2>1, RemovedFirst
    <2>3. Count(l, y) \in Nat
      BY <2>2, CountType
    <2>4. Count(l, y) <= Count(q, y) - (IF y = x THEN 1 ELSE 0)
      BY <1>2, <2>1, CountRemoved
    <2> QED
      BY <1>1, <2>2, <2>3, <2>4
  <1>3. CASE x \notin ToSet(q)
    <2>1. l = q
      BY <1>3 DEF Less
    <2>2. {j \in DOMAIN q : q[j] = x} = {}
      BY <1>3 DEF ToSet
    <2>3. Count(q, x) = 0
      BY <2>2, FS_EmptySet DEF Count
    <2> QED
      BY <1>1, <2>1, <2>3
  <1> QED
    BY <1>2, <1>3

(* The block at the head of the list loses an annotation and an entry; the *)
(* others lose neither.                                                    *)
LEMMA DrainedWaits ==
  ASSUME NEW h \in Heap, NEW m, Waiting(h, m), Locked(h, m), m.on \in Stream, m.rest # <<>>,
         NEW i, i = Head(m.rest), i \in DOMAIN h.blocks, NEW l, NEW w, w = Tail(m.rest),
         l = Less(h.blocks[i].rec, m.on),
         NEW k, DOMAIN k.blocks = DOMAIN h.blocks, k.pending = h.pending,
         \A j \in DOMAIN h.blocks \ {i} : k.blocks[j] = h.blocks[j], k.blocks[i].rec = l,
         k.blocks[i].st = "pending" => h.blocks[i].st = "pending" /\ l # <<>>,
         NEW n, Owes(k, n, m.on, w)
  PROVE  Waiting(k, n)
  <1>1. m.rest \in Seq(Nat)
    BY DEF Locked
  <1>2. w \in Seq(Nat)
    BY <1>1, TailElements
  <1>3. ASSUME NEW j \in DOMAIN k.blocks, k.blocks[j].st = "pending"
        PROVE  k.blocks[j].rec # <<>>
    <2>1. CASE j = i
      BY <1>3, <2>1
    <2>2. CASE j # i
      BY <1>3, <2>2 DEF Waiting
    <2> QED
      BY <2>1, <2>2
  <1>4. ASSUME NEW j \in DOMAIN k.blocks, k.blocks[j].st = "pending", NEW s \in Stream
        PROVE  Count(k.blocks[j].rec, s) <= EntriesOf(k, n, s, j)
    <2>1. j \in DOMAIN h.blocks /\ h.blocks[j].st = "pending"
      BY <1>4
    <2>2. EntriesOf(k, n, s, j) = Count(h.pending[s], j) + IF m.on = s THEN Count(w, j) ELSE 0
      BY DEF Owes, Owed
    <2>3. Count(h.blocks[j].rec, s) <= Count(h.pending[s], j) + IF m.on = s THEN Count(m.rest, j) ELSE 0
      BY <2>1 DEF Waiting, EntriesOf, Owed
    <2>4. PICK r : r = h.blocks[j].rec
      OBVIOUS
    <2>5. r \in Seq(Stream)
      <3>1. h.blocks[j] \in BlockRecord
        BY <2>1, HeapTypes
      <3> QED
        BY <2>4, <3>1 DEF BlockRecord
    <2>6. PICK a \in Nat : a = Count(h.pending[s], j)
      <3>1. h.pending[s] \in Seq(Nat)
        BY HeapTypes
      <3>2. Count(h.pending[s], j) \in Nat
        BY <3>1, CountType
      <3> QED
        BY <3>2
    <2>7. PICK b \in Nat : b = Count(m.rest, j)
      <3>1. Count(m.rest, j) \in Nat
        BY <1>1, CountType
      <3> QED
        BY <3>1
    <2>8. PICK c \in Nat : c = Count(w, j)
      <3>1. Count(w, j) \in Nat
        BY <1>2, CountType
      <3> QED
        BY <3>1
    <2>9. PICK d \in Nat : d = Count(r, s)
      <3>1. Count(r, s) \in Nat
        BY <2>5, CountType
      <3> QED
        BY <3>1
    <2>10. d <= a + IF m.on = s THEN b ELSE 0
      BY <2>3, <2>4, <2>6, <2>7, <2>9
    <2>11. b - (IF j = i THEN 1 ELSE 0) <= c
      <3>1. Count(m.rest, j) - (IF j = Head(m.rest) THEN 1 ELSE 0) <= Count(Tail(m.rest), j)
        BY <1>1, CountTail
      <3> QED
        BY <2>7, <2>8, <3>1
    <2>12. EntriesOf(k, n, s, j) = a + IF m.on = s THEN c ELSE 0
      BY <2>2, <2>6, <2>8
    <2>13. CASE j # i
      <3>1. k.blocks[j].rec = r
        BY <2>1, <2>4, <2>13
      <3>2. d <= a + IF m.on = s THEN c ELSE 0
        BY <2>10, <2>11, <2>13
      <3> QED
        BY <2>9, <2>12, <3>1, <3>2
    <2>14. CASE j = i
      <3>1. PICK on : on = m.on
        OBVIOUS
      <3>2. l = Less(r, on)
        BY <2>4, <2>14, <3>1
      <3>3. /\ Count(l, s) \in Nat
            /\ s # on => Count(l, s) <= Count(r, s)
            /\ s = on => Count(l, s) = 0 \/ Count(l, s) <= Count(r, s) - 1
        <4>1. Count(l, s) \in Nat
          BY <2>5, <3>2, LeftOver
        <4>2. s # on => Count(l, s) <= Count(r, s)
          BY <2>5, <3>2, LeftOver
        <4>3. s = on => Count(l, s) = 0 \/ Count(l, s) <= Count(r, s) - 1
          BY <2>5, <3>2, LeftOver
        <4> QED
          BY <4>1, <4>2, <4>3
      <3>4. PICK e \in Nat : e = Count(l, s)
        BY <3>3
      <3>5. e <= a + IF m.on = s THEN c ELSE 0
        <4>1. /\ s # m.on => e <= d
              /\ s = m.on => e = 0 \/ e <= d - 1
          BY <2>9, <3>1, <3>3, <3>4
        <4> QED
          BY <2>10, <2>11, <2>14, <4>1
      <3> QED
        BY <2>12, <2>14, <3>4, <3>5
    <2> QED
      BY <2>13, <2>14
  <1> QED
    BY <1>3, <1>4 DEF Waiting

LEMMA DrainStep ==
  ASSUME Parts(heap, mutex, held, trimmed), Drain
  PROVE  Parts(heap', mutex', held', trimmed') /\ heap'.segs = heap.segs
  <1>1. PICK x : x = heap
    OBVIOUS
  <1>2. PICK m : m = mutex
    OBVIOUS
  <1>3. PICK p : p = held
    OBVIOUS
  <1>4. PICK T : T = trimmed
    OBVIOUS
  <1>5. PICK y : y = heap'
    OBVIOUS
  <1>6. PICK n : n = mutex'
    OBVIOUS
  <1>7. PICK i : i = Head(m.rest)
    OBVIOUS
  <1>8. PICK w : w = Tail(m.rest)
    OBVIOUS
  <1>9. PICK l : l = Less(x.blocks[i].rec, m.on)
    OBVIOUS
  <1>10. PICK st : st = x.blocks[i].st
    OBVIOUS
  <1>11. m.at = "drain" /\ held' = p /\ trimmed' = T
    BY <1>2, <1>3, <1>4 DEF Drain
  <1>12. \/ l = <<>> /\ st = "pending" /\ y = Mark(x, i, "free", l) /\ n = Merging(i, m.on, w)
         \/ ~(l = <<>> /\ st = "pending") /\ y = Mark(x, i, st, l) /\ n = Draining(m.on, w)
    <2> DEFINE done == l = <<>> /\ st = "pending"
    <2>1. /\ y = Mark(x, i, IF done THEN "free" ELSE st, l)
          /\ n = IF done THEN Merging(i, m.on, w) ELSE Draining(m.on, w)
      BY <1>1, <1>2, <1>5, <1>6, <1>7, <1>8, <1>9, <1>10, Zenon DEF Drain, Less
    <2> QED
      BY <2>1
  <1>13. /\ Sound(x, T) /\ x \in Heap /\ Locked(x, m) /\ Pointing(x, p) /\ Waiting(x, m)
    BY <1>1, <1>2, <1>3, <1>4 DEF Parts, Sound, HeapOk
  <1>14. m.rest \in Seq(Nat) /\ m.rest # <<>> /\ m.on \in Stream /\ ToSet(m.rest) \subseteq DOMAIN x.blocks
    BY <1>11, <1>13 DEF Locked
  <1>15. /\ w \in Seq(Nat) /\ ToSet(w) \subseteq DOMAIN x.blocks
         /\ i \in Nat /\ i \in DOMAIN x.blocks
    <2>1. /\ Tail(m.rest) \in Seq(Nat) /\ ToSet(Tail(m.rest)) \subseteq ToSet(m.rest)
          /\ Head(m.rest) \in Nat /\ Head(m.rest) \in ToSet(m.rest)
      BY <1>14, TailElements
    <2> QED
      BY <1>7, <1>8, <1>14, <2>1
  <1>16. l \in Seq(Stream) /\ st \in {"free", "inuse", "pending"}
    <2>1. x.blocks[i] \in BlockRecord
      BY <1>13, <1>15, HeapTypes
    <2>2. x.blocks[i].rec \in Seq(Stream) /\ x.blocks[i].st \in {"free", "inuse", "pending"}
      BY <2>1 DEF BlockRecord
    <2>3. l \in Seq(Stream)
      BY <1>9, <2>2, LeftOver
    <2> QED
      BY <1>10, <2>2, <2>3
  <1>17. PICK u \in {"free", "inuse", "pending"} :
           y = Mark(x, i, u, l) /\ (u = "pending" => st = "pending" /\ l # <<>>)
    BY <1>12, <1>16
  <1>18. /\ Sound(y, T) /\ Grown(x, y) /\ DOMAIN y.blocks = DOMAIN x.blocks
         /\ \A j \in DOMAIN x.blocks \ {i} : y.blocks[j] = x.blocks[j]
         /\ y.blocks[i].st = u /\ y.blocks[i].rec = l
         /\ y.pending = x.pending /\ y.segs = x.segs
    BY <1>13, <1>15, <1>16, <1>17, MarkSound
  <1>19. PICK on \in Stream \cup {NoStream} : on = m.on
    BY <1>14
  <1>20. Locked(y, n) /\ Owes(y, n, on, w)
    <2>1. on # NoStream
      BY <1>14, <1>19, AllocatorAssumption
    <2>2. ToSet(w) \subseteq DOMAIN y.blocks /\ i \in DOMAIN y.blocks
      BY <1>15, <1>18
    <2>3. CASE n = Merging(i, m.on, w)
      <3>1. n = Merging(i, on, w)
        BY <1>19, <2>3
      <3>2. Locked(y, n) /\ n.on = on /\ n.rest = w
        BY <1>15, <2>1, <2>2, <3>1, MergingOn
      <3> QED
        BY <3>2 DEF Owes, EntriesOf
    <2>4. CASE n = Draining(m.on, w)
      <3>1. n = Draining(on, w)
        BY <1>19, <2>4
      <3> QED
        BY <1>15, <2>1, <2>2, <3>1, DrainingOn
    <2> QED
      BY <1>12, <2>3, <2>4
  <1>21. Waiting(y, n)
    <2>1. y.blocks[i].st = "pending" => x.blocks[i].st = "pending" /\ l # <<>>
      BY <1>10, <1>17, <1>18
    <2>2. Owes(y, n, m.on, w)
      BY <1>19, <1>20
    <2> QED
      BY <1>7, <1>8, <1>9, <1>13, <1>14, <1>15, <1>18, <2>1, <2>2, DrainedWaits, ZenonT(60)
  <1>22. Pointing(y, p)
    BY <1>13, <1>18, PointingStays
  <1>23. Parts(y, n, p, T)
    BY <1>18, <1>20, <1>21, <1>22 DEF Parts
  <1> QED
    BY <1>1, <1>5, <1>6, <1>11, <1>18, <1>23

(* No segment is given back twice: those given back have blocks of size 0. *)
LEMMA EmptyCacheStep ==
  ASSUME Parts(heap, mutex, held, trimmed), reserved = Reserved(heap, trimmed), EmptyCache
  PROVE  Parts(heap', mutex', held', trimmed') /\ reserved' = Reserved(heap', trimmed')
  <1>1. PICK x : x = heap
    OBVIOUS
  <1>2. PICK m : m = mutex
    OBVIOUS
  <1>3. PICK p : p = held
    OBVIOUS
  <1>4. PICK T : T = trimmed
    OBVIOUS
  <1>5. PICK y : y = heap'
    OBVIOUS
  <1>6. PICK G : G = Trimmable
    OBVIOUS
  <1>7. PICK V : V = T \cup G
    OBVIOUS
  <1>8. /\ Parts(x, m, p, T) /\ Sound(x, T) /\ x \in Heap /\ Locked(x, m) /\ Pointing(x, p)
    BY <1>1, <1>2, <1>3, <1>4 DEF Parts, Sound, HeapOk
  <1>9. y = Trim(x, G) /\ mutex' = m /\ held' = p /\ trimmed' = V
    BY <1>1, <1>2, <1>3, <1>4, <1>5, <1>6, <1>7 DEF EmptyCache
  <1>10. /\ G \subseteq DOMAIN x.segs
         /\ \A g \in G : \A i \in DOMAIN x.blocks : x.blocks[i].seg = g => x.blocks[i].size > 0
    BY <1>1, <1>6 DEF Trimmable
  <1>11. T \subseteq DOMAIN x.segs /\ G \subseteq DOMAIN x.segs \ T
    <2>1. /\ T \subseteq DOMAIN x.segs
          /\ \A i \in DOMAIN x.blocks : x.blocks[i].seg \in T => x.blocks[i].size = 0
      BY <1>8 DEF Sound, Accounted
    <2>2. ASSUME NEW g \in G, g \in T
          PROVE  FALSE
      <3>1. PICK i \in DOMAIN x.blocks : x.blocks[i].seg = g
        BY <1>8, <1>10 DEF Sound, HeapOk, Segmented
      <3>2. x.blocks[i].size > 0 /\ x.blocks[i].size = 0
        BY <1>10, <2>1, <2>2, <3>1
      <3> QED
        BY <3>2
    <2> QED
      BY <1>10, <2>1, <2>2
  <1>12. /\ Sound(y, T \cup G) /\ Grown(x, y) /\ y.pending = x.pending /\ y.segs = x.segs
         /\ DOMAIN y.blocks = DOMAIN x.blocks
         /\ \A j \in DOMAIN x.blocks : y.blocks[j].st = x.blocks[j].st /\ y.blocks[j].rec = x.blocks[j].rec
    BY <1>8, <1>9, <1>10, TrimSound
  <1>13. Sound(y, V)
    BY <1>7, <1>12
  <1>14. Locked(y, m)
    BY <1>8, <1>12, LockedStays
  <1>15. \A s \in Stream : \A i \in DOMAIN x.blocks : EntriesOf(y, m, s, i) = EntriesOf(x, m, s, i)
    BY <1>12 DEF EntriesOf, Owed
  <1>16. \A i \in DOMAIN y.blocks : y.blocks[i].st = "pending" =>
           i \in DOMAIN x.blocks /\ x.blocks[i].st = "pending" /\ y.blocks[i].rec = x.blocks[i].rec
    BY <1>12
  <1>17. Parts(y, m, p, V)
    BY <1>8, <1>12, <1>13, <1>14, <1>15, <1>16, PartsKept
  <1>18. PICK e : e = [g \in DOMAIN x.segs |-> x.segs[g].total]
    OBVIOUS
  <1>19. PICK S : S = DOMAIN x.segs \ T
    OBVIOUS
  <1>20. SumFunctionOnSet(e, S \ G) = SumFunctionOnSet(e, S) - SumFunctionOnSet(e, G)
    <2>1. IsFiniteSet(DOMAIN x.segs) /\ \A g \in DOMAIN x.segs : x.segs[g] \in Segment
      BY <1>8, HeapTypes
    <2>2. IsFiniteSet(S)
      BY <1>19, <2>1, FS_Subset
    <2>3. \A g \in S : e[g] \in Int
      BY <1>18, <1>19, <2>1 DEF Segment
    <2>4. G \in SUBSET S
      BY <1>11, <1>19
    <2> QED
      BY <2>2, <2>3, <2>4, SumSplit
  <1>21. Reserved(x, T) = SumFunctionOnSet(e, S)
    BY <1>18, <1>19 DEF Reserved
  <1>22. Reserved(y, V) = SumFunctionOnSet(e, S \ G)
    <2>1. DOMAIN x.segs \ V = S \ G
      BY <1>7, <1>19
    <2> QED
      BY <1>12, <1>18, <2>1 DEF Reserved
  <1>23. reserved' = reserved - SumFunctionOnSet(e, G)
    BY <1>1, <1>6, <1>18, Zenon DEF EmptyCache, Totals
  <1> QED
    BY <1>1, <1>4, <1>5, <1>9, <1>17, <1>20, <1>21, <1>22, <1>23

-----------------------------------------------------------------------------
LEMMA AllocInit ==
  ASSUME Init
  PROVE  AllocInv
  <1>1. PICK h : h = heap
    OBVIOUS
  <1>2. PICK T : T = trimmed
    OBVIOUS
  <1>3. /\ h = [blocks |-> <<>>, segs |-> <<>>,
                bins |-> [s \in Stream |-> [b \in Bin |-> <<>>]],
                pending |-> [s \in Stream |-> <<>>]]
        /\ T = {}
    BY <1>1, <1>2 DEF Init
  <1>4. /\ h.blocks = <<>> /\ h.segs = <<>> /\ DOMAIN h.blocks = {} /\ DOMAIN h.segs = {}
        /\ h.bins = [s \in Stream |-> [b \in Bin |-> <<>>]]
        /\ h.pending = [s \in Stream |-> <<>>]
    BY <1>3
  <1>5. h \in Heap
    <2>1. /\ <<>> \in Seq(BlockRecord) /\ <<>> \in Seq(Segment) /\ <<>> \in Seq(Nat)
      OBVIOUS
    <2>2. /\ [s \in Stream |-> [b \in Bin |-> <<>>]] \in [Stream -> [Bin -> Seq(Nat)]]
          /\ [s \in Stream |-> <<>>] \in [Stream -> Seq(Nat)]
      BY <2>1
    <2> QED
      BY <1>3, <2>1, <2>2 DEF Heap
  <1>6. Linked(h)
    <2>1. [i \in {} |-> 0] \in [{} -> Nat]
      OBVIOUS
    <2>2. \E r \in [DOMAIN h.blocks -> Nat] : TRUE
      BY <1>4, <2>1
    <2> QED
      BY <1>4, <2>2 DEF Linked, Ordered
  <1>7. Segmented(h) /\ Listed(h)
    <2>1. ToSet(<<>>) = {}
      BY DEF ToSet
    <2>2. \A s \in Stream : h.pending[s] = <<>> /\ \A b \in Bin : h.bins[s][b] = <<>>
      BY <1>4
    <2> QED
      BY <1>4, <2>1, <2>2 DEF Segmented, Listed
  <1>8. Accounted(h, T)
    BY <1>3, <1>4 DEF Accounted
  <1>9. Sound(h, T)
    BY <1>5, <1>6, <1>7, <1>8 DEF Sound, HeapOk
  <1>10. Locked(heap, mutex)
    <2>1. /\ <<>> \in Seq(Nat) /\ ToSet(<<>>) = {} /\ None \in Nat
      BY DEF ToSet, None
    <2>2. mutex = [at |-> "idle", cur |-> None, on |-> NoStream, rest |-> <<>>]
      BY DEF Init, Unlocked
    <2> QED
      BY <2>1, <2>2 DEF Locked
  <1>11. Pointing(heap, held)
    <2>1. Nothing \in [idx : Nat, addr : Nat, size : Nat, stream : Stream \cup {NoStream}]
      BY DEF Nothing, None
    <2> QED
      BY <2>1 DEF Init, Pointing
  <1>12. Waiting(heap, mutex)
    BY <1>1, <1>4 DEF Waiting
  <1>13. reserved = Reserved(heap, trimmed)
    <2>1. DOMAIN h.segs \ T = {}
      BY <1>4
    <2>2. PICK e : e = [g \in DOMAIN h.segs |-> h.segs[g].total]
      OBVIOUS
    <2>3. SumFunctionOnSet(e, {}) = 0
      BY SumEmpty
    <2>4. Reserved(h, T) = 0
      BY <2>1, <2>2, <2>3 DEF Reserved
    <2> QED
      BY <1>1, <1>2, <2>4 DEF Init
  <1>14. next \in Nat
    BY DEF Init, None
  <1> QED
    BY <1>1, <1>2, <1>9, <1>10, <1>11, <1>12, <1>13, <1>14 DEF AllocInv

LEMMA AllocNext ==
  ASSUME AllocInv, [Next]_vars
  PROVE  AllocInv'
  <1>1. /\ Parts(heap, mutex, held, trimmed) /\ next \in Nat /\ reserved = Reserved(heap, trimmed)
    BY DEF AllocInv, Parts
  <1> DEFINE Kept == heap'.segs = heap.segs /\ UNCHANGED <<trimmed, next, reserved>>
  <1>2. ASSUME Kept
        PROVE  next' \in Nat /\ reserved' = Reserved(heap', trimmed')
    BY <1>1, <1>2 DEF Reserved
  <1> DEFINE Good == /\ Parts(heap', mutex', held', trimmed') /\ next' \in Nat
                     /\ reserved' = Reserved(heap', trimmed')
  <1>3. SUFFICES Good
    BY DEF AllocInv, Parts
  <1>4. ASSUME NEW s \in Stream, NEW n \in Size, AllocHit(s, n)
        PROVE  Good
    <2>1. Parts(heap', mutex', held', trimmed') /\ heap'.segs = heap.segs
      BY <1>1, <1>4, AllocHitStep
    <2>2. UNCHANGED <<trimmed, next, reserved>>
      BY <1>4 DEF AllocHit
    <2> QED
      BY <1>2, <2>1, <2>2
  <1>5. ASSUME NEW s \in Stream, NEW n \in Size, AllocSplit(s, n)
        PROVE  Good
    <2>1. Parts(heap', mutex', held', trimmed') /\ heap'.segs = heap.segs
      BY <1>1, <1>5, AllocSplitStep
    <2>2. UNCHANGED <<trimmed, next, reserved>>
      BY <1>5 DEF AllocSplit
    <2> QED
      BY <1>2, <2>1, <2>2
  <1>6. ASSUME NEW s \in Stream, NEW n \in Size, AllocMiss(s, n)
        PROVE  Good
    BY <1>1, <1>6, AllocMissStep
  <1>7. ASSUME NEW k \in Handle, Free(k)
        PROVE  Good
    <2>1. Parts(heap', mutex', held', trimmed') /\ heap'.segs = heap.segs
      BY <1>1, <1>7, FreeStep
    <2>2. UNCHANGED <<trimmed, next, reserved>>
      BY <1>7 DEF Free
    <2> QED
      BY <1>2, <2>1, <2>2
  <1>8. ASSUME NEW k \in Handle, NEW s \in Stream, RecordStream(k, s)
        PROVE  Good
    <2>1. Parts(heap', mutex', held', trimmed') /\ heap'.segs = heap.segs
      BY <1>1, <1>8, RecordStep
    <2>2. UNCHANGED <<trimmed, next, reserved>>
      BY <1>8 DEF RecordStream
    <2> QED
      BY <1>2, <2>1, <2>2
  <1>9. ASSUME NEW s \in Stream, SynchronizeStream(s)
        PROVE  Good
    <2>1. Parts(heap', mutex', held', trimmed') /\ heap'.segs = heap.segs
      BY <1>1, <1>9, SynchronizeStep
    <2>2. UNCHANGED <<trimmed, next, reserved>>
      BY <1>9 DEF SynchronizeStream
    <2> QED
      BY <1>2, <2>1, <2>2
  <1>10. CASE MergePrev
    <2>1. Parts(heap', mutex', held', trimmed') /\ heap'.segs = heap.segs
      BY <1>1, <1>10, MergePrevStep
    <2>2. UNCHANGED <<trimmed, next, reserved>>
      BY <1>10 DEF MergePrev
    <2> QED
      BY <1>2, <2>1, <2>2
  <1>11. CASE MergeNext
    <2>1. Parts(heap', mutex', held', trimmed') /\ heap'.segs = heap.segs
      BY <1>1, <1>11, MergeNextStep
    <2>2. UNCHANGED <<trimmed, next, reserved>>
      BY <1>11 DEF MergeNext
    <2> QED
      BY <1>2, <2>1, <2>2
  <1>12. CASE ReturnToBin
    <2>1. Parts(heap', mutex', held', trimmed') /\ heap'.segs = heap.segs
      BY <1>1, <1>12, ReturnToBinStep
    <2>2. UNCHANGED <<trimmed, next, reserved>>
      BY <1>12 DEF ReturnToBin
    <2> QED
      BY <1>2, <2>1, <2>2
  <1>13. CASE Drain
    <2>1. Parts(heap', mutex', held', trimmed') /\ heap'.segs = heap.segs
      BY <1>1, <1>13, DrainStep
    <2>2. UNCHANGED <<trimmed, next, reserved>>
      BY <1>13 DEF Drain
    <2> QED
      BY <1>2, <2>1, <2>2
  <1>14. CASE EmptyCache
    <2>1. Parts(heap', mutex', held', trimmed') /\ reserved' = Reserved(heap', trimmed')
      BY <1>1, <1>14, EmptyCacheStep
    <2>2. next' = next
      BY <1>14 DEF EmptyCache
    <2> QED
      BY <1>1, <2>1, <2>2
  <1>15. CASE UNCHANGED vars
    BY <1>1, <1>15 DEF vars
  <1> QED
    BY <1>4, <1>5, <1>6, <1>7, <1>8, <1>9, <1>10, <1>11, <1>12, <1>13, <1>14, <1>15 DEF Next

LEMMA AllocSafe == Spec => []AllocInv
  <1>1. Init => AllocInv
    BY AllocInit
  <1>2. AllocInv /\ [Next]_vars => AllocInv'
    BY AllocNext
  <1> QED
    BY <1>1, <1>2, PTL DEF Spec

(* A stream's bins and pointers never reach into another stream's          *)
(* segments: alloc, split_and_use, coalesce_and_return and the deferred    *)
(* frees keep the per-stream pools apart, for any streams, sizes and       *)
(* number of calls.                                                        *)
THEOREM StreamPoolsNeverMix == Spec => []StreamLocal
  <1>1. AllocInv => StreamLocal
    <2> SUFFICES ASSUME AllocInv PROVE StreamLocal
      OBVIOUS
    <2>1. Listed(heap) /\ Pointing(heap, held)
      BY DEF AllocInv, Sound, HeapOk
    <2> QED
      BY <2>1 DEF StreamLocal, Listed, Pointing
  <1> QED
    BY <1>1, AllocSafe, PTL

(* A deferred block is never forgotten: synchronising the streams recorded *)
(* against it takes all its annotations off, whatever calls come between.  *)
THEOREM DeferredBlocksAreReleased == Spec => []PendingIsReleasable
  <1>1. AllocInv => PendingIsReleasable
    <2> SUFFICES ASSUME AllocInv,
                        NEW i \in DOMAIN heap.blocks, heap.blocks[i].st = "pending"
                 PROVE  /\ heap.blocks[i].rec # <<>>
                        /\ \A s \in Stream : Entries(s, i) >= Count(heap.blocks[i].rec, s)
      BY DEF PendingIsReleasable
    <2>1. heap \in Heap /\ Waiting(heap, mutex) /\ Locked(heap, mutex)
      BY DEF AllocInv, Sound, HeapOk
    <2>2. heap.blocks[i].rec # <<>>
      BY <2>1 DEF Waiting
    <2>3. ASSUME NEW s \in Stream
          PROVE  Entries(s, i) >= Count(heap.blocks[i].rec, s)
      <3>1. Count(heap.blocks[i].rec, s) <= Entries(s, i)
        BY <2>1 DEF Waiting, EntriesOf, Owed, Entries
      <3>2. Count(heap.blocks[i].rec, s) \in Nat
        <4>1. heap.blocks[i] \in BlockRecord
          BY <2>1, HeapTypes
        <4>2. heap.blocks[i].rec \in Seq(Stream)
          BY <4>1 DEF BlockRecord
        <4> QED
          BY <4>2, CountType
      <3>3. Entries(s, i) \in Nat
        <4>1. heap.pending[s] \in Seq(Nat) /\ mutex.rest \in Seq(Nat)
          BY <2>1, HeapTypes DEF Locked
        <4>2. Count(heap.pending[s], i) \in Nat /\ Count(mutex.rest, i) \in Nat
          BY <4>1, CountType
        <4> QED
          BY <4>2 DEF Entries
      <3> QED
        BY <3>1, <3>2, <3>3
    <2> QED
      BY <2>2, <2>3
  <1> QED
    BY <1>1, AllocSafe, PTL

(* Splitting, merging, deferring and trimming neither lose nor invent      *)
(* memory: the blocks of every segment not given back add up to its size,  *)
(* and reserved_bytes to those segments', for any sizes and calls.         *)
THEOREM NoMemoryIsLost == Spec => []SizesAddUp
  <1>1. AllocInv => SizesAddUp
    <2> SUFFICES ASSUME AllocInv PROVE SizesAddUp
      OBVIOUS
    <2>1. reserved = Reserved(heap, trimmed) /\ Accounted(heap, trimmed)
      BY DEF AllocInv, Sound
    <2>2. reserved = SumFunctionOnSet(Totals, DOMAIN heap.segs \ trimmed)
      BY <2>1 DEF Reserved, Totals
    <2>3. ASSUME NEW g \in DOMAIN heap.segs \ trimmed
          PROVE  heap.segs[g].total = SumFunctionOnSet(Sizes, BlocksOf(g))
      BY <2>1 DEF Accounted, SizesOf, Within, Sizes, BlocksOf
    <2> QED
      BY <2>2, <2>3 DEF SizesAddUp
  <1> QED
    BY <1>1, AllocSafe, PTL

-----------------------------------------------------------------------------
(* The routers.                                                            *)

(* The first of the largest.                                               *)
Beats(i, j, value) == value[j] < value[i] \/ (value[j] = value[i] /\ i <= j)

LEMMA ExpertsAreFinite ==
  Experts \subseteq Nat /\ IsFiniteSet(Experts) /\ Cardinality(Experts) = n_experts
  <1>1. n_experts \in Nat \ {0}
    BY TopKAssumption
  <1>2. PICK b \in Int : b = n_experts - 1
    BY <1>1
  <1>3. IsFiniteSet(0 .. b) /\ Cardinality(0 .. b) = n_experts
    BY <1>1, <1>2, FS_Interval
  <1>4. Experts = 0 .. b
    BY <1>2 DEF Experts
  <1> QED
    BY <1>3, <1>4

LEMMA BestOf ==
  ASSUME NEW from \in SUBSET Experts, from # {}, NEW v, \A i \in from : v[i] \in Int
  PROVE  Best(from, v) \in from /\ \A j \in from : Beats(Best(from, v), j, v)
  <1>1. Experts \subseteq Nat /\ IsFiniteSet(Experts)
    BY ExpertsAreFinite
  <1>2. IsFiniteSet(from)
    BY <1>1, FS_Subset
  <1>3. PICK m \in from : \A k \in from : v[k] <= v[m]
    BY <1>2, Greatest
  <1> DEFINE ties == {i \in from : v[i] = v[m]}
  <1>4. ties \in SUBSET Nat /\ ties # {}
    BY <1>1, <1>3
  <1>5. PICK b \in ties : \A k \in ties : b <= k
    BY <1>4, Least
  <1>6. b \in from /\ \A j \in from : Beats(b, j, v)
    <2>1. b \in from /\ v[b] = v[m]
      BY <1>5
    <2>2. ASSUME NEW j \in from PROVE Beats(b, j, v)
      <3>1. CASE v[j] = v[m]
        BY <1>5, <2>1, <3>1 DEF Beats
      <3>2. CASE v[j] # v[m]
        BY <1>3, <2>1, <3>2 DEF Beats
      <3> QED
        BY <3>1, <3>2
    <2> QED
      BY <2>1, <2>2
  <1> QED
    BY <1>6 DEF Best, Beats

LEMMA BestIs ==
  ASSUME NEW from \in SUBSET Experts, NEW v, \A i \in from : v[i] \in Int,
         NEW b \in from, \A j \in from : Beats(b, j, v)
  PROVE  Best(from, v) = b
  <1>1. Best(from, v) \in from /\ \A j \in from : Beats(Best(from, v), j, v)
    BY BestOf
  <1>2. PICK c \in from : c = Best(from, v) /\ Beats(c, b, v) /\ Beats(b, c, v)
    BY <1>1
  <1>3. c \in Nat /\ b \in Nat
    BY TopKAssumption DEF Experts
  <1>4. v[b] \in Int /\ v[c] \in Int
    OBVIOUS
  <1>5. b = c
    BY <1>2, <1>3, <1>4 DEF Beats
  <1> QED
    BY <1>2, <1>5

-----------------------------------------------------------------------------
Chosen == {topi[m] : m \in 1 .. Len(topi)}

TkTypes ==
  /\ tkVariant \in {"serial", "parallel"}
  /\ tkLogits \in [Experts -> Ranks]
  /\ tkStep \in [SimdGroups -> Nat]
  /\ DOMAIN s_red_i = SimdGroups
  /\ s_buf \in [Experts -> Int] /\ stored \in [Experts -> Int]
  /\ topi \in Seq(Experts) /\ Len(topi) <= k_top

(* No simdgroup is more than a barrier ahead of another.                   *)
Barriers ==
  \A g, h \in SimdGroups : tkStep[g] >= 5 => tkStep[h] >= tkStep[g] - 1

(* The selection starts once all probabilities are stored, masks what it   *)
(* chose and nothing else.                                                 *)
Masked ==
  /\ topi # <<>> => \A g \in SimdGroups : tkStep[g] >= 6
  /\ \A g \in SimdGroups : tkStep[g] >= 6 => \A i \in ExpertsOf(g) : stored[i] \in Nat
  /\ \A i \in Experts : s_buf[i] = IF i \in Chosen THEN NoRank ELSE stored[i]

(* Simdgroup 0 is in the round of the next choice, and what a simdgroup    *)
(* published for that round is current until the choice is made.           *)
Rounds ==
  /\ tkVariant = "serial" => \A g \in SimdGroups : tkStep[g] <= 6
  /\ tkVariant = "parallel" =>
       /\ tkStep[0] >= 6 => tkStep[0] \in {6 + 2 * Len(topi), 7 + 2 * Len(topi)}
       /\ \A g \in SimdGroups :
            tkStep[g] \in {7 + 2 * Len(topi), 8 + 2 * Len(topi)} =>
              s_red_i[g] = IF ExpertsOf(g) = {} THEN -1 ELSE Best(ExpertsOf(g), s_buf)

TkInv == TkTypes /\ Barriers /\ Masked /\ Rounds /\ ChoosesTheMostProbable

(* Every expert is a lane of some simdgroup.                               *)
LEMMA Lanes ==
  /\ 0 \in SimdGroups /\ SimdGroups \subseteq Nat
  /\ \A i \in Experts : i \in Nat /\ \E g \in SimdGroups : i \in ExpertsOf(g)
  /\ \A g \in SimdGroups : ExpertsOf(g) \subseteq Experts
  /\ \A g, h \in SimdGroups : \A i \in ExpertsOf(g) : i \in ExpertsOf(h) => g = h
  <1>1. 0 \in SimdGroups /\ SimdGroups \subseteq Nat
    BY TopKAssumption DEF SimdGroups
  <1>2. ASSUME NEW i \in Experts PROVE i \in Nat /\ \E g \in SimdGroups : i \in ExpertsOf(g)
    <2>1. i \in Nat /\ i < NumGroups * GroupSize
      BY TopKAssumption DEF Experts
    <2>2. PICK q : q = i \div GroupSize
      OBVIOUS
    <2>3. /\ q \in Nat /\ GroupSize * q + (i % GroupSize) = i /\ i % GroupSize \in Nat
          /\ NumGroups \in Nat /\ GroupSize \in Nat \ {0}
      BY <2>1, <2>2, TopKAssumption
    <2>4. q < NumGroups
      <3> SUFFICES ASSUME q >= NumGroups PROVE FALSE
        BY <2>3
      <3>1. PICK d \in Nat : q = NumGroups + d
        BY <2>3
      <3>2. GroupSize * q = NumGroups * GroupSize + GroupSize * d /\ GroupSize * d \in Nat
        BY <2>3, <3>1
      <3> QED
        BY <2>1, <2>3, <3>2
    <2>5. q \in SimdGroups
      BY <2>3, <2>4 DEF SimdGroups
    <2> QED
      BY <2>1, <2>2, <2>5 DEF ExpertsOf
  <1> QED
    BY <1>1, <1>2 DEF ExpertsOf

(* While experts are left to choose, the best of the masked probabilities  *)
(* is the best of those left.                                              *)
LEMMA NextBest ==
  ASSUME TkInv, \A g \in SimdGroups : tkStep[g] >= 6, Len(topi) < k_top
  PROVE  /\ Best(Experts, s_buf) \in Experts \ Chosen
         /\ Best(Experts, s_buf) = Best(Experts \ Chosen, stored)
         /\ \A j \in Experts : Beats(Best(Experts, s_buf), j, s_buf)
  <1>1. TkTypes /\ Masked /\ topi \in Seq(Experts) /\ Len(topi) \in Nat /\ DOMAIN topi = 1 .. Len(topi)
    BY LenProperties DEF TkInv, TkTypes
  <1>2. \A i \in Experts : stored[i] \in Nat
    BY <1>1, Lanes DEF Masked
  <1>3. \A i \in Experts : s_buf[i] = IF i \in Chosen THEN -1 ELSE stored[i]
    BY <1>1 DEF Masked, NoRank
  <1>4. Experts \ Chosen # {}
    <2>1. topi \in Surjection(1 .. Len(topi), Chosen)
      BY <1>1 DEF Surjection, Chosen
    <2>2. IsFiniteSet(1 .. Len(topi)) /\ Cardinality(1 .. Len(topi)) = Len(topi)
      BY <1>1, FS_Interval
    <2>3. IsFiniteSet(Chosen) /\ Cardinality(Chosen) <= Len(topi) /\ Cardinality(Chosen) \in Nat
      BY <2>1, <2>2, FS_Surjection, FS_CardinalityType
    <2>4. IsFiniteSet(Experts) /\ Cardinality(Experts) = n_experts
      BY ExpertsAreFinite
    <2>5. Experts \subseteq Chosen => Cardinality(Experts) <= Cardinality(Chosen)
      BY <2>3, FS_Subset
    <2>6. ~(Experts \subseteq Chosen)
      BY <1>1, <2>3, <2>4, <2>5, TopKAssumption
    <2> QED
      BY <2>6
  <1>5. PICK rest \in SUBSET Experts : rest = Experts \ Chosen
    OBVIOUS
  <1>6. PICK v : v = stored
    OBVIOUS
  <1>7. \A i \in rest : v[i] \in Int
    BY <1>2, <1>6
  <1>8. PICK c : c = Best(rest, v)
    OBVIOUS
  <1>9. c \in rest /\ \A j \in rest : Beats(c, j, v)
    BY <1>4, <1>5, <1>7, <1>8, BestOf
  <1>10. PICK w : w = s_buf
    OBVIOUS
  <1>11. \A i \in Experts : w[i] \in Int
    BY <1>1, <1>10 DEF TkTypes
  <1>12. \A j \in Experts : Beats(c, j, w)
    <2> TAKE j \in Experts
    <2>1. w[c] = stored[c] /\ stored[c] \in Nat
      BY <1>2, <1>3, <1>5, <1>9, <1>10
    <2>2. CASE j \in Chosen
      BY <1>3, <1>10, <2>1, <2>2 DEF Beats
    <2>3. CASE j \notin Chosen
      BY <1>3, <1>5, <1>6, <1>9, <1>10, <2>1, <2>3 DEF Beats
    <2> QED
      BY <2>2, <2>3
  <1>13. Best(Experts, w) = c
    BY <1>5, <1>9, <1>11, <1>12, BestIs
  <1> QED
    BY <1>5, <1>6, <1>8, <1>9, <1>10, <1>12, <1>13

(* The best of the simdgroups' bests is the best of all.                   *)
LEMMA BestOfBests ==
  ASSUME TkInv, \A g \in SimdGroups : tkStep[g] >= 6, Len(topi) < k_top,
         \A g \in SimdGroups :
           s_red_i[g] = IF ExpertsOf(g) = {} THEN -1 ELSE Best(ExpertsOf(g), s_buf)
  PROVE  Best({s_red_i[h] : h \in SimdGroups} \ {-1}, s_buf) = Best(Experts, s_buf)
  <1>1. PICK c : c = Best(Experts, s_buf)
    OBVIOUS
  <1>2. c \in Experts /\ \A j \in Experts : Beats(c, j, s_buf)
    BY <1>1, NextBest
  <1>3. PICK w : w = s_buf
    OBVIOUS
  <1>4. \A i \in Experts : w[i] \in Int
    BY <1>3 DEF TkInv, TkTypes
  <1>5. PICK g \in SimdGroups : c \in ExpertsOf(g)
    BY <1>2, Lanes
  <1>6. Best(ExpertsOf(g), w) = c
    <2>1. ExpertsOf(g) \in SUBSET Experts
      BY Lanes
    <2> QED
      BY <1>2, <1>3, <1>4, <1>5, <2>1, BestIs
  <1>7. s_red_i[g] = c /\ c # -1
    BY <1>2, <1>3, <1>5, <1>6, Lanes
  <1>8. ASSUME NEW h \in SimdGroups, s_red_i[h] # -1 PROVE s_red_i[h] \in Experts
    <2>1. ExpertsOf(h) # {} /\ s_red_i[h] = Best(ExpertsOf(h), w)
      BY <1>3, <1>8
    <2>2. ExpertsOf(h) \in SUBSET Experts
      BY Lanes
    <2>3. Best(ExpertsOf(h), w) \in ExpertsOf(h)
      BY <1>4, <2>1, <2>2, BestOf
    <2> QED
      BY <2>1, <2>2, <2>3
  <1>9. PICK B : B = {s_red_i[h] : h \in SimdGroups} \ {-1}
    OBVIOUS
  <1>10. B \in SUBSET Experts /\ c \in B
    BY <1>7, <1>8, <1>9
  <1>11. Best(B, w) = c
    BY <1>2, <1>3, <1>4, <1>10, BestIs
  <1> QED
    BY <1>1, <1>3, <1>9, <1>11

-----------------------------------------------------------------------------
(* The inductive step, action by action.                                   *)
LEMMA TkInvInit ==
  ASSUME TkInit
  PROVE  TkInv
  <1>1. Chosen = {} /\ topi = <<>> /\ Len(topi) = 0
    BY DEF TkInit, Chosen
  <1>2. TkTypes
    <2>1. topi \in Seq(Experts) /\ k_top \in Nat
      BY <1>1, TopKAssumption
    <2>2. s_buf \in [Experts -> Int] /\ stored \in [Experts -> Int]
      BY DEF TkInit, NoRank
    <2> QED
      BY <1>1, <2>1, <2>2 DEF TkInit, TkTypes
  <1>3. \A g \in SimdGroups : tkStep[g] = 0
    BY DEF TkInit
  <1>4. Barriers
    BY <1>3 DEF Barriers
  <1>5. Masked
    BY <1>1, <1>3 DEF TkInit, Masked
  <1>6. Rounds
    BY <1>1, <1>3, Lanes DEF Rounds
  <1>7. ChoosesTheMostProbable
    BY <1>1 DEF ChoosesTheMostProbable
  <1> QED
    BY <1>2, <1>4, <1>5, <1>6, <1>7 DEF TkInv

(* What passing a barrier does to the steps.                               *)
LEMMA TurnStep ==
  ASSUME TkInv, NEW g \in SimdGroups, NEW s \in Nat, Turn(g, s)
  PROVE  /\ tkStep' \in [SimdGroups -> Nat] /\ tkStep[g] = s /\ tkStep'[g] = s + 1
         /\ \A h \in SimdGroups : h # g => tkStep'[h] = tkStep[h]
         /\ \A h \in SimdGroups : tkStep'[h] >= tkStep[h]
         /\ Barriers'
  <1>1. tkStep \in [SimdGroups -> Nat] /\ Barriers
    BY DEF TkInv, TkTypes
  <1>2. /\ tkStep' \in [SimdGroups -> Nat] /\ tkStep[g] = s /\ tkStep'[g] = s + 1
        /\ \A h \in SimdGroups : h # g => tkStep'[h] = tkStep[h]
    BY <1>1 DEF Turn
  <1>3. \A h \in SimdGroups : tkStep'[h] >= tkStep[h]
    BY <1>1, <1>2
  <1>4. s >= 4 => \A h \in SimdGroups : tkStep[h] >= s
    BY DEF Turn
  <1>5. ASSUME NEW a \in SimdGroups, NEW b \in SimdGroups, tkStep'[a] >= 5
        PROVE  tkStep'[b] >= tkStep'[a] - 1
    <2>0. tkStep[a] \in Nat /\ tkStep[b] \in Nat /\ tkStep'[a] \in Nat /\ tkStep'[b] \in Nat
      BY <1>1, <1>2
    <2>1. CASE a = g
      <3>1. tkStep[b] >= s
        BY <1>2, <1>4, <1>5, <2>1
      <3> QED
        BY <1>2, <1>3, <2>0, <2>1, <3>1
    <2>2. CASE a # g
      <3>1. tkStep[b] >= tkStep[a] - 1
        BY <1>1, <1>2, <1>5, <2>2 DEF Barriers
      <3> QED
        BY <1>2, <1>3, <2>0, <2>2, <3>1
    <2> QED
      BY <2>1, <2>2
  <1> QED
    BY <1>2, <1>3, <1>5 DEF Barriers

(* Before the probabilities are stored nothing the selection reads changes.*)
LEMMA EarlyStep ==
  ASSUME TkInv, NEW g \in SimdGroups, NEW s \in 0 .. 4, Turn(g, s),
         UNCHANGED <<tkVariant, tkLogits, s_red_i, s_buf, stored, topi>>
  PROVE  TkInv'
  <1>1. /\ tkStep' \in [SimdGroups -> Nat] /\ tkStep[g] = s /\ tkStep'[g] = s + 1
        /\ \A h \in SimdGroups : h # g => tkStep'[h] = tkStep[h]
        /\ \A h \in SimdGroups : tkStep'[h] >= tkStep[h]
        /\ Barriers'
    BY TurnStep
  <1>2. TkTypes'
    BY <1>1 DEF TkInv, TkTypes
  <1>3. Chosen' = Chosen
    BY DEF Chosen
  <1>4. \A h \in SimdGroups : tkStep'[h] \in Nat /\ tkStep[h] \in Nat
    BY <1>1 DEF TkInv, TkTypes
  <1>5. \A h \in SimdGroups : tkStep'[h] >= 6 => tkStep[h] = tkStep'[h]
    BY <1>1, <1>4
  <1>6. \A h \in SimdGroups : tkStep[h] >= 6 => tkStep'[h] >= 6
    BY <1>1, <1>4
  <1>7. Masked'
    BY <1>3, <1>5, <1>6 DEF TkInv, Masked, ExpertsOf
  <1>8. Rounds'
    <2>1. Rounds /\ Len(topi) \in Nat
      BY LenProperties DEF TkInv, TkTypes
    <2>2. tkVariant = "serial" => \A h \in SimdGroups : tkStep'[h] <= 6
      BY <1>4, <1>5, <2>1 DEF Rounds
    <2>3. tkVariant = "parallel" => (tkStep'[0] >= 6 => tkStep'[0] \in {6 + 2 * Len(topi), 7 + 2 * Len(topi)})
      BY <1>5, <2>1, Lanes DEF Rounds
    <2>4. ASSUME tkVariant = "parallel", NEW h \in SimdGroups,
                 tkStep'[h] \in {7 + 2 * Len(topi), 8 + 2 * Len(topi)}
          PROVE  s_red_i[h] = IF ExpertsOf(h) = {} THEN -1 ELSE Best(ExpertsOf(h), s_buf)
      <3>1. tkStep'[h] >= 6
        BY <2>1, <2>4
      <3> QED
        BY <1>5, <2>1, <2>4, <3>1 DEF Rounds
    <2> QED
      BY <2>2, <2>3, <2>4 DEF Rounds
  <1>9. ChoosesTheMostProbable'
    BY DEF TkInv, ChoosesTheMostProbable
  <1> QED
    BY <1>1, <1>2, <1>7, <1>8, <1>9 DEF TkInv

LEMMA StoreStep ==
  ASSUME TkInv, NEW g \in SimdGroups, StoreProbabilities(g)
  PROVE  TkInv'
  <1>1. /\ tkStep' \in [SimdGroups -> Nat] /\ tkStep[g] = 5 /\ tkStep'[g] = 6
        /\ \A h \in SimdGroups : h # g => tkStep'[h] = tkStep[h]
        /\ Barriers'
    BY TurnStep DEF StoreProbabilities
  <1>2. topi = <<>> /\ topi' = topi /\ Len(topi) = 0 /\ Chosen = {} /\ Chosen' = {}
    <2>1. topi = <<>>
      BY <1>1 DEF TkInv, Masked
    <2> QED
      BY <2>1 DEF StoreProbabilities, Chosen
  <1>3. PICK p : /\ p \in [Experts -> Ranks]
                 /\ s_buf' = [i \in Experts |-> IF i \in ExpertsOf(g) THEN p[i] ELSE s_buf[i]]
                 /\ stored' = s_buf'
    BY DEF StoreProbabilities, TkInv, TkTypes
  <1>4. \A i \in Experts : p[i] \in Nat
    BY <1>3, TopKAssumption
  <1>5. TkTypes'
    <2>1. s_buf' \in [Experts -> Int]
      BY <1>3, <1>4 DEF TkInv, TkTypes
    <2> QED
      BY <1>1, <1>2, <1>3, <2>1 DEF TkInv, TkTypes, StoreProbabilities
  <1>6. \A i \in Experts : s_buf[i] = stored[i]
    BY <1>2 DEF TkInv, Masked
  <1>7. Masked'
    <2>1. ASSUME NEW h \in SimdGroups, tkStep'[h] >= 6, NEW i \in ExpertsOf(h) PROVE stored'[i] \in Nat
      <3>0. i \in Experts
        BY Lanes
      <3>1. CASE h = g
        BY <1>3, <1>4, <2>1, <3>0, <3>1
      <3>2. CASE h # g
        <4>1. i \notin ExpertsOf(g)
          BY <3>2, Lanes
        <4>2. stored[i] \in Nat
          BY <1>1, <2>1, <3>2 DEF TkInv, Masked
        <4> QED
          BY <1>3, <1>6, <3>0, <4>1, <4>2
      <3> QED
        BY <3>1, <3>2
    <2> QED
      BY <1>2, <1>3, <2>1 DEF Masked, ExpertsOf
  <1>8. Rounds'
    <2>1. Rounds /\ UNCHANGED tkVariant /\ Len(topi') = 0
      BY <1>2 DEF TkInv, StoreProbabilities
    <2>2. \A h \in SimdGroups : tkStep'[h] <= 6
      <3>1. tkStep \in [SimdGroups -> Nat] /\ \A h \in SimdGroups : tkStep[h] >= 5 => 5 >= tkStep[h] - 1
        BY <1>1 DEF TkInv, TkTypes, Barriers
      <3> QED
        BY <1>1, <3>1
    <2>3. \A h \in SimdGroups : tkStep'[h] \in Nat
      BY <1>1
    <2>4. tkStep'[0] >= 6 => tkStep'[0] = 6
      BY <2>2, <2>3, Lanes
    <2>5. \A h \in SimdGroups : tkStep'[h] \notin {7, 8}
      BY <2>2, <2>3
    <2> QED
      BY <2>1, <2>2, <2>4, <2>5 DEF Rounds
  <1>9. ChoosesTheMostProbable'
    BY <1>2 DEF ChoosesTheMostProbable
  <1> QED
    BY <1>1, <1>5, <1>7, <1>8, <1>9 DEF TkInv


(* Choosing the best of those left and masking it.                         *)
LEMMA ChosenStep ==
  ASSUME TkInv, \A g \in SimdGroups : tkStep[g] >= 6, Len(topi) < k_top,
         Choose(Best(Experts, s_buf)), UNCHANGED <<tkVariant, tkLogits, s_red_i, stored>>,
         tkStep' \in [SimdGroups -> Nat], \A h \in SimdGroups : tkStep'[h] >= tkStep[h]
  PROVE  TkTypes' /\ Masked' /\ ChoosesTheMostProbable' /\ Len(topi') = Len(topi) + 1
  <1>1. PICK c : c = Best(Experts, s_buf)
    OBVIOUS
  <1>2. c \in Experts \ Chosen /\ c = Best(Experts \ Chosen, stored)
    BY <1>1, NextBest
  <1>3. topi \in Seq(Experts) /\ k_top \in Nat
    BY TopKAssumption DEF TkInv, TkTypes
  <1>4. topi' = Append(topi, c) /\ s_buf' = [s_buf EXCEPT ![c] = -1]
    BY <1>1 DEF Choose, NoRank
  <1>5. /\ topi' \in Seq(Experts) /\ Len(topi') = Len(topi) + 1 /\ Len(topi) \in Nat
        /\ \A n \in 1 .. Len(topi) : topi'[n] = topi[n]
        /\ topi'[Len(topi) + 1] = c
    BY <1>2, <1>3, <1>4, AppendProperties, LenProperties
  <1>6. Chosen' = Chosen \cup {c}
    BY <1>5 DEF Chosen
  <1>7. TkTypes'
    <2>1. s_buf' \in [Experts -> Int]
      <3>1. s_buf \in [Experts -> Int] /\ -1 \in Int /\ c \in Experts
        BY <1>2 DEF TkInv, TkTypes
      <3> QED
        BY <1>4, <3>1
    <2>2. Len(topi') <= k_top
      BY <1>3, <1>5
    <2> QED
      BY <1>5, <2>1, <2>2 DEF TkInv, TkTypes
  <1>8. Masked'
    <2>1. \A h \in SimdGroups : tkStep'[h] >= 6
      BY DEF TkInv, TkTypes
    <2>2. \A h \in SimdGroups : \A i \in ExpertsOf(h) : stored'[i] \in Nat
      BY DEF TkInv, Masked
    <2>3. ASSUME NEW i \in Experts PROVE s_buf'[i] = IF i \in Chosen' THEN NoRank ELSE stored'[i]
      <3>1. s_buf[i] = IF i \in Chosen THEN NoRank ELSE stored[i]
        BY DEF TkInv, Masked
      <3>2. s_buf \in [Experts -> Int] /\ stored' = stored
        BY DEF TkInv, TkTypes
      <3>3. s_buf'[i] = IF i = c THEN NoRank ELSE s_buf[i]
        BY <1>2, <1>4, <3>2 DEF NoRank
      <3> QED
        BY <1>6, <3>1, <3>2, <3>3
    <2> QED
      BY <2>1, <2>2, <2>3 DEF Masked
  <1>9. ChoosesTheMostProbable'
    <2> SUFFICES ASSUME NEW n \in 1 .. Len(topi) + 1
                 PROVE  topi'[n] = Best(Experts \ {topi'[m] : m \in 1 .. n - 1}, stored)
      BY <1>5 DEF ChoosesTheMostProbable
    <2>1. CASE n \in 1 .. Len(topi)
      <3>1. \A m \in 1 .. n - 1 : topi'[m] = topi[m]
        BY <1>5, <2>1
      <3>2. {topi'[m] : m \in 1 .. n - 1} = {topi[m] : m \in 1 .. n - 1}
        BY <3>1
      <3>3. topi[n] = Best(Experts \ {topi[m] : m \in 1 .. n - 1}, stored)
        BY <2>1 DEF TkInv, ChoosesTheMostProbable
      <3> QED
        BY <1>5, <2>1, <3>2, <3>3
    <2>2. CASE n = Len(topi) + 1
      <3>1. 1 .. n - 1 = 1 .. Len(topi)
        BY <1>5, <2>2
      <3>2. \A m \in 1 .. n - 1 : topi'[m] = topi[m]
        BY <1>5, <3>1
      <3>3. {topi'[m] : m \in 1 .. n - 1} = Chosen
        BY <3>1, <3>2 DEF Chosen
      <3> QED
        BY <1>2, <1>5, <2>2, <3>3
    <2> QED
      BY <1>5, <2>1, <2>2
  <1> QED
    BY <1>5, <1>7, <1>8, <1>9

LEMMA SerialStep ==
  ASSUME TkInv, NEW g \in SimdGroups, SerialTurn(g)
  PROVE  TkInv'
  <1>1. /\ tkStep \in [SimdGroups -> Nat] /\ tkStep' = tkStep /\ tkVariant' = tkVariant
        /\ \A h \in SimdGroups : tkStep[h] >= 6
        /\ Choose(Best(Experts, s_buf)) /\ Len(topi) < k_top /\ tkVariant = "serial"
    BY DEF SerialTurn, TkInv, TkTypes
  <1>2. \A h \in SimdGroups : tkStep'[h] >= tkStep[h]
    BY <1>1
  <1>3. TkTypes' /\ Masked' /\ ChoosesTheMostProbable'
    BY <1>1, <1>2, ChosenStep DEF SerialTurn
  <1>4. Barriers' /\ Rounds'
    BY <1>1 DEF TkInv, Barriers, Rounds
  <1> QED
    BY <1>3, <1>4 DEF TkInv

LEMMA PublishStep ==
  ASSUME TkInv, NEW g \in SimdGroups, NEW k \in 0 .. k_top - 1, PublishBest(g, k)
  PROVE  TkInv'
  <1>0. k \in Nat
    BY TopKAssumption
  <1>1. /\ tkStep' \in [SimdGroups -> Nat] /\ tkStep[g] = 6 + 2 * k /\ tkStep'[g] = 7 + 2 * k
        /\ \A h \in SimdGroups : h # g => tkStep'[h] = tkStep[h]
        /\ \A h \in SimdGroups : tkStep'[h] >= tkStep[h]
        /\ Barriers'
    <2>1. PICK s \in Nat : s = 6 + 2 * k
      BY <1>0
    <2> QED
      BY <1>0, <2>1, TurnStep DEF PublishBest
  <1>2. UNCHANGED <<tkVariant, tkLogits, s_buf, stored, topi>> /\ tkVariant = "parallel"
    BY DEF PublishBest
  <1>3. tkStep \in [SimdGroups -> Nat] /\ Barriers /\ Masked /\ Rounds /\ Len(topi) \in Nat
    BY LenProperties DEF TkInv, TkTypes
  <1>4. \A h \in SimdGroups : tkStep[h] >= 6 + 2 * k
    BY <1>0, <1>1 DEF PublishBest, Turn
  <1>5. Len(topi) = k
    <2>1. tkStep[0] \in Nat /\ tkStep[0] >= 6 + 2 * k /\ 6 + 2 * k >= tkStep[0] - 1
      <3>1. tkStep[0] \in Nat /\ tkStep[0] >= 6 + 2 * k
        BY <1>3, <1>4, Lanes
      <3>2. tkStep[0] >= 5
        BY <1>0, <3>1
      <3> QED
        BY <1>1, <1>3, <3>1, <3>2, Lanes DEF Barriers
    <2>2. tkStep[0] \in {6 + 2 * Len(topi), 7 + 2 * Len(topi)}
      BY <1>0, <1>2, <1>3, <2>1 DEF Rounds
    <2> QED
      BY <1>0, <1>3, <2>1, <2>2
  <1>6. /\ DOMAIN s_red_i' = SimdGroups
        /\ s_red_i'[g] = IF ExpertsOf(g) = {} THEN -1 ELSE Best(ExpertsOf(g), s_buf)
        /\ \A h \in SimdGroups : h # g => s_red_i'[h] = s_red_i[h]
    BY DEF PublishBest, TkInv, TkTypes
  <1>7. TkTypes'
    BY <1>1, <1>2, <1>6 DEF TkInv, TkTypes
  <1>8. Masked'
    <2>1. Chosen' = Chosen
      BY <1>2 DEF Chosen
    <2>2. \A h \in SimdGroups : tkStep'[h] >= 6 /\ tkStep[h] >= 6
      BY <1>0, <1>1, <1>3, <1>4
    <2> QED
      BY <1>2, <1>3, <2>1, <2>2 DEF Masked
  <1>9. Rounds'
    <2>1. tkStep'[0] >= 6 => tkStep'[0] \in {6 + 2 * Len(topi), 7 + 2 * Len(topi)}
      <3>1. CASE g = 0
        BY <1>1, <1>5, <3>1
      <3>2. CASE g # 0
        BY <1>1, <1>2, <1>3, <3>2, Lanes DEF Rounds
      <3> QED
        BY <3>1, <3>2
    <2>2. ASSUME NEW h \in SimdGroups, tkStep'[h] \in {7 + 2 * Len(topi), 8 + 2 * Len(topi)}
          PROVE  s_red_i'[h] = IF ExpertsOf(h) = {} THEN -1 ELSE Best(ExpertsOf(h), s_buf)
      <3>1. CASE h = g
        BY <1>6, <3>1
      <3>2. CASE h # g
        BY <1>1, <1>2, <1>3, <1>6, <2>2, <3>2 DEF Rounds
      <3> QED
        BY <3>1, <3>2
    <2> QED
      BY <1>2, <2>1, <2>2 DEF Rounds
  <1>10. ChoosesTheMostProbable'
    BY <1>2 DEF TkInv, ChoosesTheMostProbable
  <1> QED
    BY <1>1, <1>7, <1>8, <1>9, <1>10 DEF TkInv

LEMMA PickStep ==
  ASSUME TkInv, NEW g \in SimdGroups, NEW k \in 0 .. k_top - 1, PickBest(g, k)
  PROVE  TkInv'
  <1>0. k \in Nat /\ k_top \in Nat /\ k < k_top
    BY TopKAssumption
  <1>1. /\ tkStep' \in [SimdGroups -> Nat] /\ tkStep[g] = 7 + 2 * k /\ tkStep'[g] = 8 + 2 * k
        /\ \A h \in SimdGroups : h # g => tkStep'[h] = tkStep[h]
        /\ \A h \in SimdGroups : tkStep'[h] >= tkStep[h]
        /\ Barriers'
    <2>1. PICK s \in Nat : s = 7 + 2 * k
      BY <1>0
    <2> QED
      BY <1>0, <2>1, TurnStep DEF PickBest
  <1>2. UNCHANGED <<tkVariant, tkLogits, s_red_i, stored>> /\ tkVariant = "parallel"
    BY DEF PickBest
  <1>3. tkStep \in [SimdGroups -> Nat] /\ Barriers /\ Masked /\ Rounds /\ Len(topi) \in Nat
    BY LenProperties DEF TkInv, TkTypes
  <1>4. \A h \in SimdGroups : tkStep[h] \in Nat /\ tkStep[h] >= 7 + 2 * k /\ tkStep[h] <= 8 + 2 * k
    <2>1. \A h \in SimdGroups : tkStep[h] \in Nat /\ tkStep[h] >= 7 + 2 * k
      BY <1>0, <1>1, <1>3 DEF PickBest, Turn
    <2>2. ASSUME NEW h \in SimdGroups PROVE tkStep[g] >= tkStep[h] - 1
      BY <1>0, <1>3, <2>1 DEF Barriers
    <2> QED
      BY <1>0, <1>1, <2>1, <2>2
  <1>5. \A h \in SimdGroups : tkStep[h] >= 6 /\ tkStep'[h] >= 6
    BY <1>0, <1>1, <1>4
  <1>6. tkStep[0] \in {6 + 2 * Len(topi), 7 + 2 * Len(topi)} /\ tkStep[0] \in {7 + 2 * k, 8 + 2 * k}
    <2>1. tkStep[0] \in {7 + 2 * k, 8 + 2 * k}
      BY <1>0, <1>4, Lanes
    <2> QED
      BY <1>2, <1>3, <1>5, <2>1, Lanes DEF Rounds
  <1>7. CASE g = 0
    <2>1. Len(topi) = k
      BY <1>0, <1>1, <1>3, <1>6, <1>7
    <2>2. \A h \in SimdGroups : s_red_i[h] = IF ExpertsOf(h) = {} THEN -1 ELSE Best(ExpertsOf(h), s_buf)
      <3>1. \A h \in SimdGroups : tkStep[h] \in {7 + 2 * Len(topi), 8 + 2 * Len(topi)}
        BY <1>0, <1>4, <2>1
      <3> QED
        BY <1>2, <1>3, <3>1 DEF Rounds
    <2>3. Best({s_red_i[h] : h \in SimdGroups} \ {-1}, s_buf) = Best(Experts, s_buf)
      BY <1>0, <1>5, <2>1, <2>2, BestOfBests
    <2>4. Choose(Best(Experts, s_buf))
      BY <1>7, <2>3 DEF PickBest
    <2>5. TkTypes' /\ Masked' /\ ChoosesTheMostProbable' /\ Len(topi') = k + 1
      BY <1>0, <1>1, <1>2, <1>5, <2>1, <2>4, ChosenStep
    <2>6. Rounds'
      <3>1. tkStep'[0] = 6 + 2 * Len(topi')
        BY <1>0, <1>1, <1>7, <2>5
      <3>2. \A h \in SimdGroups : tkStep'[h] \in Nat /\ tkStep'[h] <= 8 + 2 * k
        BY <1>0, <1>1, <1>4
      <3>3. \A h \in SimdGroups : tkStep'[h] \notin {7 + 2 * Len(topi'), 8 + 2 * Len(topi')}
        BY <1>0, <2>5, <3>2
      <3> QED
        BY <1>2, <3>1, <3>3 DEF Rounds
    <2> QED
      BY <1>1, <2>5, <2>6 DEF TkInv
  <1>8. CASE g # 0
    <2>1. UNCHANGED <<tkVariant, tkLogits, s_red_i, stored, topi, s_buf>>
      BY <1>2, <1>8 DEF PickBest
    <2>2. TkTypes'
      BY <1>1, <2>1 DEF TkInv, TkTypes
    <2>3. Masked'
      <3>1. Chosen' = Chosen
        BY <2>1 DEF Chosen
      <3> QED
        BY <1>3, <1>5, <2>1, <3>1 DEF Masked
    <2>4. Rounds'
      <3>1. tkStep'[0] \in {6 + 2 * Len(topi), 7 + 2 * Len(topi)}
        BY <1>1, <1>6, <1>8, Lanes
      <3>2. ASSUME NEW h \in SimdGroups, tkStep'[h] \in {7 + 2 * Len(topi), 8 + 2 * Len(topi)}
            PROVE  s_red_i[h] = IF ExpertsOf(h) = {} THEN -1 ELSE Best(ExpertsOf(h), s_buf)
        <4>1. tkStep[h] \in {7 + 2 * Len(topi), 8 + 2 * Len(topi)}
          <5>1. CASE h = g
            <6>1. Len(topi) = k \/ Len(topi) = k + 1
              BY <1>0, <1>3, <1>6
            <6>2. Len(topi) = k
              BY <1>0, <1>1, <3>2, <5>1, <6>1
            <6> QED
              BY <1>1, <5>1, <6>2
          <5>2. CASE h # g
            BY <1>1, <3>2, <5>2
          <5> QED
            BY <5>1, <5>2
        <4> QED
          BY <1>2, <1>3, <4>1 DEF Rounds
      <3> QED
        BY <1>2, <2>1, <3>1, <3>2 DEF Rounds
    <2>5. ChoosesTheMostProbable'
      BY <2>1 DEF TkInv, ChoosesTheMostProbable
    <2> QED
      BY <1>1, <2>2, <2>3, <2>4, <2>5 DEF TkInv
  <1> QED
    BY <1>7, <1>8

LEMMA TkInvStep ==
  ASSUME TkInv, [TkNext]_tkVars
  PROVE  TkInv'
  <1>1. CASE TkNext
    <2>1. PICK g \in SimdGroups :
            \/ PublishMax(g) \/ FoldMax(g) \/ ReadMax(g) \/ PublishSum(g) \/ FoldSum(g)
            \/ StoreProbabilities(g) \/ SerialTurn(g)
            \/ \E k \in 0 .. k_top - 1 : PublishBest(g, k) \/ PickBest(g, k)
      BY <1>1 DEF TkNext
    <2>2. 0 \in 0 .. 4 /\ 1 \in 0 .. 4 /\ 2 \in 0 .. 4 /\ 3 \in 0 .. 4 /\ 4 \in 0 .. 4
      OBVIOUS
    <2>3. CASE PublishMax(g)
      BY <2>2, <2>3, EarlyStep DEF PublishMax
    <2>4. CASE FoldMax(g)
      BY <2>2, <2>4, EarlyStep DEF FoldMax, Fold
    <2>5. CASE ReadMax(g)
      BY <2>2, <2>5, EarlyStep DEF ReadMax
    <2>6. CASE PublishSum(g)
      BY <2>2, <2>6, EarlyStep DEF PublishSum
    <2>7. CASE FoldSum(g)
      BY <2>2, <2>7, EarlyStep DEF FoldSum, Fold
    <2> QED
      BY <2>1, <2>3, <2>4, <2>5, <2>6, <2>7, StoreStep, SerialStep, PublishStep, PickStep
  <1>2. CASE UNCHANGED tkVars
    <2>1. Chosen' = Chosen
      BY <1>2 DEF Chosen, tkVars
    <2> QED
      BY <1>2, <2>1 DEF TkInv, TkTypes, Barriers, Masked, Rounds, ChoosesTheMostProbable, tkVars
  <1> QED
    BY <1>1, <1>2

(* The experts topi names are the most probable of the softmax, in order   *)
(* and without repetition, whichever kernel selects them and however its   *)
(* simdgroups interleave between barriers (kernels.rs,                     *)
(* topk_softmax_norm_*_f32), for every number of simdgroups and experts.   *)
THEOREM RoutersChooseTheMostProbable == TkSpec => []ChoosesTheMostProbable
  <1>1. TkInit => TkInv
    BY TkInvInit
  <1>2. TkInv /\ [TkNext]_tkVars => TkInv'
    BY TkInvStep
  <1>3. TkInv => ChoosesTheMostProbable
    BY DEF TkInv
  <1> QED
    BY <1>1, <1>2, <1>3, PTL DEF TkSpec
=============================================================================
