----------------------------- MODULE BufferPool -----------------------------
(***************************************************************************)
(* The wgpu buffer pool (rustorch-wgpu/src/cache.rs) shared by threads:    *)
(* power-of-two buckets behind one lock, counters beside it in atomics.    *)
(* try_release reads the policy and bytes_pooled before it takes the lock; *)
(* try_acquire answers a device out of memory by evicting the whole pool   *)
(* and trying once more.                                                   *)
(*                                                                         *)
(* A buffer is its bucket.  The device (external) has DeviceBytes and      *)
(* frees a buffer the moment it is dropped.                                *)
(***************************************************************************)
EXTENDS Integers, FiniteSets, FiniteSetsExt

CONSTANTS
  PoolThread,   \* callers
  Bucket,       \* bucket sizes in use
  Policy,       \* [max_bytes, max_per_bucket] records set_policy may install
  DefaultPolicy, \* the one it starts with
  DeviceBytes,  \* what the device can hold
  MaxAcquires,  \* calls of acquire made
  MaxPolicies   \* calls of set_policy

ASSUME PoolAssumption ==
  /\ IsFiniteSet(PoolThread) /\ PoolThread # {}
  /\ IsFiniteSet(Bucket) /\ Bucket \subseteq Nat \ {0} /\ Bucket # {}
  /\ IsFiniteSet(Policy) /\ Policy \subseteq [max_bytes : Nat, max_per_bucket : Nat]
  /\ DefaultPolicy \in Policy
  /\ {DeviceBytes, MaxAcquires, MaxPolicies} \subseteq Nat

VARIABLES
  plBins,    \* recycled buffers per bucket
  plBytes,   \* metrics.bytes_pooled
  plCount,   \* metrics: acquires, hits, misses, releases, evictions
  plPolicy,  \* the live policy
  plHeld,    \* buffers each thread holds, per bucket
  plPc,      \* what each thread is doing
  plDevice,  \* bytes the device has handed out
  plPolicies \* policies installed so far

poolVars == <<plBins, plBytes, plCount, plPolicy, plHeld, plPc, plDevice, plPolicies>>

PoolIdle == [at |-> "idle"]
Goto(t, where) == plPc' = [plPc EXCEPT ![t] = where]
Tick(counter, n) == plCount' = [plCount EXCEPT ![counter] = @ + n]
BytesOf(bins) == SumFunction([b \in Bucket |-> b * bins[b]])
BuffersOf(bins) == SumFunction(bins)
Empty == [b \in Bucket |-> 0]

PoolInit ==
  /\ plBins = Empty /\ plBytes = 0
  /\ plCount = [acquires |-> 0, hits |-> 0, misses |-> 0, releases |-> 0, evictions |-> 0]
  /\ plPolicy = DefaultPolicy /\ plPolicies = 0
  /\ plHeld = [t \in PoolThread |-> Empty]
  /\ plPc = [t \in PoolThread |-> PoolIdle]
  /\ plDevice = 0

(* acquire and try_acquire begin by counting the request.  tries is 0 for   *)
(* acquire, else the attempt of try_acquire.                                *)
Acquire(t, b, tries) ==
  /\ plPc[t] = PoolIdle
  /\ plCount.acquires < MaxAcquires
  /\ Tick("acquires", 1)
  /\ Goto(t, [at |-> "pop", bucket |-> b, tries |-> tries])
  /\ UNCHANGED <<plBins, plBytes, plPolicy, plHeld, plDevice, plPolicies>>

(* Under the lock: a recycled buffer, if the bucket has one.                *)
Hit(t) ==
  /\ plPc[t].at = "pop"
  /\ plBins[plPc[t].bucket] > 0
  /\ LET b == plPc[t].bucket
     IN /\ plBins' = [plBins EXCEPT ![b] = @ - 1]
        /\ plBytes' = plBytes - b
        /\ plHeld' = [plHeld EXCEPT ![t][b] = @ + 1]
  /\ Tick("hits", 1)
  /\ Goto(t, PoolIdle)
  /\ UNCHANGED <<plPolicy, plDevice, plPolicies>>

(* The bucket is empty: the lock is released before the device is asked.    *)
Miss(t) ==
  /\ plPc[t].at = "pop"
  /\ plBins[plPc[t].bucket] = 0
  /\ Tick("misses", 1)
  /\ Goto(t, [plPc[t] EXCEPT !.at = "create"])
  /\ UNCHANGED <<plBins, plBytes, plPolicy, plHeld, plDevice, plPolicies>>

RoomFor(t) == plDevice + plPc[t].bucket <= DeviceBytes

CreateBuffer(t) ==
  /\ plPc[t].at = "create"
  /\ RoomFor(t)
  /\ plDevice' = plDevice + plPc[t].bucket
  /\ plHeld' = [plHeld EXCEPT ![t][plPc[t].bucket] = @ + 1]
  /\ Goto(t, PoolIdle)
  /\ UNCHANGED <<plBins, plBytes, plCount, plPolicy, plPolicies>>

(* Out of memory: try_acquire evicts after its first attempt and gives up   *)
(* after its second; acquire has no error scope and stops the thread.       *)
CreateFails(t) ==
  /\ plPc[t].at = "create"
  /\ ~RoomFor(t)
  /\ Goto(t, IF plPc[t].tries = 1 THEN [plPc[t] EXCEPT !.at = "evict"]
             ELSE [at |-> "failed"])
  /\ UNCHANGED <<plBins, plBytes, plCount, plPolicy, plHeld, plDevice, plPolicies>>

(* Mutant: evict_all clears the bins and leaves bytes_pooled alone.         *)
MutEvictedBytes == plBytes

EvictedBytes == plBytes - BytesOf(plBins)

(* evict_all, then the second attempt if it freed anything.                 *)
EvictAll(t) ==
  /\ plPc[t].at = "evict"
  /\ plBins' = Empty
  /\ plBytes' = EvictedBytes
  /\ plDevice' = plDevice - BytesOf(plBins)
  /\ plCount' = [plCount EXCEPT !.evictions = @ + BuffersOf(plBins),
                                !.acquires = @ + IF BuffersOf(plBins) = 0 THEN 0 ELSE 1]
  /\ Goto(t, IF BuffersOf(plBins) = 0 THEN [at |-> "failed"]
             ELSE [at |-> "pop", bucket |-> plPc[t].bucket, tries |-> 2])
  /\ UNCHANGED <<plPolicy, plHeld, plPolicies>>

(* try_release reads the policy and the byte count without the lock.        *)
ReleaseRead(t, b) ==
  /\ plPc[t] = PoolIdle
  /\ plHeld[t][b] > 0
  /\ plHeld' = [plHeld EXCEPT ![t][b] = @ - 1]
  /\ Goto(t, [at |-> "push", bucket |-> b, policy |-> plPolicy, bytes |-> plBytes])
  /\ UNCHANGED <<plBins, plBytes, plCount, plPolicy, plDevice, plPolicies>>

(* Mutant: the byte cap is compared without the buffer that is added.       *)
MutRejects(p, inBin) == inBin >= p.policy.max_per_bucket \/ p.bytes > p.policy.max_bytes

Rejects(p, inBin) ==
  inBin >= p.policy.max_per_bucket \/ p.bytes + p.bucket > p.policy.max_bytes

Pooled(b, rejected) == IF rejected THEN plBins ELSE [plBins EXCEPT ![b] = @ + 1]

(* And decides with what it read, under the lock.                           *)
ReleasePush(t) ==
  /\ plPc[t].at = "push"
  /\ LET p == plPc[t]
         rejected == Rejects(p, plBins[p.bucket])
     IN /\ plBins' = Pooled(p.bucket, rejected)
        /\ plBytes' = IF rejected THEN plBytes ELSE plBytes + p.bucket
        /\ plDevice' = IF rejected THEN plDevice - p.bucket ELSE plDevice
        /\ Tick(IF rejected THEN "evictions" ELSE "releases", 1)
  /\ Goto(t, PoolIdle)
  /\ UNCHANGED <<plPolicy, plHeld, plPolicies>>

SetPolicy(p) ==
  /\ plPolicies < MaxPolicies
  /\ plPolicy' = p /\ plPolicies' = plPolicies + 1
  /\ UNCHANGED <<plBins, plBytes, plCount, plHeld, plPc, plDevice>>

PoolNext ==
  \/ \E t \in PoolThread : \E b \in Bucket, tries \in {0, 1} : Acquire(t, b, tries)
  \/ \E t \in PoolThread : \E b \in Bucket : ReleaseRead(t, b)
  \/ \E t \in PoolThread : \/ Hit(t) \/ Miss(t) \/ CreateBuffer(t) \/ CreateFails(t)
                           \/ EvictAll(t) \/ ReleasePush(t)
  \/ \E p \in Policy : SetPolicy(p)

PoolSpec == PoolInit /\ [][PoolNext]_poolVars

-----------------------------------------------------------------------------
(* What a thread holds, or has taken back to try_release and not pooled yet. *)
Load(t) == BytesOf(plHeld[t]) + IF plPc[t].at = "push" THEN plPc[t].bucket ELSE 0

(* No buffer is lost or counted twice by acquire, release and evict_all on  *)
(* several threads: what the device handed out is in the bins, held by a    *)
(* thread, or on its way back; and bytes_pooled, an atomic beside the lock  *)
(* which the next try_release trusts, is the content of the bins.           *)
EveryBufferHasAPlace ==
  /\ plDevice = BytesOf(plBins) + SumFunction([t \in PoolThread |-> Load(t)])
  /\ plBytes = BytesOf(plBins)

(* The stale byte count of try_release costs at most one buffer per other   *)
(* thread: the pool never outgrows the largest byte cap by more, and the    *)
(* per-bucket cap, which is read under the lock, not at all.                *)
PoolBounded ==
  /\ plBytes <= Max({p.max_bytes : p \in Policy}) + (Cardinality(PoolThread) - 1) * Max(Bucket)
  /\ \A b \in Bucket : plBins[b] <= Max({p.max_per_bucket : p \in Policy})
=============================================================================
