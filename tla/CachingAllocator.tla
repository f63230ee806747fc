-------------------------- MODULE CachingAllocator --------------------------
(***************************************************************************)
(* The caching device allocator (rustorch-cuda/src/allocator.rs).  One     *)
(* mutex guards it; what is hard is the sequence of calls.  A call is one  *)
(* step, or, when it loops, one step to start and one for every iteration  *)
(* of its loops, during which it keeps the mutex and no other call starts. *)
(* Callers free each pointer they hold once and record streams on pointers *)
(* they hold.                                                              *)
(*                                                                         *)
(* Sizes and addresses are in units of the smallest block, 4096 bytes;     *)
(* the first segment lies at address 1.  Block indices start at 1, and     *)
(* None is the Option's None.  The synthetic alloc_segment of the build    *)
(* without a GPU never fails, so the trim-and-retry branch of alloc is     *)
(* never taken; the trim itself is reached through empty_cache.            *)
(***************************************************************************)
EXTENDS Integers, Sequences, FiniteSets, SequencesExt, FiniteSetsExt

CONSTANTS
  Stream,    \* streams
  Size,      \* sizes callers ask for, rounded up, in units: powers of two
  MaxBin,    \* the bin of the largest
  MaxHeld,   \* bound: pointers callers hold at a time
  MaxCalls   \* bound: calls made

None     == 0
NoStream == "none"
Nothing  == [idx |-> None, addr |-> None, size |-> 0, stream |-> NoStream]
Bin      == 0..MaxBin

ASSUME AllocatorAssumption ==
  /\ MaxBin \in Nat /\ Size \subseteq (Nat \ {0}) \cap {2^b : b \in Bin}
  /\ NoStream \notin Stream /\ MaxHeld \in Nat /\ MaxCalls \in Nat

VARIABLES
  heap,      \* AllocatorInner: bins, blocks, segments, pending
  next,      \* next_synth_addr; None before the first segment
  reserved,  \* stats.reserved_bytes
  mutex,     \* what the call that holds the mutex is still to do
  held,      \* held[k]: the k-th pointer in callers' hands, or Nothing
  trimmed,   \* history: segments that were given back
  calls      \* counts calls, for the bound

Handle == 1..MaxHeld

vars == <<heap, next, reserved, mutex, held, trimmed, calls>>

Count(q, x) == Cardinality({j \in DOMAIN q : q[j] = x})

(* The loops of a call: merging the neighbours of block cur, then drawing   *)
(* on the list `rest` of blocks that waited for stream `on`.                *)
Unlocked == [at |-> "idle", cur |-> None, on |-> NoStream, rest |-> <<>>]
Merging(i, s, rest) == [at |-> "merge", cur |-> i, on |-> s, rest |-> rest]
Draining(s, rest) ==
  IF rest = <<>> THEN Unlocked ELSE [at |-> "drain", cur |-> None, on |-> s, rest |-> rest]

(* A call is made.                                                          *)
Call == mutex = Unlocked /\ calls < MaxCalls /\ calls' = calls + 1

(* round_up_pow2 and bin_index; split remainders need not be powers of two. *)
bin_index(n) == CHOOSE b \in Bin : n <= 2^b /\ \A c \in Bin : n <= 2^c => b <= c

Block(a, n, g, p, x, st, rec) ==
  [addr |-> a, size |-> n, seg |-> g, prev |-> p, next |-> x, st |-> st, rec |-> rec]

StreamOf(h, i) == h.segs[h.blocks[i].seg].stream

PushBack(h, i) ==
  [h EXCEPT !.bins[StreamOf(h, i)][bin_index(h.blocks[i].size)] = Append(@, i)]

(* unbin: the first occurrence in every bin of the block's stream.          *)
Unbin(h, i) ==
  [h EXCEPT !.bins[StreamOf(h, i)] =
     [b \in Bin |-> IF i \in ToSet(@[b]) THEN RemoveFirst(@[b], i) ELSE @[b]]]

(* Block i gets another state and another list of recorded streams.         *)
Mark(h, i, st, rec) ==
  [h EXCEPT !.blocks[i] = [h.blocks[i] EXCEPT !.st = st, !.rec = rec]]

-----------------------------------------------------------------------------
(* coalesce_and_return.                                                     *)

(* Mutant: the absorbed block keeps its size.                               *)
MutAbsorb(h, a, b) ==
  LET x == h.blocks[b].next
      c(i) == h.blocks[i]
  IN Unbin([h EXCEPT !.blocks =
       [i \in DOMAIN h.blocks |->
          Block(c(i).addr,
                IF i = a THEN c(i).size + c(b).size ELSE c(i).size,
                c(i).seg,
                IF i = x THEN a ELSE c(i).prev,
                IF i = a THEN x ELSE c(i).next,
                c(i).st, c(i).rec)]], b)

(* Block a takes over its successor b, which becomes a tombstone.           *)
Absorb(h, a, b) ==
  LET x == h.blocks[b].next
      c(i) == h.blocks[i]
  IN Unbin([h EXCEPT !.blocks =
       [i \in DOMAIN h.blocks |->
          Block(c(i).addr,
                IF i = b THEN 0 ELSE IF i = a THEN c(i).size + c(b).size ELSE c(i).size,
                c(i).seg,
                IF i = x THEN a ELSE c(i).prev,
                IF i = a THEN x ELSE c(i).next,
                c(i).st, c(i).rec)]], b)

IsFree(h, i) == i # None /\ h.blocks[i].st = "free"

Prev == heap.blocks[mutex.cur].prev
Succ == heap.blocks[mutex.cur].next

(* The first loop: as long as the previous block is free it absorbs cur.    *)
MergePrev ==
  /\ mutex.at = "merge" /\ IsFree(heap, Prev)
  /\ heap' = Absorb(heap, Prev, mutex.cur)
  /\ mutex' = [mutex EXCEPT !.cur = Prev]
  /\ UNCHANGED <<next, reserved, held, trimmed, calls>>

(* The second: cur absorbs the next block as long as that is free.  What    *)
(* precedes cur is not free and does not change any more.                   *)
MergeNext ==
  /\ mutex.at = "merge" /\ ~IsFree(heap, Prev) /\ IsFree(heap, Succ)
  /\ heap' = Absorb(heap, mutex.cur, Succ)
  /\ UNCHANGED <<next, reserved, mutex, held, trimmed, calls>>

(* Then cur goes to its bin.                                                *)
ReturnToBin ==
  /\ mutex.at = "merge" /\ ~IsFree(heap, Prev) /\ ~IsFree(heap, Succ)
  /\ heap' = PushBack(heap, mutex.cur)
  /\ mutex' = Draining(mutex.on, mutex.rest)
  /\ UNCHANGED <<next, reserved, held, trimmed, calls>>

-----------------------------------------------------------------------------
(* alloc.                                                                   *)

Use(h, i) == Mark(h, i, "inuse", <<>>)

(* Mutant: blocks of other streams' segments are taken too.                 *)
MutFits(h, s, n) ==
  {i \in DOMAIN h.blocks : IsFree(h, i) /\ h.blocks[i].size >= n}

(* find_splittable: the tightest fit among the free blocks of the stream,   *)
(* the first of them; None if there is none.                                *)
Fits(h, s, n) ==
  {i \in DOMAIN h.blocks :
     IsFree(h, i) /\ h.blocks[i].size >= n /\ StreamOf(h, i) = s}

FindSplittable(h, s, n) ==
  LET fits == Fits(h, s, n)
      least == {i \in fits : \A j \in fits : h.blocks[i].size <= h.blocks[j].size}
  IN IF fits = {} THEN None ELSE Min(least)

(* split_and_use: the remainder becomes a free block of its own, the last,  *)
(* in a bin.                                                                *)
Split(h, i, n) ==
  LET k == Len(h.blocks) + 1
      x == h.blocks[i].next
      c(j) == h.blocks[j]
  IN [h EXCEPT !.blocks =
       [j \in 1..k |->
          IF j = k THEN Block(c(i).addr + n, c(i).size - n, c(i).seg, i, x, "free", <<>>)
          ELSE Block(c(j).addr,
                     IF j = i THEN n ELSE c(j).size,
                     c(j).seg,
                     IF j = x THEN k ELSE c(j).prev,
                     IF j = i THEN k ELSE c(j).next,
                     c(j).st, c(j).rec)]]

SplitAndUse(h, i, n) ==
  Use(IF h.blocks[i].size > n THEN PushBack(Split(h, i, n), Len(h.blocks) + 1) ELSE h, i)

(* The new base is the last one plus the NEW size plus one unit.            *)
NextAddr(n) == IF next = None THEN 1 ELSE next + n + 1

AllocSegment(h, a, n, s) ==
  [h EXCEPT !.blocks = Append(h.blocks, Block(a, n, Len(h.segs) + 1, None, None, "inuse", <<>>)),
            !.segs = Append(h.segs, [stream |-> s, total |-> n])]

(* The free list of the stream's bin, front first.                          *)
Popped(s, n) ==
  LET q == heap.bins[s][bin_index(n)] IN IF q = <<>> THEN None ELSE Head(q)

(* Give block i of heap h to the caller.                                    *)
Serve(h, i, s) ==
  LET k == Min({j \in Handle : held[j] = Nothing})
  IN /\ \E j \in Handle : held[j] = Nothing
     /\ Call
     /\ heap' = h
     /\ held' = [held EXCEPT ![k] = [idx |-> i, addr |-> h.blocks[i].addr,
                                     size |-> h.blocks[i].size, stream |-> s]]

AllocHit(s, n) ==
  LET i == Popped(s, n)
  IN /\ i # None
     /\ Serve(Use([heap EXCEPT !.bins[s][bin_index(n)] = Tail(@)], i), i, s)
     /\ UNCHANGED <<next, reserved, mutex, trimmed>>

AllocSplit(s, n) ==
  LET i == FindSplittable(heap, s, n)
  IN /\ Popped(s, n) = None
     /\ i # None
     /\ Serve(SplitAndUse(heap, i, n), i, s)
     /\ UNCHANGED <<next, reserved, mutex, trimmed>>

AllocMiss(s, n) ==
  /\ Popped(s, n) = None
  /\ FindSplittable(heap, s, n) = None
  /\ Serve(AllocSegment(heap, NextAddr(n), n, s), Len(heap.blocks) + 1, s)
  /\ next' = NextAddr(n)
  /\ reserved' = reserved + n
  /\ UNCHANGED <<mutex, trimmed>>

-----------------------------------------------------------------------------
(* free, record_stream, synchronize_stream, empty_cache.                    *)

(* The block a pointer names: the first one in use at its address.          *)
Named(ptr) ==
  LET is == {i \in DOMAIN heap.blocks :
               heap.blocks[i].addr = ptr.addr /\ heap.blocks[i].st = "inuse"}
  IN IF is = {} THEN None ELSE Min(is)

(* Mutant: the block waits for the last recorded stream only.               *)
MutDefer(h, i) ==
  [Mark(h, i, "pending", h.blocks[i].rec) EXCEPT
     !.pending[Last(h.blocks[i].rec)] = Append(@, i)]

(* Put a block on the pending list of each stream recorded against it.      *)
Defer(h, i) ==
  [Mark(h, i, "pending", h.blocks[i].rec) EXCEPT
     !.pending = [s \in Stream |-> h.pending[s] \o [j \in 1..Count(h.blocks[i].rec, s) |-> i]]]

(* A zero-sized pointer is nobody's; one that names no block in use is an   *)
(* error the caller can do nothing about.                                   *)
Free(k) ==
  LET ptr == held[k]
      i   == Named(ptr)
      idle == ptr.size = 0 \/ i = None
  IN /\ ptr # Nothing
     /\ held' = [held EXCEPT ![k] = Nothing]
     /\ Call
     /\ \/ idle /\ UNCHANGED <<heap, mutex>>
        \/ ~idle /\ heap.blocks[i].rec # <<>> /\ heap' = Defer(heap, i) /\ UNCHANGED mutex
        \/ ~idle /\ heap.blocks[i].rec = <<>> /\ heap' = Mark(heap, i, "free", <<>>)
           /\ mutex' = Merging(i, NoStream, <<>>)
     /\ UNCHANGED <<next, reserved, trimmed>>

RecordStream(k, s) ==
  LET i == Named(held[k])
  IN /\ held[k] # Nothing
     /\ i # None
     /\ heap' = Mark(heap, i, "inuse", Append(heap.blocks[i].rec, s))
     /\ Call
     /\ UNCHANGED <<next, reserved, mutex, held, trimmed>>

SynchronizeStream(s) ==
  /\ heap.pending[s] # <<>>
  /\ heap' = [heap EXCEPT !.pending[s] = <<>>]
  /\ mutex' = Draining(s, heap.pending[s])
  /\ Call
  /\ UNCHANGED <<next, reserved, held, trimmed>>

(* One iteration of its loop: the stream is taken off the block's list, and *)
(* a block that waits for no other is merged with its neighbours.           *)
Drain ==
  LET i   == Head(mutex.rest)
      rec == heap.blocks[i].rec
      left == IF mutex.on \in ToSet(rec) THEN RemoveFirst(rec, mutex.on) ELSE rec
      done == left = <<>> /\ heap.blocks[i].st = "pending"
  IN /\ mutex.at = "drain"
     /\ heap' = Mark(heap, i, IF done THEN "free" ELSE heap.blocks[i].st, left)
     /\ mutex' = IF done THEN Merging(i, mutex.on, Tail(mutex.rest))
                 ELSE Draining(mutex.on, Tail(mutex.rest))
     /\ UNCHANGED <<next, reserved, held, trimmed, calls>>

(* trim_free_segments: the segments all of whose blocks are free and not    *)
(* tombstones lose their blocks' sizes; segments, blocks and bins stay.     *)
Trimmable ==
  {g \in DOMAIN heap.segs : \A i \in DOMAIN heap.blocks :
     heap.blocks[i].seg = g => heap.blocks[i].st = "free" /\ heap.blocks[i].size > 0}

Trim(h, G) ==
  [h EXCEPT !.blocks =
     [i \in DOMAIN h.blocks |->
        IF h.blocks[i].seg \in G THEN [h.blocks[i] EXCEPT !.size = 0] ELSE h.blocks[i]]]

Totals == [g \in DOMAIN heap.segs |-> heap.segs[g].total]

EmptyCache ==
  /\ Trimmable # {}
  /\ heap' = Trim(heap, Trimmable)
  /\ reserved' = reserved - SumFunctionOnSet(Totals, Trimmable)
  /\ trimmed' = trimmed \cup Trimmable
  /\ Call
  /\ UNCHANGED <<next, mutex, held>>

Init ==
  /\ heap = [blocks |-> <<>>, segs |-> <<>>,
             bins |-> [s \in Stream |-> [b \in Bin |-> <<>>]],
             pending |-> [s \in Stream |-> <<>>]]
  /\ next = None /\ reserved = 0 /\ mutex = Unlocked
  /\ held = [k \in Handle |-> Nothing]
  /\ trimmed = {} /\ calls = 0

Next ==
  \/ \E s \in Stream, n \in Size : AllocHit(s, n) \/ AllocSplit(s, n) \/ AllocMiss(s, n)
  \/ \E k \in Handle : Free(k) \/ \E s \in Stream : RecordStream(k, s)
  \/ \E s \in Stream : SynchronizeStream(s)
  \/ MergePrev \/ MergeNext \/ ReturnToBin \/ Drain
  \/ EmptyCache

Spec == Init /\ [][Next]_vars

-----------------------------------------------------------------------------
(* The per-stream pools never mix, whatever is split, merged, deferred and  *)
(* trimmed: a stream's bins hold blocks of its own segments only, and a     *)
(* pointer lies in a segment of the stream it was asked for on.             *)
StreamLocal ==
  /\ \A s \in Stream, b \in Bin :
       \A i \in ToSet(heap.bins[s][b]) : StreamOf(heap, i) = s
  /\ \A k \in Handle : held[k] # Nothing => StreamOf(heap, held[k].idx) = held[k].stream

(* No deferred block is forgotten: each stream it still waits for has at    *)
(* least as many entries for it as there are annotations, so synchronising  *)
(* its streams releases it (the refcounting of allocator.rs:267-276).       *)
Entries(s, i) ==
  Count(heap.pending[s], i) + IF mutex.on = s THEN Count(mutex.rest, i) ELSE 0

PendingIsReleasable ==
  \A i \in DOMAIN heap.blocks : heap.blocks[i].st = "pending" =>
    /\ heap.blocks[i].rec # <<>>
    /\ \A s \in Stream : Entries(s, i) >= Count(heap.blocks[i].rec, s)

(* Splitting, merging and deferring neither lose nor invent memory, even    *)
(* through stale links and tombstones: the blocks of a segment add up to    *)
(* its size until it is given back, no segment is given back twice, and     *)
(* reserved_bytes is the size of the others (allocator.rs:357-392, 425-466, *)
(* 499-501).                                                                *)
BlocksOf(g) == {i \in DOMAIN heap.blocks : heap.blocks[i].seg = g}
Sizes == [i \in DOMAIN heap.blocks |-> heap.blocks[i].size]

SizesAddUp ==
  /\ reserved = SumFunctionOnSet(Totals, DOMAIN heap.segs \ trimmed)
  /\ \A g \in DOMAIN heap.segs \ trimmed :
       heap.segs[g].total = SumFunctionOnSet(Sizes, BlocksOf(g))

(* BlockState::FreePending: "cannot be re-used until that stream's events   *)
(* drain".                                                                  *)
PendingNotReused ==
  [][\A i \in DOMAIN heap.blocks :
       heap.blocks[i].st = "pending" => heap'.blocks[i].st # "inuse"]_vars
=============================================================================
