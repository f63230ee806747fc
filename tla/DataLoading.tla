---------------------------- MODULE DataLoading ----------------------------
(***************************************************************************)
(* Samplers, the dataset and the DataLoader (rustorch-data): which item of *)
(* an epoch reaches which batch of which rank.                             *)
(***************************************************************************)
EXTENDS GpuLaunch

CONSTANTS
  LoaderCases,  \* [order, world, batch, drop_last, len]: a shuffle, the ranks, the dataset's length
  WeightCases   \* integer weights of a WeightedRandomSampler

(* --------------------------- the samplers ------------------------------ *)

(* Every world_size-th position of the shuffle, from rank on.  A world of   *)
(* one is RandomSampler, and SequentialSampler when order is the identity.  *)
DistributedIter(order, rank, world) ==
  LET mine == {i \in DOMAIN order : i % world = rank}
  IN  [k \in 1 .. Cardinality(mine) |-> order[rank + (world * (k - 1))]]
DistributedLen(n, rank, world) == (n \div world) + (IF rank < n % world THEN 1 ELSE 0)

(* The first index whose cumulative weight exceeds u, the last one at most. *)
WeightedDraw(w, u) ==
  LET cdf[i \in 0 .. Len(w)] == IF i = 0 THEN 0 ELSE cdf[i - 1] + w[i]
      below == Cardinality({i \in 1 .. Len(w) : cdf[i] <= u})
  IN  IF below > Len(w) - 1 THEN Len(w) - 1 ELSE below

WeightedSampler(w) ==
  LET before[i \in 0 .. Len(w)] == IF i = 0 THEN 0 ELSE before[i - 1] + w[i]
  IN  Simple(before[Len(w)] > 0,
        UNION {{i} \X Upto(w[i + 1]) : i \in Upto(Len(w))},
        {<<WeightedDraw(w, u), u - before[WeightedDraw(w, u)], 0, u>> : u \in Upto(before[Len(w)])})

(* ----------------------------- the loader ------------------------------ *)

(* Dataset::get refuses an index past its end.                              *)
Gets(i, len) == i < len

num_batches(n, batch, drop_last) == IF drop_last THEN n \div batch ELSE CeilDiv(n, batch)

(* The batches of one epoch, an error being the empty batch: chunks of the  *)
(* sampler's indices, a short last one dropped when asked, one failed item  *)
(* losing its batch and no other.                                           *)
iter_epoch(indices, batch, drop_last, len) ==
  LET n == Len(indices)
      chunk(b) == SubSeq(indices, (b * batch) + 1, IF (b + 1) * batch > n THEN n ELSE (b + 1) * batch)
      kept == {b \in Upto(CeilDiv(n, batch)) : ~(drop_last /\ Len(chunk(b)) < batch)}
  IN  [b \in kept |-> IF \A k \in DOMAIN chunk(b) : Gets(chunk(b)[k], len) THEN chunk(b) ELSE <<>>]

(* Of the items of the shuffle, those whose whole batch is there: rows in   *)
(* the sampler's order, from one rank; and as many batches as announced.    *)
Epoch(c) ==
  LET n == Cardinality(DOMAIN c.order)
      epoch == [r \in Upto(c.world) |-> iter_epoch(DistributedIter(c.order, r, c.world), c.batch, c.drop_last, c.len)]
      rank(q) == q % c.world
      share(r) == {q \in DOMAIN c.order : rank(q) = r}
      fellows(q) == {p \in share(rank(q)) : (p \div c.world) \div c.batch = (q \div c.world) \div c.batch}
      whole(q) == /\ \A p \in fellows(q) : c.order[p] < c.len
                  /\ ~c.drop_last \/ Cardinality(fellows(q)) = c.batch
  IN  Kernel(TRUE,
        <<Part({<<c.order[q], (q \div c.world) % c.batch>> : q \in {p \in DOMAIN c.order : whole(p)}},
               UNION {UNION {{<<epoch[r][b][k], k - 1, r, b>> : k \in DOMAIN epoch[r][b]} : b \in DOMAIN epoch[r]} :
                        r \in Upto(c.world)}),
          Part({<<r, Cardinality(DOMAIN epoch[r])>> : r \in Upto(c.world)},
               {<<r, num_batches(DistributedLen(n, r, c.world), c.batch, c.drop_last), r, 0>> : r \in Upto(c.world)})>>, <<>>)

DataNext ==
  /\ job = NoJob
  /\ \/ \E c \in LoaderCases : Launch("iter_epoch", c, Epoch(c))
     \/ \E w \in WeightCases : Launch("weighted_sampler", w, WeightedSampler(w))
=============================================================================
