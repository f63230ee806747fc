----------------------------- MODULE GpuLaunch -----------------------------
(***************************************************************************)
(* What a kernel launch does to memory, for the compute shaders of the     *)
(* Metal backend (rustorch-metal/src/kernels.rs) and of the other devices. *)
(* A kernel is modelled, from its shape, by                                *)
(*   ok      the shape checks of its Rust wrapper;                         *)
(*   parts   what it computes, a part for each kind of cell it fills (the  *)
(*           outputs, and the threadgroup slots that stage them):          *)
(*     ask   what the operation is defined to compute: pairs of a cell and *)
(*           a term of the sum (or an operand) that belongs there;         *)
(*     did   what the threads do: <<cell, term, by, at>>, the term that    *)
(*           iteration `at` combines into a cell that `by` stores;         *)
(*   shared  its threadgroup arrays, with what it writes and reads of      *)
(*           each: <<phase, slot, by>>, a phase being the code between two *)
(*           barriers.                                                     *)
(* Cells and operands are flat offsets, computed as the shader computes    *)
(* them in did and from the row-major definition of the tensor in ask.     *)
(* Values are symbolic: what is checked is which elements meet where, not  *)
(* the arithmetic or its rounding.                                         *)
(***************************************************************************)
EXTENDS Integers, FiniteSets, Sequences

VARIABLE job  \* the launch being judged

NoJob == [kernel |-> "none"]
GpuInit == job = NoJob

Part(ask, did) == [ask |-> ask, did |-> did]
Array(writes, reads) == [writes |-> writes, reads |-> reads]

Kernel(ok, parts, shared) ==
  IF ok THEN [ok |-> TRUE, parts |-> parts, shared |-> shared] ELSE [ok |-> FALSE]

(* A kernel with one kind of cell and no threadgroup memory.                *)
Simple(ok, ask, did) == Kernel(ok, <<Part(ask, did)>>, <<>>)

Upto(n) == 0 .. n - 1
CeilDiv(a, b) == (a + b - 1) \div b
Quotients(n, b) == Upto(n \div b)
From(first, step, limit) == {first + step * i : i \in Upto(CeilDiv(limit - first, step))}
                            \* for (i = first; i < limit; i += step)

(* The threads of a one-dimensional grid of whole threadgroups that pass    *)
(* the shader's guard gid < n.                                              *)
GuardedGrid(n, width) == {g \in Upto(CeilDiv(n, width) * width) : g < n}

(* for (i = thread; i < n; i += threads): which thread runs which i.        *)
Strided(threads, n) ==
  {p \in {<<t, t + threads * i>> : t \in Upto(threads), i \in Upto(CeilDiv(n, threads))} : p[2] < n}

Lanes == Upto(32)  \* a simdgroup: 32 threads in lockstep

(* The tree reduction of T = 2^depth threads over their scratch slots:      *)
(* stride T/2, T/4, ..., 1, a barrier after each.  The routes by which      *)
(* initial slots reach slot 0: a route starts at the slot it comes from.    *)
TreeRoutes(T, depth) ==
  LET held[level \in 0 .. depth] ==
        IF level = 0 THEN [lid \in Upto(T) |-> {<<lid>>}]
        ELSE LET s == T \div 2^level
                 prev == held[level - 1]
             IN  [lid \in Upto(T) |->
                   IF lid < s THEN prev[lid] \cup {Append(r, lid) : r \in prev[lid + s]}
                              ELSE prev[lid]]
  IN  held[depth][0]

TreeStrides(T, depth) ==
  {p \in {<<level, lid>> : level \in 1 .. depth, lid \in Upto(T \div 2)} : p[2] < T \div 2^p[1]}
TreeArray(T, depth) ==
  Array({<<p[1], p[2], p[2]>> : p \in TreeStrides(T, depth)},
        {<<p[1], p[2] + (T \div 2^p[1]), p[2]>> : p \in TreeStrides(T, depth)})

(* ---------------------------- the judgement ---------------------------- *)

Landed(part) == {<<d[1], d[2]>> : d \in part.did}
Owners(part) == {<<d[1], d[3]>> : d \in part.did}
Cells(part) == {d[1] : d \in part.did}

(* Slots written by two threads between two barriers, and reads of a slot   *)
(* that another thread writes between the same two.                         *)
Races(array) ==
  LET written == {<<w[1], w[2]>> : w \in array.writes}
      twice == Cardinality(array.writes) - Cardinality(written)
  IN  IF twice # 0 THEN twice
      ELSE Cardinality({r \in array.reads : <<r[1], r[2]>> \in written /\ r \notin array.writes})

Launch(name, shape, k) ==
  /\ job = NoJob
  /\ k.ok
  /\ job' = [kernel |-> name, shape |-> shape,
             exact |-> \A i \in DOMAIN k.parts : Landed(k.parts[i]) = k.parts[i].ask,
             once |-> \A i \in DOMAIN k.parts : Cardinality(k.parts[i].did) = Cardinality(k.parts[i].ask),
             owned |-> \A i \in DOMAIN k.parts : Cardinality(Owners(k.parts[i])) = Cardinality(Cells(k.parts[i])),
             raceFree |-> \A i \in DOMAIN k.shared : Races(k.shared[i]) = 0]

Retire == job # NoJob /\ job' = NoJob

PowerOfTwo(n) == \E d \in 0 .. 10 : n = 2^d

GroupedAttention ==
  {"gqa", "gqa_nsg2", "gqa_splitk", "gqa_splitk_nsg2", "gqa_splitk_nsg4", "gqa_kv4", "gqa_batched",
   "gqa_decode_online_bf16", "gqa_decode_naive_bf16"}

(* Launches that no wrapper refuses although the operation is not defined   *)
(* for their shape: heads that cannot be shared out among the KV heads, a   *)
(* row past the end of the KV cache, a kernel larger than the padded image. *)
Undefined(launch) ==
  LET s == launch.shape
  IN  \/ launch.kernel \in GroupedAttention /\ s[1] % s[2] # 0
      \/ launch.kernel \in {"kv_append", "kv_append_kv", "kv_append_bf16"} /\ s[3] >= s[4]
      \/ launch.kernel = "kv_append_batched" /\ s[3] + s[5] > s[4]
      \/ launch.kernel = "conv2d_forward" /\ (s.dh * (s.kh - 1) >= s.h + 2 * s.ph \/ s.dw * (s.kw - 1) >= s.w + 2 * s.pw)

(* Launches that are known to compute something else: the sum tree of       *)
(* gqa_decode_online_bf16 drops terms, as it halves the head size in        *)
(* integers (llm_kernels.rs:435), ssm_block_mega stores its first 128       *)
(* columns only (kernels.rs:16562), a float4 of kv_append crosses into      *)
(* another head (kernels.rs:12207).                                         *)
KnownWrong(launch) ==
  LET s == launch.shape
  IN  \/ launch.kernel = "gqa_decode_online_bf16" /\ ~PowerOfTwo(s[3])
      \/ launch.kernel = "ssm_block_mega" /\ s[2] > 128
      \/ launch.kernel = "kv_append" /\ s[1] > 1 /\ s[2] % 4 # 0


(* Two kernels touch threadgroup slots of other threads with no barrier in  *)
(* between: the WGSL flash attention stores the next key's product into     *)
(* red[] while red[0] is being read (flash_attn.rs:80), and phase 1 of      *)
(* split-K, run by one simdgroup when a cache has more than one chunk,      *)
(* relies on its lanes being in lockstep (kernels.rs:13636, 13663).         *)
Unfenced(launch) ==
  \/ launch.kernel = "flash_attention"
  \/ launch.kernel = "gqa_splitk" /\ launch.shape[4] > 1024

(* Between two barriers no threadgroup slot is written by one thread and    *)
(* touched by another, in every launch but those two.  The softmax half of  *)
(* the expert routers, whose slot is reused too early (kernels.rs:16721),   *)
(* is no launch of these modules: TopK steps through it, see MaxIsShared.   *)
SharedMemoryRaceFree == job # NoJob /\ ~Unfenced(job) => job.raceFree
=============================================================================
