----------------------------- MODULE MetalQueue -----------------------------
(* The Metal backend as the inference loops drive it: one host thread that  *)
(* encodes kernels into a pending command buffer, commits it with or        *)
(* without waiting and touches unified memory itself; the GPU, which runs   *)
(* committed kernels in commit order; and the AMX worker thread, which      *)
(* meets the GPU on a shared event.                                         *)
(*                                                                          *)
(* A row of a buffer holds a value <<stage, layer, context, position>>:     *)
(* which quantity of the network it is, of which layer, computed from which *)
(* tokens, and rotated for which position (0 when it is not).  A kernel     *)
(* that reads anything other than what the network feeds it computes Junk.  *)
EXTENDS Integers, Sequences, SequencesExt, FiniteSets, TLC

CONSTANTS
  MaxSeq  \* cfg.max_seq: positions a key/value cache has rows for

VARIABLES
  mem,        \* unified memory: the cells <<buffer, layer, row>> written so far
  pending,    \* pending_cmd_buffer: kernels encoded and not committed
  committed,  \* kernels committed and not executed yet, in commit order
  event,      \* the shared event's signaled value
  jobs,       \* AsyncAmxExecutor's channel
  nextValue,  \* AsyncAmxExecutor.next_value
  todo,       \* what is left of the host's current forward pass
  picked,     \* the rows of logits this pass has read to take their argmax
  stale       \* host reads that did not return what the pass computes there

queueVars == <<mem, pending, committed, event, jobs, nextValue, todo, picked, stale>>

Junk == <<"junk", 0, <<>>, 0>>

Cell(m, cell) == IF cell \in DOMAIN m THEN m[cell] ELSE Junk

-----------------------------------------------------------------------------
(* What the kernels compute.                                                *)

(* A kernel call: its inputs (buffer and the stage it expects there), the   *)
(* buffer and stage it writes, the layer, the rows and the position of row  *)
(* 0; `fits` says that it decodes the format its weight is stored in.       *)
Kernel(op, src, dst, out, l, rows, base, fits) ==
  [op |-> op, src |-> src, dst |-> dst, out |-> out, layer |-> l, rows |-> rows,
   base |-> base, fits |-> fits]

Last2(c) == c[Len(c)]

(* The context of a position once its predecessors are mixed in: the last   *)
(* token of each of their contexts.  Rows that were mixed before know       *)
(* everything up to them (deep), the others only their own token.           *)
Joined(deep, cs) ==
  LET all == [i \in DOMAIN cs |-> IF cs[i] = <<>> THEN 0 ELSE Last2(cs[i])]
  IN IF \A i \in DOMAIN cs : cs[i] = IF deep THEN SubSeq(all, 1, i) ELSE <<all[i]>>
     THEN all ELSE <<>>

(* The context of an unmixed quantity of layer l that belongs to context c. *)
Own(l, c) == IF l = 1 /\ c # <<>> THEN <<Last2(c)>> ELSE c

(* A kernel that works row by row on inputs of one layer and one context.   *)
Rowwise(k, m, r) ==
  LET got(i) == Cell(m, <<k.src[i][1], 0, r>>)
  IN IF k.fits /\ \A i \in DOMAIN k.src : /\ got(i)[1] = k.src[i][2]
                                          /\ got(i)[2] = k.layer
                                          /\ got(i)[3] = got(1)[3]
     THEN <<k.out[1], k.out[2], got(1)[3], 0>> ELSE Junk

(* A residual addition: in the first layer the residual knows only its own  *)
(* token and takes over the context of what is added to it.                 *)
Added(k, m, r) ==
  LET x == Cell(m, <<k.src[1][1], 0, r>>)
      o == Cell(m, <<k.src[2][1], 0, r>>)
  IN IF /\ x[1] = k.src[1][2] /\ o[1] = k.src[2][2] /\ x[2] = k.layer /\ o[2] = k.layer
        /\ x[3] = Own(k.layer, o[3])
     THEN <<k.out[1], k.layer, o[3], 0>> ELSE Junk

(* Rotation for the row's position.                                         *)
Roped(k, m, r) ==
  LET got == Cell(m, <<k.src[1][1], 0, r>>)
  IN IF got[1] = k.src[1][2] /\ got[2] = k.layer
     THEN <<k.out[1], k.layer, got[3], k.base + r + 1>> ELSE Junk

(* Causal attention: row r against the cache rows of positions 0 to base+r. *)
Attended(k, m, r) ==
  LET n == k.base + r + 1
      q == Cell(m, <<k.src[1][1], 0, r>>)
      key == [i \in 1..n |-> Cell(m, <<"k_cache", k.layer, i - 1>>)]
      val == [i \in 1..n |-> Cell(m, <<"v_cache", k.layer, i - 1>>)]
      ctx == Joined(k.layer > 1, [i \in 1..n |-> key[i][3]])
  IN IF /\ q[1] = k.src[1][2] /\ q[2] = k.layer /\ q[4] = n /\ q[3] = key[n][3]
        /\ \A i \in 1..n : /\ key[i][1] = "kr" /\ key[i][2] = k.layer /\ key[i][4] = i
                           /\ val[i][1] = "v" /\ val[i][2] = k.layer /\ val[i][3] = key[i][3]
        /\ ctx # <<>>
     THEN <<k.out[1], k.layer, ctx, 0>> ELSE Junk

FirstRow(k) == CHOOSE r \in k.rows : \A q \in k.rows : r <= q
LastRow(k) == CHOOSE r \in k.rows : \A q \in k.rows : q <= r

(* The layer's conv_state or recurrent state, which every pass shares.      *)
StateOf(k) == <<k.op \o "_state", k.layer, 0>>

(* A recurrence: the rows in order, from the state the previous call left.  *)
(* The convolution mixes unmixed rows, the scan rows the convolution mixed; *)
(* the scan's gates are unmixed.                                            *)
Recurred(k, m, r) ==
  LET state == StateOf(k)
      deep == k.op = "scan" \/ k.layer > 1
      row(i, j) == Cell(m, <<k.src[i][1], 0, j>>)
      begun == IF state \in DOMAIN m THEN m[state][3] ELSE <<>>
      ctx == Joined(deep, [i \in 1..(Len(begun) + r - FirstRow(k) + 1) |->
                             IF i > Len(begun) THEN row(1, FirstRow(k) + i - Len(begun) - 1)[3]
                             ELSE IF deep THEN SubSeq(begun, 1, i) ELSE <<begun[i]>>])
  IN IF /\ ctx # <<>> /\ (state \in DOMAIN m => m[state] # Junk)
        /\ \A i \in DOMAIN k.src, j \in FirstRow(k)..r :
             /\ row(i, j)[1] = k.src[i][2] /\ row(i, j)[2] = k.layer
             /\ row(i, j)[3] = IF i <= 3 THEN row(1, j)[3] ELSE Own(k.layer, row(1, j)[3])
     THEN <<k.out[1], k.layer, ctx, 0>> ELSE Junk

(* An accumulation: onto zeros.                                             *)
OntoZeros(k, m, r) ==
  IF Cell(m, <<k.src[1][1], 0, r>>)[1] = "zero" THEN Rowwise([k EXCEPT !.src = Tail(@)], m, r)
  ELSE Junk

(* kv_append: no bound check, so a row past max_seq lands on the first rows *)
(* of the next head, where attention reads it as that head's history.       *)
Appended(k, m) ==
  [c \in {<<k.dst, k.layer, (k.base + r) % MaxSeq>> : r \in k.rows} |->
     LET r == CHOOSE r \in k.rows : (k.base + r) % MaxSeq = c[3]
     IN IF k.base + r < MaxSeq THEN Cell(m, <<k.src[1][1], 0, r>>) ELSE Junk]

(* Every cell a kernel writes, with the value it writes there.              *)
Writes(k, m) ==
  IF k.op = "append" THEN Appended(k, m)
  ELSE [c \in {<<k.dst, 0, r>> : r \in k.rows}
                \cup (IF k.op \in {"conv", "scan"} THEN {StateOf(k)} ELSE {}) |->
          CASE k.op \in {"conv", "scan"} -> Recurred(k, m, IF c[2] = 0 THEN c[3] ELSE LastRow(k))
            [] k.op = "rope" -> Roped(k, m, c[3])
            [] k.op = "merge" -> Added(k, m, c[3])
            [] k.op = "attend" -> Attended(k, m, c[3])
            [] k.op = "zero" -> <<"zero", 0, <<>>, 0>>
            [] k.op = "accumulate" -> OntoZeros(k, m, c[3])
            [] OTHER -> Rowwise(k, m, c[3])]

Stored(w) == mem' = w @@ mem

-----------------------------------------------------------------------------
(* The host's instructions.                                                 *)

Encode(ks) == [do |-> "encode", ks |-> ks]
Commit == [do |-> "commit"]
Sync == [do |-> "drain"]
Put(cells) == [do |-> "write", cells |-> cells]
Copy(from, to) == [do |-> "copy", from |-> from, to |-> to]
Look(cell, want) == [do |-> "read", cell |-> cell, want |-> want, pick |-> FALSE]
Sample(cell, want) == [do |-> "read", cell |-> cell, want |-> want, pick |-> TRUE]
OnCpu(k) == [do |-> "cpu", k |-> k]
SignalEvent == [do |-> "signal"]
SubmitJobs(ks) == [do |-> "submit", ks |-> ks]
WaitEvent == [do |-> "await"]

Nop(op, v) == [op |-> op, value |-> v]

(* with_encoder: one more call on the chained encoder; nothing runs yet.    *)
with_encoder ==
  /\ Head(todo).do = "encode"
  /\ pending' = pending \o Head(todo).ks
  /\ todo' = Tail(todo)
  /\ UNCHANGED <<mem, committed, event, jobs, nextValue, picked, stale>>

(* commit_async: end the encoder, hand the buffer to the queue, return.     *)
commit_async ==
  /\ Head(todo).do = "commit"
  /\ committed' = committed \o pending
  /\ pending' = <<>>
  /\ todo' = Tail(todo)
  /\ UNCHANGED <<mem, event, jobs, nextValue, picked, stale>>

(* drain: commit what is pending (or an empty buffer) and wait until the    *)
(* queue has executed everything.                                           *)
drain ==
  /\ Head(todo).do = "drain"
  /\ \/ /\ pending # <<>>
        /\ committed' = committed \o pending
        /\ pending' = <<>>
        /\ UNCHANGED todo
     \/ /\ pending = <<>> /\ committed = <<>>
        /\ todo' = Tail(todo)
        /\ UNCHANGED <<pending, committed>>
  /\ UNCHANGED <<mem, event, jobs, nextValue, picked, stale>>

(* Host stores and copies through contents(): they do not wait for the GPU. *)
HostStore ==
  /\ Head(todo).do \in {"write", "copy", "cpu"}
  /\ \/ Head(todo).do = "write" /\ Stored(Head(todo).cells)
     \/ Head(todo).do = "copy" /\ Stored(Head(todo).to :> Cell(mem, Head(todo).from))
     \/ Head(todo).do = "cpu" /\ Stored(Writes(Head(todo).k, mem))
  /\ todo' = Tail(todo)
  /\ UNCHANGED <<pending, committed, event, jobs, nextValue, picked, stale>>

(* Host loads: what is there now, whatever the GPU is doing.                *)
HostLoad ==
  /\ Head(todo).do = "read"
  /\ LET got == Cell(mem, Head(todo).cell)
     IN /\ stale' = IF got = Head(todo).want THEN stale ELSE stale \cup {Head(todo).cell}
        /\ picked' = IF Head(todo).pick THEN Append(picked, got) ELSE picked
  /\ todo' = Tail(todo)
  /\ UNCHANGED <<mem, pending, committed, event, jobs, nextValue>>

(* encode_signal_event with next_event_pair, submit_with_sync and           *)
(* encode_wait_for_event.                                                   *)
HostEvent ==
  /\ \/ /\ Head(todo).do = "signal"
        /\ nextValue' = nextValue + 2
        /\ pending' = Append(pending, Nop("signal", nextValue))
        /\ UNCHANGED jobs
     \/ /\ Head(todo).do = "submit"
        /\ jobs' = jobs \o [i \in DOMAIN Head(todo).ks |->
                              [k |-> Head(todo).ks[i],
                               wait |-> IF i = 1 THEN nextValue - 2 ELSE 0,
                               signal |-> IF i = Len(Head(todo).ks) THEN nextValue - 1 ELSE 0]]
        /\ UNCHANGED <<nextValue, pending>>
     \/ /\ Head(todo).do = "await"
        /\ pending' = Append(pending, Nop("wait", nextValue - 1))
        /\ UNCHANGED <<nextValue, jobs>>
  /\ todo' = Tail(todo)
  /\ UNCHANGED <<mem, committed, event, picked, stale>>

-----------------------------------------------------------------------------
(* The GPU: committed kernels in order, a wait holds everything after it.   *)
GpuStep ==
  /\ committed # <<>>
  /\ \/ Head(committed).op = "signal" /\ event' = Head(committed).value /\ UNCHANGED mem
     \/ /\ Head(committed).op = "wait" /\ event >= Head(committed).value
        /\ UNCHANGED <<event, mem>>
     \/ /\ Head(committed).op \notin {"signal", "wait"}
        /\ Stored(Writes(Head(committed), mem))
        /\ UNCHANGED event
  /\ committed' = Tail(committed)
  /\ UNCHANGED <<pending, jobs, nextValue, todo, picked, stale>>

(* Mutant: a finished job leaves the event alone.                           *)
MutSignaled(job) == event

Signaled(job) == IF job.signal > 0 THEN job.signal ELSE event

(* worker_loop: wait for the event, run the product, set the event.         *)
worker_loop ==
  /\ jobs # <<>>
  /\ event >= Head(jobs).wait
  /\ Stored(Writes(Head(jobs).k, mem))
  /\ event' = Signaled(Head(jobs))
  /\ jobs' = Tail(jobs)
  /\ UNCHANGED <<pending, committed, nextValue, todo, picked, stale>>

QueueInit ==
  /\ mem = << >> /\ pending = <<>> /\ committed = <<>> /\ event = 0 /\ jobs = <<>>
  /\ nextValue = 1 /\ picked = <<>> /\ stale = {}

(* HostReadsAreCurrent: whatever the host loads from a GPU buffer, logits   *)
(* to choose a token from or a probe of an inner stage, is the value that   *)
(* the pass computes for that stage, layer, row and token history: no read  *)
(* overtakes the kernels that produce it.                                   *)
HostReadsAreCurrent == stale = {}
=============================================================================
