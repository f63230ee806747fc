------------------------------ MODULE Batcher ------------------------------
(***************************************************************************)
(* POST /predict (server.rs) over the dynamic batcher (batcher.rs): each   *)
(* handler counts itself, puts its request into a bounded mpsc queue with  *)
(* try_send and awaits a oneshot; one task collects a batch until it is    *)
(* full or the deadline has passed, runs the model on a blocking thread    *)
(* and answers every request of the batch.  GET /metrics reads the two     *)
(* counters under both their locks.                                        *)
(*                                                                         *)
(* A request stands for its input too; the model's output for input r is   *)
(* r, and Null is the answer the loop pads with.  The deadline may pass at *)
(* any moment of a drain.  Every handler holds a clone of the sender, so   *)
(* the queue closes when the server is gone and no handler is left.        *)
(***************************************************************************)
EXTENDS Integers, Sequences, FiniteSets, SequencesExt

CONSTANTS
  Request,    \* the calls of POST /predict
  MaxBatch,   \* BatchConfig.max_batch, at least 1 from ServeBuilder
  QueueDepth  \* BatchConfig.queue_depth, at least 1 from ServeBuilder

Null == "null"
None == "none"
NoScrape == -1

ASSUME BatcherAssumption ==
  /\ MaxBatch \in Nat \ {0} /\ QueueDepth \in Nat \ {0}
  /\ IsFiniteSet(Request)
  /\ Null \notin Request /\ None \notin Request

VARIABLES
  handler,   \* handler[r]: where the handler of r is
  answer,    \* answer[r]: the body of its 200
  serving,   \* the router, which owns a sender, is alive
  queue,     \* the mpsc queue
  loop,      \* where run_loop is
  batch,     \* batch_inputs and replies
  outputs,   \* what the model returned for it
  total,     \* requests_total
  overload,  \* overload_total
  scrape     \* what a /metrics call that holds requests_total's lock has read

serverVars == <<total, overload, scrape>>
loopVars   == <<loop, batch, outputs>>
vars == <<handler, answer, serving, queue, loopVars, serverVars>>

Unlocked == scrape = NoScrape

(* Handlers that hold a sender.                                             *)
Live == {r \in Request : handler[r] \in {"counted", "waiting", "refused"}}

Init ==
  /\ handler = [r \in Request |-> "new"]
  /\ answer = [r \in Request |-> None]
  /\ serving = TRUE
  /\ queue = <<>>
  /\ loop = "recv" /\ batch = <<>> /\ outputs = <<>>
  /\ total = 0 /\ overload = 0 /\ scrape = NoScrape

(* Mutant: requests_total is counted without its lock.                      *)
MutCount(r) ==
  /\ serving
  /\ handler[r] = "new"
  /\ total' = total + 1
  /\ handler' = [handler EXCEPT ![r] = "counted"]
  /\ UNCHANGED <<answer, serving, queue, loopVars, overload, scrape>>

(* The handler starts: requests_total is counted under its lock.            *)
Count(r) ==
  /\ serving
  /\ handler[r] = "new"
  /\ Unlocked
  /\ total' = total + 1
  /\ handler' = [handler EXCEPT ![r] = "counted"]
  /\ UNCHANGED <<answer, serving, queue, loopVars, overload, scrape>>

Full == Len(queue) >= QueueDepth

(* predict's try_send: Full is Overloaded, Closed is Shutdown.              *)
TrySend(r) ==
  /\ handler[r] = "counted"
  /\ handler' = [handler EXCEPT ![r] = IF loop = "stopped" THEN "shutdown"
                                       ELSE IF Full THEN "refused" ELSE "waiting"]
  /\ queue' = IF Full \/ loop = "stopped" THEN queue ELSE Append(queue, r)
  /\ UNCHANGED <<answer, serving, loopVars, serverVars>>

(* Mutant: the counter is decremented.                                      *)
MutRefuse(r) ==
  /\ handler[r] = "refused"
  /\ overload' = overload - 1
  /\ handler' = [handler EXCEPT ![r] = "overloaded"]
  /\ UNCHANGED <<answer, serving, queue, loopVars, total, scrape>>

(* The handler of an Overloaded counts it and answers 503.                  *)
Refuse(r) ==
  /\ handler[r] = "refused"
  /\ overload' = overload + 1
  /\ handler' = [handler EXCEPT ![r] = "overloaded"]
  /\ UNCHANGED <<answer, serving, queue, loopVars, total, scrape>>

(* The client leaves while the handler awaits its oneshot.                  *)
ClientGone(r) ==
  /\ handler[r] = "waiting"
  /\ handler' = [handler EXCEPT ![r] = "gone"]
  /\ UNCHANGED <<answer, serving, queue, loopVars, serverVars>>

(* The server's future is dropped, and with it the router's own sender.     *)
StopServing ==
  /\ serving
  /\ serving' = FALSE
  /\ UNCHANGED <<handler, answer, queue, loopVars, serverVars>>

-----------------------------------------------------------------------------
(* run_loop.                                                                *)

(* Mutant: handlers hold a weak sender, so the router alone keeps the queue *)
(* open.                                                                    *)
MutSenderClosed == ~serving /\ queue = <<>>

(* recv() yields None.                                                      *)
SenderClosed == ~serving /\ Live = {} /\ queue = <<>>

RecvFirst ==
  /\ loop = "recv"
  /\ queue # <<>>
  /\ batch' = <<Head(queue)>>
  /\ queue' = Tail(queue)
  /\ loop' = "drain"
  /\ UNCHANGED <<handler, answer, serving, outputs, serverVars>>

HasRoom == Len(batch) < MaxBatch

(* Mutant: the batch is built from the back.                                *)
MutRecvNext ==
  /\ loop = "drain"
  /\ HasRoom
  /\ queue # <<>>
  /\ batch' = <<Head(queue)>> \o batch
  /\ queue' = Tail(queue)
  /\ UNCHANGED <<handler, answer, serving, loop, outputs, serverVars>>

RecvNext ==
  /\ loop = "drain"
  /\ HasRoom
  /\ queue # <<>>
  /\ batch' = Append(batch, Head(queue))
  /\ queue' = Tail(queue)
  /\ UNCHANGED <<handler, answer, serving, loop, outputs, serverVars>>

(* The batch is full, or the deadline has passed.                           *)
EndDrain ==
  /\ loop = "drain"
  /\ loop' = "infer"
  /\ UNCHANGED <<handler, answer, serving, queue, batch, outputs, serverVars>>

(* Mutant: a closed queue is noticed in the drain only.                     *)
MutReturn ==
  /\ loop = "drain"
  /\ HasRoom
  /\ SenderClosed
  /\ loop' = "stopped"
  /\ batch' = <<>>
  /\ UNCHANGED <<handler, answer, serving, queue, outputs, serverVars>>

(* Both returns of the loop.  What is in the batch is dropped with its      *)
(* oneshots, and a handler awaiting one of them gets Shutdown.              *)
Return ==
  /\ loop \in {"recv", "drain"}
  /\ loop = "drain" => HasRoom
  /\ SenderClosed
  /\ loop' = "stopped"
  /\ handler' = [r \in Request |->
                   IF r \in ToSet(batch) /\ handler[r] = "waiting"
                   THEN "shutdown" ELSE handler[r]]
  /\ batch' = <<>>
  /\ UNCHANGED <<answer, serving, queue, outputs, serverVars>>

(* The model runs on a blocking thread.  It may return too few outputs (too *)
(* many are never looked at); when it panics, unwrap_or_else makes it none. *)
Infer ==
  /\ loop = "infer"
  /\ \E n \in 0..Len(batch) : outputs' = SubSeq(batch, 1, n)
  /\ loop' = "reply"
  /\ UNCHANGED <<handler, answer, serving, queue, batch, serverVars>>

(* Mutant: the outputs are taken in reverse.                                *)
MutOutput(i) == IF i \in DOMAIN outputs
                THEN outputs[Len(outputs) + 1 - i] ELSE Null

Output(i) == IF i \in DOMAIN outputs THEN outputs[i] ELSE Null

(* Mutant: a model that returns too little leaves the rest unanswered.      *)
MutReply ==
  /\ loop = "reply"
  /\ LET waiting == {i \in DOMAIN outputs : handler[batch[i]] = "waiting"}
     IN /\ handler' = [r \in Request |->
              IF \E i \in waiting : batch[i] = r THEN "ok" ELSE handler[r]]
        /\ answer' = [r \in Request |->
              IF \E i \in waiting : batch[i] = r
              THEN Output(CHOOSE i \in waiting : batch[i] = r) ELSE answer[r]]
  /\ loop' = "recv" /\ batch' = <<>> /\ outputs' = <<>>
  /\ UNCHANGED <<serving, queue, serverVars>>

(* Every reply is sent, without an await between them; one whose handler is *)
(* gone is ignored.                                                         *)
Reply ==
  /\ loop = "reply"
  /\ LET waiting == {i \in DOMAIN batch : handler[batch[i]] = "waiting"}
     IN /\ handler' = [r \in Request |->
              IF \E i \in waiting : batch[i] = r THEN "ok" ELSE handler[r]]
        /\ answer' = [r \in Request |->
              IF \E i \in waiting : batch[i] = r
              THEN Output(CHOOSE i \in waiting : batch[i] = r) ELSE answer[r]]
  /\ loop' = "recv" /\ batch' = <<>> /\ outputs' = <<>>
  /\ UNCHANGED <<serving, queue, serverVars>>

-----------------------------------------------------------------------------
(* GET /metrics.                                                            *)

LockTotal ==
  /\ Unlocked
  /\ scrape' = total
  /\ UNCHANGED <<handler, answer, serving, queue, loopVars, total, overload>>

(* overload_total is read, and both guards go at the end of the format!.    *)
ReadOverload ==
  /\ ~Unlocked
  /\ scrape' = NoScrape
  /\ UNCHANGED <<handler, answer, serving, queue, loopVars, total, overload>>

Loop == RecvFirst \/ RecvNext \/ EndDrain \/ Return \/ Infer \/ Reply

Next ==
  \/ \E r \in Request : Count(r) \/ TrySend(r) \/ Refuse(r) \/ ClientGone(r)
  \/ StopServing
  \/ Loop
  \/ LockTotal \/ ReadOverload

Spec == Init /\ [][Next]_vars

(* The runtime polls a task that can go on, timers fire, the model returns  *)
(* or panics, and a scrape that holds a lock finishes.                      *)
Fairness ==
  /\ \A r \in Request : WF_vars(TrySend(r)) /\ WF_vars(Refuse(r))
  /\ WF_vars(RecvFirst) /\ WF_vars(EndDrain) /\ WF_vars(Infer) /\ WF_vars(Reply)
  /\ WF_vars(Return) /\ WF_vars(ReadOverload)

FairSpec == Spec /\ Fairness

-----------------------------------------------------------------------------
(* What the service promises: the batch and the queue are one line, and the *)
(* handlers' states are the outcomes of their calls.                        *)
Outcome(r) ==
  CASE handler[r] \in {"new", "counted"} -> "open"
    [] handler[r] = "waiting" -> "accepted"
    [] handler[r] \in {"refused", "overloaded"} -> "refused"
    [] handler[r] = "gone" -> "left"
    [] handler[r] = "shutdown" -> "dropped"
    [] handler[r] = "ok" -> IF answer[r] = r THEN "own" ELSE "null"

Service == INSTANCE PredictService WITH
  Call <- Request, Capacity <- QueueDepth + MaxBatch,
  line <- batch \o queue, outcome <- [r \in Request |-> Outcome(r)]

Handler == {"new", "counted", "waiting", "refused", "ok", "overloaded",
            "shutdown", "gone"}

TypeOK ==
  /\ handler \in [Request -> Handler]
  /\ answer \in [Request -> Request \cup {Null, None}]
  /\ serving \in BOOLEAN
  /\ queue \in Seq(Request)
  /\ loop \in {"recv", "drain", "infer", "reply", "stopped"}
  /\ batch \in Seq(Request) /\ outputs \in Seq(Request)
  /\ total \in Nat /\ overload \in Nat /\ scrape \in Nat \cup {NoScrape}

(* However requests are batched, and however short the model's answer, a    *)
(* caller gets the output of its own input or null (batcher.rs:132-138).    *)
OwnAnswer == \A r \in Request : answer[r] \in {r, Null, None}

(* Nobody awaits a oneshot that the loop has dropped or already used: the   *)
(* request of a waiting handler is in the queue or in the batch             *)
(* ("better than wedging them on the oneshot", batcher.rs:133-134).         *)
WaiterIsHeld ==
  \A r \in Request :
    handler[r] = "waiting" => r \in ToSet(queue) \cup ToSet(batch)

(* The loop's `return` in the middle of a drain (batcher.rs:115) throws a   *)
(* batch away, but only when all its callers have gone: no handler of a     *)
(* server that stops is ever answered 500 "shutdown".                       *)
NoShutdownAnswer == \A r \in Request : handler[r] # "shutdown"

(* What is in flight is bounded by queue_depth and max_batch: the queue     *)
(* refuses the excess, the drain stops in time (batcher.rs:18, 23-24).      *)
InFlightBounded == Len(queue) <= QueueDepth /\ Len(batch) <= MaxBatch

(* A scrape never reports more overloads than requests, although it reads   *)
(* the counters one after the other while handlers run (server.rs:50-63).   *)
ScrapeConsistent == scrape # NoScrape => overload <= scrape

(* The batcher implements PredictService: whatever the queue, the batching  *)
(* loop and the departures do, calls are served from the front of one       *)
(* bounded line, with their own output or null, and nobody who was taken in *)
(* is overtaken, refused or dropped (batcher.rs:60-140, server.rs:65-95).   *)
ImplementsService == Service!Spec

(* Every call is answered, unless its client leaves.                        *)
Answered ==
  \A r \in Request :
    handler[r] # "new" ~> handler[r] \in {"ok", "overloaded", "shutdown", "gone"}

(* After the server is gone the batching task ends (batcher.rs:100, 115).   *)
LoopEnds == ~serving ~> loop = "stopped"
=============================================================================
