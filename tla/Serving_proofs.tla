--------------------------- MODULE Serving_proofs ---------------------------
(*****************************************************************************)
(* For every set of callers, batch size and queue depth: a caller gets the   *)
(* output of its own input, nobody waits for a oneshot that is gone, and     *)
(* no caller is answered "shutdown".  For every target, idle window and      *)
(* number of decisions in flight: the autoscale controller's count is the    *)
(* orchestrator's as long as decisions do not overlap, and a worker is       *)
(* released only after a full idle window.                                   *)
(*****************************************************************************)
EXTENDS Batcher, Autoscale, SequenceTheorems, FiniteSetTheorems, TLAPS

-----------------------------------------------------------------------------
(* The dynamic batcher.                                                    *)

(* The loop runs as long as somebody could still send to it.               *)
LoopOutlivesSenders == loop = "stopped" => ~serving /\ Live = {}

(* While replies are due, the outputs line up with the requests.           *)
OutputsLineUp ==
  loop = "reply" =>
    /\ Len(outputs) <= Len(batch)
    /\ \A i \in 1..Len(outputs) : outputs[i] = batch[i]

(* Between two batches the loop holds none.                                *)
NoBatchAtRest == loop \in {"recv", "stopped"} => batch = <<>>

BatchInv ==
  /\ TypeOK
  /\ NoBatchAtRest
  /\ LoopOutlivesSenders
  /\ OutputsLineUp
  /\ OwnAnswer
  /\ WaiterIsHeld
  /\ NoShutdownAnswer
  /\ InFlightBounded

-----------------------------------------------------------------------------
(* What is appended to a queue joins its elements.                         *)
LEMMA ToSetAppend ==
  ASSUME NEW S, NEW q \in Seq(S), NEW x \in S
  PROVE  ToSet(Append(q, x)) = ToSet(q) \cup {x}
  BY AppendProperties DEF ToSet

(* Taking the head off a queue loses nothing else.                         *)
LEMMA ToSetHeadTail ==
  ASSUME NEW S, NEW q \in Seq(S), q # <<>>
  PROVE  ToSet(q) = {Head(q)} \cup ToSet(Tail(q))
  <1>1. /\ Len(q) \in Nat \ {0} /\ Head(q) = q[1] /\ DOMAIN q = 1..Len(q)
        /\ Len(Tail(q)) = Len(q) - 1 /\ DOMAIN Tail(q) = 1..(Len(q) - 1)
        /\ \A i \in 1..(Len(q) - 1) : Tail(q)[i] = q[i + 1]
    BY HeadTailProperties, EmptySeq, LenProperties
  <1>2. \A i \in DOMAIN q : i = 1 \/ (i - 1 \in DOMAIN Tail(q) /\ q[i] = Tail(q)[i - 1])
    BY <1>1
  <1>3. \A i \in DOMAIN Tail(q) : i + 1 \in DOMAIN q /\ Tail(q)[i] = q[i + 1]
    BY <1>1
  <1>4. ToSet(q) \subseteq {Head(q)} \cup ToSet(Tail(q))
    <2> SUFFICES ASSUME NEW i \in DOMAIN q PROVE q[i] \in {Head(q)} \cup ToSet(Tail(q))
      BY DEF ToSet
    <2>1. CASE i = 1
      BY <1>1, <2>1
    <2>2. CASE i # 1
      BY <1>2, <2>2 DEF ToSet
    <2> QED
      BY <2>1, <2>2
  <1>5. Head(q) \in ToSet(q)
    BY <1>1 DEF ToSet
  <1>6. ToSet(Tail(q)) \subseteq ToSet(q)
    BY <1>3 DEF ToSet
  <1> QED
    BY <1>4, <1>5, <1>6

LEMMA ToSetSingleton ==
  ASSUME NEW x
  PROVE  ToSet(<<x>>) = {x}
  BY DEF ToSet

LEMMA ToSetEmpty == ToSet(<<>>) = {}
  BY DEF ToSet

-----------------------------------------------------------------------------
LEMMA BatchInit == Init => BatchInv
  <1> SUFFICES ASSUME Init PROVE BatchInv
    OBVIOUS
  <1>1. TypeOK
    BY BatcherAssumption DEF Init, TypeOK, Handler, NoScrape
  <1>2. /\ NoBatchAtRest /\ LoopOutlivesSenders /\ OutputsLineUp
        /\ OwnAnswer /\ WaiterIsHeld /\ NoShutdownAnswer
    BY DEF Init, NoBatchAtRest, LoopOutlivesSenders, OutputsLineUp, OwnAnswer, WaiterIsHeld, NoShutdownAnswer
  <1>3. InFlightBounded
    BY BatcherAssumption DEF Init, InFlightBounded
  <1> QED
    BY <1>1, <1>2, <1>3 DEF BatchInv

(* The output a request is answered with is its own, or null.              *)
LEMMA OutputIsOwn ==
  ASSUME TypeOK, OutputsLineUp, loop = "reply", NEW i \in DOMAIN batch
  PROVE  Output(i) \in {batch[i], Null}
  BY LenProperties DEF TypeOK, OutputsLineUp, Output

(* Every step keeps the variables in their types.                          *)
LEMMA TypeStep == TypeOK /\ [Next]_vars => TypeOK'
  <1> SUFFICES ASSUME TypeOK, [Next]_vars PROVE TypeOK'
    OBVIOUS
  <1> USE DEF TypeOK
  <1>1. ASSUME NEW r \in Request, Count(r) PROVE TypeOK'
    BY <1>1 DEF Count, Handler, loopVars
  <1>2. ASSUME NEW r \in Request, TrySend(r) PROVE TypeOK'
    BY <1>2 DEF TrySend, Handler, loopVars, serverVars
  <1>3. ASSUME NEW r \in Request, Refuse(r) PROVE TypeOK'
    BY <1>3 DEF Refuse, Handler, loopVars
  <1>4. ASSUME NEW r \in Request, ClientGone(r) PROVE TypeOK'
    BY <1>4 DEF ClientGone, Handler, loopVars, serverVars
  <1>5. CASE StopServing
    BY <1>5 DEF StopServing, loopVars, serverVars
  <1>6. CASE RecvFirst
    BY <1>6, HeadTailProperties DEF RecvFirst, serverVars
  <1>7. CASE RecvNext
    BY <1>7, HeadTailProperties DEF RecvNext, serverVars
  <1>8. CASE EndDrain
    BY <1>8 DEF EndDrain, serverVars
  <1>9. CASE Return
    BY <1>9 DEF Return, Handler, serverVars
  <1>10. CASE Infer
    <2>1. PICK n \in 0..Len(batch) : outputs' = SubSeq(batch, 1, n)
      BY <1>10 DEF Infer
    <2>2. SubSeq(batch, 1, n) \in Seq(Request)
      BY <2>1, LenProperties, ElementOfSeq, SubSeqProperties
    <2> QED
      BY <1>10, <2>1, <2>2 DEF Infer, serverVars
  <1>11. CASE Reply
    <2> DEFINE waiting == {i \in DOMAIN batch : handler[batch[i]] = "waiting"}
    <2>1. \A i : Output(i) \in Request \cup {Null}
      BY LenProperties, ElementOfSeq DEF Output
    <2>2. answer' \in [Request -> Request \cup {Null, None}]
      BY <1>11, <2>1 DEF Reply
    <2>3. handler' \in [Request -> Handler]
      BY <1>11 DEF Reply, Handler
    <2> QED
      BY <1>11, <2>2, <2>3 DEF Reply, serverVars
  <1>12. CASE LockTotal
    BY <1>12 DEF LockTotal, loopVars
  <1>13. CASE ReadOverload
    BY <1>13 DEF ReadOverload, loopVars
  <1>14. CASE UNCHANGED vars
    BY <1>14 DEF vars, loopVars, serverVars
  <1> QED
    BY <1>1, <1>2, <1>3, <1>4, <1>5, <1>6, <1>7, <1>8, <1>9, <1>10, <1>11, <1>12, <1>13,
       <1>14 DEF Next, Loop

(* A sender keeps the loop alive, so a request never meets a closed queue  *)
(* and a batch is thrown away only after its callers have gone.            *)
LEMMA ShutdownStep ==
  TypeOK /\ LoopOutlivesSenders /\ NoShutdownAnswer /\ [Next]_vars
    => LoopOutlivesSenders' /\ NoShutdownAnswer'
  <1> SUFFICES ASSUME TypeOK, LoopOutlivesSenders, NoShutdownAnswer, [Next]_vars
               PROVE  LoopOutlivesSenders' /\ NoShutdownAnswer'
    OBVIOUS
  <1> USE DEF TypeOK, LoopOutlivesSenders, NoShutdownAnswer, Live
  <1>1. ASSUME NEW r \in Request, Count(r) PROVE LoopOutlivesSenders' /\ NoShutdownAnswer'
    BY <1>1 DEF Count, loopVars
  <1>2. ASSUME NEW r \in Request, TrySend(r) PROVE LoopOutlivesSenders' /\ NoShutdownAnswer'
    <2>1. loop # "stopped"
      BY <1>2 DEF TrySend
    <2> QED
      BY <1>2, <2>1 DEF TrySend, loopVars
  <1>3. ASSUME NEW r \in Request, Refuse(r) PROVE LoopOutlivesSenders' /\ NoShutdownAnswer'
    BY <1>3 DEF Refuse, loopVars
  <1>4. ASSUME NEW r \in Request, ClientGone(r) PROVE LoopOutlivesSenders' /\ NoShutdownAnswer'
    BY <1>4 DEF ClientGone, loopVars
  <1>5. CASE StopServing
    BY <1>5 DEF StopServing, loopVars
  <1>6. CASE RecvFirst \/ RecvNext \/ EndDrain \/ Infer
    BY <1>6 DEF RecvFirst, RecvNext, EndDrain, Infer
  <1>7. CASE Return
    <2>1. \A r \in Request : handler[r] # "waiting"
      BY <1>7 DEF Return, SenderClosed
    <2>2. handler' = handler
      BY <1>7, <2>1 DEF Return
    <2> QED
      BY <1>7, <2>2 DEF Return, SenderClosed
  <1>8. CASE Reply
    BY <1>8 DEF Reply
  <1>9. CASE LockTotal \/ ReadOverload
    BY <1>9 DEF LockTotal, ReadOverload, loopVars
  <1>10. CASE UNCHANGED vars
    BY <1>10 DEF vars, loopVars
  <1> QED
    BY <1>1, <1>2, <1>3, <1>4, <1>5, <1>6, <1>7, <1>8, <1>9, <1>10 DEF Next, Loop

(* The model's outputs stay beside the requests they were computed from,   *)
(* so replying gives each caller its own.                                  *)
LEMMA OwnStep ==
  TypeOK /\ OutputsLineUp /\ OwnAnswer /\ [Next]_vars => OutputsLineUp' /\ OwnAnswer'
  <1> SUFFICES ASSUME TypeOK, OutputsLineUp, OwnAnswer, [Next]_vars
               PROVE  OutputsLineUp' /\ OwnAnswer'
    OBVIOUS
  <1>1. CASE UNCHANGED <<loopVars, answer>>
    BY <1>1 DEF OutputsLineUp, OwnAnswer, loopVars
  <1>2. CASE (RecvFirst \/ RecvNext \/ EndDrain \/ Return)
    BY <1>2 DEF RecvFirst, RecvNext, EndDrain, Return, OutputsLineUp, OwnAnswer
  <1>3. CASE Infer
    <2>1. PICK n \in 0..Len(batch) : outputs' = SubSeq(batch, 1, n)
      BY <1>3 DEF Infer
    <2>2. batch \in Seq(Request) /\ Len(batch) \in Nat /\ batch' = batch /\ answer' = answer
      BY <1>3, LenProperties DEF Infer, TypeOK
    <2>3. \A i \in 1..n : batch[i] \in Request
      BY <2>1, <2>2, ElementOfSeq
    <2>4. Len(outputs') = n /\ \A i \in 1..n : outputs'[i] = batch[i]
      BY <2>1, <2>2, <2>3, SubSeqProperties
    <2> QED
      BY <2>1, <2>2, <2>4 DEF OutputsLineUp, OwnAnswer
  <1>4. CASE Reply
    <2> DEFINE waiting == {i \in DOMAIN batch : handler[batch[i]] = "waiting"}
    <2>1. \A r \in Request : answer'[r] \in {r, Null, None}
      <3> TAKE r \in Request
      <3>1. CASE \E i \in waiting : batch[i] = r
        <4> DEFINE k == CHOOSE i \in waiting : batch[i] = r
        <4>1. k \in DOMAIN batch /\ batch[k] = r
          BY <3>1
        <4>2. answer'[r] = Output(k)
          BY <1>4, <3>1 DEF Reply
        <4>3. Output(k) \in {batch[k], Null}
          BY <1>4, <4>1, OutputIsOwn DEF Reply
        <4> QED
          BY <4>1, <4>2, <4>3
      <3>2. CASE ~\E i \in waiting : batch[i] = r
        BY <1>4, <3>2 DEF Reply, OwnAnswer
      <3> QED
        BY <3>1, <3>2
    <2> QED
      BY <1>4, <2>1 DEF Reply, OutputsLineUp, OwnAnswer
  <1> QED
    BY <1>1, <1>2, <1>3, <1>4
    DEF Next, Loop, vars, Count, TrySend, Refuse, ClientGone, StopServing, LockTotal,
        ReadOverload, loopVars, serverVars

(* Requests only move from the queue to the batch, and leave the batch     *)
(* with an answer.                                                         *)
LEMMA HeldStep ==
  TypeOK /\ NoBatchAtRest /\ WaiterIsHeld /\ [Next]_vars => NoBatchAtRest' /\ WaiterIsHeld'
  <1> SUFFICES ASSUME TypeOK, NoBatchAtRest, WaiterIsHeld, [Next]_vars
               PROVE  NoBatchAtRest' /\ WaiterIsHeld'
    OBVIOUS
  <1>1. CASE /\ UNCHANGED <<queue, batch>> /\ loop' \in {loop, "infer", "reply"}
             /\ \A r \in Request : handler'[r] = "waiting" => handler[r] = "waiting"
    BY <1>1 DEF NoBatchAtRest, WaiterIsHeld
  <1>2. ASSUME NEW r \in Request, TrySend(r) PROVE NoBatchAtRest' /\ WaiterIsHeld'
    <2>1. CASE Full \/ loop = "stopped"
      BY <1>2, <2>1 DEF TrySend, NoBatchAtRest, WaiterIsHeld, TypeOK, loopVars
    <2>2. CASE ~(Full \/ loop = "stopped")
      <3>1. ToSet(queue') = ToSet(queue) \cup {r}
        BY <1>2, <2>2, ToSetAppend DEF TrySend, TypeOK
      <3> QED
        BY <1>2, <2>2, <3>1 DEF TrySend, NoBatchAtRest, WaiterIsHeld, TypeOK, loopVars
    <2> QED
      BY <2>1, <2>2
  <1>3. CASE RecvFirst
    <2>1. ToSet(queue) = {Head(queue)} \cup ToSet(queue') /\ ToSet(batch') = {Head(queue)}
      BY <1>3, ToSetHeadTail, ToSetSingleton DEF RecvFirst, TypeOK
    <2>2. ToSet(batch) = {} /\ handler' = handler /\ loop' = "drain"
      BY <1>3, ToSetEmpty DEF RecvFirst, NoBatchAtRest
    <2> QED
      BY <2>1, <2>2 DEF NoBatchAtRest, WaiterIsHeld
  <1>4. CASE RecvNext
    <2>1. Head(queue) \in Request
      BY <1>4, HeadTailProperties DEF RecvNext, TypeOK
    <2>2. /\ ToSet(queue) = {Head(queue)} \cup ToSet(queue')
          /\ ToSet(batch') = ToSet(batch) \cup {Head(queue)}
      BY <1>4, <2>1, ToSetHeadTail, ToSetAppend DEF RecvNext, TypeOK
    <2> QED
      BY <1>4, <2>2 DEF RecvNext, NoBatchAtRest, WaiterIsHeld
  <1>5. CASE Return
    <2>1. \A r \in Request : handler'[r] # "waiting"
      BY <1>5 DEF Return, SenderClosed, Live
    <2> QED
      BY <1>5, <2>1 DEF Return, NoBatchAtRest, WaiterIsHeld
  <1>6. CASE Reply
    <2>1. \A r \in Request : handler'[r] = "waiting" =>
            handler[r] = "waiting" /\ r \notin ToSet(batch)
      BY <1>6 DEF Reply, ToSet
    <2> QED
      BY <1>6, <2>1 DEF Reply, NoBatchAtRest, WaiterIsHeld
  <1>7. ASSUME NEW r \in Request, Count(r) \/ Refuse(r) \/ ClientGone(r)
        PROVE  NoBatchAtRest' /\ WaiterIsHeld'
    BY <1>1, <1>7 DEF Count, Refuse, ClientGone, TypeOK, loopVars
  <1>8. CASE EndDrain \/ Infer \/ StopServing \/ LockTotal \/ ReadOverload \/ UNCHANGED vars
    BY <1>1, <1>8 DEF EndDrain, Infer, StopServing, LockTotal, ReadOverload, vars, loopVars
  <1> QED
    BY <1>2, <1>3, <1>4, <1>5, <1>6, <1>7, <1>8 DEF Next, Loop

(* try_send and the drain's test are the only ways to grow.                *)
LEMMA BoundStep ==
  TypeOK /\ InFlightBounded /\ [Next]_vars => InFlightBounded'
  <1> SUFFICES ASSUME TypeOK, InFlightBounded, [Next]_vars PROVE InFlightBounded'
    OBVIOUS
  <1> USE BatcherAssumption DEF InFlightBounded
  <1>0. Len(queue) \in Nat /\ Len(batch) \in Nat
    BY LenProperties DEF TypeOK
  <1>1. CASE UNCHANGED <<queue, batch>>
    BY <1>1
  <1>2. ASSUME NEW r \in Request, TrySend(r) PROVE InFlightBounded'
    <2>1. CASE Full \/ loop = "stopped"
      BY <1>2, <2>1 DEF TrySend, loopVars
    <2>2. CASE ~(Full \/ loop = "stopped")
      <3>1. Len(queue') = Len(queue) + 1 /\ Len(queue) < QueueDepth /\ batch' = batch
        BY <1>0, <1>2, <2>2, AppendProperties DEF TrySend, Full, TypeOK, loopVars
      <3> QED
        BY <1>0, <3>1
    <2> QED
      BY <2>1, <2>2
  <1>3. CASE RecvFirst
    <2>1. Len(queue') = Len(queue) - 1 /\ Len(batch') = 1
      BY <1>3, HeadTailProperties DEF RecvFirst, TypeOK
    <2> QED
      BY <1>0, <2>1
  <1>4. CASE RecvNext
    <2>1. Head(queue) \in Request /\ Len(queue') = Len(queue) - 1 /\ Len(batch) < MaxBatch
      BY <1>4, HeadTailProperties DEF RecvNext, HasRoom, TypeOK
    <2>2. Len(batch') = Len(batch) + 1
      BY <1>4, <2>1, AppendProperties DEF RecvNext, TypeOK
    <2> QED
      BY <1>0, <2>1, <2>2
  <1>5. CASE Return \/ Reply
    <2>1. queue' = queue /\ Len(batch') = 0
      BY <1>5 DEF Return, Reply
    <2> QED
      BY <2>1
  <1> QED
    BY <1>1, <1>2, <1>3, <1>4, <1>5
    DEF Next, Loop, vars, Count, Refuse, ClientGone, StopServing, EndDrain, Infer, LockTotal,
        ReadOverload, loopVars, serverVars

LEMMA BatchInvariant == Spec => []BatchInv
  <1>1. BatchInv /\ [Next]_vars => BatchInv'
    BY TypeStep, ShutdownStep, OwnStep, HeldStep, BoundStep DEF BatchInv
  <1> QED
    BY BatchInit, <1>1, PTL DEF Spec

-----------------------------------------------------------------------------
(* The counters against the handlers they count.                           *)
Counted    == {r \in Request : handler[r] # "new"}
Overloaded == {r \in Request : handler[r] = "overloaded"}

CountersExact ==
  /\ total = Cardinality(Counted)
  /\ overload = Cardinality(Overloaded)
  /\ scrape # NoScrape => scrape = total

LEMMA CountersInit == Init => CountersExact
  <1> SUFFICES ASSUME Init PROVE CountersExact
    OBVIOUS
  <1>1. Counted = {} /\ Overloaded = {}
    BY DEF Init, Counted, Overloaded
  <1> QED
    BY <1>1, FS_EmptySet DEF Init, CountersExact

(* A handler is counted once when it starts and once when it is refused;   *)
(* total cannot move under a scrape, which holds its lock.                 *)
LEMMA CountersStep == TypeOK /\ CountersExact /\ [Next]_vars => CountersExact'
  <1> SUFFICES ASSUME TypeOK, CountersExact, [Next]_vars PROVE CountersExact'
    OBVIOUS
  <1>0. IsFiniteSet(Counted) /\ IsFiniteSet(Overloaded)
    BY BatcherAssumption, FS_Subset DEF Counted, Overloaded
  <1>1. ASSUME NEW r \in Request, Count(r) PROVE CountersExact'
    <2>1. r \notin Counted /\ Counted' = Counted \cup {r} /\ Overloaded' = Overloaded
      BY <1>1 DEF Count, Counted, Overloaded, TypeOK
    <2>2. Cardinality(Counted') = Cardinality(Counted) + 1
      BY <1>0, <2>1, FS_AddElement
    <2> QED
      BY <1>1, <2>1, <2>2 DEF Count, Unlocked, CountersExact
  <1>2. ASSUME NEW r \in Request, Refuse(r) PROVE CountersExact'
    <2>1. r \notin Overloaded /\ Overloaded' = Overloaded \cup {r} /\ Counted' = Counted
      BY <1>2 DEF Refuse, Counted, Overloaded, TypeOK
    <2>2. Cardinality(Overloaded') = Cardinality(Overloaded) + 1
      BY <1>0, <2>1, FS_AddElement
    <2> QED
      BY <1>2, <2>1, <2>2 DEF Refuse, CountersExact
  <1>3. CASE /\ UNCHANGED <<total, overload>>
             /\ scrape' \in {scrape, NoScrape, total}
             /\ Counted' = Counted /\ Overloaded' = Overloaded
    BY <1>3 DEF CountersExact
  <1>4. ASSUME NEW r \in Request, TrySend(r) \/ ClientGone(r) PROVE CountersExact'
    <2>1. Counted' = Counted /\ Overloaded' = Overloaded
      BY <1>4 DEF TrySend, ClientGone, Counted, Overloaded, TypeOK
    <2> QED
      BY <1>3, <1>4, <2>1 DEF TrySend, ClientGone, serverVars
  <1>5. CASE Return \/ Reply
    <2>1. Counted' = Counted /\ Overloaded' = Overloaded
      BY <1>5 DEF Return, Reply, Counted, Overloaded
    <2> QED
      BY <1>3, <1>5, <2>1 DEF Return, Reply, serverVars
  <1>6. CASE UNCHANGED handler /\ UNCHANGED <<total, overload>> /\ scrape' \in {scrape, NoScrape, total}
    BY <1>3, <1>6 DEF Counted, Overloaded
  <1>7. CASE StopServing \/ RecvFirst \/ RecvNext \/ EndDrain \/ Infer \/ LockTotal
               \/ ReadOverload \/ UNCHANGED vars
    BY <1>6, <1>7 DEF StopServing, RecvFirst, RecvNext, EndDrain, Infer, LockTotal,
       ReadOverload, vars, serverVars
  <1> QED
    BY <1>1, <1>2, <1>4, <1>5, <1>7 DEF Next, Loop

LEMMA CountersInvariant == Spec => []CountersExact
  <1>1. BatchInv => TypeOK
    BY DEF BatchInv
  <1> QED
    BY BatchInvariant, <1>1, CountersInit, CountersStep, PTL DEF Spec

-----------------------------------------------------------------------------
(* The variables of predict, run_loop and the metrics keep their types.    *)
THEOREM BatcherTypeCorrect == Spec => []TypeOK
  <1>1. BatchInv => TypeOK
    BY DEF BatchInv
  <1> QED
    BY BatchInvariant, <1>1, PTL

(* Callers get the output of their own input or null, whatever the batch   *)
(* they were put in and however short the model's answer                   *)
(* (batcher.rs:129-138).                                                   *)
THEOREM AnswersAreOwn == Spec => []OwnAnswer
  <1>1. BatchInv => OwnAnswer
    BY DEF BatchInv
  <1> QED
    BY BatchInvariant, <1>1, PTL

(* The loop holds the request of everyone who waits for it                 *)
(* (batcher.rs:97-140).                                                    *)
THEOREM WaitersAreHeld == Spec => []WaiterIsHeld
  <1>1. BatchInv => WaiterIsHeld
    BY DEF BatchInv
  <1> QED
    BY BatchInvariant, <1>1, PTL

(* No caller is told "shutdown": the loop outlives every handler that      *)
(* could meet it (batcher.rs:69-78, 100, 115).                             *)
THEOREM NobodyIsShutDown == Spec => []NoShutdownAnswer
  <1>1. BatchInv => NoShutdownAnswer
    BY DEF BatchInv
  <1> QED
    BY BatchInvariant, <1>1, PTL

(* Queue and batch keep to queue_depth and max_batch (batcher.rs:69,       *)
(* 108-116).                                                               *)
THEOREM InFlightIsBounded == Spec => []InFlightBounded
  <1>1. BatchInv => InFlightBounded
    BY DEF BatchInv
  <1> QED
    BY BatchInvariant, <1>1, PTL

(* A scrape, which reads overload_total after requests_total, never        *)
(* reports more overloads than requests (server.rs:50-63).                 *)
THEOREM ScrapesAreConsistent == Spec => []ScrapeConsistent
  <1>1. CountersExact => ScrapeConsistent
    <2> SUFFICES ASSUME CountersExact PROVE Cardinality(Overloaded) <= Cardinality(Counted)
      BY DEF CountersExact, ScrapeConsistent
    <2>1. Overloaded \subseteq Counted /\ IsFiniteSet(Counted)
      BY BatcherAssumption, FS_Subset DEF Overloaded, Counted
    <2> QED
      BY <2>1, FS_Subset
  <1> QED
    BY CountersInvariant, <1>1, PTL

-----------------------------------------------------------------------------
(* The refinement.  Outcome maps each state of a handler to what has        *)
(* become of its call, before and after a step.                             *)
LEMMA OutcomeBefore ==
  ASSUME TypeOK, NEW r \in Request
  PROVE  /\ handler[r] \in {"new", "counted"} => Outcome(r) = "open"
         /\ handler[r] = "waiting" => Outcome(r) = "accepted"
         /\ handler[r] \in {"refused", "overloaded"} => Outcome(r) = "refused"
         /\ handler[r] = "gone" => Outcome(r) = "left"
         /\ handler[r] = "shutdown" => Outcome(r) = "dropped"
         /\ handler[r] = "ok" => Outcome(r) = IF answer[r] = r THEN "own" ELSE "null"
  BY DEF TypeOK, Handler, Outcome

LEMMA OutcomeAfter ==
  ASSUME TypeOK', NEW r \in Request
  PROVE  /\ handler'[r] \in {"new", "counted"} => Outcome(r)' = "open"
         /\ handler'[r] = "waiting" => Outcome(r)' = "accepted"
         /\ handler'[r] \in {"refused", "overloaded"} => Outcome(r)' = "refused"
         /\ handler'[r] = "gone" => Outcome(r)' = "left"
         /\ handler'[r] = "shutdown" => Outcome(r)' = "dropped"
         /\ handler'[r] = "ok" => Outcome(r)' = IF answer'[r] = r THEN "own" ELSE "null"
  BY DEF TypeOK, Handler, Outcome

(* A handler that a step leaves alone keeps its outcome.                    *)
LEMMA OutcomeKept ==
  ASSUME NEW r \in Request, handler'[r] = handler[r], answer'[r] = answer[r]
  PROVE  Outcome(r)' = Outcome(r)
  BY DEF Outcome

(* The line of the service: taking from the queue into the batch leaves it  *)
(* as it is, and a send lengthens it at its end.                            *)
LEMMA LineAppend ==
  ASSUME NEW S, NEW b \in Seq(S), NEW q \in Seq(S), NEW x \in S
  PROVE  b \o Append(q, x) = Append(b \o q, x)
  OBVIOUS

LEMMA LineMove ==
  ASSUME NEW S, NEW b \in Seq(S), NEW q \in Seq(S), q # <<>>
  PROVE  Append(b, Head(q)) \o Tail(q) = b \o q
  OBVIOUS

LEMMA LineServed ==
  ASSUME NEW S, NEW b \in Seq(S), NEW q \in Seq(S)
  PROVE  /\ SubSeq(b \o q, Len(b) + 1, Len(b \o q)) = q
         /\ \A i \in 1 .. Len(b) : (b \o q)[i] = b[i]
         /\ Len(b) <= Len(b \o q)
  OBVIOUS

LEMMA ServiceInit == Init => Service!Init
  <1> SUFFICES ASSUME Init PROVE Service!Init
    OBVIOUS
  <1>1. TypeOK
    BY BatcherAssumption DEF Init, TypeOK, Handler, NoScrape
  <1>2. \A r \in Request : Outcome(r) = "open"
    BY <1>1, OutcomeBefore DEF Init
  <1>3. batch \o queue = <<>>
    BY DEF Init
  <1> QED
    BY <1>2, <1>3 DEF Service!Init

(* A step that keeps the line and every outcome is a stutter.               *)
LEMMA ServiceStutter ==
  ASSUME batch' \o queue' = batch \o queue, \A r \in Request : Outcome(r)' = Outcome(r)
  PROVE  UNCHANGED Service!vars
  <1>1. [r \in Request |-> Outcome(r)]' = [r \in Request |-> Outcome(r)]
    OBVIOUS
  <1>2. (batch \o queue)' = batch \o queue
    OBVIOUS
  <1> QED
    BY <1>1, <1>2 DEF Service!vars

(* Every step of the batcher is a step of the service or a stutter: sends   *)
(* are taken in or refused, departures are departures, and the batch is     *)
(* served as a whole by the reply, or by a return that finds nobody         *)
(* waiting.                                                                 *)
LEMMA ServiceStep == BatchInv /\ BatchInv' /\ [Next]_vars => [Service!Next]_(Service!vars)
  <1> SUFFICES ASSUME BatchInv, BatchInv', [Next]_vars
               PROVE  Service!Next \/ UNCHANGED Service!vars
    OBVIOUS
  <1> DEFINE out == [r \in Request |-> Outcome(r)]
             line == batch \o queue
  <1>0. TypeOK /\ TypeOK' /\ InFlightBounded /\ LoopOutlivesSenders /\ NoBatchAtRest /\ OutputsLineUp
    BY DEF BatchInv
  <1>t. /\ batch \in Seq(Request) /\ queue \in Seq(Request)
        /\ batch' \in Seq(Request) /\ queue' \in Seq(Request)
    BY <1>0 DEF TypeOK
  <1>k. ASSUME UNCHANGED <<handler, answer>> PROVE \A r \in Request : Outcome(r)' = Outcome(r)
    BY <1>k, OutcomeKept
  <1>s. ASSUME UNCHANGED <<handler, answer>>, batch' \o queue' = batch \o queue
        PROVE  UNCHANGED Service!vars
    BY <1>s, <1>k, ServiceStutter
  <1>1. ASSUME NEW r \in Request, Count(r) PROVE UNCHANGED Service!vars
    <2>1. \A c \in Request : Outcome(c)' = Outcome(c)
      BY <1>0, <1>1, OutcomeBefore, OutcomeAfter, OutcomeKept DEF Count, TypeOK
    <2> QED
      BY <1>1, <2>1, ServiceStutter DEF Count, loopVars
  <1>2. ASSUME NEW r \in Request, TrySend(r) PROVE Service!Next
    <2>1. loop # "stopped"
      BY <1>0, <1>2 DEF LoopOutlivesSenders, Live, TrySend
    <2>2. out[r] = "open"
      BY <1>0, <1>2, OutcomeBefore DEF TrySend
    <2>3. \A c \in Request \ {r} : Outcome(c)' = Outcome(c)
      BY <1>0, <1>2, OutcomeKept DEF TrySend, TypeOK
    <2>4. CASE Full
      <3>1. handler'[r] = "refused"
        BY <1>0, <1>2, <2>1, <2>4 DEF TrySend, TypeOK
      <3>2. Outcome(r)' = "refused"
        BY <1>0, <3>1, OutcomeAfter
      <3>3. out' = [out EXCEPT ![r] = "refused"]
        BY <2>3, <3>2
      <3>4. line' = line
        BY <1>2, <2>4 DEF TrySend, loopVars
      <3>5. Service!Refuse(r)
        BY <2>2, <3>3, <3>4 DEF Service!Refuse
      <3> QED
        BY <3>5 DEF Service!Next
    <2>5. CASE ~Full
      <3>1. handler'[r] = "waiting"
        BY <1>0, <1>2, <2>1, <2>5 DEF TrySend, TypeOK
      <3>2. Outcome(r)' = "accepted"
        BY <1>0, <3>1, OutcomeAfter
      <3>3. out' = [out EXCEPT ![r] = "accepted"]
        BY <2>3, <3>2
      <3>4. queue' = Append(queue, r) /\ batch' = batch
        BY <1>2, <2>1, <2>5 DEF TrySend, loopVars
      <3>5. line' = Append(line, r)
        BY <1>t, <3>4, LineAppend
      <3>6. Len(line) = Len(batch) + Len(queue)
        BY <1>t
      <3>7. Len(line) < QueueDepth + MaxBatch
        BY <1>0, <1>t, <2>5, <3>6, BatcherAssumption DEF InFlightBounded, Full
      <3>8. Service!TakeIn(r)
        BY <2>2, <3>3, <3>5, <3>7 DEF Service!TakeIn
      <3> QED
        BY <3>8 DEF Service!Next
    <2> QED
      BY <2>4, <2>5
  <1>3. ASSUME NEW r \in Request, Refuse(r) PROVE UNCHANGED Service!vars
    <2>1. \A c \in Request : Outcome(c)' = Outcome(c)
      BY <1>0, <1>3, OutcomeBefore, OutcomeAfter, OutcomeKept DEF Refuse, TypeOK
    <2> QED
      BY <1>3, <2>1, ServiceStutter DEF Refuse, loopVars
  <1>4. ASSUME NEW r \in Request, ClientGone(r) PROVE Service!Next
    <2>1. out[r] = "accepted"
      BY <1>0, <1>4, OutcomeBefore DEF ClientGone
    <2>2. handler'[r] = "gone"
      BY <1>0, <1>4 DEF ClientGone, TypeOK
    <2>3. Outcome(r)' = "left"
      BY <1>0, <2>2, OutcomeAfter
    <2>4. \A c \in Request \ {r} : Outcome(c)' = Outcome(c)
      BY <1>0, <1>4, OutcomeKept DEF ClientGone, TypeOK
    <2>5. out' = [out EXCEPT ![r] = "left"]
      BY <2>3, <2>4
    <2>6. line' = line
      BY <1>4 DEF ClientGone, loopVars
    <2>7. Service!Leave(r)
      BY <2>1, <2>5, <2>6 DEF Service!Leave
    <2> QED
      BY <2>7 DEF Service!Next
  <1>5. CASE StopServing
    BY <1>5, <1>s DEF StopServing, loopVars
  <1>6. CASE RecvFirst
    <2>1. batch = <<>>
      BY <1>0, <1>6 DEF NoBatchAtRest, RecvFirst
    <2>2. <<Head(queue)>> = Append(batch, Head(queue))
      BY <2>1
    <2>3. batch' \o queue' = batch \o queue
      BY <1>6, <1>t, <2>2, LineMove DEF RecvFirst
    <2> QED
      BY <1>6, <1>s, <2>3 DEF RecvFirst
  <1>7. CASE RecvNext
    <2>1. batch' \o queue' = batch \o queue
      BY <1>7, <1>t, LineMove DEF RecvNext
    <2> QED
      BY <1>7, <1>s, <2>1 DEF RecvNext
  <1>8. CASE EndDrain
    BY <1>8, <1>s DEF EndDrain
  <1>9. CASE Return
    <2>1. queue' = queue /\ batch' = <<>> /\ answer' = answer
      BY <1>9 DEF Return
    <2>2. \A r \in Request : handler[r] # "waiting"
      BY <1>9 DEF Return, SenderClosed, Live
    <2>3. handler' = handler
      BY <1>0, <1>9, <2>2 DEF Return, TypeOK
    <2>4. \A r \in Request : Outcome(r)' = Outcome(r)
      BY <2>1, <2>3, <1>k
    <2>5. out' = out
      BY <2>4
    <2>6. CASE batch = <<>>
      BY <2>1, <2>3, <2>6, <1>s
    <2>7. CASE batch # <<>>
      <3>1. Len(batch) \in 1 .. MaxBatch
        BY <1>0, <1>t, <2>7, EmptySeq, LenProperties, BatcherAssumption DEF InFlightBounded
      <3>2. line' = SubSeq(line, Len(batch) + 1, Len(line)) /\ Len(batch) <= Len(line)
        BY <1>t, <2>1, LineServed
      <3>3. \A r \in Request : out[r] # "accepted"
        BY <1>0, <2>2, OutcomeBefore DEF TypeOK, Handler
      <3>4. out \in [Request -> {"open", "accepted", "refused", "left", "own", "null"}]
        BY <1>0, OutcomeBefore DEF TypeOK, Handler, BatchInv, NoShutdownAnswer
      <3>5. Service!Serve(Len(batch))
        BY <2>5, <3>2, <3>3, <3>4 DEF Service!Serve
      <3> QED
        BY <3>1, <3>2, <3>5 DEF Service!Next, Service!ServeSome
    <2> QED
      BY <2>6, <2>7
  <1>10. CASE Infer
    BY <1>10, <1>s DEF Infer
  <1>11. CASE Reply
    <2> DEFINE held == {i \in DOMAIN batch : handler[batch[i]] = "waiting"}
    <2>1. queue' = queue /\ batch' = <<>> /\ loop = "reply"
      BY <1>11 DEF Reply
    <2>2. /\ handler' = [r \in Request |-> IF \E i \in held : batch[i] = r THEN "ok" ELSE handler[r]]
          /\ answer' = [r \in Request |-> IF \E i \in held : batch[i] = r
                          THEN Output(CHOOSE i \in held : batch[i] = r) ELSE answer[r]]
      BY <1>11 DEF Reply
    <2>3. ASSUME NEW r \in Request, \E i \in held : batch[i] = r
          PROVE  Outcome(r) = "accepted" /\ Outcome(r)' \in {"own", "null"}
      <3>1. handler[r] = "waiting"
        BY <2>3
      <3>2. handler'[r] = "ok"
        BY <2>2, <2>3
      <3> QED
        BY <1>0, <3>1, <3>2, OutcomeBefore, OutcomeAfter
    <2>4. ASSUME NEW r \in Request, ~\E i \in held : batch[i] = r
          PROVE  Outcome(r)' = Outcome(r)
      BY <2>2, <2>4, OutcomeKept
    <2>5. CASE batch = <<>>
      <3>1. held = {}
        BY <2>5
      <3> QED
        BY <2>1, <2>4, <2>5, <3>1, ServiceStutter
    <2>6. CASE batch # <<>>
      <3>1. Len(batch) \in 1 .. MaxBatch
        BY <1>0, <1>t, <2>6, EmptySeq, LenProperties, BatcherAssumption DEF InFlightBounded
      <3>2. /\ line' = SubSeq(line, Len(batch) + 1, Len(line)) /\ Len(batch) <= Len(line)
            /\ \A i \in 1 .. Len(batch) : line[i] = batch[i]
        BY <1>t, <2>1, LineServed
      <3>3. \A r \in Request : out[r] = "accepted" => handler[r] = "waiting"
        BY <1>0, OutcomeBefore DEF TypeOK, Handler
      <3>4. DOMAIN batch = 1 .. Len(batch)
        BY <1>t, LenProperties
      <3>5. \A r \in Request :
              IF out[r] = "accepted" /\ \E i \in 1 .. Len(batch) : line[i] = r
              THEN out'[r] \in {"own", "null"} ELSE out'[r] = out[r]
        BY <2>3, <2>4, <3>2, <3>3, <3>4
      <3>6. out' \in [Request -> {"open", "accepted", "refused", "left", "own", "null"}]
        BY <1>0, OutcomeAfter DEF TypeOK, Handler, BatchInv, NoShutdownAnswer
      <3>7. Service!Serve(Len(batch))
        BY <3>2, <3>5, <3>6 DEF Service!Serve
      <3> QED
        BY <3>1, <3>2, <3>7 DEF Service!Next, Service!ServeSome
    <2> QED
      BY <2>5, <2>6
  <1>12. CASE LockTotal
    BY <1>12, <1>s DEF LockTotal, loopVars
  <1>13. CASE ReadOverload
    BY <1>13, <1>s DEF ReadOverload, loopVars
  <1>14. CASE UNCHANGED vars
    BY <1>14, <1>s DEF vars, loopVars
  <1> QED
    BY <1>1, <1>2, <1>3, <1>4, <1>5, <1>6, <1>7, <1>8, <1>9, <1>10, <1>11, <1>12, <1>13, <1>14
    DEF Next, Loop

(* For every set of callers, batch size and queue depth, the handlers, the  *)
(* queue and the batching loop implement PredictService: calls are served   *)
(* in the order of one bounded line, with their own output or null, and     *)
(* nobody who was taken in is refused, overtaken or dropped                 *)
(* (batcher.rs:60-140, server.rs:65-95).                                    *)
THEOREM BatcherImplementsService == Spec => ImplementsService
  <1> QED
    BY BatchInvariant, ServiceInit, ServiceStep, PTL DEF Spec, ImplementsService, Service!Spec

-----------------------------------------------------------------------------
(* The autoscale controller.                                               *)

Decision == [delta : Int, done : BOOLEAN]

ScaleTypes ==
  /\ asWorkers \in MinWorkers .. MaxWorkers
  /\ asIdleSince \in Nat \cup {NotIdle}
  /\ asInFlight \in Seq(Decision)
  /\ asRunning \in Nat
  /\ asClock \in Nat /\ asBusyAt \in Nat
  /\ asOverlap \in BOOLEAN

(* An idle period began after the last load and the last release.           *)
IdleAfterBusy ==
  /\ asBusyAt <= asClock
  /\ asIdleSince # NotIdle => asBusyAt <= asIdleSince /\ asIdleSince <= asClock

(* Without overlap there is at most one decision, made from the count as it *)
(* is, and the orchestrator is ahead of the count by it once it is done.    *)
OneDecision ==
  ~asOverlap =>
    \/ asInFlight = <<>> /\ asRunning = asWorkers
    \/ /\ Len(asInFlight) = 1
       /\ asWorkers + asInFlight[1].delta \in MinWorkers .. MaxWorkers
       /\ asRunning = IF asInFlight[1].done THEN asWorkers + asInFlight[1].delta ELSE asWorkers

ScaleInv == ScaleTypes /\ IdleAfterBusy /\ OneDecision

-----------------------------------------------------------------------------
LEMMA Targets ==
  /\ MinWorkers \in Nat /\ MaxWorkers \in Nat /\ Step \in Nat
  /\ IdleWindow \in Nat /\ MinWorkers <= MaxWorkers
  BY ScaleAssumption

LEMMA MaxOfTwo ==
  ASSUME NEW a \in Int, NEW b \in Int
  PROVE  Max({a, b}) = IF a >= b THEN a ELSE b
  BY DEF Max

LEMMA MinOfTwo ==
  ASSUME NEW a \in Int, NEW b \in Int
  PROVE  Min({a, b}) = IF a <= b THEN a ELSE b
  BY DEF Min

LEMMA Deltas ==
  ASSUME ScaleTypes
  PROVE  /\ UpDelta \in Nat /\ asWorkers + UpDelta <= MaxWorkers
         /\ DownDelta \in Int /\ DownDelta <= 0 /\ asWorkers + DownDelta >= MinWorkers
  <1>1. UpDelta = IF Step <= MaxWorkers - asWorkers THEN Step ELSE MaxWorkers - asWorkers
    BY MinOfTwo, Targets DEF UpDelta, ScaleTypes
  <1>2. Min({Step, asWorkers - MinWorkers})
          = IF Step <= asWorkers - MinWorkers THEN Step ELSE asWorkers - MinWorkers
    BY MinOfTwo, Targets DEF ScaleTypes
  <1> QED
    BY <1>1, <1>2, Targets DEF ScaleTypes, DownDelta

LEMMA AppliedInRange ==
  ASSUME ScaleTypes, NEW d \in Int
  PROVE  /\ Applied(d) \in MinWorkers .. MaxWorkers
         /\ asWorkers + d \in MinWorkers .. MaxWorkers => Applied(d) = asWorkers + d
  <1>1. CASE d > 0
    BY <1>1, MinOfTwo, Targets DEF Applied, ScaleTypes
  <1>2. CASE ~(d > 0)
    <2>1. Max({0, asWorkers + d}) = IF 0 >= asWorkers + d THEN 0 ELSE asWorkers + d
      BY MaxOfTwo, Targets DEF ScaleTypes
    <2>2. Max({0, asWorkers + d}) \in Int
      BY <2>1, Targets DEF ScaleTypes
    <2>3. Max({Max({0, asWorkers + d}), MinWorkers}) =
            IF Max({0, asWorkers + d}) >= MinWorkers THEN Max({0, asWorkers + d}) ELSE MinWorkers
      BY <2>2, MaxOfTwo, Targets
    <2> QED
      BY <1>2, <2>1, <2>3, Targets DEF Applied, ScaleTypes
  <1> QED
    BY <1>1, <1>2

(* What a tick that emits d does to the decisions.                          *)
LEMMA EmitKeeps ==
  ASSUME ScaleTypes, OneDecision, NEW d \in Int, Emit(d),
         asWorkers + d \in MinWorkers .. MaxWorkers,
         UNCHANGED <<asWorkers, asRunning>>
  PROVE  /\ asInFlight' \in Seq(Decision) /\ asOverlap' \in BOOLEAN
         /\ OneDecision'
         /\ Len(asInFlight) <= Len(asInFlight')
         /\ \A i \in DOMAIN asInFlight' :
              i > Len(asInFlight) => d # 0 /\ asInFlight'[i].delta = d
  <1>1. CASE d = 0
    <2>1. UNCHANGED <<asInFlight, asOverlap>>
      BY <1>1 DEF Emit
    <2> QED
      BY <2>1 DEF ScaleTypes, OneDecision
  <1>2. CASE d # 0
    <2> DEFINE new == [delta |-> d, done |-> FALSE]
    <2>1. /\ asInFlight' = Append(asInFlight, new)
          /\ asOverlap' = (asOverlap \/ asInFlight # <<>>)
      BY <1>2 DEF Emit
    <2>2. new \in Decision
      BY DEF Decision
    <2>3. /\ asInFlight' \in Seq(Decision)
          /\ Len(asInFlight') = Len(asInFlight) + 1
          /\ asInFlight'[Len(asInFlight) + 1] = new
          /\ DOMAIN asInFlight' = 1 .. Len(asInFlight) + 1
      BY <2>1, <2>2, AppendProperties DEF ScaleTypes
    <2>4. OneDecision'
      <3> SUFFICES ASSUME ~asOverlap'
                   PROVE  /\ Len(asInFlight') = 1
                          /\ asWorkers' + asInFlight'[1].delta \in MinWorkers .. MaxWorkers
                          /\ asRunning' = IF asInFlight'[1].done THEN asWorkers' + asInFlight'[1].delta
                                          ELSE asWorkers'
        BY DEF OneDecision
      <3>1. asInFlight = <<>> /\ ~asOverlap
        BY <2>1
      <3>2. asInFlight'[1] = new /\ Len(asInFlight') = 1
        BY <2>3, <3>1
      <3>3. asRunning = asWorkers
        BY <3>1 DEF OneDecision
      <3> QED
        BY <3>2, <3>3
    <2>5. asOverlap' \in BOOLEAN
      BY <2>1 DEF ScaleTypes
    <2> QED
      BY <1>2, <2>3, <2>4, <2>5 DEF ScaleTypes
  <1> QED
    BY <1>1, <1>2

-----------------------------------------------------------------------------
LEMMA ScaleInvInit == ScaleInit => ScaleInv
  <1> SUFFICES ASSUME ScaleInit PROVE ScaleInv
    OBVIOUS
  <1>1. Min({MaxWorkers, 0}) = 0
    BY MinOfTwo, Targets
  <1>2. Clamp(0) = MinWorkers
    BY <1>1, MaxOfTwo, Targets DEF Clamp
  <1> QED
    <2>0. asWorkers \in MinWorkers .. MaxWorkers /\ asRunning \in Nat /\ asClock \in Nat /\ asBusyAt \in Nat
      BY <1>2, Targets DEF ScaleInit
    <2>1. ScaleTypes
      <3>1. asInFlight \in Seq(Decision)
        BY DEF ScaleInit
      <3>2. asOverlap \in BOOLEAN /\ asIdleSince \in Nat \cup {NotIdle}
        BY Zenon DEF ScaleInit
      <3> QED
        BY <2>0, <3>1, <3>2 DEF ScaleTypes
    <2>2. IdleAfterBusy /\ OneDecision
      BY DEF ScaleInit, IdleAfterBusy, OneDecision
    <2> QED
      BY <2>1, <2>2 DEF ScaleInv

(* Whether a tick that sees idleness releases a worker, and since when it   *)
(* has been idle.                                                           *)
LEMMA IdleFacts ==
  ASSUME ScaleTypes, IdleAfterBusy
  PROVE  Started \in Nat /\ asBusyAt <= Started /\ Started <= asClock
  BY DEF ScaleTypes, IdleAfterBusy, Started, NotIdle

LEMMA ScaleInvStep == ScaleInv /\ [ScaleNext]_scaleVars => ScaleInv'
  <1> SUFFICES ASSUME ScaleInv, [ScaleNext]_scaleVars PROVE ScaleInv'
    OBVIOUS
  <1>0. ScaleTypes /\ IdleAfterBusy /\ OneDecision
    BY DEF ScaleInv
  <1>1. CASE TickBreach
    <2>1. asWorkers + UpDelta \in MinWorkers .. MaxWorkers /\ UpDelta \in Int
      BY <1>0, Deltas, Targets DEF ScaleTypes
    <2>2. /\ asInFlight' \in Seq(Decision) /\ asOverlap' \in BOOLEAN
          /\ OneDecision'
      BY <1>0, <1>1, <2>1, EmitKeeps DEF TickBreach
    <2>3. /\ asIdleSince' = NotIdle /\ asBusyAt' = asClock
          /\ UNCHANGED <<asWorkers, asRunning, asClock>>
      BY <1>1 DEF TickBreach
    <2> QED
      BY <1>0, <2>2, <2>3 DEF ScaleInv, ScaleTypes, IdleAfterBusy
  <1>2. CASE TickBusy
    BY <1>0, <1>2 DEF TickBusy, ScaleInv, ScaleTypes, IdleAfterBusy, OneDecision
  <1>3. CASE TickIdle
    <2> DEFINE delta == IF asClock - Started >= IdleWindow THEN DownDelta ELSE 0
    <2>1. delta \in Int /\ asWorkers + delta \in MinWorkers .. MaxWorkers
      BY <1>0, Deltas, Targets DEF ScaleTypes
    <2>2. Emit(delta) /\ UNCHANGED <<asWorkers, asRunning, asClock>>
      BY <1>3 DEF TickIdle
    <2>3. /\ asInFlight' \in Seq(Decision) /\ asOverlap' \in BOOLEAN
          /\ OneDecision'
      BY <1>0, <2>1, <2>2, EmitKeeps
    <2>4. /\ asIdleSince' \in {Started, asClock} /\ asBusyAt' \in {asBusyAt, asClock}
          /\ asBusyAt' = asClock => asIdleSince' = asClock \/ asBusyAt' = asBusyAt
      BY <1>3 DEF TickIdle, IdleAfterDown
    <2>5. ScaleTypes'
      BY <1>0, <2>2, <2>3, <2>4, IdleFacts DEF ScaleTypes
    <2>6. IdleAfterBusy'
      BY <1>0, <2>2, <2>4, IdleFacts DEF ScaleTypes, IdleAfterBusy
    <2> QED
      BY <2>3, <2>5, <2>6 DEF ScaleInv
  <1>4. CASE Orchestrate
    <2> DEFINE d == asInFlight[1]
    <2>1. /\ Head(asInFlight) = d /\ d \in Decision /\ Len(asInFlight) >= 1
          /\ 1 \in DOMAIN asInFlight
      BY <1>0, <1>4, EmptySeq, LenProperties, HeadTailProperties, ElementOfSeq
      DEF ScaleTypes, Orchestrate
    <2>2. d.delta \in Int /\ d.done = FALSE
      BY <1>4, <2>1 DEF Orchestrate, Decision
    <2>3. asRunning' = IF 0 >= asRunning + d.delta THEN 0 ELSE asRunning + d.delta
      <3>1. asRunning + d.delta \in Int
        BY <1>0, <2>2 DEF ScaleTypes
      <3>2. asRunning' = Max({0, asRunning + d.delta})
        BY <1>4, <2>1 DEF Orchestrate
      <3> QED
        BY <3>1, <3>2, MaxOfTwo
    <2>4. asInFlight' = [asInFlight EXCEPT ![1] = [d EXCEPT !.done = TRUE]]
      BY <1>4 DEF Orchestrate
    <2>5. [d EXCEPT !.done = TRUE] \in Decision
      BY <2>1 DEF Decision
    <2>6. asInFlight' \in Seq(Decision) /\ Len(asInFlight') = Len(asInFlight)
          /\ asInFlight'[1] = [d EXCEPT !.done = TRUE]
      BY <1>0, <2>1, <2>4, <2>5, ExceptSeq DEF ScaleTypes
    <2>7. asInFlight'[1].done /\ asInFlight'[1].delta = d.delta
      BY <2>1, <2>6 DEF Decision
    <2>8. UNCHANGED <<asWorkers, asIdleSince, asClock, asBusyAt, asOverlap>>
      BY <1>4 DEF Orchestrate
    <2>9. OneDecision'
      <3> SUFFICES ASSUME ~asOverlap
                   PROVE  /\ Len(asInFlight') = 1
                          /\ asWorkers' + asInFlight'[1].delta \in MinWorkers .. MaxWorkers
                          /\ asRunning' = asWorkers' + asInFlight'[1].delta
        BY <2>7, <2>8 DEF OneDecision
      <3>1. /\ Len(asInFlight) = 1 /\ asWorkers + d.delta \in MinWorkers .. MaxWorkers
            /\ asRunning = asWorkers
        BY <1>0, <1>4, <2>2 DEF OneDecision, Orchestrate
      <3> QED
        BY <1>0, <2>2, <2>3, <2>6, <2>7, <2>8, <3>1, Targets DEF ScaleTypes
    <2>10. asRunning' \in Nat
      BY <1>0, <2>2, <2>3 DEF ScaleTypes
    <2> QED
      BY <1>0, <2>6, <2>8, <2>9, <2>10 DEF ScaleInv, ScaleTypes, IdleAfterBusy
  <1>5. CASE ApplyDecision
    <2> DEFINE d == asInFlight[1]
    <2>1. Head(asInFlight) = d /\ d \in Decision
      BY <1>0, <1>5, EmptySeq, LenProperties, HeadTailProperties, ElementOfSeq
      DEF ScaleTypes, ApplyDecision
    <2>2. d.delta \in Int /\ d.done
      BY <1>5, <2>1 DEF ApplyDecision, Decision
    <2>3. asWorkers' = Applied(d.delta) /\ asInFlight' = Tail(asInFlight)
          /\ UNCHANGED <<asIdleSince, asRunning, asClock, asBusyAt, asOverlap>>
      BY <1>5, <2>1 DEF ApplyDecision
    <2>4. /\ asWorkers' \in MinWorkers .. MaxWorkers
          /\ asWorkers + d.delta \in MinWorkers .. MaxWorkers => asWorkers' = asWorkers + d.delta
      BY <1>0, <2>2, <2>3, AppliedInRange
    <2>5. asInFlight' \in Seq(Decision) /\ Len(asInFlight') = Len(asInFlight) - 1
      BY <1>0, <1>5, <2>3, HeadTailProperties DEF ScaleTypes, ApplyDecision
    <2>6. OneDecision'
      <3> SUFFICES ASSUME ~asOverlap PROVE asInFlight' = <<>> /\ asRunning' = asWorkers'
        BY <2>3 DEF OneDecision
      <3>1. /\ Len(asInFlight) = 1 /\ asWorkers + d.delta \in MinWorkers .. MaxWorkers
            /\ asRunning = asWorkers + d.delta
        BY <1>0, <1>5, <2>2 DEF OneDecision, ApplyDecision
      <3>2. Len(asInFlight') = 0
        BY <2>5, <3>1
      <3> QED
        BY <2>3, <2>4, <2>5, <3>1, <3>2, EmptySeq
    <2> QED
      BY <1>0, <2>3, <2>4, <2>5, <2>6 DEF ScaleInv, ScaleTypes, IdleAfterBusy
  <1>6. CASE Pass
    BY <1>0, <1>6 DEF Pass, ScaleInv, ScaleTypes, IdleAfterBusy, OneDecision, NotIdle
  <1>7. CASE UNCHANGED scaleVars
    BY <1>0, <1>7 DEF scaleVars, ScaleInv, ScaleTypes, IdleAfterBusy, OneDecision
  <1> QED
    BY <1>1, <1>2, <1>3, <1>4, <1>5, <1>6, <1>7 DEF ScaleNext

LEMMA ScaleInvariant == ScaleSpec => []ScaleInv
  BY ScaleInvInit, ScaleInvStep, PTL DEF ScaleSpec

-----------------------------------------------------------------------------
(* As long as no decision is emitted while another is in flight, the        *)
(* controller's current_workers is the size of the fleet whenever nothing   *)
(* is in flight (autoscale.rs, tick and apply_decision).                    *)
THEOREM ControllerCountsWorkers == ScaleSpec => []CountsWorkers
  <1>1. ScaleInv => CountsWorkers
    <2> SUFFICES ASSUME ScaleInv, asInFlight = <<>>, ~asOverlap PROVE asRunning = asWorkers
      BY DEF CountsWorkers
    <2>1. Len(asInFlight) = 0
      OBVIOUS
    <2> QED
      BY <2>1 DEF ScaleInv, OneDecision
  <1> QED
    BY ScaleInvariant, <1>1, PTL

(* However decisions are delayed, current_workers stays within the target's *)
(* bounds.                                                                  *)
THEOREM CountStaysInRange == ScaleSpec => [](asWorkers \in MinWorkers .. MaxWorkers)
  <1>1. ScaleInv => asWorkers \in MinWorkers .. MaxWorkers
    BY DEF ScaleInv, ScaleTypes
  <1> QED
    BY ScaleInvariant, <1>1, PTL

(* A worker is released only after an idle window in which no tick saw load *)
(* and no other worker was released (autoscale.rs, idle_since).             *)
THEOREM ReleasesWaitForIdleWindow == ScaleSpec => ReleaseNeedsIdleWindow
  <1> DEFINE Waited == \A i \in DOMAIN asInFlight' :
               (i > Len(asInFlight) /\ asInFlight'[i].delta < 0) => asClock - asBusyAt >= IdleWindow
  <1>1. ScaleInv /\ [ScaleNext]_scaleVars => [Waited]_scaleVars
    <2> SUFFICES ASSUME ScaleInv, ScaleNext PROVE Waited
      OBVIOUS
    <2>0. ScaleTypes /\ IdleAfterBusy /\ OneDecision
      BY DEF ScaleInv
    <2>1. CASE TickBreach
      <3>1. asWorkers + UpDelta \in MinWorkers .. MaxWorkers /\ UpDelta \in Nat
        BY <2>0, Deltas, Targets DEF ScaleTypes
      <3>2. \A i \in DOMAIN asInFlight' : i > Len(asInFlight) => asInFlight'[i].delta = UpDelta
        BY <2>0, <2>1, <3>1, EmitKeeps DEF TickBreach
      <3> QED
        BY <3>1, <3>2
    <2>2. CASE TickIdle
      <3> DEFINE delta == IF asClock - Started >= IdleWindow THEN DownDelta ELSE 0
      <3>1. delta \in Int /\ asWorkers + delta \in MinWorkers .. MaxWorkers
        BY <2>0, Deltas, Targets DEF ScaleTypes
      <3>2. Emit(delta) /\ UNCHANGED <<asWorkers, asRunning>>
        BY <2>2 DEF TickIdle
      <3>3. \A i \in DOMAIN asInFlight' : i > Len(asInFlight) => delta # 0
        BY <2>0, <3>1, <3>2, EmitKeeps
      <3>4. delta # 0 => asClock - asBusyAt >= IdleWindow
        BY <2>0, IdleFacts, Targets DEF ScaleTypes
      <3> QED
        BY <3>3, <3>4
    <2>3. CASE TickBusy \/ Pass
      <3>1. asInFlight' = asInFlight /\ DOMAIN asInFlight = 1 .. Len(asInFlight) /\ Len(asInFlight) \in Nat
        BY <2>0, <2>3, LenProperties DEF TickBusy, Pass, ScaleTypes
      <3> QED
        BY <3>1
    <2>4. CASE Orchestrate
      <3>1. DOMAIN asInFlight' = 1 .. Len(asInFlight) /\ Len(asInFlight) \in Nat
        BY <2>0, <2>4, LenProperties DEF Orchestrate, ScaleTypes
      <3> QED
        BY <3>1
    <2>5. CASE ApplyDecision
      <3>1. DOMAIN asInFlight' = 1 .. Len(asInFlight) - 1 /\ Len(asInFlight) \in Nat
        BY <2>0, <2>5, HeadTailProperties, LenProperties DEF ApplyDecision, ScaleTypes
      <3> QED
        BY <3>1
    <2> QED
      BY <2>1, <2>2, <2>3, <2>4, <2>5 DEF ScaleNext
  <1> QED
    BY ScaleInvariant, <1>1, PTL DEF ScaleSpec, ReleaseNeedsIdleWindow
=============================================================================
