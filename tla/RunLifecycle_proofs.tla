------------------------ MODULE RunLifecycle_proofs ------------------------
(***************************************************************************)
(* For any number of concurrent requests, runs and dropped handlers: once  *)
(* nobody owes an event about a run, the last event came after the last    *)
(* write, and carries what was written unless writers overlapped.          *)
(***************************************************************************)
EXTENDS RunLifecycle, TLAPS

(* What a handler's locals are at each statement.                          *)
LocalsOf(q) ==
  /\ pc[q] = "read" => op[q] # "create"
  /\ pc[q] = "update" => op[q] \in Trigger
  /\ pc[q] \in {"read", "update", "reread", "publish"} => target[q] \in Run
  /\ pc[q] \in {"update", "reread", "publish"} => status[target[q]] # Absent

Locals == \A q \in Req : LocalsOf(q)

(* A run without overlapping writers has one writer that owes an event at  *)
(* most, and that writer is about to publish what the table holds.         *)
LoneWriter ==
  \A r \in Run : r \notin overlapped =>
    /\ \A p, q \in Announcing(r) : p = q
    /\ \A q \in Announcing(r) : pc[q] = "publish" => got[q] = status[r]

RunInv == TypeOK /\ Locals /\ RefetchIsCurrent /\ LoneWriter /\ EventIsCurrent

-----------------------------------------------------------------------------
LEMMA RunInit == Init => RunInv
  <1> SUFFICES ASSUME Init PROVE RunInv
    OBVIOUS
  <1>1. TypeOK
    BY LifecycleAssumption DEF Init, TypeOK, Trigger, Insert, NoRun, Absent
  <1>2. Locals
    BY DEF Init, Locals, LocalsOf
  <1>3. \A r \in Run : Announcing(r) = {}
    BY DEF Init, Announcing
  <1>4. RefetchIsCurrent /\ LoneWriter /\ EventIsCurrent
    BY <1>3 DEF Init, RefetchIsCurrent, LoneWriter, EventIsCurrent
  <1> QED
    BY <1>1, <1>2, <1>4 DEF RunInv

(* A trigger asks for a status.                                            *)
LEMMA GoalIsStatus == \A o \in Trigger : Goal(o) \in Status /\ Goal(o) # Absent
  BY DEF Trigger, Goal, Status, Absent

(* Types, and the locals each statement relies on: no statement deletes a  *)
(* row, so a run that was read is still there.                             *)
LEMMA TypeStep == TypeOK /\ Locals /\ [Next]_vars => TypeOK' /\ Locals'
  <1> SUFFICES ASSUME TypeOK, Locals, [Next]_vars PROVE TypeOK' /\ Locals'
    OBVIOUS
  <1> USE DEF TypeOK, Locals, LocalsOf
  <1>1. ASSUME NEW q \in Req, NEW o \in Trigger \cup Insert, NEW r \in Run, Receive(q, o, r)
        PROVE  TypeOK' /\ Locals'
    BY <1>1 DEF Receive, Insert, historyVars
  <1>2. ASSUME NEW q \in Req, Read(q) PROVE TypeOK' /\ Locals'
    BY <1>2 DEF Read, Accepts, Insert, historyVars
  <1>3. ASSUME NEW q \in Req, Refuse(q) PROVE TypeOK' /\ Locals'
    BY <1>3 DEF Refuse, Finish, Insert, historyVars
  <1>4. ASSUME NEW q \in Req, Update(q) PROVE TypeOK' /\ Locals'
    BY <1>4, GoalIsStatus DEF Update
  <1>5. ASSUME NEW q \in Req, Reread(q) PROVE TypeOK' /\ Locals'
    BY <1>5 DEF Reread, historyVars
  <1>6. ASSUME NEW q \in Req, NEW r \in Run, InsertRun(q, r) PROVE TypeOK' /\ Locals'
    BY <1>6 DEF InsertRun, Status, Absent, historyVars
  <1>7. ASSUME NEW q \in Req, Publish(q) PROVE TypeOK' /\ Locals'
    BY <1>7 DEF Publish, Finish, Insert
  <1>8. ASSUME NEW q \in Req, Abandon(q) PROVE TypeOK' /\ Locals'
    BY <1>8, LifecycleAssumption DEF Abandon, Finish, Insert
  <1>9. CASE UNCHANGED vars
    BY <1>9 DEF vars, reqVars, historyVars
  <1> QED
    BY <1>1, <1>2, <1>3, <1>4, <1>5, <1>6, <1>7, <1>8, <1>9 DEF Next, Step

-----------------------------------------------------------------------------
(* How each kind of step changes who owes an event about a run.            *)
LEMMA OwesNothingNew ==
  ASSUME TypeOK, NEW q \in Req,
         Refuse(q) \/ Read(q) \/ \E o \in Trigger \cup Insert, r \in Run : Receive(q, o, r)
  PROVE  \A r \in Run : Announcing(r)' = Announcing(r)
  BY DEF TypeOK, Refuse, Finish, Read, Receive, Announcing

LEMMA OwesStill ==
  ASSUME TypeOK, NEW q \in Req, Reread(q)
  PROVE  \A r \in Run : Announcing(r)' = Announcing(r)
  BY DEF TypeOK, Reread, Announcing

LEMMA OwesNow ==
  ASSUME TypeOK, NEW q \in Req, Update(q)
  PROVE  \A r \in Run : Announcing(r)' = IF r = target[q] THEN Announcing(r) \cup {q}
                                          ELSE Announcing(r)
  BY DEF TypeOK, Update, Announcing

LEMMA OwesInsert ==
  ASSUME TypeOK, NEW q \in Req, NEW r \in Run, InsertRun(q, r)
  PROVE  /\ Announcing(r)' = Announcing(r) \cup {q}
         /\ \A p \in Run : p # r => Announcing(p)' = Announcing(p)
  BY DEF TypeOK, InsertRun, Announcing

LEMMA OwesNoMore ==
  ASSUME TypeOK, NEW q \in Req, Publish(q) \/ Abandon(q)
  PROVE  \A r \in Run : Announcing(r)' = Announcing(r) \ {q}
  BY DEF TypeOK, Publish, Abandon, Finish, Announcing

(* Whoever writes a row owes an event until it has published or is dropped.*)
LEMMA RefetchStep == TypeOK /\ Locals /\ RefetchIsCurrent /\ [Next]_vars => RefetchIsCurrent'
  <1> SUFFICES ASSUME TypeOK, Locals, RefetchIsCurrent, [Next]_vars,
                      NEW r \in Run, Quiet(r)'
               PROVE  seen'[r] = status'[r]
    BY DEF RefetchIsCurrent
  <1> USE DEF RefetchIsCurrent, Quiet
  <1>1. ASSUME NEW q \in Req,
               Refuse(q) \/ Read(q) \/ \E o \in Trigger \cup Insert, x \in Run : Receive(q, o, x)
        PROVE  seen'[r] = status'[r]
    <2>1. UNCHANGED <<seen, status, abandoned>> /\ Announcing(r)' = Announcing(r)
      BY <1>1, OwesNothingNew DEF Refuse, Read, Receive, historyVars
    <2> QED
      BY <2>1
  <1>2. ASSUME NEW q \in Req, Update(q) PROVE seen'[r] = status'[r]
    <2>1. Announcing(r)' = IF r = target[q] THEN Announcing(r) \cup {q} ELSE Announcing(r)
      BY <1>2, OwesNow
    <2>2. Announcing(r)' = {}
      OBVIOUS
    <2>3. r # target[q] /\ Announcing(r)' = Announcing(r)
      BY <2>1, <2>2
    <2> QED
      BY <1>2, <2>3 DEF Update, TypeOK
  <1>3. ASSUME NEW q \in Req, Reread(q) PROVE seen'[r] = status'[r]
    BY <1>3, OwesStill DEF Reread, historyVars
  <1>4. ASSUME NEW q \in Req, NEW x \in Run, InsertRun(q, x) PROVE seen'[r] = status'[r]
    <2>1. r # x /\ Announcing(r)' = Announcing(r)
      BY <1>4, OwesInsert
    <2> QED
      BY <1>4, <2>1 DEF InsertRun, TypeOK, historyVars
  <1>5. ASSUME NEW q \in Req, Publish(q) PROVE seen'[r] = status'[r]
    <2>1. CASE r = target[q]
      BY <1>5, <2>1 DEF Publish, TypeOK
    <2>2. CASE r # target[q]
      <3>1. Announcing(r)' = Announcing(r)
        BY <1>5, <2>2, OwesNoMore DEF Announcing
      <3> QED
        BY <1>5, <2>2, <3>1 DEF Publish, TypeOK
    <2> QED
      BY <2>1, <2>2
  <1>6. ASSUME NEW q \in Req, Abandon(q) PROVE seen'[r] = status'[r]
    <2>1. q \notin Announcing(r)
      BY <1>6 DEF Abandon, Announcing
    <2>2. Announcing(r)' = Announcing(r) /\ r \notin abandoned
      BY <1>6, <2>1, OwesNoMore DEF Abandon
    <2> QED
      BY <1>6, <2>2 DEF Abandon
  <1>7. CASE UNCHANGED vars
    BY <1>7 DEF vars, reqVars, historyVars, Announcing
  <1> QED
    BY <1>1, <1>2, <1>3, <1>4, <1>5, <1>6, <1>7 DEF Next, Step

(* What a lone writer publishes is what it wrote.                          *)
LEMMA EventStep ==
  TypeOK /\ Locals /\ LoneWriter /\ EventIsCurrent /\ [Next]_vars
    => LoneWriter' /\ EventIsCurrent'
  <1> DEFINE Lone(r) == /\ \A p, q \in Announcing(r) : p = q
                        /\ \A q \in Announcing(r) : pc[q] = "publish" => got[q] = status[r]
             Current(r) == Quiet(r) => last[r] = status[r]
  <1> SUFFICES ASSUME TypeOK, Locals, LoneWriter, EventIsCurrent, [Next]_vars,
                      NEW r \in Run, r \notin overlapped'
               PROVE  Lone(r)' /\ Current(r)'
    BY DEF LoneWriter, EventIsCurrent
  <1>0. r \notin overlapped => Lone(r) /\ Current(r)
    BY DEF LoneWriter, EventIsCurrent
  <1>1. ASSUME NEW q \in Req,
               Refuse(q) \/ Read(q) \/ \E o \in Trigger \cup Insert, x \in Run : Receive(q, o, x)
        PROVE  Lone(r)' /\ Current(r)'
    <2>1. UNCHANGED <<last, status, abandoned, overlapped>> /\ Announcing(r)' = Announcing(r)
      BY <1>1, OwesNothingNew DEF Refuse, Read, Receive, historyVars
    <2>2. q \notin Announcing(r)
      BY <1>1 DEF Refuse, Read, Receive, Announcing
    <2>3. \A p \in Announcing(r) : pc'[p] = pc[p] /\ got'[p] = got[p]
      BY <1>1, <2>2 DEF Refuse, Finish, Read, Receive, TypeOK, Announcing
    <2> QED
      BY <1>0, <2>1, <2>3 DEF Quiet
  <1>2. ASSUME NEW q \in Req, Update(q) PROVE Lone(r)' /\ Current(r)'
    <2>1. CASE r = target[q]
      <3>1. Announcing(r) = {} /\ Announcing(r)' = {q} /\ pc'[q] = "reread"
        BY <1>2, <2>1, OwesNow DEF Update, TypeOK
      <3> QED
        BY <3>1 DEF Quiet
    <2>2. CASE r # target[q]
      <3>1. /\ Announcing(r)' = Announcing(r) /\ q \notin Announcing(r)
            /\ status'[r] = status[r] /\ UNCHANGED <<got, last, abandoned>>
            /\ r \notin overlapped
        BY <1>2, <2>2, OwesNow DEF Update, TypeOK, Announcing
      <3>2. \A p \in Announcing(r) : pc'[p] = pc[p]
        BY <1>2, <3>1 DEF Update, TypeOK, Announcing
      <3> QED
        BY <1>0, <3>1, <3>2 DEF Quiet
    <2> QED
      BY <2>1, <2>2
  <1>3. ASSUME NEW q \in Req, Reread(q) PROVE Lone(r)' /\ Current(r)'
    <2>1. /\ Announcing(r)' = Announcing(r) /\ r \notin overlapped
          /\ UNCHANGED <<status, last, abandoned, target>>
      BY <1>3, OwesStill DEF Reread, historyVars
    <2>2. \A p \in Announcing(r) : pc'[p] = "publish" => got'[p] = status[r]
      BY <1>0, <1>3, <2>1 DEF Reread, TypeOK, Announcing
    <2> QED
      BY <1>0, <2>1, <2>2 DEF Quiet
  <1>4. ASSUME NEW q \in Req, NEW x \in Run, InsertRun(q, x) PROVE Lone(r)' /\ Current(r)'
    <2>0. r \notin overlapped /\ UNCHANGED <<last, abandoned>>
      BY <1>4 DEF InsertRun, historyVars
    <2>1. CASE r = x
      <3>1. Announcing(r) = {}
        BY <1>4, <2>1 DEF InsertRun, Announcing, Locals, LocalsOf
      <3>2. Announcing(r)' = {q}
        BY <1>4, <2>1, <3>1, OwesInsert
      <3>3. got'[q] = "queued" /\ status'[r] = "queued"
        BY <1>4, <2>1 DEF InsertRun, TypeOK
      <3> QED
        BY <3>2, <3>3 DEF Quiet
    <2>2. CASE r # x
      <3>1. /\ Announcing(r)' = Announcing(r) /\ q \notin Announcing(r)
            /\ status'[r] = status[r]
        BY <1>4, <2>2, OwesInsert DEF InsertRun, TypeOK, Announcing
      <3>2. \A p \in Announcing(r) : pc'[p] = pc[p] /\ got'[p] = got[p]
        BY <1>4, <3>1 DEF InsertRun, TypeOK, Announcing
      <3> QED
        BY <1>0, <2>0, <3>1, <3>2 DEF Quiet
    <2> QED
      BY <2>1, <2>2
  <1>5. ASSUME NEW q \in Req, Publish(q) PROVE Lone(r)' /\ Current(r)'
    <2>0. status' = status /\ Announcing(r)' = Announcing(r) \ {q}
      BY <1>5, OwesNoMore DEF Publish
    <2>1. CASE r = target[q]
      <3>1. q \in Announcing(r) /\ last'[r] = got[q]
        BY <1>5, <2>1 DEF Publish, Announcing, TypeOK
      <3>2. Announcing(r) = {q} /\ got[q] = status[r]
        <4>1. CASE r \in overlapped
          BY <1>5, <2>1, <4>1 DEF Publish
        <4>2. CASE r \notin overlapped
          BY <1>0, <1>5, <3>1, <4>2 DEF Publish
        <4> QED
          BY <4>1, <4>2
      <3> QED
        BY <2>0, <3>1, <3>2
    <2>2. CASE r # target[q]
      <3>1. /\ q \notin Announcing(r) /\ last'[r] = last[r]
            /\ r \notin overlapped /\ (r \in abandoned' <=> r \in abandoned)
        BY <1>5, <2>2 DEF Publish, Announcing, TypeOK
      <3>2. \A p \in Announcing(r) : pc'[p] = pc[p] /\ got'[p] = got[p]
        BY <1>5, <3>1 DEF Publish, Finish, TypeOK, Announcing
      <3> QED
        BY <1>0, <2>0, <3>1, <3>2 DEF Quiet
    <2> QED
      BY <2>1, <2>2
  <1>6. ASSUME NEW q \in Req, Abandon(q) PROVE Lone(r)' /\ Current(r)'
    <2>1. /\ Announcing(r)' = Announcing(r) \ {q} /\ r \notin overlapped
          /\ UNCHANGED <<status, last>>
      BY <1>6, OwesNoMore DEF Abandon
    <2>2. \A p \in Announcing(r) \ {q} : pc'[p] = pc[p] /\ got'[p] = got[p]
      BY <1>6 DEF Abandon, Finish, TypeOK, Announcing
    <2>3. Quiet(r)' => Quiet(r)
      BY <1>6, <2>1 DEF Abandon, Quiet, Announcing
    <2> QED
      BY <1>0, <2>1, <2>2, <2>3
  <1>7. CASE UNCHANGED vars
    <2>1. Announcing(r)' = Announcing(r) /\ Quiet(r)' = Quiet(r)
      BY <1>7 DEF vars, reqVars, historyVars, Announcing, Quiet
    <2> QED
      BY <1>0, <1>7, <2>1 DEF vars, reqVars, historyVars
  <1> QED
    BY <1>1, <1>2, <1>3, <1>4, <1>5, <1>6, <1>7 DEF Next, Step

LEMMA RunInvariant == Spec => []RunInv
  <1>1. RunInv /\ [Next]_vars => RunInv'
    BY TypeStep, RefetchStep, EventStep DEF RunInv
  <1> QED
    BY RunInit, <1>1, PTL DEF Spec

-----------------------------------------------------------------------------
(* Handlers and table keep their types; only the six statuses are stored.  *)
THEOREM LifecycleTypeCorrect == Spec => []TypeOK
  <1>1. RunInv => TypeOK
    BY DEF RunInv
  <1> QED
    BY RunInvariant, <1>1, PTL

(* trigger writes, then publishes: when nobody owes an event about a run,  *)
(* a refetch on its last event shows the table (runs.rs:124-129).          *)
THEOREM RefetchShowsTable == Spec => []RefetchIsCurrent
  <1>1. RunInv => RefetchIsCurrent
    BY DEF RunInv
  <1> QED
    BY RunInvariant, <1>1, PTL

(* The last event itself carries the table's status, unless two writers    *)
(* overlapped between UPDATE and publish (runs.rs:124-129).                *)
THEOREM EventShowsTable == Spec => []EventIsCurrent
  <1>1. RunInv => EventIsCurrent
    BY DEF RunInv
  <1> QED
    BY RunInvariant, <1>1, PTL
=============================================================================
