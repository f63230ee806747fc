---------------------------- MODULE RunLifecycle ----------------------------
(***************************************************************************)
(* The console's run endpoints (handlers/runs.rs) over the runs table      *)
(* (db.rs) and the "runs.changed" topic of the hub.  No handler holds a    *)
(* transaction or a lock across its SQL statements, so every statement is  *)
(* a step of its own and any number of requests interleave between them.   *)
(*                                                                         *)
(* A request is a slot that serves one HTTP call after another.  The       *)
(* server drops the future of a handler whose client went away, at any     *)
(* await: Abandon.  Runs are numbered in the order of their INSERT.  The   *)
(* configuration blob a fork merges is left out: no status depends on it.  *)
(* "completed" and "failed" have no writer in the console yet.             *)
(***************************************************************************)
EXTENDS Integers, FiniteSets

CONSTANTS
  Req,       \* concurrent requests
  MaxRuns,   \* bound: rows inserted into runs
  MaxAborts  \* bound: requests whose client disconnects

ASSUME LifecycleAssumption == MaxRuns \in Nat /\ MaxAborts \in Nat

Run     == 1..MaxRuns
NoRun   == 0
Absent  == "absent"
Status  == {"queued", "running", "paused", "completed", "failed", "cancelled"}
Trigger == {"start", "pause", "resume", "stop"}
Insert  == {"create", "fork"}

VARIABLES
  pc,         \* pc[q]: the statement request q executes next
  op,         \* op[q]: its endpoint
  target,     \* target[q]: the run its path names, or the one it inserted
  got,        \* got[q]: the status it is about to publish
  status,     \* status[r]: the status column; Absent when there is no row
  aborts,     \* counts Abandon, for the bound
  last,       \* last[r]: the status in the last event about r
  seen,       \* history: status[r] when that event was published
  overlapped, \* history: runs written while another writer had yet to publish,
              \* until an event of a lone writer says what the table holds
  abandoned   \* history: runs whose writer was dropped before it published

reqVars     == <<pc, op, target, got>>
historyVars == <<seen, overlapped, abandoned>>
vars == <<reqVars, status, aborts, last, historyVars>>

(* The status a trigger asks for, and the ones it is allowed from.          *)
Goal(o) == CASE o \in {"start", "resume"} -> "running"
             [] o = "pause"               -> "paused"
             [] o = "stop"                -> "cancelled"

AllowedFrom(o) == CASE o = "start"  -> {"queued", "paused"}
                    [] o = "pause"  -> {"running"}
                    [] o = "resume" -> {"paused"}
                    [] o = "stop"   -> {"queued", "running", "paused"}

(* Requests that have changed r and have not told the hub.                  *)
Announcing(r) == {q \in Req : target[q] = r /\ pc[q] \in {"reread", "publish"}}

(* The bound on inserted rows, with the inserts under way counted in.       *)
Inserting == {q \in Req : op[q] \in Insert /\ pc[q] \in {"read", "insert"}}
Room == Cardinality({r \in Run : status[r] # Absent}) + Cardinality(Inserting)
          < MaxRuns

(* The handler returns, and its locals are gone.                            *)
Finish(q) ==
  /\ pc' = [pc EXCEPT ![q] = "idle"]
  /\ op' = [op EXCEPT ![q] = "create"]
  /\ target' = [target EXCEPT ![q] = NoRun]
  /\ got' = [got EXCEPT ![q] = Absent]

Init ==
  /\ pc = [q \in Req |-> "idle"]
  /\ op = [q \in Req |-> "create"]
  /\ target = [q \in Req |-> NoRun]
  /\ got = [q \in Req |-> Absent]
  /\ status = [r \in Run |-> Absent]
  /\ aborts = 0
  /\ last = [r \in Run |-> Absent]
  /\ seen = [r \in Run |-> Absent]
  /\ overlapped = {} /\ abandoned = {}

(* A call arrives.  The run its path names need not exist.                  *)
Receive(q, o, r) ==
  /\ pc[q] = "idle"
  /\ o \in Insert => Room
  /\ pc' = [pc EXCEPT ![q] = IF o = "create" THEN "insert" ELSE "read"]
  /\ op' = [op EXCEPT ![q] = o]
  /\ target' = [target EXCEPT ![q] = IF o = "create" THEN NoRun ELSE r]
  /\ UNCHANGED <<got, status, aborts, last, historyVars>>

Accepts(q) ==
  /\ status[target[q]] # Absent
  /\ op[q] \in Trigger => status[target[q]] \in AllowedFrom(op[q])

(* get_run finds a row, and the transition is allowed.                      *)
Read(q) ==
  /\ pc[q] = "read"
  /\ Accepts(q)
  /\ pc' = [pc EXCEPT ![q] = IF op[q] = "fork" THEN "insert" ELSE "update"]
  /\ UNCHANGED <<op, target, got, status, aborts, last, historyVars>>

(* A missing run is answered 404, a transition that is not allowed 409.     *)
Refuse(q) ==
  /\ pc[q] = "read"
  /\ ~Accepts(q)
  /\ Finish(q)
  /\ UNCHANGED <<status, aborts, last, historyVars>>

(* UPDATE runs SET status = ? WHERE id = ?.  The row is there: nothing      *)
(* deletes runs, so rows_affected is 1.                                     *)
Update(q) ==
  LET r == target[q]
      s == Goal(op[q])
  IN /\ pc[q] = "update"
     /\ status' = [status EXCEPT ![r] = s]
     /\ pc' = [pc EXCEPT ![q] = "reread"]
     /\ overlapped' = IF Announcing(r) = {} THEN overlapped
                      ELSE overlapped \cup {r}
     /\ UNCHANGED <<op, target, got, aborts, last, seen, abandoned>>

(* Mutant: the handler answers without publishing.                          *)
MutRereadAnswers(q) ==
  /\ pc[q] = "reread"
  /\ Finish(q)
  /\ UNCHANGED <<status, aborts, last, historyVars>>

(* Mutant: the event carries the status the run came from.                  *)
MutRereadStale(q) ==
  /\ pc[q] = "reread"
  /\ got' = [got EXCEPT ![q] = CHOOSE s \in AllowedFrom(op[q]) : TRUE]
  /\ pc' = [pc EXCEPT ![q] = "publish"]
  /\ UNCHANGED <<op, target, status, aborts, last, historyVars>>

(* The get_run at the end of update_run_status.                             *)
Reread(q) ==
  /\ pc[q] = "reread"
  /\ got' = [got EXCEPT ![q] = status[target[q]]]
  /\ pc' = [pc EXCEPT ![q] = "publish"]
  /\ UNCHANGED <<op, target, status, aborts, last, historyVars>>

(* insert_run: a new row, "queued".                                         *)
InsertRun(q, r) ==
  /\ pc[q] = "insert"
  /\ status[r] = Absent
  /\ \A p \in Run : p < r => status[p] # Absent
  /\ status' = [status EXCEPT ![r] = "queued"]
  /\ target' = [target EXCEPT ![q] = r]
  /\ got' = [got EXCEPT ![q] = "queued"]
  /\ pc' = [pc EXCEPT ![q] = "publish"]
  /\ UNCHANGED <<op, aborts, last, historyVars>>

(* hub.publish("runs.changed", {id, status}) and the answer.                *)
Publish(q) ==
  LET r == target[q]
  IN /\ pc[q] = "publish"
     /\ last' = [last EXCEPT ![r] = got[q]]
     /\ seen' = [seen EXCEPT ![r] = status[r]]
     /\ overlapped' = IF Announcing(r) = {q} /\ got[q] = status[r]
                      THEN overlapped \ {r} ELSE overlapped
     /\ abandoned' = abandoned \ {r}
     /\ Finish(q)
     /\ UNCHANGED <<status, aborts>>

(* The client disconnects and the handler's future is dropped.              *)
Abandon(q) ==
  /\ aborts < MaxAborts
  /\ pc[q] # "idle"
  /\ aborts' = aborts + 1
  /\ abandoned' = IF pc[q] \in {"reread", "publish"}
                  THEN abandoned \cup {target[q]} ELSE abandoned
  /\ Finish(q)
  /\ UNCHANGED <<status, last, seen, overlapped>>

Step(q) ==
  \/ Read(q) \/ Refuse(q) \/ Update(q) \/ Reread(q) \/ Publish(q)
  \/ \E r \in Run : InsertRun(q, r)

Next ==
  \E q \in Req :
    \/ \E o \in Trigger \cup Insert, r \in Run : Receive(q, o, r)
    \/ Step(q)
    \/ Abandon(q)

Spec == Init /\ [][Next]_vars

(* The runtime polls a handler whose statement completed, and SQLite        *)
(* completes every statement.                                               *)
FairSpec == Spec /\ \A q \in Req : WF_vars(Step(q))

-----------------------------------------------------------------------------

TypeOK ==
  /\ pc \in [Req -> {"idle", "read", "update", "reread", "insert", "publish"}]
  /\ op \in [Req -> Trigger \cup Insert]
  /\ target \in [Req -> Run \cup {NoRun}]
  /\ got \in [Req -> Status \cup {Absent}]
  /\ status \in [Run -> Status \cup {Absent}]
  /\ aborts \in 0..MaxAborts
  /\ last \in [Run -> Status \cup {Absent}]
  /\ seen \in [Run -> Status \cup {Absent}]
  /\ overlapped \subseteq Run /\ abandoned \subseteq Run

(* The conditions under which r's row has no writer that owes an event.     *)
Quiet(r) == Announcing(r) = {} /\ r \notin abandoned

(* Once nobody owes an event about a run, the last event came after the     *)
(* last write: a page that refetches the run on every runs.changed event    *)
(* shows what the table holds (runs.rs:124-129, write first, then publish). *)
RefetchIsCurrent == \A r \in Run : Quiet(r) => seen[r] = status[r]

(* The status inside the last event is the table's too, unless two writers  *)
(* of the run overlapped between UPDATE and publish (runs.rs:125-129        *)
(* publishes what was re-read, in whatever order the handlers get there).   *)
EventIsCurrent ==
  \A r \in Run : Quiet(r) /\ r \notin overlapped => last[r] = status[r]

(* Every change of a run's status is followed by an event that a refetch    *)
(* can act on, unless the writer was dropped on the way.                    *)
ChangeIsAnnounced ==
  \A r \in Run : seen[r] # status[r] ~> (seen[r] = status[r] \/ r \in abandoned)

(* runs.rs:3-10 lists the transitions: none leaves cancelled.               *)
CancelledIsFinal ==
  [][\A r \in Run : status[r] = "cancelled" => status'[r] = "cancelled"]_vars
=============================================================================
