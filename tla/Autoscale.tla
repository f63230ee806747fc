----------------------------- MODULE Autoscale -----------------------------
(***************************************************************************)
(* The autoscale controller (rustorch-serve/src/autoscale.rs) and the      *)
(* orchestrator it advises (external): tick() turns a load snapshot into a *)
(* decision, the orchestrator starts or stops workers, and reports with    *)
(* apply_decision, possibly after further ticks.                           *)
(*                                                                         *)
(* A snapshot is what tick() makes of it: a breach of the latency or queue *)
(* target, idle (low utilisation, empty queue), or neither.                *)
(***************************************************************************)
EXTENDS Integers, Sequences, FiniteSetsExt

CONSTANTS
  MinWorkers, MaxWorkers, Step,  \* AutoscaleTarget
  IdleWindow,                    \* AutoscaleTarget.idle_window
  MaxInFlight,                   \* decisions the orchestrator may sit on
  MaxClock                       \* the clock's bound

ASSUME ScaleAssumption ==
  /\ {MinWorkers, MaxWorkers, Step, IdleWindow, MaxInFlight, MaxClock} \subseteq Nat
  /\ MinWorkers <= MaxWorkers

NotIdle == -1

VARIABLES
  asWorkers,   \* current_workers
  asIdleSince, \* idle_since
  asInFlight,  \* decisions emitted and not yet reported
  asRunning,   \* workers the orchestrator really runs
  asClock,     \* Instant::now()
  asBusyAt,    \* ghost: the last time load was seen or a worker released
  asOverlap    \* ghost: a decision was emitted while another was in flight

scaleVars == <<asWorkers, asIdleSince, asInFlight, asRunning, asClock, asBusyAt, asOverlap>>

Clamp(n) == Max({MinWorkers, Min({MaxWorkers, n})})

ScaleInit ==
  /\ asWorkers = Clamp(0) /\ asRunning = Clamp(0)
  /\ asIdleSince = NotIdle
  /\ asInFlight = <<>>
  /\ asClock = 0 /\ asBusyAt = 0
  /\ asOverlap = FALSE

(* try_scale_up and try_scale_down; 0 is Hold.                              *)
UpDelta == Min({Step, MaxWorkers - asWorkers})
DownDelta == -Min({Step, asWorkers - MinWorkers})

Emit(delta) ==
  IF delta = 0 THEN UNCHANGED <<asInFlight, asOverlap>>
  ELSE /\ Len(asInFlight) < MaxInFlight
       /\ asInFlight' = Append(asInFlight, [delta |-> delta, done |-> FALSE])
       /\ asOverlap' = (asOverlap \/ asInFlight # <<>>)

(* tick() on a breach.                                                      *)
TickBreach ==
  /\ asIdleSince' = NotIdle
  /\ Emit(UpDelta)
  /\ asBusyAt' = asClock
  /\ UNCHANGED <<asWorkers, asRunning, asClock>>

(* tick() on ordinary load.                                                 *)
TickBusy ==
  /\ asIdleSince' = NotIdle
  /\ asBusyAt' = asClock
  /\ UNCHANGED <<asWorkers, asInFlight, asRunning, asClock, asOverlap>>

(* get_or_insert_with(Instant::now).                                        *)
Started == IF asIdleSince = NotIdle THEN asClock ELSE asIdleSince

(* Mutant: the idle timer goes on after a worker was released.              *)
MutIdleAfterDown == Started

IdleAfterDown == asClock

(* tick() while idle: a worker is released after a full idle window, and    *)
(* the window starts again.                                                 *)
TickIdle ==
  LET delta == IF asClock - Started >= IdleWindow THEN DownDelta ELSE 0
  IN /\ asIdleSince' = IF delta = 0 THEN Started ELSE IdleAfterDown
     /\ Emit(delta)
     /\ asBusyAt' = IF delta = 0 THEN asBusyAt ELSE asClock
     /\ UNCHANGED <<asWorkers, asRunning, asClock>>

(* The orchestrator carries out the oldest decision ...                     *)
Orchestrate ==
  /\ asInFlight # <<>>
  /\ ~Head(asInFlight).done
  /\ asRunning' = Max({0, asRunning + Head(asInFlight).delta})
  /\ asInFlight' = [asInFlight EXCEPT ![1].done = TRUE]
  /\ UNCHANGED <<asWorkers, asIdleSince, asClock, asBusyAt, asOverlap>>

(* Mutant: the report replaces the count by the bound it was clamped to.    *)
MutApplied(delta) == IF delta > 0 THEN MaxWorkers ELSE MinWorkers

Applied(delta) ==
  IF delta > 0 THEN Min({asWorkers + delta, MaxWorkers})
  ELSE Max({Max({0, asWorkers + delta}), MinWorkers})

(* ... and reports it: apply_decision.                                      *)
ApplyDecision ==
  /\ asInFlight # <<>>
  /\ Head(asInFlight).done
  /\ asWorkers' = Applied(Head(asInFlight).delta)
  /\ asInFlight' = Tail(asInFlight)
  /\ UNCHANGED <<asIdleSince, asRunning, asClock, asBusyAt, asOverlap>>

Pass ==
  /\ asClock < MaxClock
  /\ asClock' = asClock + 1
  /\ UNCHANGED <<asWorkers, asIdleSince, asInFlight, asRunning, asBusyAt, asOverlap>>

ScaleNext == TickBreach \/ TickBusy \/ TickIdle \/ Orchestrate \/ ApplyDecision \/ Pass

ScaleSpec == ScaleInit /\ [][ScaleNext]_scaleVars

-----------------------------------------------------------------------------
(* The controller's count is the orchestrator's: as long as each decision   *)
(* is applied before the next is emitted (the contract of tick()), workers  *)
(* and current_workers agree whenever nothing is in flight, so the fleet    *)
(* stays between min_workers and max_workers.                               *)
CountsWorkers ==
  asInFlight = <<>> /\ ~asOverlap => asRunning = asWorkers

(* No thrashing: a worker is released only after an idle window in which no *)
(* tick saw load and no other worker was released (idle_since).             *)
ReleaseNeedsIdleWindow ==
  [][\A i \in DOMAIN asInFlight' :
       (i > Len(asInFlight) /\ asInFlight'[i].delta < 0) => asClock - asBusyAt >= IdleWindow]_scaleVars
=============================================================================
