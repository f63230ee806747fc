----------------------------- MODULE MCServing -----------------------------
(* The serving instances that TLC checks: the batcher and the autoscale     *)
(* controller share no state, so each behaviour exercises one of them.      *)
EXTENDS Batcher, Autoscale

VARIABLE unit  \* the component that this behaviour exercises

servingVars == <<unit, vars, scaleVars>>

ServingInit == unit \in {"batcher", "autoscale"} /\ Init /\ ScaleInit

BatcherNext == unit = "batcher" /\ Next /\ UNCHANGED <<unit, scaleVars>>
AutoscaleNext == unit = "autoscale" /\ ScaleNext /\ UNCHANGED <<unit, vars>>

ServingSpec ==
  /\ ServingInit /\ [][BatcherNext \/ AutoscaleNext]_servingVars
  /\ unit = "batcher" => Fairness
=============================================================================
