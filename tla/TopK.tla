------------------------------- MODULE TopK --------------------------------
(***************************************************************************)
(* The expert routers topk_softmax_norm_*_f32 (kernels.rs), one            *)
(* threadgroup: eight simdgroups that run at their own pace between        *)
(* barriers, with threadgroup arrays s_red, s_red_i and s_buf.  They       *)
(* compute the softmax of n_experts logits and its k_top largest           *)
(* probabilities; the selection is by one thread ("serial", also of the    *)
(* batched and fused kernels) or by all simdgroups ("parallel").           *)
(*                                                                         *)
(* A simdgroup is in lockstep, so what its lanes do together is one step.  *)
(* A reduced value is its operation and the simdgroups that contribute.    *)
(* Probabilities are ranks.  A simdgroup that subtracted anything but the  *)
(* maximum has probabilities that are not those of the softmax: any.       *)
(***************************************************************************)
EXTENDS Integers, FiniteSets, Sequences

CONSTANTS
  NumGroups,  \* simdgroups, TG_SIZE / 32
  GroupSize,  \* lanes of one
  n_experts,  \* logits
  k_top,      \* experts chosen
  Ranks       \* of the logits

ASSUME TopKAssumption ==
  /\ {NumGroups, GroupSize, n_experts, k_top} \subseteq Nat \ {0}
  /\ n_experts <= NumGroups * GroupSize /\ k_top <= n_experts
  /\ Ranks \subseteq Nat

VARIABLES
  tkVariant, tkLogits,
  tkStep,      \* the next step of each simdgroup
  s_red,       \* per simdgroup: what it published, or in slot 0 the result
  s_red_i,
  m_global,    \* registers of each simdgroup
  s_buf,       \* the probabilities, NoRank once chosen
  stored,      \* s_buf as the softmax left it
  topi         \* the experts chosen so far

tkVars == <<tkVariant, tkLogits, tkStep, s_red, s_red_i, m_global, s_buf, stored, topi>>

SimdGroups == 0 .. NumGroups - 1
Experts == 0 .. n_experts - 1
ExpertsOf(g) == {i \in Experts : i \div GroupSize = g}
NoRank == -1        \* -INFINITY
Unset == [op |-> "unset", of |-> {}]
Reduced(op, of) == [op |-> op, of |-> of]
Maximum == Reduced("max", SimdGroups)

TkInit ==
  /\ tkVariant \in {"serial", "parallel"}
  /\ tkLogits \in [Experts -> Ranks]
  /\ tkStep = [g \in SimdGroups |-> 0]
  /\ s_red = [g \in SimdGroups |-> Unset]
  /\ s_red_i = [g \in SimdGroups |-> 0]
  /\ m_global = [g \in SimdGroups |-> Unset]
  /\ s_buf = [i \in Experts |-> NoRank]
  /\ stored = s_buf
  /\ topi = <<>>

(* Steps 2 and 3, reading the maximum and publishing a sum, follow each     *)
(* other without a barrier; a barrier precedes every other step.            *)
(* Mutant: nor is there one before the first winner is picked.              *)
MutTurn(g, s) ==
  /\ tkStep[g] = s
  /\ s \notin {0, 3, 7} => \A h \in SimdGroups : tkStep[h] >= s
  /\ tkStep' = [tkStep EXCEPT ![g] = s + 1]

Turn(g, s) ==
  /\ tkStep[g] = s
  /\ s \notin {0, 3} => \A h \in SimdGroups : tkStep[h] >= s
  /\ tkStep' = [tkStep EXCEPT ![g] = s + 1]

(* if (lane == 0) s_red[sg_idx] = simd_max(v)                               *)
PublishMax(g) ==
  /\ Turn(g, 0)
  /\ s_red' = [s_red EXCEPT ![g] = Reduced("max", {g})]
  /\ UNCHANGED <<tkVariant, tkLogits, s_red_i, m_global, s_buf, stored, topi>>

(* Simdgroup 0 reduces the published values to slot 0.                      *)
Fold(g, s, op) ==
  /\ Turn(g, s)
  /\ s_red' = IF g # 0 THEN s_red
              ELSE [s_red EXCEPT ![0] = Reduced(op, UNION {s_red[h].of : h \in SimdGroups})]
  /\ UNCHANGED <<tkVariant, tkLogits, s_red_i, m_global, s_buf, stored, topi>>
FoldMax(g) == Fold(g, 1, "max")
FoldSum(g) == Fold(g, 4, "sum")

(* float m_global = s_red[0]                                                *)
ReadMax(g) ==
  /\ Turn(g, 2)
  /\ m_global' = [m_global EXCEPT ![g] = s_red[0]]
  /\ UNCHANGED <<tkVariant, tkLogits, s_red, s_red_i, s_buf, stored, topi>>

(* if (lane == 0) s_red[sg_idx] = simd_sum(exp(v - m_global))               *)
PublishSum(g) ==
  /\ Turn(g, 3)
  /\ s_red' = [s_red EXCEPT ![g] = Reduced("sum", {g})]
  /\ UNCHANGED <<tkVariant, tkLogits, s_red_i, m_global, s_buf, stored, topi>>

(* s_buf[lid] = e / s_global                                                *)
StoreProbabilities(g) ==
  /\ Turn(g, 5)
  /\ \E p \in IF m_global[g] = Maximum THEN {tkLogits} ELSE [Experts -> Ranks] :
       s_buf' = [i \in Experts |-> IF i \in ExpertsOf(g) THEN p[i] ELSE s_buf[i]]
  /\ stored' = s_buf'
  /\ UNCHANGED <<tkVariant, tkLogits, s_red, s_red_i, m_global, topi>>

(* The first of the largest in a set of experts.                            *)
Best(from, value) ==
  CHOOSE i \in from : \A j \in from : value[j] < value[i] \/ (value[j] = value[i] /\ i <= j)

Choose(i) ==
  /\ topi' = Append(topi, i)
  /\ s_buf' = [s_buf EXCEPT ![i] = NoRank]

(* One thread scans s_buf k_top times: pv > best keeps the first.           *)
SerialTurn(g) ==
  /\ tkVariant = "serial"
  /\ g = 0 /\ Len(topi) < k_top
  /\ tkStep[0] = 6 /\ \A h \in SimdGroups : tkStep[h] >= 6
  /\ Choose(Best(Experts, s_buf))
  /\ UNCHANGED <<tkVariant, tkLogits, tkStep, s_red, s_red_i, m_global, stored>>

(* Round k: each simdgroup publishes its first largest, or no expert ...    *)
PublishBest(g, k) ==
  /\ tkVariant = "parallel" /\ k < k_top
  /\ Turn(g, 6 + 2 * k)
  /\ s_red' = [s_red EXCEPT ![g] = Reduced("best", {g})]
  /\ s_red_i' = [s_red_i EXCEPT ![g] = IF ExpertsOf(g) = {} THEN -1 ELSE Best(ExpertsOf(g), s_buf)]
  /\ UNCHANGED <<tkVariant, tkLogits, m_global, s_buf, stored, topi>>

(* ... and after a barrier simdgroup 0 picks the first largest of these,    *)
(* publishes it and masks it.                                               *)
PickBest(g, k) ==
  /\ tkVariant = "parallel" /\ k < k_top
  /\ Turn(g, 7 + 2 * k)
  /\ IF g = 0 THEN Choose(Best({s_red_i[h] : h \in SimdGroups} \ {-1}, s_buf)) ELSE UNCHANGED <<topi, s_buf>>
  /\ UNCHANGED <<tkVariant, tkLogits, s_red, s_red_i, m_global, stored>>

TkNext ==
  \E g \in SimdGroups :
    \/ PublishMax(g) \/ FoldMax(g) \/ ReadMax(g) \/ PublishSum(g) \/ FoldSum(g)
    \/ StoreProbabilities(g) \/ SerialTurn(g)
    \/ \E k \in 0 .. k_top - 1 : PublishBest(g, k) \/ PickBest(g, k)

TkSpec == TkInit /\ [][TkNext]_tkVars

(* ----------------------------- properties ------------------------------- *)

(* Whichever kernel selects, the experts chosen are distinct and, in order, *)
(* the most probable of those left, the first in case of a tie: the two     *)
(* selections agree ("semantiquement identique", kernels.rs:16896), although *)
(* simdgroups read s_buf while another masks the winner in it.              *)
ChoosesTheMostProbable ==
  \A n \in 1 .. Len(topi) :
    topi[n] = Best(Experts \ {topi[m] : m \in 1 .. n - 1}, stored)

(* Every simdgroup subtracts the maximum of all logits from its own: steps  *)
(* 1 and 2 of the kernel's description.                                     *)
MaxIsShared ==
  \A g \in SimdGroups : m_global[g] \in {Unset, Maximum}
=============================================================================
