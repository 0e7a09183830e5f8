----------------------------- MODULE MCFunding -----------------------------
(* Instances of Funding and of its dashboards for TLC. *)
EXTENDS Reports

CONSTANTS k, a, b     \* users: k creates campaigns, a and b fund them

\* The values the cfgs choose from.
HalfPlan == {[m \in MilestoneIds |-> BPS_DENOMINATOR \div 2]}
ThreePlan == {[m \in MilestoneIds |-> IF m = 1 THEN 5000 ELSE 2500]}
NoVesting == {}
HalfReserve == {[delay_days |-> 1, reserve_bps |-> 5000]}
=============================================================================
