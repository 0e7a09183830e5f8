--------------------------- MODULE MCGovernance ---------------------------
(* Instances of Governance for TLC. *)
EXTENDS Governance, TLC

CONSTANTS k, a, b     \* users: k creates campaigns, a and b fund them

\* The values the cfgs choose from.
HalfPlan == {[m \in MilestoneIds |-> BPS_DENOMINATOR \div 2]}
NoVesting == {}
HalfReserve == {[delay_days |-> 1, reserve_bps |-> 5000]}
=============================================================================
