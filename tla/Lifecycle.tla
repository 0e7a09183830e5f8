----------------------------- MODULE Lifecycle -----------------------------
(***************************************************************************)
(* The pure helpers every handler of the contract goes through: the        *)
(* lifecycle state derived from a campaign's flags, the allowed            *)
(* transitions, the shared guard on active campaigns, and the basis-point  *)
(* arithmetic of fees, reserves and milestone payouts.                     *)
(***************************************************************************)
EXTENDS Integers, FiniteSets

\* Basis points: 10000 bps = 100%.  The ceiling offset rounds a division up.
BPS_DENOMINATOR == 10000
BPS_CEIL_OFFSET == BPS_DENOMINATOR - 1

\* x * bps / 10000, rounded down (milestone slices, revenue shares).
FloorBps(x, bps) == (x * bps) \div BPS_DENOMINATOR

\* x * bps / 10000, rounded up (platform fee, vesting reserve).
CeilBps(x, bps) == (x * bps + BPS_CEIL_OFFSET) \div BPS_DENOMINATOR

\* CampaignState::of: one dominant state, in the priority order of the code.
Of(cmp) == IF cmp.is_cancelled         THEN "Cancelled"
           ELSE IF cmp.funds_withdrawn THEN "Withdrawn"
           ELSE IF cmp.is_verified     THEN "Verified"
           ELSE                             "Active"

\* transition: the only state changes the lifecycle allows.
transition(from, to) ==
  <<from, to>> \in { <<"Active", "Verified">>,   <<"Active", "Cancelled">>,
                     <<"Verified", "Cancelled">>, <<"Verified", "Withdrawn">> }

\* require_active_campaign: the guard most handlers share.
RequireActive(cmp) == ~cmp.is_cancelled /\ cmp.is_active

-----------------------------------------------------------------------------
\* The sum of a function with natural values: the number of units it counts.
\* Stated as a cardinality so that it can be reasoned about without induction.
Units(f) == UNION { {x} \X (1..f[x]) : x \in DOMAIN f }
Total(f) == Cardinality(Units(f))

\* The sum of a function with integer values: what it counts up, minus what it
\* counts down.
Net(f) == Total([x \in DOMAIN f |-> IF f[x] > 0 THEN f[x] ELSE 0])
            - Total([x \in DOMAIN f |-> IF f[x] < 0 THEN -f[x] ELSE 0])
=============================================================================
