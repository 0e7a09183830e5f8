------------------------------ MODULE Pausing ------------------------------
(***************************************************************************)
(* Pausing, by the admin, by the emergency signers and by the burst guard  *)
(* of contribute.  The guard writes AutoPaused and then returns an error,  *)
(* and what the host does with the writes of a failed invocation decides   *)
(* what the guard can achieve.  So an invocation that reaches the guard, or*)
(* resume_campaign, is taken in two steps: the handler runs on a copy of   *)
(* storage (invocation), and the host commits the copy or drops it.        *)
(***************************************************************************)
EXTENDS Registry

CONSTANTS
  Admin, Signers,                  \* the admin, and who may become a pause signer
  Callers,                         \* who tries to resume a campaign
  Amounts, FundingGoal,
  BPS_DENOMINATOR,
  AUTO_PAUSE_SINGLE_CONTRIBUTION_BPS_THRESHOLD,
  AUTO_PAUSE_BURST_CHECK_MIN_RAISED_BPS,
  AUTO_PAUSE_BURST_THRESHOLD,
  MaxRaised, MaxSequence           \* bounds: amount raised, ledgers

ASSUME PausingAssumption ==
  /\ Amounts \subseteq Nat \ {0} /\ FundingGoal \in Nat \ {0}
  /\ BPS_DENOMINATOR \in Nat \ {0}
  /\ AUTO_PAUSE_SINGLE_CONTRIBUTION_BPS_THRESHOLD \in Nat
  /\ AUTO_PAUSE_BURST_CHECK_MIN_RAISED_BPS \in Nat
  /\ AUTO_PAUSE_BURST_THRESHOLD \in Nat
  /\ MaxRaised \in Nat /\ MaxSequence \in Nat

VARIABLES
  sequence,        \* the ledger sequence number
  signers,         \* EmergencyPauseSigners
  raised,          \* amount_raised of every campaign
  burst,           \* BlockCampaignContributionCount: ledger and count
  accepted,        \* history: contributions of this ledger that the burst
                   \* counter had to look at and let pass
  invocation       \* the handler that has run and not yet been committed

pausingVars == <<sequence, signers, raised, burst, accepted, invocation>>

NoInvocation == [running |-> FALSE]
Running == invocation.running

PausingInit ==
  /\ sequence = 0
  /\ signers = {}
  /\ raised = [c \in CampaignIds |-> 0]
  /\ burst = [c \in CampaignIds |-> [ledger |-> 0, count |-> 0]]
  /\ accepted = [c \in CampaignIds |-> 0]
  /\ invocation = NoInvocation

\* The next ledger closes.
Tick ==
  /\ sequence < MaxSequence
  /\ sequence' = sequence + 1
  /\ accepted' = [c \in CampaignIds |-> 0]
  /\ UNCHANGED <<registryVars, signers, raised, burst, invocation>>

-----------------------------------------------------------------------------
(* The admin and the signers.  None of these asks whether the contract is  *)
(* paused.                                                                 *)

pause ==
  /\ paused' = TRUE
  /\ UNCHANGED <<auto_paused, campaign_count, campaign, pausingVars>>

unpause ==
  /\ paused' = FALSE
  /\ auto_paused' = FALSE
  /\ UNCHANGED <<campaign_count, campaign, pausingVars>>

set_emergency_pause_signers(set) ==
  /\ set # {}
  /\ signers' = set
  /\ UNCHANGED <<registryVars, sequence, raised, burst, accepted, invocation>>

emergency_pause(u) ==
  /\ u \in signers
  /\ paused' = TRUE
  /\ UNCHANGED <<auto_paused, campaign_count, campaign, pausingVars>>

-----------------------------------------------------------------------------
(* The handlers that touch AutoPaused.  Each leaves in invocation what it  *)
(* returned and what it wrote.                                             *)

\* The storage a handler starts from.
Storage == [auto_paused |-> auto_paused, raised |-> raised, burst |-> burst]

Return(ok, writes) == invocation' = [running |-> TRUE, ok |-> ok, writes |-> writes]

\* check_burst_guard: a single contribution of more than 200% of the goal trips it.
Huge(amt) ==
  amt * BPS_DENOMINATOR > FundingGoal * AUTO_PAUSE_SINGLE_CONTRIBUTION_BPS_THRESHOLD

\* check_burst_guard: the counter is consulted beyond a share of the goal.
BurstChecked(c) ==
  raised[c] * BPS_DENOMINATOR > FundingGoal * AUTO_PAUSE_BURST_CHECK_MIN_RAISED_BPS

\* Mutant: the first contribution of a ledger is not counted.
NextBurstFromZero(c) ==
  [ledger |-> sequence,
   count  |-> IF burst[c].ledger = sequence THEN burst[c].count + 1 ELSE 0]

\* check_burst_guard: the counter starts again with every ledger.
NextBurst(c) ==
  [ledger |-> sequence,
   count  |-> IF burst[c].ledger = sequence THEN burst[c].count + 1 ELSE 1]

\* Mutant: a tripped guard pauses the contract and lets the contribution pass.
GuardResultOk(tripped) == TRUE

\* A tripped guard is an error of the invocation.
GuardResult(tripped) == ~tripped

\* contribute, and each item of batch_contribute: the guard, then the accounting.
\* Verification, deadline and caps only narrow when it gets as far as the guard.
contribute(c, amt) ==
  LET counted == ~Huge(amt) /\ BurstChecked(c)
      tripped == Huge(amt) \/ (counted /\ NextBurst(c).count > AUTO_PAUSE_BURST_THRESHOLD)
  IN
  /\ NotPaused
  /\ RequireActive(c)
  /\ raised[c] + amt <= MaxRaised \/ tripped
  /\ Return(GuardResult(tripped),
            [auto_paused |-> auto_paused \/ tripped,
             raised |-> IF tripped THEN raised ELSE [raised EXCEPT ![c] = @ + amt],
             burst  |-> IF counted THEN [burst EXCEPT ![c] = NextBurst(c)] ELSE burst])
  /\ UNCHANGED <<registryVars, sequence, signers, raised, burst, accepted>>

\* resume_campaign: AutoPaused is looked at first, then the campaign and the caller.
resume_campaign(c, u) ==
  LET ok == auto_paused /\ RequireActive(c) /\ u \in {campaign[c].creator, Admin} IN
  /\ Return(ok, [Storage EXCEPT !.auto_paused = IF ok THEN FALSE ELSE @])
  /\ UNCHANGED <<registryVars, sequence, signers, raised, burst, accepted>>

\* The host: the writes of a handler that returned Ok are committed, those of one
\* that returned an error are dropped.
host_return ==
  /\ Running
  /\ invocation' = NoInvocation
  /\ IF invocation.ok
     THEN /\ auto_paused' = invocation.writes.auto_paused
          /\ raised' = invocation.writes.raised
          /\ burst' = invocation.writes.burst
          /\ accepted' = [c \in CampaignIds |->
               IF burst'[c] # burst[c] THEN accepted[c] + 1 ELSE accepted[c]]
     ELSE UNCHANGED <<auto_paused, raised, burst, accepted>>
  /\ UNCHANGED <<paused, campaign_count, campaign, sequence, signers>>

\* A handler is started when no other one is running.
PausingNext ==
  \/ /\ ~Running
     /\ \/ Tick
        \/ pause
        \/ unpause
        \/ \E set \in SUBSET Signers : set_emergency_pause_signers(set)
        \/ \E u \in Signers : emergency_pause(u)
        \/ \E c \in CampaignIds :
             \/ \E amt \in Amounts : contribute(c, amt)
             \/ \E u \in Callers : resume_campaign(c, u)
  \/ host_return

PausingTypeOK ==
  /\ sequence \in 0..MaxSequence
  /\ signers \subseteq Signers
  /\ raised \in [CampaignIds -> 0..MaxRaised]
  /\ burst \in [CampaignIds -> [ledger: Nat, count: Nat]]
  /\ accepted \in [CampaignIds -> Nat]

-----------------------------------------------------------------------------
(* Properties.                                                             *)

\* The automatic pause never takes effect: every invocation that sets AutoPaused
\* fails, so the flag is rolled back with it (check_burst_guard), the contract goes
\* on accepting contributions, and resume_campaign has nothing to resume.
AutoPauseRolledBack == ~auto_paused

\* What the guard does achieve: beyond half of the goal no ledger accepts more
\* than AUTO_PAUSE_BURST_THRESHOLD contributions to a campaign, although each
\* rejected attempt loses its own count.
BurstLimited ==
  \A c \in CampaignIds : accepted[c] <= AUTO_PAUSE_BURST_THRESHOLD
=============================================================================
