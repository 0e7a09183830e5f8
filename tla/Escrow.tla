------------------------------- MODULE Escrow -------------------------------
(***************************************************************************)
(* What the contract promises to contributors: a campaign takes deposits,  *)
(* then either gives every one of them back or releases them to its        *)
(* creator, never both, and neither decision is ever taken back.           *)
(***************************************************************************)
EXTENDS Integers

CONSTANTS Campaigns, Users

VARIABLES
  phase,      \* "none", "open", "refunding" or "released"
  deposit     \* by campaign and user

vars == <<phase, deposit>>

Phases == {"none", "open", "refunding", "released"}

Init ==
  /\ phase = [c \in Campaigns |-> "none"]
  /\ deposit = [c \in Campaigns |-> [u \in Users |-> 0]]

Open(c) ==
  /\ phase[c] = "none"
  /\ phase' = [phase EXCEPT ![c] = "open"]
  /\ UNCHANGED deposit

\* The deposit of one user grows.
Deposit(c, u) ==
  /\ phase[c] = "open"
  /\ deposit'[c][u] > deposit[c][u]
  /\ deposit' = [deposit EXCEPT ![c][u] = deposit'[c][u]]
  /\ UNCHANGED phase

\* Campaigns fail: one that is cancelled, or all those whose deadline is past.
Fail(S) ==
  /\ \A c \in S : phase[c] = "open"
  /\ phase' = [c \in Campaigns |-> IF c \in S THEN "refunding" ELSE phase[c]]
  /\ UNCHANGED deposit

\* A refund gives back exactly what was deposited.
Refund(c, u) ==
  /\ phase[c] = "refunding"
  /\ deposit[c][u] # 0
  /\ deposit' = [deposit EXCEPT ![c][u] = 0]
  /\ UNCHANGED phase

\* Everything goes to the creator; the deposits stay on record.
Release(c) ==
  /\ phase[c] = "open"
  /\ phase' = [phase EXCEPT ![c] = "released"]
  /\ UNCHANGED deposit

Next ==
  \/ \E c \in Campaigns :
       \/ Open(c)
       \/ Release(c)
       \/ \E u \in Users : Deposit(c, u) \/ Refund(c, u)
  \/ \E S \in SUBSET Campaigns : Fail(S)

Spec == Init /\ [][Next]_vars
=============================================================================
