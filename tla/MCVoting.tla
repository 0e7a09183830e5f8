----------------------------- MODULE MCVoting -----------------------------
(* Instances of Voting for TLC. *)
EXTENDS Voting, TLC

\* Voters play the same role; the initial balances range over all functions.
VoterSymmetry == Permutations(Voters)
=============================================================================
