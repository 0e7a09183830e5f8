----------------------------- MODULE MCRevenue -----------------------------
(* Instances of Revenue for TLC. *)
EXTENDS Revenue, TLC

\* The amounts creators try to deposit, refused ones included.
SomeDeposits == {-1, 0, 1, 3, 7}
=============================================================================
