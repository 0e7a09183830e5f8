-------------------------- MODULE MCCreatorIndex --------------------------
(* Instances of CreatorIndex for TLC. *)
EXTENDS CreatorIndex

CONSTANTS a, b
=============================================================================
