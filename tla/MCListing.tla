----------------------------- MODULE MCListing -----------------------------
(* An instance of Listing, and so of CreatorIndex, for TLC. *)
EXTENDS Listing

CONSTANTS a, b
=============================================================================
