---------------------------- MODULE MCCatalogue ----------------------------
(* An instance of Catalogue for TLC. *)
EXTENDS Catalogue

CONSTANTS
  a, b,               \* creators
  t1, t2, edu, art    \* titles and categories

\* Titles and categories are only compared with each other.
Labels == Permutations({t1, t2}) \cup Permutations({edu, art})
=============================================================================
