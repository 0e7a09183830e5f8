---------------------------- MODULE MCCommunity ----------------------------
(* An instance of Community for TLC. *)
EXTENDS Community

CONSTANTS
  k, s, w,            \* a creator, a pause signer and a wallet
  h1, h2,             \* comments
  spam, fraud         \* reasons

\* Comments are opaque hashes, and no handler looks into a reason.
Opaque == Permutations({h1, h2}) \cup Permutations({spam, fraud})
=============================================================================
