------------------------------ MODULE MCClient ------------------------------
(***************************************************************************)
(* Instances for TLC: a small client, and the shipped one in seconds.      *)
(***************************************************************************)
EXTENDS Client

\* Negative, shorter than the backoff, sane, the limit, and absurd.
SmallSuggestions == {-1, 0, 3, 4, 5}

ShippedSuggestions == {120, 121}
=============================================================================
