------------------------------ MODULE MCTicker ------------------------------
(* Ticker with three users, a pipe of two bytes, and more thread ids than live. *)
EXTENDS Ticker
=============================================================================
