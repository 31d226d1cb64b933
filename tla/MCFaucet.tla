------------------------------ MODULE MCFaucet ------------------------------
(* An instance of Faucet for TLC. *)
EXTENDS Faucet

CONSTANTS a1, q1, q2

OneAddr == {a1}
TwoReqs == {q1, q2}
=============================================================================
