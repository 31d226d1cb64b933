------------------------------ MODULE MCEscrow ------------------------------
(* Instances of Escrow for TLC. *)
EXTENDS Escrow

CONSTANTS g1, g2, p1, p2, p3, k1

TwoGames == {g1, g2}
ThreeWallets == {p1, p2, p3}
OneKey == {k1}
=============================================================================
