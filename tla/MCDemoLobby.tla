----------------------------- MODULE MCDemoLobby -----------------------------
(* Instances of DemoLobby for TLC. *)
EXTENDS DemoLobby

CONSTANTS g1, g2, p1, p2, p3, c1, c2

OneGame == {g1}
TwoGames == {g1, g2}
TwoWallets == {p1, p2}
ThreeWallets == {p1, p2, p3}
TwoConns == {c1, c2}
=============================================================================
