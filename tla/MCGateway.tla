------------------------------ MODULE MCGateway ------------------------------
(* Instances of Gateway for TLC. *)
EXTENDS Gateway

CONSTANTS c1, c2, c3

ThreeConns == {c1, c2, c3}
OneConn == {c3}
Nobody == {}
SixRooms == 1..6
=============================================================================
