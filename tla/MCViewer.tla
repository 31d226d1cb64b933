------------------------------ MODULE MCViewer ------------------------------
(* Instances of Viewer for TLC. *)
EXTENDS Viewer

CONSTANTS me, h1, a1, w1

OneAI == {a1}
TwoHumans == {me, h1}
OneWave == {w1}
=============================================================================
