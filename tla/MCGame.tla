------------------------------- MODULE MCGame -------------------------------
(* Instances of Game for TLC. *)
EXTENDS Game

\* Three humans against a bloc of two AI.
MCAISeats2 == {2, 5}
MCFunded2 == {1, 3, 4}

\* abort() may come at any moment.
AnyPhase == Phases
=============================================================================
