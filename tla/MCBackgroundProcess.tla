-------------------------- MODULE MCBackgroundProcess --------------------------
(* Model values for BackgroundProcess.                                     *)
EXTENDS BackgroundProcess

CONSTANTS p1, p2

MCProcs == {p1, p2}
MCFirst == {p1}
MCSecond == {p2}
=============================================================================
