--------------------------- MODULE MCRttEstimator ---------------------------
(* Instances of RttEstimator for TLC.                                      *)
EXTENDS RttEstimator

\* A clock that is also set back.
MCSteps == {-1, 1, 2}
=============================================================================
