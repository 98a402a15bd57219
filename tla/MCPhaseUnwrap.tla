---------------------------- MODULE MCPhaseUnwrap ----------------------------
(***************************************************************************)
(* Unwrapping for TLC: a turn of 16, thresholds at three quarters of half  *)
(* a turn as in the code, one signal near each edge of the samples.  The   *)
(* word is two turns: a turn upwards is beyond its end.                    *)
(***************************************************************************)
EXTENDS PhaseUnwrap

StartsAtEdges == {-8, 6}
SmallSteps == {-2, 1}
FileEntries == {1, 2}
=============================================================================
