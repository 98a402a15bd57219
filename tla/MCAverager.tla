------------------------------ MODULE MCAverager ------------------------------
(***************************************************************************)
(* Filter and averaging for TLC: a ring of three records, and a word of    *)
(* six, so that the counts of frames go round within a run.                *)
(***************************************************************************)
EXTENDS Averager

FewAverages == {-1, 0, 2}
SomeOrders == {-1, 1, 2}
=============================================================================
