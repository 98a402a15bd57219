--------------------------- MODULE MCSmurfValidCheck ---------------------------
(* Instance of SmurfValidCheck for TLC: the unix clock, the timing system's   *)
(* and the frame numbers move within their limits or beyond them; the first   *)
(* may be set back, the second may step back by a second, and a frame may     *)
(* come twice.                                                                *)
EXTENDS SmurfValidCheck

MCLimit == [unix |-> 3, epics |-> 1, sync |-> 1, frame |-> 2]
MCStep == [unix |-> {2, 5, -1}, epics |-> {1, 3, -2}, sync |-> {1}, frame |-> {0, 1, 3}]
MCFirstFrames == {0, 5}
=============================================================================
