------------------------------ MODULE MCDataFile ------------------------------
(* Instance of DataFile for TLC: two names that differ in both parts. *)
EXTENDS DataFile

MCNames == {<<"a", "x">>, <<"b", "y">>}
=============================================================================
