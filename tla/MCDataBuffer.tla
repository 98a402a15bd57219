---------------------------- MODULE MCDataBuffer ----------------------------
(***************************************************************************)
(* The buffer for TLC, with the two readers SmurfProcessor gives it.       *)
(***************************************************************************)
EXTENDS DataBuffer

CONSTANTS tx, file   \* pktReaderIndexTx, pktReaderIndexFile
=============================================================================
