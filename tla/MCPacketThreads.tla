--------------------------- MODULE MCPacketThreads ---------------------------
(***************************************************************************)
(* The threads for TLC, with the readers' indices of SmurfProcessor.  What *)
(* the transmitter calls is user code and may throw; write_file does not.  *)
(***************************************************************************)
EXTENDS PacketThreads

pktReaderIndexTx == 0
pktReaderIndexFile == 1

TxThrows == {pktReaderIndexTx}
=============================================================================
