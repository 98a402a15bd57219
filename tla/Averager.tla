------------------------------- MODULE Averager -------------------------------
(***************************************************************************)
(* From the unwrapped samples of a frame to a packet: SmurfFilter and its  *)
(* ring of records, SmurfHeader::average_control, the clear bit, the       *)
(* configuration that is read while frames flow, and the frame after which *)
(* a packet is made.  All of it runs in runThread: a frame is one action.  *)
(*                                                                         *)
(* Frames are numbered from 1 as they are processed.  A record of the ring *)
(* is represented by the frames its values came from: a record of xd by    *)
(* one frame, or 0 when it is cleared, a record of yd by a set of frames,  *)
(* those summed up in it or the one it is the output of.  The floating-    *)
(* point weights are left out.                                             *)
(***************************************************************************)
EXTENDS Integers, FiniteSets

CONSTANTS
  Records,     \* records of the ring (16)
  Word,        \* 2^32, for unsigned arithmetic
  Averages,    \* the values of num_averages in configuration files
  Orders,      \* the values of filter_order
  MaxFrames    \* bound: frames processed

ASSUME RingAssumption ==
  Records \in Nat \ {0} /\ Word \in Nat /\ Records < Word /\ Word % Records = 0
ASSUME ConfigAssumption ==
  /\ Averages # {} /\ Averages \subseteq -(Word \div 2) .. (Word \div 2) - 1   \* an int
  /\ Orders # {} /\ Orders \subseteq -1 .. Records - 1
ASSUME BoundAssumption == MaxFrames \in Nat

VARIABLES
  frames,            \* frames processed
  num_averages, filter_order, streaming,    \* C; streaming: data_frames # 0
  average_counter,   \* H
  F,                 \* the filter
  taps,              \* the records the last call of filter used, by their distance
  packet,            \* the last packet that was made
  restart,           \* history: the last frame that ended an average, or cleared it
  cleared,           \* history: the last frame that cleared the filter, or changed its order
  changed            \* history: the last frame that changed num_averages or filter_order

config == <<num_averages, filter_order, streaming>>
vars == <<frames, config, average_counter, F, taps, packet, restart, cleared, changed>>

-----------------------------------------------------------------------------
Index == 0 .. Records - 1

\* clear_filter
ClearedFilter ==
  [order_n |-> -1, samples_since_clear |-> 0, bn |-> 0,
   xd |-> [i \in Index |-> 0], yd |-> [i \in Index |-> {}]]

NoPacket == [at |-> 0, of |-> {}, over |-> 0, count |-> 0, order |-> 0, whole |-> FALSE, from |-> 0]

Init ==
  /\ frames = 0
  /\ num_averages \in Averages /\ filter_order \in Orders /\ streaming \in BOOLEAN
  /\ average_counter = 0
  /\ F = ClearedFilter
  /\ taps = <<>>
  /\ packet = NoPacket
  /\ restart = 0 /\ cleared = 0 /\ changed = 0

-----------------------------------------------------------------------------
NextUnbounded(n) == n + 1                             \* mutant: the ring has no end
NextRecord(n) == (n + 1) % Records

FirstIfNegative(n, r) == IF n < r THEN 0 ELSE n - r   \* mutant: the ring does not wrap back

\* (bn - r) % records: bn is an int, but records is unsigned, and so is the result.
RecordBefore(n, r) == ((n - r) % Word) % Records

\* filter, before the arithmetic: a change of order clears.
Prepared(order) ==
  LET G == IF F.order_n # order THEN ClearedFilter ELSE F
  IN [G EXCEPT !.order_n = order, !.samples_since_clear = (@ + 1) % Word]

\* The flat average: the frame is added to the current record.
Summed(G, frame) == [G EXCEPT !.yd[G.bn] = @ \cup {frame}]

\* The general filter: the frame goes into the next record.
Pushed(G, frame) ==
  LET n == NextRecord(G.bn)
  IN [G EXCEPT !.bn = n, !.xd[n] = frame, !.yd[n] = {frame}]

filter(order, frame) ==
  IF order = -1 THEN Summed(Prepared(order), frame) ELSE Pushed(Prepared(order), frame)

TapsOf(G, order) ==
  [r \in 1 .. order |-> LET nx == RecordBefore(G.bn, r) IN <<G.xd[nx], G.yd[nx]>>]

NoEndRun(G) == G                                      \* mutant: end_run is not called
end_run(G) == IF G.order_n = -1 THEN ClearedFilter ELSE G

DoneAfter(count, n, sync) ==                          \* mutant: one too many
  IF n # 0 THEN count = (n + 1) % Word ELSE sync /\ count # 0

DoneAnyCount(count, n, sync) ==                       \* mutant: a wrapped count ends it too
  IF n # 0 THEN count = n % Word ELSE sync

\* average_control: whether it returns a number other than 0, which makes runThread
\* end the average.  With num_averages = 0 it returns the count when the syncword is
\* not that of the frame before: a count that has just wrapped to 0 does not end it.
Done(count, n, sync) == IF n # 0 THEN count = n % Word ELSE sync /\ count # 0

KeptCount(n) == n                                     \* mutant: clear_average does nothing
clear_average(n) == 0

\* read_config_file: each field that the file has changes.
ReadConfig ==
  /\ num_averages' \in Averages /\ filter_order' \in Orders /\ streaming' \in BOOLEAN

(***************************************************************************)
(* runThread, for a frame: sync says that its syncword is not the one of   *)
(* the frame before, clear and read are control bits (read: and it is time *)
(* to read the files).                                                     *)
(***************************************************************************)
Process(sync, clear, read) ==
  LET frame == frames + 1
      filtered == filter(filter_order, frame)
      count == (average_counter + 1) % Word
      done == Done(count, num_averages, sync)
      counted == IF done THEN 0 ELSE count
      kept == IF clear THEN ClearedFilter ELSE filtered
  IN /\ frames < MaxFrames
     /\ frames' = frame
     /\ taps' = TapsOf(filtered, filter_order)
     /\ average_counter' = IF clear THEN clear_average(counted) ELSE counted
     /\ IF read THEN ReadConfig ELSE UNCHANGED config
     /\ F' = IF done THEN end_run(kept) ELSE kept
     /\ packet' = IF done /\ streaming'
                    THEN [at |-> frame, of |-> filtered.yd[filtered.bn],
                          over |-> filtered.samples_since_clear, count |-> count,
                          order |-> filter_order, whole |-> changed <= restart, from |-> restart]
                    ELSE packet
     /\ restart' = IF done \/ clear THEN frame ELSE restart
     /\ cleared' = IF clear \/ filter_order' # filter_order THEN frame ELSE cleared
     /\ changed' = IF <<num_averages', filter_order'>> # <<num_averages, filter_order>>
                     THEN frame ELSE changed

Next == \E sync, clear, read \in BOOLEAN : Process(sync, clear, read)

Spec == Init /\ [][Next]_vars

-----------------------------------------------------------------------------
(***************************************************************************)
(* Properties.                                                             *)
(***************************************************************************)

\* Types: the ring's index stays in the ring, the counter in its word.
TypeOK ==
  /\ frames \in 0 .. MaxFrames
  /\ num_averages \in Averages /\ filter_order \in Orders /\ streaming \in BOOLEAN
  /\ average_counter \in 0 .. Word - 1
  /\ F \in [order_n : -1 .. Records - 1, samples_since_clear : 0 .. Word - 1, bn : Index,
            xd : [Index -> 0 .. MaxFrames], yd : [Index -> SUBSET (1 .. MaxFrames)]]
  /\ {restart, cleared, changed} \subseteq 0 .. frames

\* The filter looks at the right records: distance r in the ring is r frames ago,
\* over the ring's end and after a clear or a change of order at any frame; what was
\* before that reads as zero.
TapsInOrder ==
  [][frames' # frames =>
       \A r \in DOMAIN taps' :
         taps'[r] = IF frames' - r > cleared THEN <<frames' - r, {frames' - r}>> ELSE <<0, {}>>]_vars

\* A flat average is one of exactly the frames since the last one ended (or was
\* cleared), and the filter's divisor is their number modulo 2^32, the same that
\* average_control keeps on its own, and never 0: the frame on which both counts wrap
\* makes no packet.  Unless the configuration changed in between.
PacketWhole ==
  packet.order = -1 /\ packet.whole =>
    /\ packet.of = packet.from + 1 .. packet.at
    /\ packet.over = (packet.at - packet.from) % Word
    /\ packet.count = packet.over
    /\ packet.over # 0

\* With an unchanged configuration no average is longer than num_averages frames.
OnTime ==
  num_averages > 0 /\ changed <= restart =>
    average_counter < num_averages /\ frames - restart < num_averages

=============================================================================
