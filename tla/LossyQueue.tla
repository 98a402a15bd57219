------------------------------ MODULE LossyQueue ------------------------------
(***************************************************************************)
(* What the packet buffer promises its readers, without slots, iterators   *)
(* and flags: every reader has a queue of its own of at most Depth         *)
(* packets.  A packet is put into all queues at once, and room is made for *)
(* it before by dropping the oldest packet of every queue that is full,    *)
(* even while its reader is processing that packet.  The one thing that    *)
(* can go wrong is that a reader falls out when its queue is full.         *)
(***************************************************************************)
EXTENDS Naturals, Sequences

CONSTANTS Depth, Readers

VARIABLES
  put,      \* packets put so far; they are numbered from 0
  out,      \* the readers that fell out; they have no queue any more
  queue,    \* each reader's queue
  held      \* what each reader is processing: nothing, the head of its
            \* queue, or a packet that was dropped meanwhile

qvars == <<put, out, queue, held>>

Nothing == "nothing"
Dropped == "dropped"
TheHead == "head"

\* The packet with this number, whole.
Packet(n) == [hdr |-> n, pay |-> n]

InService(i) == i \notin out

Init ==
  /\ put = 0
  /\ out = {}
  /\ queue = [i \in Readers |-> << >>]
  /\ held = [i \in Readers |-> Nothing]

Full(i) == InService(i) /\ Len(queue[i]) = Depth

\* A full queue loses its head; or its reader falls out.
MakeRoom ==
  \E fallen \in SUBSET {i \in Readers : Full(i)} :
    /\ out' = out \cup fallen
    /\ queue' = [i \in Readers |-> IF i \in fallen THEN << >>
                                   ELSE IF Full(i) THEN Tail(queue[i]) ELSE queue[i]]
    /\ held' = [i \in Readers |-> IF i \in fallen THEN Nothing
                                  ELSE IF Full(i) /\ held[i] # Nothing THEN Dropped ELSE held[i]]
    /\ UNCHANGED put

Put ==
  /\ \A i \in Readers : ~Full(i)
  /\ queue' = [i \in Readers |-> IF InService(i) THEN Append(queue[i], Packet(put)) ELSE << >>]
  /\ put' = put + 1
  /\ UNCHANGED <<out, held>>

Begin(i) ==
  /\ InService(i)
  /\ queue[i] # << >> /\ held[i] = Nothing
  /\ held' = [held EXCEPT ![i] = TheHead]
  /\ UNCHANGED <<put, out, queue>>

GiveUp(i) ==
  /\ InService(i)
  /\ held' = [held EXCEPT ![i] = Nothing]
  /\ UNCHANGED <<put, out, queue>>

\* The head goes, also when it is not the packet that was processed.
Finish(i) ==
  /\ InService(i)
  /\ held[i] # Nothing
  /\ queue[i] # << >>
  /\ queue' = [queue EXCEPT ![i] = Tail(@)]
  /\ held' = [held EXCEPT ![i] = Nothing]
  /\ UNCHANGED <<put, out>>

Next == MakeRoom \/ Put \/ \E i \in Readers : Begin(i) \/ GiveUp(i) \/ Finish(i)

Spec == Init /\ [][Next]_qvars
=============================================================================
