------------------------------ MODULE DataBuffer ------------------------------
(***************************************************************************)
(* The circular packet buffer (class DataBuffer) with its one writer, the  *)
(* thread SmurfProcessor::runThread, and its readers, the threads          *)
(* pktTansmitter and pktWriter.  One action is one method call, or one     *)
(* half of the copying of a packet in or out of a slot: a reader is given  *)
(* a pointer to the slot and not a copy, so the writer can get there while *)
(* the reader is still using it.  Method calls do not overlap here;        *)
(* module PacketThreads drops that simplification.                         *)
(***************************************************************************)
EXTENDS Integers

CONSTANTS
  Size,       \* number of slots (10 in SmurfProcessor)
  Readers,    \* the readers' indices
  Throwers,   \* the readers whose processing call may throw: transmit() is
              \* user code, SmurfDataFile::write_file throws nothing
  MaxWrites   \* bound: how many packets are written in a behaviour

ASSUME SizeAssumption == Size \in Nat \ {0}
ASSUME ThrowersAssumption == Throwers \subseteq Readers
ASSUME MaxWritesAssumption == MaxWrites \in Nat

VARIABLES
  data,       \* the slots; packet n is the n-th one written, from 0
  writePtr,   \* write iterator, as an index into data
  readPtr,    \* read iterator of each reader
  full,       \* full flag of each reader
  empty,      \* empty flag of each reader
  writeCnt,   \* write operations
  readCnt,    \* read operations of each reader
  OWCnt,      \* overwrites of each reader
  ROFCnt,     \* reads of an empty buffer, for each reader
  writer,     \* what the writer thread does next
  reader,     \* what each reader thread does next, and what it has seen
  cleared     \* history: the overwrites that clearCnts made the count forget

bufVars == <<writePtr, readPtr, full, empty, writeCnt, readCnt, OWCnt, ROFCnt>>
vars == <<data, bufVars, writer, reader, cleared>>

-----------------------------------------------------------------------------
Slots == 0 .. Size - 1

Blank == -1      \* a slot as ISmurfPacket::create() makes it
Garbage == -2    \* what is behind an iterator that is no longer in data

AdvancePastEnd(p) == p + 1   \* mutant: data.end() is not looked for

\* An iterator moves forward and, at data.end(), goes back to data.begin().
Advance(p) == IF p + 1 = Size THEN 0 ELSE p + 1

InRange(i) == readPtr[i] \in Slots

\* Number of the packet that reader i takes next: those before it were read,
\* overwritten, or skipped.
Pos(i) == readCnt[i] + OWCnt[i] + cleared[i]

\* Packets written that reader i has still to take.
Backlog(i) == writeCnt - Pos(i)

\* The reader's threads hold a slot in these states.
Holding == {"header", "payload", "done"}

NotReading == [at |-> "idle", slot |-> 0, hdr |-> Blank, pay |-> Blank, want |-> 0]

ReadPtrKept == readPtr   \* mutant: the overwrite is counted, nothing is taken

\* getWritePtr takes the oldest packet from every reader that is full: its
\* iterator is moved forward, without looking for data.end().
ReadPtrTaken == [i \in Readers |-> IF full[i] THEN readPtr[i] + 1 ELSE readPtr[i]]

FullIfFirst == [i \in Readers |-> full[i] \/ readPtr[i] = writePtr]   \* mutant: compares first

\* doneWriting: full is the reader the advanced write iterator has caught up with.
FullAfterWriting == [i \in Readers |-> full[i] \/ readPtr[i] = Advance(writePtr)]

EmptyForAll(i) == [j \in Readers |-> empty[j] \/ Advance(readPtr[i]) = writePtr]   \* mutant

\* doneReading: empty is the reader that has caught up with the write iterator.
EmptyAfterReading(i) == [empty EXCEPT ![i] = @ \/ Advance(readPtr[i]) = writePtr]

FullStays(i) == full                              \* mutant: not reset
FullForNobody(i) == [j \in Readers |-> FALSE]     \* mutant: reset for every reader

\* doneReading: the reader that read is not full.
FullAfterReading(i) == [full EXCEPT ![i] = FALSE]

-----------------------------------------------------------------------------
Init ==
  /\ data = [s \in Slots |-> [hdr |-> Blank, pay |-> Blank]]
  /\ writePtr = 0
  /\ readPtr = [i \in Readers |-> 0]
  /\ full = [i \in Readers |-> FALSE]
  /\ empty = [i \in Readers |-> TRUE]
  /\ writeCnt = 0
  /\ readCnt = [i \in Readers |-> 0]
  /\ OWCnt = [i \in Readers |-> 0]
  /\ ROFCnt = [i \in Readers |-> 0]
  /\ writer = "idle"
  /\ reader = [i \in Readers |-> NotReading]
  /\ cleared = [i \in Readers |-> 0]

(***************************************************************************)
(* The writer: getWritePtr, the two copies, doneWriting.                   *)
(***************************************************************************)

GetWritePtr ==
  /\ writer = "idle"
  /\ writeCnt < MaxWrites
  /\ OWCnt' = [i \in Readers |-> IF full[i] THEN OWCnt[i] + 1 ELSE OWCnt[i]]
  /\ readPtr' = ReadPtrTaken
  /\ writer' = "header"
  /\ UNCHANGED <<data, writePtr, full, empty, writeCnt, readCnt, ROFCnt, reader, cleared>>

CopyHeader ==
  /\ writer = "header"
  /\ data' = [data EXCEPT ![writePtr].hdr = writeCnt]
  /\ writer' = "payload"
  /\ UNCHANGED <<bufVars, reader, cleared>>

CopyData ==
  /\ writer = "payload"
  /\ data' = [data EXCEPT ![writePtr].pay = writeCnt]
  /\ writer' = "done"
  /\ UNCHANGED <<bufVars, reader, cleared>>

DoneWriting ==
  /\ writer = "done"
  /\ writePtr' = Advance(writePtr)
  /\ full' = FullAfterWriting
  /\ empty' = [i \in Readers |-> FALSE]
  /\ writeCnt' = writeCnt + 1
  /\ writer' = "idle"
  /\ UNCHANGED <<data, readPtr, readCnt, OWCnt, ROFCnt, reader, cleared>>

(***************************************************************************)
(* Reader i: isEmpty, getReadPtr, the processing of the packet behind the  *)
(* pointer, doneReading.                                                   *)
(***************************************************************************)

FoundData(i) ==
  /\ reader[i].at = "idle"
  /\ ~empty[i]
  /\ reader' = [reader EXCEPT ![i].at = "get"]
  /\ UNCHANGED <<data, bufVars, writer, cleared>>

\* The bound on readCnt stops only a reader whose iterator left data: such a
\* reader never finds the buffer empty again.
GetReadPtr(i) ==
  /\ reader[i].at = "get"
  /\ readCnt[i] < MaxWrites
  /\ IF empty[i]
       THEN /\ ROFCnt' = [ROFCnt EXCEPT ![i] = @ + 1]
            /\ reader' = [reader EXCEPT ![i] = NotReading]
       ELSE /\ reader' = [reader EXCEPT ![i] =
                 [NotReading EXCEPT !.at = "header", !.slot = readPtr[i], !.want = Pos(i)]]
            /\ UNCHANGED ROFCnt
  /\ UNCHANGED <<data, writePtr, readPtr, full, empty, writeCnt, readCnt, OWCnt, writer, cleared>>

ReadHeader(i) ==
  /\ reader[i].at = "header"
  /\ LET s == reader[i].slot
         h == IF s \in Slots THEN data[s].hdr ELSE Garbage
     IN reader' = [reader EXCEPT ![i].hdr = h, ![i].at = "payload"]
  /\ UNCHANGED <<data, bufVars, writer, cleared>>

ReadPayload(i) ==
  /\ reader[i].at = "payload"
  /\ LET s == reader[i].slot
         p == IF s \in Slots THEN data[s].pay ELSE Garbage
     IN reader' = [reader EXCEPT ![i].pay = p, ![i].at = "done"]
  /\ UNCHANGED <<data, bufVars, writer, cleared>>

\* transmit() throws: doneReading is skipped and the loop starts again.
ProcessingThrows(i) ==
  /\ i \in Throwers
  /\ reader[i].at \in {"payload", "done"}
  /\ reader' = [reader EXCEPT ![i] = NotReading]
  /\ UNCHANGED <<data, bufVars, writer, cleared>>

DoneReading(i) ==
  /\ reader[i].at = "done"
  /\ readPtr' = [readPtr EXCEPT ![i] = Advance(@)]
  /\ empty' = EmptyAfterReading(i)
  /\ full' = FullAfterReading(i)
  /\ readCnt' = [readCnt EXCEPT ![i] = @ + 1]
  /\ reader' = [reader EXCEPT ![i] = NotReading]
  /\ UNCHANGED <<data, writePtr, writeCnt, OWCnt, ROFCnt, writer, cleared>>

\* Public, and without a caller in this repository.
ClearCnts ==
  /\ ROFCnt' = [i \in Readers |-> 0]
  /\ OWCnt' = [i \in Readers |-> 0]
  /\ cleared' = [i \in Readers |-> cleared[i] + OWCnt[i]]
  /\ UNCHANGED <<data, writePtr, readPtr, full, empty, writeCnt, readCnt, writer, reader>>

-----------------------------------------------------------------------------
WriterNext == GetWritePtr \/ CopyHeader \/ CopyData \/ DoneWriting

ReaderNext(i) ==
  \/ FoundData(i)
  \/ GetReadPtr(i)
  \/ ReadHeader(i)
  \/ ReadPayload(i)
  \/ ProcessingThrows(i)
  \/ DoneReading(i)

Next == WriterNext \/ (\E i \in Readers : ReaderNext(i)) \/ ClearCnts

Spec == Init /\ [][Next]_vars

(***************************************************************************)
(* Properties.                                                             *)
(***************************************************************************)

\* The slot of the k-th packet from where reader i is, counting round the end.
SlotAhead(i, k) == IF readPtr[i] + k < Size THEN readPtr[i] + k ELSE readPtr[i] + k - Size

Counters == [Readers -> Nat]

\* The variables keep their types.  An overrun reader's iterator can be
\* anywhere past the end, so readPtr is only a natural number.
TypeOK ==
  /\ data \in [Slots -> [hdr : Nat \cup {Blank}, pay : Nat \cup {Blank}]]
  /\ writePtr \in Slots
  /\ readPtr \in Counters
  /\ full \in [Readers -> BOOLEAN]
  /\ empty \in [Readers -> BOOLEAN]
  /\ writeCnt \in 0 .. MaxWrites
  /\ readCnt \in Counters
  /\ OWCnt \in Counters
  /\ ROFCnt \in Counters
  /\ cleared \in Counters
  /\ writer \in {"idle", "header", "payload", "done"}
  /\ reader \in [Readers -> [at : {"idle", "get"} \cup Holding, slot : Nat,
                             hdr : Nat \cup {Blank, Garbage},
                             pay : Nat \cup {Blank, Garbage}, want : Nat]]

\* The flags and the iterators, updated piecemeal by four methods, agree with
\* the packets that were counted: a reader whose iterator is in data is empty
\* exactly when it has nothing to take, is marked full when the next write
\* would land on its oldest packet, and is never more than a lap behind.
FlagsMatchBacklog ==
  \A i \in Readers : InRange(i) =>
    /\ Backlog(i) \in 0 .. Size
    /\ Backlog(i) \in {writePtr - readPtr[i], writePtr - readPtr[i] + Size}
    /\ empty[i] <=> Backlog(i) = 0
    /\ writer = "idle" => (full[i] <=> Backlog(i) = Size)
    /\ writer # "idle" => /\ Backlog(i) < Size
                          /\ full[i] => Backlog(i) = Size - 1

\* Every packet a reader has still to take is in its slot, complete and not
\* being written to, whatever the writer and the other readers do: what the
\* writer overwrites is what getWritePtr took from the slow readers before.
PendingIntact ==
  \A i \in Readers : InRange(i) =>
    \A k \in 0 .. Backlog(i) - 1 :
      /\ data[SlotAhead(i, k)] = [hdr |-> Pos(i) + k, pay |-> Pos(i) + k]
      /\ writer # "idle" => SlotAhead(i, k) # writePtr

\* A reader from which getWritePtr took nothing while it processed a packet
\* has seen one packet, whole, and the one that was its turn: nothing skipped,
\* nothing twice, no two halves, although it held a pointer and no copy.
UndisturbedRead ==
  \A i \in Readers :
    /\ reader[i].at = "done"
    /\ reader[i].slot \in Slots
    /\ Pos(i) = reader[i].want
    => reader[i].hdr = reader[i].want /\ reader[i].pay = reader[i].want

\* isEmpty and getReadPtr are two calls, and the exception of getReadPtr is
\* never thrown between them: nobody but the reader makes its buffer empty.
NoReadOverflow == \A i \in Readers : ROFCnt[i] = 0

\* An iterator leaves data only from its last slot, by the writer, when the
\* reader is a whole lap behind; no reader leaves by reading.
OverrunNeedsFullLap ==
  [][\A i \in Readers : InRange(i) /\ ~InRange(i)' =>
        /\ readPtr[i] = Size - 1
        /\ Backlog(i) = Size
        /\ writer = "idle"]_vars

\* data_buffer.h:16, "a circular buffer": read iterators stay in the buffer.
ReadPtrInRange == \A i \in Readers : InRange(i)

(***************************************************************************)
(* The buffer implements LossyQueue.                                       *)
(***************************************************************************)

\* The packets reader i has still to take, as they are in their slots.
QueueOf(i) ==
  IF InRange(i) THEN [k \in 1 .. Backlog(i) |-> data[SlotAhead(i, k - 1)]] ELSE << >>

Holds(i) ==
  IF ~InRange(i) \/ reader[i].at \notin Holding THEN "nothing"
  ELSE IF reader[i].want = Pos(i) THEN "head" ELSE "dropped"

Queue == INSTANCE LossyQueue WITH
           Depth <- Size,
           put <- writeCnt,
           out <- {i \in Readers : ~InRange(i)},
           queue <- [i \in Readers |-> QueueOf(i)],
           held <- [i \in Readers |-> Holds(i)]

\* Seen through its slots, each reader's part of the buffer is a queue of
\* whole packets in the order of writing, which loses its head only when it is
\* full or its reader is done with a packet, and is the same at every other
\* call of every method and at every step of the copying.
ImplementsQueue == Queue!Spec

=============================================================================
