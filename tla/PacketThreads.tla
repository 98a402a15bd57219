----------------------------- MODULE PacketThreads -----------------------------
(***************************************************************************)
(* The three threads round the packet buffer, statement by statement: the  *)
(* writer SmurfProcessor::runThread, and the readers pktTansmitter and     *)
(* pktWriter.  Nothing in DataBuffer is atomic and its mutex guards only   *)
(* the notification, so an action is one access to a shared variable: a    *)
(* load and the store that depends on it are two actions (the build has no *)
(* optimisation, every access goes to memory).  Statements on variables of *)
(* one thread only are part of the action before or after them.            *)
(***************************************************************************)
EXTENDS Integers

CONSTANTS
  Size,        \* number of slots
  NumReaders,  \* number of readers; they are 0 .. NumReaders - 1
  Throwers,    \* readers whose processing may throw
  MaxWrites    \* bound: how many packets are written in a behaviour

ASSUME SizesAssumption == Size \in Nat \ {0} /\ NumReaders \in Nat \ {0}
ASSUME BoundAssumption == MaxWrites \in Nat

VARIABLES
  data, writePtr, readPtr, full, empty, writeCnt, readCnt, OWCnt, ROFCnt,
  mutex,     \* who holds the buffer's mutex
  waiting,   \* readers blocked in dataReady.wait_for
  w,         \* the writer: next statement, loop index, register
  r,         \* each reader: next statement, register, what it has seen
  overlap    \* history: readers whose doneReading ran during a call of the writer

shared == <<data, writePtr, readPtr, full, empty, writeCnt, readCnt, OWCnt, ROFCnt>>
vars == <<shared, mutex, waiting, w, r, overlap>>

-----------------------------------------------------------------------------
Readers == 0 .. NumReaders - 1
Slots == 0 .. Size - 1

Blank == -1
Garbage == -2
Free == -1
WriterThread == NumReaders

AtEndLate(p) == p > Size    \* mutant: off by one

AtEnd(p) == p = Size        \* p == data.end()

Pos(i) == readCnt[i] + OWCnt[i]
Backlog(i) == writeCnt - Pos(i)

\* Packets whose two parts are in the buffer.
Copied == writeCnt + (IF w.at \in {"advance", "wrap", "compare", "setFull", "fill"} THEN 1 ELSE 0)

WriterInCall == {"take", "takeLoad", "takeStore", "wrap", "compare", "setFull", "fill"}
InDoneReading == {"store", "atEnd", "wrap", "compareRead", "compareWrite", "setEmpty", "clearFull"}
Holding == {"header", "payload", "inc"} \cup InDoneReading

\* The writer at statement a of its loop over the readers, which is followed
\* by statement b.
WriterLoop(a, b) ==
  IF w.i + 1 < NumReaders THEN [at |-> a, i |-> w.i + 1, tmp |-> 0]
                          ELSE [at |-> b, i |-> 0, tmp |-> 0]

NotReading == [at |-> "isEmpty", ptr |-> 0, slot |-> 0, hdr |-> Blank, pay |-> Blank, want |-> 0]

\* The reader i goes to statement a.
Goes(i, a) == r' = [r EXCEPT ![i].at = a]

\* Which readers have overlapped, the writer having gone to w2 and they to r2.
OverlapWith(w2, r2) ==
  [i \in Readers |-> overlap[i] \/ (w2.at \in WriterInCall /\ r2[i].at \in InDoneReading)]

Init ==
  /\ data = [s \in Slots |-> [hdr |-> Blank, pay |-> Blank]]
  /\ writePtr = 0
  /\ readPtr = [i \in Readers |-> 0]
  /\ full = [i \in Readers |-> FALSE]
  /\ empty = [i \in Readers |-> TRUE]
  /\ writeCnt = 0
  /\ readCnt = [i \in Readers |-> 0]
  /\ OWCnt = [i \in Readers |-> 0]
  /\ ROFCnt = [i \in Readers |-> 0]
  /\ mutex = Free
  /\ waiting = {}
  /\ w = [at |-> "idle", i |-> 0, tmp |-> 0]
  /\ r = [i \in Readers |-> NotReading]
  /\ overlap = [i \in Readers |-> FALSE]

-----------------------------------------------------------------------------
(***************************************************************************)
(* The writer.  getWritePtr: take the oldest packet from each full reader. *)
(***************************************************************************)

\* A packet is ready: getWritePtr is called.
NewPacket ==
  /\ w.at = "idle"
  /\ writeCnt < MaxWrites
  /\ w' = [w EXCEPT !.at = "take"]
  /\ UNCHANGED <<shared, mutex, waiting, r>>

TestFull ==
  /\ w.at = "take"
  /\ w' = IF full[w.i] THEN [w EXCEPT !.at = "takeLoad"] ELSE WriterLoop("take", "header")
  /\ UNCHANGED <<shared, mutex, waiting, r>>

LoadReadPtr ==
  /\ w.at = "takeLoad"
  /\ w' = [w EXCEPT !.at = "takeStore", !.tmp = readPtr[w.i]]
  /\ UNCHANGED <<shared, mutex, waiting, r>>

StoreReadPtr ==
  /\ w.at = "takeStore"
  /\ readPtr' = [readPtr EXCEPT ![w.i] = w.tmp + 1]
  /\ OWCnt' = [OWCnt EXCEPT ![w.i] = @ + 1]
  /\ w' = WriterLoop("take", "header")
  /\ UNCHANGED <<data, writePtr, full, empty, writeCnt, readCnt, ROFCnt, mutex, waiting, r>>

\* copyHeader and copyData into the slot, without any lock.
CopyHeader ==
  /\ w.at = "header"
  /\ data' = [data EXCEPT ![writePtr].hdr = writeCnt]
  /\ w' = [w EXCEPT !.at = "payload"]
  /\ UNCHANGED <<writePtr, readPtr, full, empty, writeCnt, readCnt, OWCnt, ROFCnt>>
  /\ UNCHANGED <<mutex, waiting, r>>

CopyData ==
  /\ w.at = "payload"
  /\ data' = [data EXCEPT ![writePtr].pay = writeCnt]
  /\ w' = [w EXCEPT !.at = "advance"]
  /\ UNCHANGED <<writePtr, readPtr, full, empty, writeCnt, readCnt, OWCnt, ROFCnt>>
  /\ UNCHANGED <<mutex, waiting, r>>

(***************************************************************************)
(* doneWriting: advance, wrap, mark the full readers, clear empty for all, *)
(* notify.                                                                 *)
(***************************************************************************)

AdvanceWritePtr ==
  /\ w.at = "advance"
  /\ writePtr' = writePtr + 1
  /\ w' = [w EXCEPT !.at = IF AtEnd(writePtr + 1) THEN "wrap" ELSE "compare"]
  /\ UNCHANGED <<data, readPtr, full, empty, writeCnt, readCnt, OWCnt, ROFCnt>>
  /\ UNCHANGED <<mutex, waiting, r>>

WrapWritePtr ==
  /\ w.at = "wrap"
  /\ writePtr' = 0
  /\ w' = [w EXCEPT !.at = "compare"]
  /\ UNCHANGED <<data, readPtr, full, empty, writeCnt, readCnt, OWCnt, ROFCnt>>
  /\ UNCHANGED <<mutex, waiting, r>>

CompareReadPtr ==
  /\ w.at = "compare"
  /\ w' = IF readPtr[w.i] = writePtr THEN [w EXCEPT !.at = "setFull"]
                                     ELSE WriterLoop("compare", "fill")
  /\ UNCHANGED <<shared, mutex, waiting, r>>

FullNotSet(i) == full   \* mutant: the comparison has no effect

FullSet(i) == [full EXCEPT ![i] = TRUE]

SetFull ==
  /\ w.at = "setFull"
  /\ full' = FullSet(w.i)
  /\ w' = WriterLoop("compare", "fill")
  /\ UNCHANGED <<data, writePtr, readPtr, empty, writeCnt, readCnt, OWCnt, ROFCnt>>
  /\ UNCHANGED <<mutex, waiting, r>>

\* std::fill, and ++writeCnt after the last element.
FillEmpty ==
  /\ w.at = "fill"
  /\ empty' = [empty EXCEPT ![w.i] = FALSE]
  /\ w' = WriterLoop("fill", "lock")
  /\ writeCnt' = IF w'.at = "lock" THEN writeCnt + 1 ELSE writeCnt
  /\ UNCHANGED <<data, writePtr, readPtr, full, readCnt, OWCnt, ROFCnt, mutex, waiting, r>>

LockToNotify ==
  /\ w.at = "lock"
  /\ mutex = Free
  /\ mutex' = WriterThread
  /\ w' = [w EXCEPT !.at = "notify"]
  /\ UNCHANGED <<shared, waiting, r>>

NotifyAll ==
  /\ w.at = "notify"
  /\ waiting' = {}
  /\ mutex' = Free
  /\ w' = [w EXCEPT !.at = "idle"]
  /\ UNCHANGED <<shared, r>>

WriterStep ==
  /\ \/ TestFull \/ LoadReadPtr \/ StoreReadPtr \/ CopyHeader \/ CopyData
     \/ AdvanceWritePtr \/ WrapWritePtr \/ CompareReadPtr \/ SetFull \/ FillEmpty
     \/ LockToNotify \/ NotifyAll
  /\ overlap' = OverlapWith(w', r)

NewPacketStep == NewPacket /\ overlap' = OverlapWith(w', r)

-----------------------------------------------------------------------------
(***************************************************************************)
(* A reader waits: 10 seconds at most, woken by any notification, and for  *)
(* no condition.                                                           *)
(***************************************************************************)

IsEmpty(i) ==
  /\ r[i].at = "isEmpty"
  /\ Goes(i, IF empty[i] THEN "lock" ELSE "get")
  /\ UNCHANGED <<shared, mutex, waiting, w>>

LockToWait(i) ==
  /\ r[i].at = "lock"
  /\ mutex = Free
  /\ mutex' = i
  /\ Goes(i, "wait")
  /\ UNCHANGED <<shared, waiting, w>>

MutexKept(i) == i      \* mutant: sleeps with the mutex

MutexInWait(i) == Free

WaitFor(i) ==
  /\ r[i].at = "wait"
  /\ mutex' = MutexInWait(i)
  /\ waiting' = waiting \cup {i}
  /\ Goes(i, "asleep")
  /\ UNCHANGED <<shared, w>>

NeverTimesOut(i) == FALSE /\ UNCHANGED vars   \* mutant: wait instead of wait_for

\* The 10 seconds are over (or the wakeup is spurious).
TimeOut(i) ==
  /\ i \in waiting
  /\ waiting' = waiting \ {i}
  /\ UNCHANGED <<shared, mutex, w, r>>

WakeUp(i) ==
  /\ r[i].at = "asleep"
  /\ i \notin waiting
  /\ mutex = Free
  /\ mutex' = i
  /\ Goes(i, "awake")
  /\ UNCHANGED <<shared, waiting, w>>

Unlock(i) ==
  /\ r[i].at = "awake"
  /\ mutex' = Free
  /\ Goes(i, "isEmpty")
  /\ UNCHANGED <<shared, waiting, w>>

(***************************************************************************)
(* A reader takes a packet: getReadPtr, the two parts of the packet, and   *)
(* doneReading.                                                            *)
(***************************************************************************)

TestEmpty(i) ==
  /\ r[i].at = "get"
  /\ IF empty[i]
       THEN ROFCnt' = [ROFCnt EXCEPT ![i] = @ + 1] /\ r' = [r EXCEPT ![i] = NotReading]
       ELSE UNCHANGED ROFCnt /\ Goes(i, "load")
  /\ UNCHANGED <<data, writePtr, readPtr, full, empty, writeCnt, readCnt, OWCnt>>
  /\ UNCHANGED <<mutex, waiting, w>>

\* The bound on readCnt stops only a reader that no longer finds the end.
LoadSlot(i) ==
  /\ r[i].at = "load"
  /\ readCnt[i] < MaxWrites + Size
  /\ r' = [r EXCEPT ![i] = [@ EXCEPT !.at = "header", !.slot = readPtr[i], !.want = Pos(i)]]
  /\ UNCHANGED <<shared, mutex, waiting, w>>

ReadHeader(i) ==
  /\ r[i].at = "header"
  /\ LET s == r[i].slot IN
     r' = [r EXCEPT ![i].at = "payload", ![i].hdr = IF s \in Slots THEN data[s].hdr ELSE Garbage]
  /\ UNCHANGED <<shared, mutex, waiting, w>>

ReadPayload(i) ==
  /\ r[i].at = "payload"
  /\ LET s == r[i].slot IN
     r' = [r EXCEPT ![i].at = "inc", ![i].pay = IF s \in Slots THEN data[s].pay ELSE Garbage]
  /\ UNCHANGED <<shared, mutex, waiting, w>>

ProcessingThrows(i) ==
  /\ i \in Throwers
  /\ r[i].at \in {"payload", "inc"}
  /\ r' = [r EXCEPT ![i] = NotReading]
  /\ UNCHANGED <<shared, mutex, waiting, w>>

LoadToIncrement(i) ==
  /\ r[i].at = "inc"
  /\ r' = [r EXCEPT ![i].at = "store", ![i].ptr = readPtr[i]]
  /\ UNCHANGED <<shared, mutex, waiting, w>>

StoreIncremented(i) ==
  /\ r[i].at = "store"
  /\ readPtr' = [readPtr EXCEPT ![i] = r[i].ptr + 1]
  /\ Goes(i, "atEnd")
  /\ UNCHANGED <<data, writePtr, full, empty, writeCnt, readCnt, OWCnt, ROFCnt>>
  /\ UNCHANGED <<mutex, waiting, w>>

CompareEnd(i) ==
  /\ r[i].at = "atEnd"
  /\ Goes(i, IF AtEnd(readPtr[i]) THEN "wrap" ELSE "compareRead")
  /\ UNCHANGED <<shared, mutex, waiting, w>>

WrapReadPtr(i) ==
  /\ r[i].at = "wrap"
  /\ readPtr' = [readPtr EXCEPT ![i] = 0]
  /\ Goes(i, "compareRead")
  /\ UNCHANGED <<data, writePtr, full, empty, writeCnt, readCnt, OWCnt, ROFCnt>>
  /\ UNCHANGED <<mutex, waiting, w>>

LoadToCompare(i) ==
  /\ r[i].at = "compareRead"
  /\ r' = [r EXCEPT ![i].at = "compareWrite", ![i].ptr = readPtr[i]]
  /\ UNCHANGED <<shared, mutex, waiting, w>>

CompareWritePtr(i) ==
  /\ r[i].at = "compareWrite"
  /\ Goes(i, IF r[i].ptr = writePtr THEN "setEmpty" ELSE "clearFull")
  /\ UNCHANGED <<shared, mutex, waiting, w>>

EmptySetForAll(i) == [j \in Readers |-> TRUE]   \* mutant: marks every reader

EmptySet(i) == [empty EXCEPT ![i] = TRUE]

SetEmpty(i) ==
  /\ r[i].at = "setEmpty"
  /\ empty' = EmptySet(i)
  /\ Goes(i, "clearFull")
  /\ UNCHANGED <<data, writePtr, readPtr, full, writeCnt, readCnt, OWCnt, ROFCnt>>
  /\ UNCHANGED <<mutex, waiting, w>>

FullNotCleared(i) == full   \* mutant: full is for ever

FullCleared(i) == [full EXCEPT ![i] = FALSE]

\* full = false, and ++readCnt.
ClearFull(i) ==
  /\ r[i].at = "clearFull"
  /\ full' = FullCleared(i)
  /\ readCnt' = [readCnt EXCEPT ![i] = @ + 1]
  /\ r' = [r EXCEPT ![i] = NotReading]
  /\ UNCHANGED <<data, writePtr, readPtr, empty, writeCnt, OWCnt, ROFCnt>>
  /\ UNCHANGED <<mutex, waiting, w>>

ReaderStep(i) ==
  /\ \/ IsEmpty(i) \/ LockToWait(i) \/ WaitFor(i) \/ WakeUp(i) \/ Unlock(i)
     \/ TestEmpty(i) \/ LoadSlot(i) \/ ReadHeader(i) \/ ReadPayload(i)
     \/ LoadToIncrement(i) \/ StoreIncremented(i) \/ CompareEnd(i) \/ WrapReadPtr(i)
     \/ LoadToCompare(i) \/ CompareWritePtr(i) \/ SetEmpty(i) \/ ClearFull(i)
  /\ overlap' = OverlapWith(w, r')

TimeOutStep(i) == TimeOut(i) /\ UNCHANGED overlap
ThrowStep(i) == ProcessingThrows(i) /\ UNCHANGED overlap

-----------------------------------------------------------------------------
Next ==
  \/ NewPacketStep
  \/ WriterStep
  \/ \E i \in Readers : ReaderStep(i) \/ TimeOutStep(i) \/ ThrowStep(i)

Spec == Init /\ [][Next]_vars

\* Every thread that can run runs, the clock goes on, and the mutex, free most
\* of the time, is not withheld from one thread for ever.  No packet need come.
Fairness ==
  /\ WF_vars(WriterStep)
  /\ SF_vars(LockToNotify /\ WriterStep)
  /\ \A i \in Readers :
       /\ WF_vars(ReaderStep(i))
       /\ WF_vars(TimeOutStep(i))
       /\ SF_vars((LockToWait(i) \/ WakeUp(i)) /\ ReaderStep(i))

FairSpec == Spec /\ Fairness
-----------------------------------------------------------------------------
(***************************************************************************)
(* Properties.                                                             *)
(***************************************************************************)

\* The variables keep their types: writePtr is outside data only between
\* ++writePtr and its wrap, and the mutex is held in three statements.
TypeOK ==
  /\ data \in [Slots -> [hdr : Nat \cup {Blank}, pay : Nat \cup {Blank}]]
  /\ writePtr \in 0 .. Size
  /\ writePtr = Size <=> w.at = "wrap"
  /\ readPtr \in [Readers -> Nat]
  /\ full \in [Readers -> BOOLEAN]
  /\ empty \in [Readers -> BOOLEAN]
  /\ writeCnt \in 0 .. MaxWrites
  /\ \A c \in {readCnt, OWCnt, ROFCnt} : c \in [Readers -> Nat]
  /\ waiting \subseteq {i \in Readers : r[i].at = "asleep"}
  /\ mutex \in Readers \cup {Free, WriterThread}
  /\ mutex = WriterThread <=> w.at = "notify"
  /\ \A i \in Readers : mutex = i <=> r[i].at \in {"wait", "awake"}
  /\ overlap \in [Readers -> BOOLEAN]

\* Between isEmpty and getReadPtr nobody else makes the reader's buffer empty,
\* so getReadPtr does not throw, at any interleaving of the statements.
NoReadOverflow == \A i \in Readers : ROFCnt[i] = 0

InRange(i) == readPtr[i] \in Slots

\* The flags and the slots of reader i when no call is going on.
BufferConsistent(i) ==
  /\ Backlog(i) \in {writePtr - readPtr[i], writePtr - readPtr[i] + Size}
  /\ empty[i] <=> Backlog(i) = 0
  /\ full[i] <=> Backlog(i) = Size
  /\ \A k \in 0 .. Backlog(i) - 1 :
       data[(readPtr[i] + k) % Size] = [hdr |-> Pos(i) + k, pay |-> Pos(i) + k]

\* A reader whose doneReading never ran during a call of the writer finds its
\* flags, its iterator and its packets right, however its other statements
\* (isEmpty, the wait, getReadPtr, the processing) mix with the writer's: it is
\* doneReading alone that needed the mutex.
ApartConsistent ==
  \A i \in Readers :
    ~overlap[i] /\ w.at = "idle" /\ r[i].at \notin InDoneReading /\ InRange(i)
      => BufferConsistent(i)

\* The same for what such a reader sees: the packet that was its turn, whole,
\* unless the writer took that packet meanwhile and counted the overwrite.
ApartReadsWhole ==
  \A i \in Readers :
    ~overlap[i] /\ r[i].at = "inc" /\ r[i].slot \in Slots /\ Pos(i) = r[i].want
      => r[i].hdr = r[i].want /\ r[i].pay = r[i].want

\* A reader does not sleep for ever beside packets it can see: a notification
\* sent between isEmpty and the wait is lost, and then the timeout of the wait
\* is what wakes the reader.
NoOversleep ==
  \A i \in Readers : (<>[]~empty[i]) => []<>(r[i].at \in {"get", "load"})

\* The thread that receives frames is never stopped by the readers, whatever
\* they do: it always comes back for the next packet.
WriterFinishes == (w.at # "idle") ~> (w.at = "idle")

(***************************************************************************)
(* What the header says, and overlapping calls break.                      *)
(***************************************************************************)

\* data_buffer.h:30, getReadPtr returns the "next available data packet": a
\* reader is never ahead of the writer.
NoPhantom == \A i \in Readers : r[i].at \in Holding => r[i].want < Copied
=============================================================================
