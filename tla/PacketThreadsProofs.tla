------------------------- MODULE PacketThreadsProofs -------------------------
(***************************************************************************)
(* Proofs about the threads round the packet buffer, at every interleaving *)
(* of their statements, for every size of the buffer, any number of        *)
(* readers, throwing or not, and of packets.                               *)
(***************************************************************************)
EXTENDS PacketThreads, TLAPS

(***************************************************************************)
(* The inductive invariant.  First what holds of all threads.              *)
(***************************************************************************)

Taking == {"take", "takeLoad", "takeStore"}
Copying == {"header", "payload", "advance"}
Passing == {"wrap", "compare", "setFull", "fill"}
Reading == {"get", "load", "header", "payload", "inc", "store"}
Moved == {"atEnd", "wrap", "compareRead", "compareWrite", "setEmpty", "clearFull"}

WriterTypes ==
  /\ w \in [at : {"idle", "lock", "notify"} \cup Taking \cup Copying \cup Passing,
            i : Readers, tmp : Nat]
  /\ w.at \in {"idle", "lock", "notify", "wrap"} \cup Copying => w.i = 0

ReaderStates ==
  [at : {"isEmpty", "lock", "wait", "asleep", "awake"} \cup Reading \cup Moved,
   ptr : Nat, slot : Nat, hdr : Int, pay : Int, want : Nat]

ReaderTypes == r \in [Readers -> ReaderStates]

\* The packet that is being written will be counted.
WillCount == w.at \notin {"idle", "lock", "notify"} => writeCnt < MaxWrites

\* What isEmpty said holds until the reader marks its own buffer empty.
HasPacket == \A i \in Readers : r[i].at \in Reading \cup (Moved \ {"clearFull"}) => ~empty[i]

\* Packets that writePtr has passed.
Passed == writeCnt + (IF w.at \in Passing THEN 1 ELSE 0)

\* How many packets ago a slot was written.
Age(s) == IF s < writePtr THEN writePtr - s ELSE writePtr - s + Size

Packet(n) == [hdr |-> n, pay |-> n]

\* Every slot has the last packet that was written to it, but the one in progress.
SlotsHold ==
  /\ \A s \in Slots :
       \/ w.at \in {"payload", "advance"} /\ s = writePtr
       \/ Passed - Age(s) < 0
       \/ data[s] = Packet(Passed - Age(s))
  /\ w.at \in {"payload", "advance"} => data[writePtr].hdr = writeCnt
  /\ w.at = "advance" => data[writePtr].pay = writeCnt

(***************************************************************************)
(* What holds of a reader whose doneReading never ran during a call of the *)
(* writer, while its iterator is in the vector, or at the end where the    *)
(* reader itself will wrap it.                                             *)
(***************************************************************************)

\* The packet that the iterator is at.
NextPos(i) == Pos(i) + (IF r[i].at \in Moved THEN 1 ELSE 0)
Pending(i) == Passed - NextPos(i)

InVector(i) == readPtr[i] \in Slots \/ (r[i].at \in {"atEnd", "wrap"} /\ readPtr[i] = Size)

\* How far the writer's loops are.
Taken(i) ==
  \/ w.at \in Taking /\ i < w.i
  \/ w.at \in Copying \cup {"wrap"}
  \/ w.at \in {"compare", "setFull"} /\ i >= w.i
Compared(i) == w.at = "fill" \/ (w.at \in {"compare", "setFull"} /\ i < w.i)
Filled(i) == w.at = "fill" /\ i < w.i

Separate(i) == ~(w.at \in WriterInCall /\ r[i].at \in InDoneReading)

\* What was loaded is still there when it is used.
RegistersHold(i) ==
  /\ w.at = "takeStore" /\ w.i = i => w.tmp = readPtr[i]
  /\ r[i].at \in {"store", "compareWrite"} => r[i].ptr = readPtr[i]
  /\ r[i].at = "wrap" => readPtr[i] = Size

PositionFits(i) ==
  /\ NextPos(i) <= writeCnt /\ Passed - Pos(i) <= Size
  /\ Pending(i) = writePtr - readPtr[i] \/ Pending(i) = writePtr - readPtr[i] + Size

EmptyFits(i) ==
  /\ r[i].at = "setEmpty" => Pending(i) = 0
  /\ r[i].at = "clearFull" => (empty[i] <=> Pending(i) = 0)
  /\ r[i].at \notin Moved => (empty[i] <=> ~Filled(i) /\ writeCnt = Pos(i))

FullFits(i) ==
  /\ Taken(i) => writeCnt - Pos(i) < Size /\ (full[i] => writeCnt - Pos(i) = Size - 1)
  /\ Compared(i) => (full[i] <=> writeCnt + 1 - Pos(i) = Size)
  /\ ~Taken(i) /\ ~Compared(i) => (full[i] <=> writeCnt - Pos(i) = Size)
  /\ w.at \in {"takeLoad", "takeStore"} /\ w.i = i => full[i]
  /\ w.at = "setFull" /\ w.i = i => readPtr[i] = writePtr

\* What was read so far of a packet that is still the reader's turn.
ReadSoFar(i) ==
  r[i].at \in {"header", "payload", "inc"} =>
    /\ r[i].want <= Pos(i)
    /\ r[i].slot \in Slots /\ r[i].want = Pos(i) =>
         /\ r[i].slot = readPtr[i]
         /\ r[i].at \in {"payload", "inc"} => r[i].hdr = r[i].want
         /\ r[i].at = "inc" => r[i].pay = r[i].want

Apart(i) ==
  /\ Separate(i) /\ RegistersHold(i) /\ ReadSoFar(i)
  /\ InVector(i) => PositionFits(i) /\ EmptyFits(i) /\ FullFits(i)

IInv ==
  /\ TypeOK /\ WriterTypes /\ ReaderTypes
  /\ WillCount /\ HasPacket /\ NoReadOverflow /\ SlotsHold
  /\ \A i \in Readers : ~overlap[i] => Apart(i)

-----------------------------------------------------------------------------
(***************************************************************************)
(* Types.                                                                  *)
(***************************************************************************)

LEMMA SizeFacts ==
  /\ Size \in Nat \ {0} /\ NumReaders \in Nat \ {0} /\ MaxWrites \in Nat
  /\ 0 \in Readers /\ 0 \in Slots
  /\ \A i \in Readers : i \in Nat /\ i # Free /\ i # WriterThread
  /\ WriterThread # Free
BY SizesAssumption, BoundAssumption DEF Readers, Slots, Free, WriterThread

LEMMA InitFacts == Init => IInv
<1> SUFFICES ASSUME Init
             PROVE  IInv
  OBVIOUS
<1>1. NotReading \in ReaderStates /\ NotReading.at = "isEmpty"
  BY DEF NotReading, ReaderStates, Blank
<1>2. \A i \in Readers : r[i] = NotReading
  BY DEF Init
<1>3. WriterTypes /\ ReaderTypes /\ WillCount /\ HasPacket /\ NoReadOverflow
  BY <1>1, <1>2, SizeFacts
     DEF Init, WriterTypes, ReaderTypes, WillCount, HasPacket, NoReadOverflow, Reading, Moved
<1>4. TypeOK
  BY <1>1, <1>2, SizeFacts DEF Init, TypeOK, Slots, Blank, Free
<1>5. SlotsHold
  BY SizeFacts DEF Init, SlotsHold, Passed, Passing, Age, Slots
<1>6. ASSUME NEW i \in Readers
      PROVE  Apart(i)
  <2>1. Separate(i) /\ RegistersHold(i) /\ ReadSoFar(i)
    BY <1>1, <1>2 DEF Init, Separate, RegistersHold, ReadSoFar, WriterInCall
  <2>2. PositionFits(i)
    <3>1. Pos(i) = 0 /\ Passed = 0 /\ writePtr = 0 /\ readPtr[i] = 0 /\ writeCnt = 0
      BY DEF Init, Pos, Passed, Passing
    <3>2. NextPos(i) = 0
      BY <1>1, <1>2, <3>1 DEF NextPos, Moved
    <3> QED
      BY <3>1, <3>2, SizeFacts DEF PositionFits, Pending
  <2>3. EmptyFits(i)
    BY <1>1, <1>2, SizeFacts DEF Init, EmptyFits, Filled, Pos, Moved
  <2>4. FullFits(i)
    BY SizeFacts
       DEF Init, FullFits, Taken, Compared, Taking, Copying, Pos
  <2> QED
    BY <2>1, <2>2, <2>3, <2>4 DEF Apart
<1> QED
  BY <1>3, <1>4, <1>5, <1>6 DEF IInv

\* The next turn of a loop of the writer.
LEMMA LoopFacts ==
  ASSUME WriterTypes, NEW a, NEW b, w' = WriterLoop(a, b)
  PROVE  \/ /\ w' = [at |-> a, i |-> w.i + 1, tmp |-> 0] /\ w.i + 1 \in Readers
            /\ w'.at = a /\ w'.i = w.i + 1
         \/ /\ w' = [at |-> b, i |-> 0, tmp |-> 0]
            /\ w'.at = b /\ w'.i = 0 /\ w.i + 1 = NumReaders
BY SizeFacts DEF WriterLoop, WriterTypes, Readers

LEMMA WriterTypesNext ==
  ASSUME TypeOK, WriterTypes, ReaderTypes, WillCount, WriterStep \/ NewPacketStep
  PROVE  (TypeOK /\ WriterTypes /\ ReaderTypes /\ WillCount)'
<1>1. r' = r /\ UNCHANGED <<readCnt, ROFCnt>>
  BY DEF WriterStep, NewPacketStep, NewPacket, TestFull, LoadReadPtr, StoreReadPtr, CopyHeader,
         CopyData, AdvanceWritePtr, WrapWritePtr, CompareReadPtr, SetFull, FillEmpty,
         LockToNotify, NotifyAll, shared
<1>2. (WriterTypes /\ WillCount)'
  <2>1. CASE NewPacketStep
    BY <2>1, SizeFacts
       DEF NewPacketStep, NewPacket, WriterTypes, WillCount, Taking, Copying, Passing, shared
  <2>2. CASE TestFull
    <3>1. w.at = "take" /\ writeCnt' = writeCnt
          /\ (w' = [w EXCEPT !.at = "takeLoad"] \/ w' = WriterLoop("take", "header"))
      BY <2>2 DEF TestFull, shared
    <3>2. CASE w' = [w EXCEPT !.at = "takeLoad"]
      BY <3>1, <3>2 DEF WriterTypes, WillCount, Taking, Copying, Passing
    <3>3. CASE w' = WriterLoop("take", "header")
      BY <3>1, <3>3, LoopFacts, SizeFacts DEF WriterTypes, WillCount, Taking, Copying, Passing
    <3> QED
      BY <3>1, <3>2, <3>3
  <2>3. CASE LoadReadPtr
    BY <2>3 DEF LoadReadPtr, WriterTypes, WillCount, Taking, Copying, Passing, shared, TypeOK
  <2>4. CASE StoreReadPtr
    BY <2>4, LoopFacts, SizeFacts DEF StoreReadPtr, WriterTypes, WillCount, Taking, Copying, Passing
  <2>5. CASE CopyHeader \/ CopyData \/ AdvanceWritePtr \/ WrapWritePtr
    BY <2>5 DEF CopyHeader, CopyData, AdvanceWritePtr, WrapWritePtr, WriterTypes, WillCount,
                Taking, Copying, Passing
  <2>6. CASE CompareReadPtr
    <3>1. w.at = "compare" /\ writeCnt' = writeCnt
          /\ (w' = [w EXCEPT !.at = "setFull"] \/ w' = WriterLoop("compare", "fill"))
      BY <2>6 DEF CompareReadPtr, shared
    <3>2. CASE w' = [w EXCEPT !.at = "setFull"]
      BY <3>1, <3>2 DEF WriterTypes, WillCount, Taking, Copying, Passing
    <3>3. CASE w' = WriterLoop("compare", "fill")
      BY <3>1, <3>3, LoopFacts, SizeFacts DEF WriterTypes, WillCount, Taking, Copying, Passing
    <3> QED
      BY <3>1, <3>2, <3>3
  <2>7. CASE SetFull
    BY <2>7, LoopFacts, SizeFacts DEF SetFull, WriterTypes, WillCount, Taking, Copying, Passing
  <2>8. CASE FillEmpty
    BY <2>8, LoopFacts, SizeFacts DEF FillEmpty, WriterTypes, WillCount, Taking, Copying, Passing
  <2>9. CASE LockToNotify \/ NotifyAll
    BY <2>9 DEF LockToNotify, NotifyAll, WriterTypes, WillCount, Taking, Copying, Passing, shared
  <2> QED
    BY <2>1, <2>2, <2>3, <2>4, <2>5, <2>6, <2>7, <2>8, <2>9 DEF WriterStep
<1>3. data' \in [Slots -> [hdr : Nat \cup {Blank}, pay : Nat \cup {Blank}]]
  <2>1. writeCnt \in Nat
    BY SizeFacts DEF TypeOK
  <2>2. data' = data \/ data' = [data EXCEPT ![writePtr].hdr = writeCnt]
        \/ data' = [data EXCEPT ![writePtr].pay = writeCnt]
    BY DEF WriterStep, NewPacketStep, NewPacket, TestFull, LoadReadPtr, StoreReadPtr, CopyHeader,
           CopyData, AdvanceWritePtr, WrapWritePtr, CompareReadPtr, SetFull, FillEmpty,
           LockToNotify, NotifyAll, shared
  <2> QED
    BY <2>1, <2>2 DEF TypeOK
<1>4. writePtr' \in 0 .. Size /\ (writePtr' = Size <=> w'.at = "wrap")
  <2>1. CASE AdvanceWritePtr
    <3>1. /\ w.at = "advance" /\ writePtr' = writePtr + 1
          /\ w'.at = IF writePtr + 1 = Size THEN "wrap" ELSE "compare"
      BY <2>1 DEF AdvanceWritePtr, WriterTypes, AtEnd
    <3>2. writePtr \in 0 .. Size /\ writePtr # Size
      BY <3>1 DEF TypeOK
    <3> QED
      BY <3>1, <3>2, SizeFacts
  <2>2. CASE WrapWritePtr
    BY <2>2, SizeFacts DEF WrapWritePtr, WriterTypes, TypeOK
  <2>3. CASE NewPacketStep \/ LoadReadPtr \/ CopyHeader \/ CopyData \/ LockToNotify \/ NotifyAll
    BY <2>3 DEF NewPacketStep, NewPacket, LoadReadPtr, CopyHeader, CopyData, LockToNotify, NotifyAll,
                WriterTypes, TypeOK, shared
  <2>4. CASE TestFull \/ CompareReadPtr
    <3>1. /\ writePtr' = writePtr /\ w.at # "wrap"
          /\ \/ w' = [w EXCEPT !.at = "takeLoad"] \/ w' = [w EXCEPT !.at = "setFull"]
             \/ w' = WriterLoop("take", "header") \/ w' = WriterLoop("compare", "fill")
      BY <2>4 DEF TestFull, CompareReadPtr, shared
    <3>2. w'.at # "wrap"
      <4>1. CASE w' = [w EXCEPT !.at = "takeLoad"] \/ w' = [w EXCEPT !.at = "setFull"]
        BY <4>1 DEF WriterTypes
      <4>2. CASE w' = WriterLoop("take", "header") \/ w' = WriterLoop("compare", "fill")
        BY <4>2, LoopFacts
      <4> QED
        BY <3>1, <4>1, <4>2
    <3> QED
      BY <3>1, <3>2 DEF TypeOK
  <2>5. CASE StoreReadPtr \/ SetFull \/ FillEmpty
    BY <2>5, LoopFacts DEF StoreReadPtr, SetFull, FillEmpty, TypeOK
  <2> QED
    BY <2>1, <2>2, <2>3, <2>4, <2>5 DEF WriterStep
<1>5. /\ readPtr' \in [Readers -> Nat] /\ OWCnt' \in [Readers -> Nat]
      /\ full' \in [Readers -> BOOLEAN] /\ empty' \in [Readers -> BOOLEAN]
  <2>1. /\ readPtr' = readPtr \/ readPtr' = [readPtr EXCEPT ![w.i] = w.tmp + 1]
        /\ OWCnt' = OWCnt \/ OWCnt' = [OWCnt EXCEPT ![w.i] = @ + 1]
        /\ full' = full \/ full' = [full EXCEPT ![w.i] = TRUE]
        /\ empty' = empty \/ empty' = [empty EXCEPT ![w.i] = FALSE]
    BY DEF WriterStep, NewPacketStep, NewPacket, TestFull, LoadReadPtr, StoreReadPtr, CopyHeader,
           CopyData, AdvanceWritePtr, WrapWritePtr, CompareReadPtr, SetFull, FullSet, FillEmpty,
           LockToNotify, NotifyAll, shared
  <2>2. w.tmp \in Nat
    BY DEF WriterTypes
  <2>3. /\ readPtr \in [Readers -> Nat] /\ OWCnt \in [Readers -> Nat]
        /\ full \in [Readers -> BOOLEAN] /\ empty \in [Readers -> BOOLEAN]
    BY DEF TypeOK
  <2>4. readPtr' \in [Readers -> Nat]
    BY <2>1, <2>2, <2>3
  <2>5. OWCnt' \in [Readers -> Nat]
    BY <2>1, <2>3
  <2>6. full' \in [Readers -> BOOLEAN]
    BY <2>1, <2>3
  <2>7. empty' \in [Readers -> BOOLEAN]
    BY <2>1, <2>3
  <2> QED
    BY <2>4, <2>5, <2>6, <2>7
<1>6. writeCnt' \in 0 .. MaxWrites
  <2>1. writeCnt' = writeCnt \/ (w.at = "fill" /\ writeCnt' = writeCnt + 1)
    BY DEF WriterStep, NewPacketStep, NewPacket, TestFull, LoadReadPtr, StoreReadPtr, CopyHeader,
           CopyData, AdvanceWritePtr, WrapWritePtr, CompareReadPtr, SetFull, FillEmpty,
           LockToNotify, NotifyAll, shared
  <2> QED
    BY <2>1, SizeFacts DEF WillCount, TypeOK
<1>7. /\ waiting' \subseteq {i \in Readers : r'[i].at = "asleep"}
      /\ mutex' \in Readers \cup {Free, WriterThread}
      /\ mutex' = WriterThread <=> w'.at = "notify"
      /\ \A i \in Readers : mutex' = i <=> r'[i].at \in {"wait", "awake"}
  <2>1. CASE LockToNotify
    BY <1>1, <2>1, SizeFacts DEF LockToNotify, WriterTypes, TypeOK
  <2>2. CASE NotifyAll
    BY <1>1, <2>2, SizeFacts DEF NotifyAll, WriterTypes, TypeOK
  <2>3. CASE ~LockToNotify /\ ~NotifyAll
    <3>1. mutex' = mutex /\ waiting' = waiting /\ w.at # "notify"
      BY <2>3 DEF WriterStep, NewPacketStep, NewPacket, TestFull, LoadReadPtr, StoreReadPtr, CopyHeader,
           CopyData, AdvanceWritePtr, WrapWritePtr, CompareReadPtr, SetFull, FillEmpty
    <3>2. w'.at # "notify"
      <4>1. CASE NewPacketStep \/ LoadReadPtr \/ CopyHeader \/ CopyData \/ AdvanceWritePtr \/ WrapWritePtr
        BY <4>1 DEF NewPacketStep, NewPacket, LoadReadPtr, CopyHeader, CopyData, AdvanceWritePtr,
                    WrapWritePtr, WriterTypes
      <4>2. CASE TestFull \/ CompareReadPtr
        <5>1. \/ w' = [w EXCEPT !.at = "takeLoad"] \/ w' = [w EXCEPT !.at = "setFull"]
              \/ w' = WriterLoop("take", "header") \/ w' = WriterLoop("compare", "fill")
          BY <4>2 DEF TestFull, CompareReadPtr
        <5>2. CASE w' = [w EXCEPT !.at = "takeLoad"] \/ w' = [w EXCEPT !.at = "setFull"]
          BY <5>2 DEF WriterTypes
        <5>3. CASE w' = WriterLoop("take", "header") \/ w' = WriterLoop("compare", "fill")
          BY <5>3, LoopFacts
        <5> QED
          BY <5>1, <5>2, <5>3
      <4>3. CASE StoreReadPtr \/ SetFull \/ FillEmpty
        BY <4>3, LoopFacts DEF StoreReadPtr, SetFull, FillEmpty
      <4> QED
        BY <2>3, <4>1, <4>2, <4>3 DEF WriterStep
    <3> QED
      BY <1>1, <3>1, <3>2 DEF TypeOK
  <2> QED
    BY <2>1, <2>2, <2>3
<1>8. overlap' \in [Readers -> BOOLEAN]
  BY DEF WriterStep, NewPacketStep, OverlapWith, TypeOK
<1>9. readCnt' \in [Readers -> Nat] /\ ROFCnt' \in [Readers -> Nat]
  BY <1>1 DEF TypeOK
<1>10. TypeOK'
  BY <1>3, <1>4, <1>5, <1>6, <1>7, <1>8, <1>9 DEF TypeOK, Slots, Readers
<1>11. ReaderTypes'
  BY <1>1 DEF ReaderTypes
<1> QED
  BY <1>2, <1>10, <1>11

\* What a reader's step leaves alone, and what it does to its own state.
LEMMA ReaderFrame ==
  ASSUME TypeOK, ReaderTypes, NEW i \in Readers, ReaderStep(i) \/ TimeOutStep(i) \/ ThrowStep(i)
  PROVE  /\ UNCHANGED <<data, writePtr, writeCnt, OWCnt, w>>
         /\ readPtr' \in [Readers -> Nat] /\ readCnt' \in [Readers -> Nat]
         /\ ROFCnt' \in [Readers -> Nat]
         /\ full' \in [Readers -> BOOLEAN] /\ empty' \in [Readers -> BOOLEAN]
         /\ \A j \in Readers \ {i} :
              /\ readPtr'[j] = readPtr[j] /\ full'[j] = full[j] /\ empty'[j] = empty[j]
              /\ readCnt'[j] = readCnt[j] /\ ROFCnt'[j] = ROFCnt[j] /\ r'[j] = r[j]
         /\ r' \in [Readers -> ReaderStates]
<1>1. UNCHANGED <<data, writePtr, writeCnt, OWCnt, w>>
  BY DEF ReaderStep, TimeOutStep, ThrowStep, TimeOut, ProcessingThrows, IsEmpty, LockToWait, WaitFor,
         WakeUp, Unlock, TestEmpty, LoadSlot, ReadHeader, ReadPayload, LoadToIncrement,
         StoreIncremented, CompareEnd, WrapReadPtr, LoadToCompare, CompareWritePtr, SetEmpty,
         ClearFull, shared
<1>2. /\ \/ readPtr' = readPtr \/ readPtr' = [readPtr EXCEPT ![i] = r[i].ptr + 1]
         \/ readPtr' = [readPtr EXCEPT ![i] = 0]
      /\ full' = full \/ full' = [full EXCEPT ![i] = FALSE]
      /\ empty' = empty \/ empty' = [empty EXCEPT ![i] = TRUE]
      /\ readCnt' = readCnt \/ readCnt' = [readCnt EXCEPT ![i] = @ + 1]
      /\ ROFCnt' = ROFCnt \/ ROFCnt' = [ROFCnt EXCEPT ![i] = @ + 1]
  BY DEF ReaderStep, TimeOutStep, ThrowStep, TimeOut, ProcessingThrows, IsEmpty, LockToWait, WaitFor,
         WakeUp, Unlock, TestEmpty, LoadSlot, ReadHeader, ReadPayload, LoadToIncrement,
         StoreIncremented, CompareEnd, WrapReadPtr, LoadToCompare, CompareWritePtr, SetEmpty,
         ClearFull, FullCleared, EmptySet, shared
<1>3. /\ readPtr \in [Readers -> Nat] /\ readCnt \in [Readers -> Nat] /\ ROFCnt \in [Readers -> Nat]
      /\ full \in [Readers -> BOOLEAN] /\ empty \in [Readers -> BOOLEAN]
      /\ writeCnt \in Nat /\ OWCnt \in [Readers -> Nat]
      /\ data \in [Slots -> [hdr : Nat \cup {Blank}, pay : Nat \cup {Blank}]]
  BY SizeFacts DEF TypeOK
<1>4. /\ r \in [Readers -> ReaderStates] /\ r[i].ptr \in Nat /\ readPtr[i] \in Nat
      /\ readCnt[i] \in Nat /\ OWCnt[i] \in Nat
  BY <1>3 DEF ReaderTypes, ReaderStates
<1>5. readPtr' \in [Readers -> Nat] /\ \A j \in Readers \ {i} : readPtr'[j] = readPtr[j]
  <2>1. r[i].ptr + 1 \in Nat /\ 0 \in Nat
    BY <1>4
  <2> QED
    BY <1>2, <1>3, <2>1
<1>6. full' \in [Readers -> BOOLEAN] /\ \A j \in Readers \ {i} : full'[j] = full[j]
  BY <1>2, <1>3
<1>7. empty' \in [Readers -> BOOLEAN] /\ \A j \in Readers \ {i} : empty'[j] = empty[j]
  BY <1>2, <1>3
<1>8. readCnt' \in [Readers -> Nat] /\ \A j \in Readers \ {i} : readCnt'[j] = readCnt[j]
  BY <1>2, <1>3
<1>9. ROFCnt' \in [Readers -> Nat] /\ \A j \in Readers \ {i} : ROFCnt'[j] = ROFCnt[j]
  BY <1>2, <1>3
<1>10. r' \in [Readers -> ReaderStates] /\ \A j \in Readers \ {i} : r'[j] = r[j]
  <2>1. ASSUME NEW a \in {"isEmpty", "lock", "wait", "asleep", "awake"} \cup Reading \cup Moved, Goes(i, a)
        PROVE  r' \in [Readers -> ReaderStates] /\ \A j \in Readers \ {i} : r'[j] = r[j]
    BY <1>4, <2>1 DEF Goes, ReaderStates
  <2>2. CASE \/ IsEmpty(i) \/ LockToWait(i) \/ WaitFor(i) \/ WakeUp(i) \/ Unlock(i)
             \/ StoreIncremented(i) \/ CompareEnd(i) \/ WrapReadPtr(i) \/ CompareWritePtr(i)
             \/ SetEmpty(i)
    <3>1. \E a \in {"isEmpty", "lock", "wait", "asleep", "awake"} \cup Reading \cup Moved : Goes(i, a)
      BY <2>2 DEF IsEmpty, LockToWait, WaitFor, WakeUp, Unlock, StoreIncremented, CompareEnd,
                  WrapReadPtr, CompareWritePtr, SetEmpty, Reading, Moved
    <3> QED
      BY <2>1, <3>1
  <2>3. NotReading \in ReaderStates
    BY DEF NotReading, ReaderStates, Blank
  <2>4. CASE TestEmpty(i) \/ ClearFull(i) \/ ThrowStep(i)
    <3>1. r' = [r EXCEPT ![i] = NotReading] \/ Goes(i, "load")
      BY <2>4 DEF TestEmpty, ClearFull, ThrowStep, ProcessingThrows
    <3> QED
      BY <1>4, <2>1, <2>3, <3>1 DEF Reading
  <2>5. CASE TimeOutStep(i)
    BY <1>4, <2>5 DEF TimeOutStep, TimeOut
  <2>6. CASE LoadSlot(i)
    <3>1. r' = [r EXCEPT ![i] = [r[i] EXCEPT !.at = "header", !.slot = readPtr[i], !.want = Pos(i)]]
      BY <2>6 DEF LoadSlot
    <3>2. Pos(i) \in Nat
      BY <1>4 DEF Pos
    <3> QED
      BY <1>4, <3>1, <3>2 DEF ReaderStates, Reading
  <2>7. CASE ReadHeader(i) \/ ReadPayload(i)
    <3> DEFINE h == IF r[i].slot \in Slots THEN data[r[i].slot].hdr ELSE Garbage
               y == IF r[i].slot \in Slots THEN data[r[i].slot].pay ELSE Garbage
    <3>1. \/ r' = [r EXCEPT ![i].at = "payload", ![i].hdr = h]
          \/ r' = [r EXCEPT ![i].at = "inc", ![i].pay = y]
      BY <2>7 DEF ReadHeader, ReadPayload
    <3>2. h \in Int /\ y \in Int
      BY <1>3 DEF Blank, Garbage
    <3> HIDE DEF h, y
    <3> QED
      BY <1>4, <3>1, <3>2 DEF ReaderStates, Reading
  <2>8. CASE LoadToIncrement(i) \/ LoadToCompare(i)
    BY <1>4, <2>8 DEF LoadToIncrement, LoadToCompare, ReaderStates, Reading, Moved
  <2> QED
    BY <2>2, <2>4, <2>5, <2>6, <2>7, <2>8 DEF ReaderStep
<1> QED
  BY <1>1, <1>5, <1>6, <1>7, <1>8, <1>9, <1>10

\* Where a reader goes, and with what in its registers.
LEMMA ReaderMoves ==
  ASSUME ReaderTypes, NEW i \in Readers
  PROVE  /\ \A a : Goes(i, a) =>
              /\ r'[i].at = a /\ r'[i].ptr = r[i].ptr /\ r'[i].slot = r[i].slot
              /\ r'[i].hdr = r[i].hdr /\ r'[i].pay = r[i].pay /\ r'[i].want = r[i].want
         /\ r' = [r EXCEPT ![i] = NotReading] => r'[i].at = "isEmpty"
         /\ LoadSlot(i) => /\ r'[i].at = "header" /\ r'[i].slot = readPtr[i] /\ r'[i].want = Pos(i)
         /\ ReadHeader(i) =>
              /\ r'[i].at = "payload" /\ r'[i].slot = r[i].slot /\ r'[i].want = r[i].want
              /\ r[i].slot \in Slots => r'[i].hdr = data[r[i].slot].hdr
         /\ ReadPayload(i) =>
              /\ r'[i].at = "inc" /\ r'[i].slot = r[i].slot /\ r'[i].want = r[i].want
              /\ r'[i].hdr = r[i].hdr
              /\ r[i].slot \in Slots => r'[i].pay = data[r[i].slot].pay
         /\ LoadToIncrement(i) => r'[i].at = "store" /\ r'[i].ptr = readPtr[i]
         /\ LoadToCompare(i) => r'[i].at = "compareWrite" /\ r'[i].ptr = readPtr[i]
<1> USE DEF ReaderTypes, ReaderStates
<1>1. \A a : Goes(i, a) =>
        /\ r'[i].at = a /\ r'[i].ptr = r[i].ptr /\ r'[i].slot = r[i].slot
        /\ r'[i].hdr = r[i].hdr /\ r'[i].pay = r[i].pay /\ r'[i].want = r[i].want
  BY DEF Goes
<1>2. r' = [r EXCEPT ![i] = NotReading] => r'[i].at = "isEmpty"
  BY DEF NotReading
<1>3. LoadSlot(i) => /\ r'[i].at = "header" /\ r'[i].slot = readPtr[i] /\ r'[i].want = Pos(i)
  BY DEF LoadSlot
<1>4. ReadHeader(i) =>
        /\ r'[i].at = "payload" /\ r'[i].slot = r[i].slot /\ r'[i].want = r[i].want
        /\ r[i].slot \in Slots => r'[i].hdr = data[r[i].slot].hdr
  BY DEF ReadHeader
<1>5. ReadPayload(i) =>
        /\ r'[i].at = "inc" /\ r'[i].slot = r[i].slot /\ r'[i].want = r[i].want
        /\ r'[i].hdr = r[i].hdr
        /\ r[i].slot \in Slots => r'[i].pay = data[r[i].slot].pay
  BY DEF ReadPayload
<1>6. LoadToIncrement(i) => r'[i].at = "store" /\ r'[i].ptr = readPtr[i]
  BY DEF LoadToIncrement
<1>7. LoadToCompare(i) => r'[i].at = "compareWrite" /\ r'[i].ptr = readPtr[i]
  BY DEF LoadToCompare
<1> QED
  BY <1>1, <1>2, <1>3, <1>4, <1>5, <1>6, <1>7

LEMMA ReaderTypesNext ==
  ASSUME TypeOK, WriterTypes, ReaderTypes, WillCount,
         NEW i \in Readers, ReaderStep(i) \/ TimeOutStep(i) \/ ThrowStep(i)
  PROVE  (TypeOK /\ WriterTypes /\ ReaderTypes /\ WillCount)'
<1>1. /\ UNCHANGED <<data, writePtr, writeCnt, OWCnt, w>>
      /\ readPtr' \in [Readers -> Nat] /\ readCnt' \in [Readers -> Nat]
      /\ ROFCnt' \in [Readers -> Nat]
      /\ full' \in [Readers -> BOOLEAN] /\ empty' \in [Readers -> BOOLEAN]
      /\ \A j \in Readers \ {i} : r'[j] = r[j]
      /\ r' \in [Readers -> ReaderStates]
  BY ReaderFrame
<1>2. (WriterTypes /\ ReaderTypes /\ WillCount)'
  BY <1>1 DEF WriterTypes, ReaderTypes, WillCount
<1>3. overlap' \in [Readers -> BOOLEAN]
  BY DEF ReaderStep, TimeOutStep, ThrowStep, OverlapWith, TypeOK
<1>4. /\ mutex \in Readers \cup {Free, WriterThread}
      /\ mutex = WriterThread <=> w.at = "notify"
      /\ \A j \in Readers : mutex = j <=> r[j].at \in {"wait", "awake"}
      /\ waiting \subseteq {j \in Readers : r[j].at = "asleep"}
      /\ i # Free /\ i # WriterThread /\ WriterThread # Free /\ \A j \in Readers : j # Free
      /\ r \in [Readers -> ReaderStates]
  BY SizeFacts DEF TypeOK, ReaderTypes
<1>5. ASSUME NEW a, Goes(i, a)
      PROVE  r'[i].at = a
  BY <1>4, <1>5 DEF Goes, ReaderStates
<1>6. /\ waiting' \subseteq {j \in Readers : r'[j].at = "asleep"}
      /\ mutex' \in Readers \cup {Free, WriterThread}
      /\ mutex' = WriterThread <=> w'.at = "notify"
      /\ \A j \in Readers : mutex' = j <=> r'[j].at \in {"wait", "awake"}
  <2>1. CASE LockToWait(i)
    BY <1>1, <1>4, <1>5, <2>1 DEF LockToWait
  <2>2. CASE WaitFor(i)
    BY <1>1, <1>4, <1>5, <2>2 DEF WaitFor, MutexInWait
  <2>3. CASE WakeUp(i)
    BY <1>1, <1>4, <1>5, <2>3 DEF WakeUp
  <2>4. CASE Unlock(i)
    BY <1>1, <1>4, <1>5, <2>4 DEF Unlock
  <2>5. CASE TimeOutStep(i)
    BY <1>1, <1>4, <2>5 DEF TimeOutStep, TimeOut
  <2>6. CASE \/ IsEmpty(i) \/ TestEmpty(i) \/ LoadSlot(i) \/ ReadHeader(i) \/ ReadPayload(i)
             \/ LoadToIncrement(i) \/ StoreIncremented(i) \/ CompareEnd(i) \/ WrapReadPtr(i)
             \/ LoadToCompare(i) \/ CompareWritePtr(i) \/ SetEmpty(i) \/ ClearFull(i)
             \/ ThrowStep(i)
    <3>1. mutex' = mutex /\ waiting' = waiting
      BY <2>6 DEF IsEmpty, TestEmpty, LoadSlot, ReadHeader, ReadPayload, LoadToIncrement,
                  StoreIncremented, CompareEnd, WrapReadPtr, LoadToCompare, CompareWritePtr,
                  SetEmpty, ClearFull, ThrowStep, ProcessingThrows
    <3>2. r[i].at \notin {"wait", "awake", "asleep"}
      BY <2>6 DEF IsEmpty, TestEmpty, LoadSlot, ReadHeader, ReadPayload, LoadToIncrement,
                  StoreIncremented, CompareEnd, WrapReadPtr, LoadToCompare, CompareWritePtr,
                  SetEmpty, ClearFull, ThrowStep, ProcessingThrows
    <3>3. r'[i].at \notin {"wait", "awake"}
      <4>1. CASE \/ IsEmpty(i) \/ StoreIncremented(i) \/ CompareEnd(i) \/ WrapReadPtr(i)
                 \/ CompareWritePtr(i) \/ SetEmpty(i)
        BY <1>5, <4>1 DEF IsEmpty, StoreIncremented, CompareEnd, WrapReadPtr, CompareWritePtr, SetEmpty
      <4>2. CASE TestEmpty(i) \/ ClearFull(i) \/ ThrowStep(i)
        BY <1>4, <1>5, <4>2 DEF TestEmpty, ClearFull, ThrowStep, ProcessingThrows, NotReading
      <4>3. CASE LoadSlot(i) \/ ReadHeader(i) \/ ReadPayload(i) \/ LoadToIncrement(i) \/ LoadToCompare(i)
        BY <4>3, ReaderMoves
      <4> QED
        BY <2>6, <4>1, <4>2, <4>3
    <3> QED
      BY <1>1, <1>4, <3>1, <3>2, <3>3
  <2> QED
    BY <2>1, <2>2, <2>3, <2>4, <2>5, <2>6 DEF ReaderStep
<1> QED
  BY <1>1, <1>2, <1>3, <1>6 DEF TypeOK

-----------------------------------------------------------------------------
(***************************************************************************)
(* The slots, and what isEmpty said.                                       *)
(***************************************************************************)

LEMMA HasPacketNext ==
  ASSUME TypeOK, WriterTypes, ReaderTypes, HasPacket, NoReadOverflow, [Next]_vars
  PROVE  (HasPacket /\ NoReadOverflow)'
<1>1. CASE WriterStep \/ NewPacketStep
  <2>1. r' = r /\ ROFCnt' = ROFCnt /\ (empty' = empty \/ empty' = [empty EXCEPT ![w.i] = FALSE])
    BY <1>1 DEF WriterStep, NewPacketStep, NewPacket, TestFull, LoadReadPtr, StoreReadPtr, CopyHeader,
           CopyData, AdvanceWritePtr, WrapWritePtr, CompareReadPtr, SetFull, FillEmpty,
           LockToNotify, NotifyAll, shared
  <2>2. \A i \in Readers : empty'[i] => empty[i]
    BY <2>1 DEF TypeOK
  <2> QED
    BY <2>1, <2>2 DEF HasPacket, NoReadOverflow
<1>2. ASSUME NEW i \in Readers, ReaderStep(i) \/ TimeOutStep(i) \/ ThrowStep(i)
      PROVE  (HasPacket /\ NoReadOverflow)'
  <2>1. \A j \in Readers \ {i} : empty'[j] = empty[j] /\ ROFCnt'[j] = ROFCnt[j] /\ r'[j] = r[j]
    BY <1>2, ReaderFrame
  <2>2. (r'[i].at \in Reading \cup (Moved \ {"clearFull"}) => ~empty'[i]) /\ ROFCnt'[i] = 0
    <3>1. /\ r[i].at \in Reading \cup (Moved \ {"clearFull"}) => ~empty[i]
          /\ ROFCnt[i] = 0
      BY DEF HasPacket, NoReadOverflow
    <3>2. CASE TestEmpty(i)
      BY <3>1, <3>2, ReaderMoves DEF TestEmpty, Reading
    <3>3. CASE SetEmpty(i)
      BY <3>1, <3>3, ReaderMoves DEF SetEmpty, Reading, Moved
    <3>4. CASE IsEmpty(i)
      BY <3>1, <3>4, ReaderMoves DEF IsEmpty, Reading, Moved, shared
    <3>5. CASE LockToWait(i) \/ WaitFor(i) \/ WakeUp(i) \/ Unlock(i) \/ ClearFull(i) \/ ThrowStep(i)
      BY <3>1, <3>5, ReaderMoves DEF LockToWait, WaitFor, WakeUp, Unlock, ClearFull, ThrowStep,
           ProcessingThrows, Reading, Moved, shared
    <3>6. CASE TimeOutStep(i)
      BY <3>1, <3>6 DEF TimeOutStep, TimeOut, shared
    <3>7. CASE \/ LoadSlot(i) \/ ReadHeader(i) \/ ReadPayload(i) \/ LoadToIncrement(i)
               \/ StoreIncremented(i) \/ CompareEnd(i) \/ WrapReadPtr(i) \/ LoadToCompare(i)
               \/ CompareWritePtr(i)
      <4>1. r[i].at \in Reading \cup (Moved \ {"clearFull"}) /\ empty' = empty /\ ROFCnt' = ROFCnt
        BY <3>7 DEF LoadSlot, ReadHeader, ReadPayload, LoadToIncrement, StoreIncremented, CompareEnd,
             WrapReadPtr, LoadToCompare, CompareWritePtr, Reading, Moved, shared
      <4> QED
        BY <3>1, <4>1
    <3> QED
      BY <1>2, <3>2, <3>3, <3>4, <3>5, <3>6, <3>7 DEF ReaderStep
  <2> QED
    BY <2>1, <2>2 DEF HasPacket, NoReadOverflow
<1>3. CASE UNCHANGED vars
  BY <1>3 DEF vars, shared, HasPacket, NoReadOverflow
<1> QED
  BY <1>1, <1>2, <1>3 DEF Next

\* How the writer's steps change what SlotsHold is about.
LEMMA SlotsHoldNext ==
  ASSUME TypeOK, WriterTypes, ReaderTypes, SlotsHold, [Next]_vars
  PROVE  SlotsHold'
<1>1. /\ writePtr \in 0 .. Size /\ writeCnt \in Nat /\ Size \in Nat \ {0}
      /\ data \in [Slots -> [hdr : Nat \cup {Blank}, pay : Nat \cup {Blank}]]
      /\ writePtr # Size => writePtr \in Slots
      /\ writePtr = Size <=> w.at = "wrap"
      /\ \A s \in Slots : s \in Nat /\ s < Size
  BY SizeFacts DEF TypeOK, Slots
<1>2. \A s \in Slots : Age(s) \in 1 .. Size /\ (Age(s) = Size => s = writePtr \/ writePtr = Size)
  BY <1>1 DEF Age
<1>3. CASE UNCHANGED <<data, writePtr, writeCnt, w>>
  BY <1>3 DEF SlotsHold, Passed, Age
<1>4. ASSUME UNCHANGED <<data, writePtr, writeCnt>>,
             w.at \notin {"payload", "advance"}, w'.at \notin {"payload", "advance"},
             w.at \in Passing <=> w'.at \in Passing
      PROVE  SlotsHold'
  BY <1>4 DEF SlotsHold, Passed, Age
<1>5. CASE CopyHeader
  <2>1. /\ w.at = "header" /\ w'.at = "payload" /\ writePtr' = writePtr /\ writeCnt' = writeCnt
        /\ data' = [data EXCEPT ![writePtr].hdr = writeCnt]
    BY <1>5 DEF CopyHeader, WriterTypes
  <2>2. writePtr \in Slots
    BY <1>1, <2>1
  <2>3. /\ data'[writePtr].hdr = writeCnt
        /\ \A s \in Slots : s # writePtr => data'[s] = data[s]
    BY <1>1, <2>1, <2>2
  <2>4. Passed' = Passed /\ \A s \in Slots : Age(s)' = Age(s)
    BY <2>1 DEF Passed, Passing, Age
  <2> QED
    BY <2>1, <2>3, <2>4 DEF SlotsHold, Slots
<1>6. CASE CopyData
  <2>1. /\ w.at = "payload" /\ w'.at = "advance" /\ writePtr' = writePtr /\ writeCnt' = writeCnt
        /\ data' = [data EXCEPT ![writePtr].pay = writeCnt]
    BY <1>6 DEF CopyData, WriterTypes
  <2>2. writePtr \in Slots
    BY <1>1, <2>1
  <2>3. /\ data'[writePtr].pay = writeCnt /\ data'[writePtr].hdr = data[writePtr].hdr
        /\ \A s \in Slots : s # writePtr => data'[s] = data[s]
    BY <1>1, <2>1, <2>2
  <2>4. Passed' = Passed /\ \A s \in Slots : Age(s)' = Age(s)
    BY <2>1 DEF Passed, Passing, Age
  <2> QED
    BY <2>1, <2>3, <2>4 DEF SlotsHold, Slots
<1>7. CASE AdvanceWritePtr
  <2>1. /\ w.at = "advance" /\ w'.at \in {"wrap", "compare"} /\ writePtr' = writePtr + 1
        /\ writeCnt' = writeCnt /\ data' = data
    BY <1>7 DEF AdvanceWritePtr, WriterTypes
  <2>2. writePtr \in Slots /\ data[writePtr].hdr = writeCnt /\ data[writePtr].pay = writeCnt
    BY <1>1, <2>1 DEF SlotsHold
  <2>3. Passed = writeCnt /\ Passed' = writeCnt + 1
    BY <1>1, <2>1 DEF Passed, Passing
  <2>4. ASSUME NEW s \in Slots
        PROVE  Passed' - Age(s)' < 0 \/ data'[s] = Packet(Passed' - Age(s)')
    <3>1. CASE s = writePtr
      <4>1. Age(s)' = 1
        BY <1>1, <2>1, <3>1 DEF Age
      <4>2. Passed' - Age(s)' = writeCnt
        BY <1>1, <2>3, <4>1
      <4>3. data[s] = [hdr |-> data[s].hdr, pay |-> data[s].pay]
        BY <1>1
      <4> QED
        BY <2>1, <2>2, <3>1, <4>2, <4>3 DEF Packet
    <3>2. CASE s # writePtr
      <4>1. Age(s)' = Age(s) + 1
        BY <1>1, <2>1, <2>2, <3>2 DEF Age
      <4>2. Passed' - Age(s)' = Passed - Age(s)
        BY <1>1, <1>2, <2>3, <4>1
      <4>3. Passed - Age(s) < 0 \/ data[s] = Packet(Passed - Age(s))
        BY <3>2 DEF SlotsHold
      <4> QED
        BY <2>1, <4>2, <4>3
    <3> QED
      BY <3>1, <3>2
  <2> QED
    BY <2>1, <2>4 DEF SlotsHold, Slots, Packet
<1>8. CASE WrapWritePtr
  <2>1. /\ w.at = "wrap" /\ w'.at = "compare" /\ writePtr = Size /\ writePtr' = 0
        /\ writeCnt' = writeCnt /\ data' = data
    BY <1>1, <1>8 DEF WrapWritePtr, WriterTypes
  <2>2. Passed' = Passed /\ \A s \in Slots : Age(s)' = Age(s)
    BY <1>1, <2>1 DEF Passed, Passing, Age
  <2> QED
    BY <2>1, <2>2 DEF SlotsHold, Slots
<1>9. CASE FillEmpty
  <2>1. w.at = "fill" /\ w' = WriterLoop("fill", "lock") /\ data' = data /\ writePtr' = writePtr
        /\ writeCnt' = IF w'.at = "lock" THEN writeCnt + 1 ELSE writeCnt
    BY <1>9 DEF FillEmpty
  <2>2. w'.at \in {"fill", "lock"}
    BY <2>1, LoopFacts
  <2>3. Passed' = Passed /\ \A s \in Slots : Age(s)' = Age(s)
    BY <2>1, <2>2 DEF Passed, Passing, Age
  <2> QED
    BY <2>1, <2>2, <2>3 DEF SlotsHold, Slots
<1>10. CASE NewPacketStep
  BY <1>4, <1>10 DEF NewPacketStep, NewPacket, shared, Passing, WriterTypes
<1>11. CASE TestFull
  <2>1. /\ w.at = "take" /\ UNCHANGED <<data, writePtr, writeCnt>>
        /\ w' = [w EXCEPT !.at = "takeLoad"] \/ w' = WriterLoop("take", "header")
    BY <1>11 DEF TestFull, shared
  <2>2. w'.at \in {"takeLoad", "take", "header"}
    <3>1. CASE w' = [w EXCEPT !.at = "takeLoad"]
      BY <3>1 DEF WriterTypes
    <3>2. CASE w' = WriterLoop("take", "header")
      BY <3>2, LoopFacts
    <3> QED
      BY <2>1, <3>1, <3>2
  <2> QED
    BY <1>4, <2>1, <2>2 DEF Passing
<1>12. CASE LoadReadPtr
  BY <1>4, <1>12 DEF LoadReadPtr, shared, Passing, WriterTypes
<1>13. CASE StoreReadPtr
  <2>1. w'.at \in {"take", "header"} /\ w.at = "takeStore"
    BY <1>13, LoopFacts DEF StoreReadPtr
  <2> QED
    BY <1>4, <1>13, <2>1 DEF StoreReadPtr, Passing
<1>14. CASE CompareReadPtr
  <2>1. /\ w.at = "compare" /\ UNCHANGED <<data, writePtr, writeCnt>>
        /\ w' = [w EXCEPT !.at = "setFull"] \/ w' = WriterLoop("compare", "fill")
    BY <1>14 DEF CompareReadPtr, shared
  <2>2. w'.at \in Passing \ {"wrap"}
    <3>1. CASE w' = [w EXCEPT !.at = "setFull"]
      BY <3>1 DEF WriterTypes, Passing
    <3>2. CASE w' = WriterLoop("compare", "fill")
      BY <3>2, LoopFacts DEF Passing
    <3> QED
      BY <2>1, <3>1, <3>2
  <2> QED
    BY <1>4, <2>1, <2>2 DEF Passing
<1>15. CASE SetFull
  <2>1. w'.at \in {"compare", "fill"} /\ w.at = "setFull"
    BY <1>15, LoopFacts DEF SetFull
  <2> QED
    BY <1>4, <1>15, <2>1 DEF SetFull, Passing
<1>16. CASE LockToNotify \/ NotifyAll
  BY <1>4, <1>16 DEF LockToNotify, NotifyAll, shared, Passing, WriterTypes
<1>17. ASSUME NEW i \in Readers, ReaderStep(i) \/ TimeOutStep(i) \/ ThrowStep(i)
       PROVE  SlotsHold'
  BY <1>3, <1>17, ReaderFrame
<1>18. CASE UNCHANGED vars
  BY <1>3, <1>18 DEF vars, shared
<1> QED
  BY <1>5, <1>6, <1>7, <1>8, <1>9, <1>10, <1>11, <1>12, <1>13, <1>14, <1>15, <1>16, <1>17, <1>18
     DEF Next, WriterStep

-----------------------------------------------------------------------------
(***************************************************************************)
(* A reader apart from the writer: what the steps of others keep.          *)
(***************************************************************************)

\* What the counters and iterators are for reader i.
LEMMA Counts ==
  ASSUME TypeOK, WriterTypes, ReaderTypes, NEW i \in Readers
  PROVE  /\ Size \in Nat \ {0} /\ writeCnt \in Nat /\ Pos(i) \in Nat /\ readPtr[i] \in Nat
         /\ writePtr \in 0 .. Size /\ (writePtr = Size => w.at = "wrap")
         /\ Passed \in Nat /\ NextPos(i) \in Nat /\ Pending(i) = Passed - NextPos(i)
         /\ Passed = IF w.at \in Passing THEN writeCnt + 1 ELSE writeCnt
         /\ NextPos(i) = IF r[i].at \in Moved THEN Pos(i) + 1 ELSE Pos(i)
         /\ full[i] \in BOOLEAN /\ empty[i] \in BOOLEAN
<1>1. /\ Size \in Nat \ {0} /\ writeCnt \in Nat /\ readCnt[i] \in Nat /\ OWCnt[i] \in Nat
      /\ readPtr[i] \in Nat /\ writePtr \in 0 .. Size /\ (writePtr = Size => w.at = "wrap")
      /\ full[i] \in BOOLEAN /\ empty[i] \in BOOLEAN
  BY SizeFacts DEF TypeOK
<1>2. Pos(i) \in Nat
  BY <1>1 DEF Pos
<1>3. Passed = IF w.at \in Passing THEN writeCnt + 1 ELSE writeCnt
  BY <1>1 DEF Passed
<1>4. NextPos(i) = IF r[i].at \in Moved THEN Pos(i) + 1 ELSE Pos(i)
  BY <1>2 DEF NextPos
<1>5. Passed \in Nat /\ NextPos(i) \in Nat
  BY <1>1, <1>2, <1>3, <1>4
<1> QED
  BY <1>1, <1>2, <1>3, <1>4, <1>5 DEF Pending

\* The three Fits depend on these values only.
LEMMA FitsSame ==
  ASSUME NEW i \in Readers, InVector(i)' => InVector(i),
         InVector(i) => PositionFits(i) /\ EmptyFits(i) /\ FullFits(i),
         writeCnt' = writeCnt, writePtr' = writePtr, readPtr'[i] = readPtr[i],
         full'[i] = full[i], empty'[i] = empty[i],
         Pos(i)' = Pos(i), NextPos(i)' = NextPos(i), Passed' = Passed,
         Taken(i)' <=> Taken(i), Compared(i)' <=> Compared(i), Filled(i)' <=> Filled(i),
         r'[i].at \in Moved <=> r[i].at \in Moved,
         r'[i].at \in {"setEmpty", "clearFull"} => r'[i].at = r[i].at,
         w'.at \in {"takeLoad", "takeStore"} /\ w'.i = i => full[i],
         w'.at = "setFull" /\ w'.i = i => readPtr[i] = writePtr
  PROVE  (InVector(i) => PositionFits(i) /\ EmptyFits(i) /\ FullFits(i))'
<1> SUFFICES ASSUME InVector(i)'
             PROVE  (PositionFits(i) /\ EmptyFits(i) /\ FullFits(i))'
  OBVIOUS
<1>1. PositionFits(i) /\ EmptyFits(i) /\ FullFits(i) /\ Pending(i)' = Pending(i)
  BY DEF Pending
<1>2. PositionFits(i)'
  BY <1>1 DEF PositionFits
<1>3. EmptyFits(i)'
  BY <1>1 DEF EmptyFits
<1>4. FullFits(i)'
  BY <1>1 DEF FullFits
<1> QED
  BY <1>2, <1>3, <1>4

\* A step of another reader.
LEMMA OthersKeepApart ==
  ASSUME TypeOK, ReaderTypes, NEW i \in Readers, NEW j \in Readers \ {i},
         ReaderStep(j) \/ TimeOutStep(j) \/ ThrowStep(j), Apart(i)
  PROVE  Apart(i)'
<1>1. /\ UNCHANGED <<writePtr, writeCnt, OWCnt, w>>
      /\ readPtr'[i] = readPtr[i] /\ full'[i] = full[i] /\ empty'[i] = empty[i]
      /\ readCnt'[i] = readCnt[i] /\ r'[i] = r[i]
  BY ReaderFrame
<1>2. Pos(i)' = Pos(i)
  BY <1>1 DEF Pos
<1>3. NextPos(i)' = NextPos(i) /\ Passed' = Passed
  BY <1>1, <1>2 DEF NextPos, Passed
<1>4. /\ InVector(i)' => InVector(i)
      /\ Taken(i)' <=> Taken(i)
      /\ Compared(i)' <=> Compared(i)
      /\ Filled(i)' <=> Filled(i)
  BY <1>1 DEF InVector, Taken, Compared, Filled
<1>5. (Separate(i) /\ RegistersHold(i) /\ ReadSoFar(i))'
  BY <1>1, <1>2 DEF Apart, Separate, RegistersHold, ReadSoFar
<1>6. (InVector(i) => PositionFits(i) /\ EmptyFits(i) /\ FullFits(i))'
  <2>1. InVector(i) => PositionFits(i) /\ EmptyFits(i) /\ FullFits(i)
    BY DEF Apart
  <2>2. CASE InVector(i)
    <3>1. /\ w'.at \in {"takeLoad", "takeStore"} /\ w'.i = i => full[i]
          /\ w'.at = "setFull" /\ w'.i = i => readPtr[i] = writePtr
      BY <1>1, <2>1, <2>2 DEF FullFits
    <3> QED
      BY <1>1, <1>2, <1>3, <1>4, <2>1, <3>1, FitsSame
  <2> QED
    BY <1>4, <2>2
<1> QED
  BY <1>5, <1>6 DEF Apart

\* A step of the writer, which leaves the reader's own state alone: what the
\* reader read so far stays right unless its iterator is moved.
LEMMA WriterFrame ==
  ASSUME TypeOK, WriterTypes, ReaderTypes, NEW i \in Readers, WriterStep \/ NewPacketStep, Apart(i)
  PROVE  /\ r' = r /\ readCnt' = readCnt
         /\ \/ readPtr'[i] = readPtr[i] /\ Pos(i)' = Pos(i) /\ NextPos(i)' = NextPos(i)
            \/ StoreReadPtr /\ w.i = i
         /\ ReadSoFar(i)'
<1>1. r' = r /\ readCnt' = readCnt /\ (UNCHANGED <<readPtr, OWCnt>> \/ StoreReadPtr)
  BY DEF WriterStep, NewPacketStep, NewPacket, TestFull, LoadReadPtr, StoreReadPtr, CopyHeader,
         CopyData, AdvanceWritePtr, WrapWritePtr, CompareReadPtr, SetFull, FillEmpty,
         LockToNotify, NotifyAll, shared
<1>2. ASSUME UNCHANGED <<readPtr, OWCnt>> \/ (StoreReadPtr /\ w.i # i)
      PROVE  readPtr'[i] = readPtr[i] /\ Pos(i)' = Pos(i) /\ NextPos(i)' = NextPos(i)
  <2>1. readPtr'[i] = readPtr[i] /\ OWCnt'[i] = OWCnt[i]
    BY <1>2 DEF StoreReadPtr, TypeOK, WriterTypes
  <2>2. Pos(i)' = Pos(i)
    BY <1>1, <2>1 DEF Pos
  <2> QED
    BY <1>1, <2>1, <2>2 DEF NextPos
<1>3. ReadSoFar(i)'
  <2>1. CASE UNCHANGED <<readPtr, OWCnt>> \/ (StoreReadPtr /\ w.i # i)
    BY <1>1, <1>2, <2>1 DEF Apart, ReadSoFar
  <2>2. CASE StoreReadPtr /\ w.i = i
    <3>1. OWCnt'[i] = OWCnt[i] + 1 /\ OWCnt[i] \in Nat /\ readCnt[i] \in Nat
      BY <2>2 DEF StoreReadPtr, TypeOK
    <3>2. Pos(i) \in Nat /\ Pos(i)' = Pos(i) + 1
      BY <1>1, <3>1 DEF Pos
    <3>3. r[i].want \in Nat
      BY DEF ReaderTypes, ReaderStates
    <3>4. r[i].at \in {"header", "payload", "inc"} => r[i].want <= Pos(i)
      BY DEF Apart, ReadSoFar
    <3> QED
      BY <1>1, <3>2, <3>3, <3>4 DEF ReadSoFar
  <2> QED
    BY <1>1, <2>1, <2>2
<1> QED
  BY <1>1, <1>2, <1>3

\* What was loaded is still there: nobody else moves the iterator meanwhile.
LEMMA WriterRegisters ==
  ASSUME TypeOK, WriterTypes, ReaderTypes, NEW i \in Readers, WriterStep \/ NewPacketStep, Apart(i)
  PROVE  RegistersHold(i)'
<1>1. RegistersHold(i) /\ Separate(i)
  BY DEF Apart
<1>2. r' = r
  BY WriterFrame
<1>3. r[i].at \in {"store", "compareWrite"} => r[i].ptr = readPtr'[i]
  <2>1. CASE readPtr'[i] = readPtr[i]
    BY <1>1, <2>1 DEF RegistersHold
  <2>2. CASE StoreReadPtr
    BY <1>1, <2>2 DEF StoreReadPtr, Separate, WriterInCall, InDoneReading
  <2> QED
    BY <2>1, <2>2, WriterFrame
<1>4. r[i].at = "wrap" => readPtr'[i] = Size
  <2>1. CASE readPtr'[i] = readPtr[i]
    BY <1>1, <2>1 DEF RegistersHold
  <2>2. CASE StoreReadPtr
    BY <1>1, <2>2 DEF StoreReadPtr, Separate, WriterInCall, InDoneReading
  <2> QED
    BY <2>1, <2>2, WriterFrame
<1>5. w'.at = "takeStore" /\ w'.i = i => w'.tmp = readPtr'[i]
  <2>1. CASE LoadReadPtr
    BY <2>1 DEF LoadReadPtr, WriterTypes, shared
  <2>2. CASE ~LoadReadPtr
    <3>1. w'.at # "takeStore"
      <4>1. CASE TestFull \/ StoreReadPtr \/ CompareReadPtr \/ SetFull \/ FillEmpty
        <5>1. \/ w' = [w EXCEPT !.at = "takeLoad"] \/ w' = [w EXCEPT !.at = "setFull"]
              \/ w' = WriterLoop("take", "header") \/ w' = WriterLoop("compare", "fill")
              \/ w' = WriterLoop("fill", "lock")
          BY <4>1 DEF TestFull, StoreReadPtr, CompareReadPtr, SetFull, FillEmpty
        <5>2. CASE w' = [w EXCEPT !.at = "takeLoad"] \/ w' = [w EXCEPT !.at = "setFull"]
          BY <5>2 DEF WriterTypes
        <5>3. CASE \/ w' = WriterLoop("take", "header") \/ w' = WriterLoop("compare", "fill")
                   \/ w' = WriterLoop("fill", "lock")
          BY <5>3, LoopFacts
        <5> QED
          BY <5>1, <5>2, <5>3
      <4>2. CASE \/ NewPacketStep \/ CopyHeader \/ CopyData \/ AdvanceWritePtr \/ WrapWritePtr
                 \/ LockToNotify \/ NotifyAll
        BY <4>2 DEF NewPacketStep, NewPacket, CopyHeader, CopyData, AdvanceWritePtr, WrapWritePtr,
                    LockToNotify, NotifyAll, WriterTypes
      <4> QED
        BY <2>2, <4>1, <4>2 DEF WriterStep
    <3> QED
      BY <3>1
  <2> QED
    BY <2>1, <2>2
<1> QED
  BY <1>2, <1>3, <1>4, <1>5 DEF RegistersHold

\* The steps of the writer that are about another reader, or about none.
LEMMA WriterElsewhere ==
  ASSUME TypeOK, WriterTypes, ReaderTypes, NEW i \in Readers, Apart(i),
         \/ NewPacketStep \/ LoadReadPtr \/ CopyHeader \/ CopyData \/ LockToNotify \/ NotifyAll
         \/ TestFull /\ (w.i # i \/ full[i])
         \/ StoreReadPtr /\ w.i # i
         \/ CompareReadPtr /\ (w.i # i \/ readPtr[i] = writePtr)
         \/ SetFull /\ w.i # i
         \/ FillEmpty /\ w.i # i /\ w.i + 1 < NumReaders,
         WriterStep \/ NewPacketStep
  PROVE  (InVector(i) => PositionFits(i) /\ EmptyFits(i) /\ FullFits(i))'
<1>1. /\ r' = r /\ readPtr'[i] = readPtr[i] /\ Pos(i)' = Pos(i) /\ NextPos(i)' = NextPos(i)
      /\ InVector(i)' <=> InVector(i)
  <2>1. r' = r /\ readPtr'[i] = readPtr[i] /\ Pos(i)' = Pos(i) /\ NextPos(i)' = NextPos(i)
    <3>1. ~(StoreReadPtr /\ w.i = i)
      BY DEF NewPacketStep, NewPacket, LoadReadPtr, CopyHeader, CopyData, LockToNotify, NotifyAll,
             TestFull, StoreReadPtr, CompareReadPtr, SetFull, FillEmpty
    <3> QED
      BY <3>1, WriterFrame
  <2> QED
    BY <2>1 DEF InVector
<1>2. /\ i \in Nat /\ w.i \in Nat /\ NumReaders \in Nat /\ w.i < NumReaders /\ i < NumReaders
      /\ full \in [Readers -> BOOLEAN] /\ empty \in [Readers -> BOOLEAN]
  <2>1. w.i \in Readers /\ full \in [Readers -> BOOLEAN] /\ empty \in [Readers -> BOOLEAN]
    BY DEF WriterTypes, TypeOK
  <2> QED
    BY <2>1, SizeFacts DEF Readers
<1>3. CASE ~InVector(i)
  BY <1>1, <1>3
<1>4. CASE InVector(i)
  <2>1. PositionFits(i) /\ EmptyFits(i) /\ FullFits(i)
    BY <1>4 DEF Apart
  <2>2. /\ w.at \in {"takeLoad", "takeStore"} /\ w.i = i => full[i]
        /\ w.at = "setFull" /\ w.i = i => readPtr[i] = writePtr
    BY <2>1 DEF FullFits
  <2>3. ASSUME UNCHANGED <<writeCnt, writePtr>>, full'[i] = full[i], empty'[i] = empty[i],
               w'.at \in Passing <=> w.at \in Passing,
               Taken(i)' <=> Taken(i), Compared(i)' <=> Compared(i), Filled(i)' <=> Filled(i),
               w'.at \in {"takeLoad", "takeStore"} /\ w'.i = i => full[i],
               w'.at = "setFull" /\ w'.i = i => readPtr[i] = writePtr
        PROVE  (InVector(i) => PositionFits(i) /\ EmptyFits(i) /\ FullFits(i))'
    <3>1. Passed' = Passed
      BY <2>3 DEF Passed
    <3> QED
      BY <1>1, <2>1, <2>3, <3>1, FitsSame
  <2>4. CASE NewPacketStep
    <3>1. w.at = "idle" /\ w'.at = "take" /\ w.i = 0 /\ w'.i = 0 /\ UNCHANGED shared
      BY <2>4 DEF NewPacketStep, NewPacket, WriterTypes
    <3>2. UNCHANGED <<writeCnt, writePtr, full, empty>>
      BY <3>1 DEF shared
    <3>3. /\ Taken(i)' <=> Taken(i)
          /\ Compared(i)' <=> Compared(i)
          /\ Filled(i)' <=> Filled(i)
          /\ w'.at \in Passing <=> w.at \in Passing
      BY <1>2, <3>1 DEF Taken, Compared, Filled, Taking, Copying, Passing
    <3> QED
      BY <2>3, <3>1, <3>2, <3>3
  <2>5. CASE LoadReadPtr
    <3>1. w.at = "takeLoad" /\ w'.at = "takeStore" /\ w'.i = w.i /\ UNCHANGED shared
      BY <2>5 DEF LoadReadPtr, WriterTypes
    <3>2. UNCHANGED <<writeCnt, writePtr, full, empty>>
      BY <3>1 DEF shared
    <3>3. /\ Taken(i)' <=> Taken(i)
          /\ Compared(i)' <=> Compared(i)
          /\ Filled(i)' <=> Filled(i)
          /\ w'.at \in Passing <=> w.at \in Passing
      BY <1>2, <3>1 DEF Taken, Compared, Filled, Taking, Copying, Passing
    <3> QED
      BY <2>2, <2>3, <3>1, <3>2, <3>3
  <2>6. CASE CopyHeader \/ CopyData
    <3>1. /\ w.at \in {"header", "payload"} /\ w'.at \in {"payload", "advance"} /\ w'.i = w.i
          /\ UNCHANGED <<writeCnt, writePtr, full, empty>>
      BY <2>6 DEF CopyHeader, CopyData, WriterTypes
    <3>2. /\ Taken(i)' <=> Taken(i)
          /\ Compared(i)' <=> Compared(i)
          /\ Filled(i)' <=> Filled(i)
          /\ w'.at \in Passing <=> w.at \in Passing
      BY <1>2, <3>1 DEF Taken, Compared, Filled, Taking, Copying, Passing
    <3> QED
      BY <2>3, <3>1, <3>2
  <2>7. CASE LockToNotify \/ NotifyAll
    <3>1. /\ w.at \in {"lock", "notify"} /\ w'.at \in {"notify", "idle"} /\ w'.i = w.i
          /\ UNCHANGED shared
      BY <2>7 DEF LockToNotify, NotifyAll, WriterTypes
    <3>2. UNCHANGED <<writeCnt, writePtr, full, empty>>
      BY <3>1 DEF shared
    <3>3. /\ Taken(i)' <=> Taken(i)
          /\ Compared(i)' <=> Compared(i)
          /\ Filled(i)' <=> Filled(i)
          /\ w'.at \in Passing <=> w.at \in Passing
      BY <1>2, <3>1 DEF Taken, Compared, Filled, Taking, Copying, Passing
    <3> QED
      BY <2>3, <3>1, <3>2, <3>3
  <2>8. CASE TestFull /\ (w.i # i \/ full[i])
    <3>1. w.at = "take" /\ UNCHANGED shared
      BY <2>8 DEF TestFull
    <3>2. UNCHANGED <<writeCnt, writePtr, full, empty>>
      BY <3>1 DEF shared
    <3>3. CASE full[w.i]
      <4>1. w'.at = "takeLoad" /\ w'.i = w.i
        BY <2>8, <3>3 DEF TestFull, WriterTypes
      <4>2. /\ Taken(i)' <=> Taken(i)
            /\ Compared(i)' <=> Compared(i)
            /\ Filled(i)' <=> Filled(i)
            /\ w'.at \in Passing <=> w.at \in Passing
        BY <1>2, <3>1, <4>1 DEF Taken, Compared, Filled, Taking, Copying, Passing
      <4> QED
        BY <2>3, <3>2, <3>3, <4>1, <4>2
    <3>4. CASE ~full[w.i]
      <4>1. w' = WriterLoop("take", "header") /\ w.i # i
        BY <2>8, <3>4 DEF TestFull
      <4>2. \/ w'.at = "take" /\ w'.i = w.i + 1
            \/ w'.at = "header" /\ w.i + 1 = NumReaders
        BY <4>1, LoopFacts
      <4>3. /\ Taken(i)' <=> Taken(i)
            /\ Compared(i)' <=> Compared(i)
            /\ Filled(i)' <=> Filled(i)
            /\ w'.at \in Passing <=> w.at \in Passing
        BY <1>2, <3>1, <4>1, <4>2 DEF Taken, Compared, Filled, Taking, Copying, Passing
      <4> QED
        BY <2>3, <3>2, <4>2, <4>3
    <3> QED
      BY <3>3, <3>4
  <2>9. CASE StoreReadPtr /\ w.i # i
    <3>1. /\ w.at = "takeStore" /\ w' = WriterLoop("take", "header")
          /\ UNCHANGED <<writeCnt, writePtr, full, empty>>
      BY <2>9 DEF StoreReadPtr
    <3>2. \/ w'.at = "take" /\ w'.i = w.i + 1
          \/ w'.at = "header" /\ w.i + 1 = NumReaders
      BY <3>1, LoopFacts
    <3>3. /\ Taken(i)' <=> Taken(i)
          /\ Compared(i)' <=> Compared(i)
          /\ Filled(i)' <=> Filled(i)
          /\ w'.at \in Passing <=> w.at \in Passing
      BY <1>2, <2>9, <3>1, <3>2 DEF Taken, Compared, Filled, Taking, Copying, Passing
    <3> QED
      BY <2>3, <3>1, <3>2, <3>3
  <2>10. CASE CompareReadPtr /\ (w.i # i \/ readPtr[i] = writePtr)
    <3>1. w.at = "compare" /\ UNCHANGED shared
      BY <2>10 DEF CompareReadPtr
    <3>2. UNCHANGED <<writeCnt, writePtr, full, empty>>
      BY <3>1 DEF shared
    <3>3. CASE readPtr[w.i] = writePtr
      <4>1. w'.at = "setFull" /\ w'.i = w.i
        BY <2>10, <3>3 DEF CompareReadPtr, WriterTypes
      <4>2. /\ Taken(i)' <=> Taken(i)
            /\ Compared(i)' <=> Compared(i)
            /\ Filled(i)' <=> Filled(i)
            /\ w'.at \in Passing <=> w.at \in Passing
        BY <1>2, <3>1, <4>1 DEF Taken, Compared, Filled, Taking, Copying, Passing
      <4> QED
        BY <2>3, <3>2, <3>3, <4>1, <4>2
    <3>4. CASE readPtr[w.i] # writePtr
      <4>1. w' = WriterLoop("compare", "fill") /\ w.i # i
        BY <2>10, <3>4 DEF CompareReadPtr
      <4>2. \/ w'.at = "compare" /\ w'.i = w.i + 1
            \/ w'.at = "fill" /\ w'.i = 0 /\ w.i + 1 = NumReaders
        BY <4>1, LoopFacts
      <4>3. /\ Taken(i)' <=> Taken(i)
            /\ Compared(i)' <=> Compared(i)
            /\ Filled(i)' <=> Filled(i)
            /\ w'.at \in Passing <=> w.at \in Passing
        BY <1>2, <3>1, <4>1, <4>2 DEF Taken, Compared, Filled, Taking, Copying, Passing
      <4> QED
        BY <2>3, <3>2, <4>2, <4>3
    <3> QED
      BY <3>3, <3>4
  <2>11. CASE SetFull /\ w.i # i
    <3>1. /\ w.at = "setFull" /\ w' = WriterLoop("compare", "fill")
          /\ UNCHANGED <<writeCnt, writePtr, empty>> /\ full'[i] = full[i]
      BY <1>2, <2>11 DEF SetFull, FullSet
    <3>2. \/ w'.at = "compare" /\ w'.i = w.i + 1
          \/ w'.at = "fill" /\ w'.i = 0 /\ w.i + 1 = NumReaders
      BY <3>1, LoopFacts
    <3>3. /\ Taken(i)' <=> Taken(i)
          /\ Compared(i)' <=> Compared(i)
          /\ Filled(i)' <=> Filled(i)
          /\ w'.at \in Passing <=> w.at \in Passing
      BY <1>2, <2>11, <3>1, <3>2 DEF Taken, Compared, Filled, Taking, Copying, Passing
    <3> QED
      BY <2>3, <3>1, <3>2, <3>3
  <2>12. CASE FillEmpty /\ w.i # i /\ w.i + 1 < NumReaders
    <3>1. /\ w.at = "fill" /\ w' = [at |-> "fill", i |-> w.i + 1, tmp |-> 0]
          /\ UNCHANGED <<writePtr, full>> /\ empty'[i] = empty[i]
      BY <1>2, <2>12 DEF FillEmpty, WriterLoop
    <3>2. w'.at = "fill" /\ w'.i = w.i + 1 /\ writeCnt' = writeCnt
      BY <2>12, <3>1 DEF FillEmpty
    <3>3. /\ Taken(i)' <=> Taken(i)
          /\ Compared(i)' <=> Compared(i)
          /\ Filled(i)' <=> Filled(i)
          /\ w'.at \in Passing <=> w.at \in Passing
      BY <1>2, <2>12, <3>1, <3>2 DEF Taken, Compared, Filled, Taking, Copying, Passing
    <3> QED
      BY <2>3, <3>1, <3>2, <3>3
  <2> QED
    BY <2>4, <2>5, <2>6, <2>7, <2>8, <2>9, <2>10, <2>11, <2>12
<1> QED
  BY <1>3, <1>4

(***************************************************************************)
(* The steps of the writer that are about reader i itself.                 *)
(***************************************************************************)

\* While the writer is in a call of its own, the reader is not in doneReading.
LEMMA NotMoved ==
  ASSUME NEW i \in Readers, Separate(i), w.at \in WriterInCall
  PROVE  r[i].at \notin Moved
BY DEF Separate, InDoneReading, Moved

LEMMA TestNotFull ==
  ASSUME TypeOK, WriterTypes, ReaderTypes, NEW i \in Readers, Apart(i), WriterStep,
         TestFull, w.i = i, ~full[i]
  PROVE  (InVector(i) => PositionFits(i) /\ EmptyFits(i) /\ FullFits(i))'
<1>1. /\ w.at = "take" /\ UNCHANGED <<writeCnt, writePtr, full, empty, readPtr, r>>
      /\ w' = WriterLoop("take", "header")
  BY DEF TestFull, shared
<1>2. \/ w'.at = "take" /\ w'.i = w.i + 1
      \/ w'.at = "header" /\ w.i + 1 = NumReaders
  BY <1>1, LoopFacts
<1>3. Pos(i)' = Pos(i) /\ NextPos(i)' = NextPos(i)
  BY <1>1, WriterFrame DEF StoreReadPtr
<1>4. /\ Taken(i)' /\ ~Compared(i)' /\ ~Filled(i)'
      /\ ~Taken(i) /\ ~Compared(i) /\ ~Filled(i)
      /\ Passed' = Passed /\ Passed = writeCnt
  BY <1>1, <1>2, SizeFacts, Counts
     DEF Taken, Compared, Filled, Taking, Copying, Passing, Passed, WriterTypes, Readers
<1>5. SUFFICES ASSUME InVector(i)
               PROVE  (PositionFits(i) /\ EmptyFits(i) /\ FullFits(i))'
  BY <1>1 DEF InVector
<1>6. PositionFits(i) /\ EmptyFits(i) /\ FullFits(i)
  BY <1>5 DEF Apart
<1>7. PositionFits(i)'
  BY <1>1, <1>3, <1>4, <1>6 DEF PositionFits, Pending
<1>8. EmptyFits(i)'
  BY <1>1, <1>3, <1>4, <1>6 DEF EmptyFits, Pending
<1>9. writeCnt - Pos(i) < Size
  <2>1. writeCnt - Pos(i) # Size
    BY <1>4, <1>6 DEF FullFits
  <2>2. writeCnt - Pos(i) <= Size
    BY <1>4, <1>6 DEF PositionFits
  <2> QED
    BY <2>1, <2>2, Counts
<1>10. FullFits(i)'
  BY <1>1, <1>2, <1>3, <1>4, <1>9 DEF FullFits
<1> QED
  BY <1>7, <1>8, <1>10

LEMMA TakeOldest ==
  ASSUME TypeOK, WriterTypes, ReaderTypes, NEW i \in Readers, Apart(i), WriterStep,
         StoreReadPtr, w.i = i
  PROVE  (InVector(i) => PositionFits(i) /\ EmptyFits(i) /\ FullFits(i))'
<1>1. /\ w.at = "takeStore" /\ UNCHANGED <<writeCnt, writePtr, full, empty, readCnt, r>>
      /\ readPtr'[i] = readPtr[i] + 1 /\ OWCnt'[i] = OWCnt[i] + 1
      /\ w' = WriterLoop("take", "header") /\ readCnt[i] \in Nat /\ OWCnt[i] \in Nat
  BY DEF StoreReadPtr, TypeOK, Apart, RegistersHold
<1>2. \/ w'.at = "take" /\ w'.i = w.i + 1
      \/ w'.at = "header" /\ w.i + 1 = NumReaders
  BY <1>1, LoopFacts
<1>3. r[i].at \notin Moved
  BY <1>1, NotMoved DEF Apart, WriterInCall
<1>4. Pos(i)' = Pos(i) + 1 /\ NextPos(i) = Pos(i) /\ NextPos(i)' = Pos(i) + 1
  <2>1. Pos(i) \in Nat /\ Pos(i)' = Pos(i) + 1
    BY <1>1 DEF Pos
  <2> QED
    BY <1>1, <1>3, <2>1 DEF NextPos
<1>5. /\ Taken(i)' /\ ~Compared(i)' /\ ~Filled(i)'
      /\ ~Taken(i) /\ ~Compared(i) /\ ~Filled(i)
      /\ Passed' = writeCnt /\ Passed = writeCnt
  BY <1>1, <1>2, SizeFacts, Counts
     DEF Taken, Compared, Filled, Taking, Copying, Passing, Passed, WriterTypes, Readers
<1>6. SUFFICES ASSUME InVector(i)'
               PROVE  (PositionFits(i) /\ EmptyFits(i) /\ FullFits(i))'
  OBVIOUS
<1>7. readPtr[i] + 1 \in Slots /\ readPtr[i] \in Slots
  <2>1. readPtr[i] + 1 \in Slots
    BY <1>1, <1>3, <1>6 DEF InVector, Moved
  <2> QED
    BY <2>1, Counts DEF Slots
<1>8. PositionFits(i) /\ EmptyFits(i) /\ FullFits(i) /\ full[i]
  BY <1>1, <1>7 DEF Apart, InVector, FullFits
<1>9. /\ writeCnt - Pos(i) = Size /\ readPtr[i] + 1 < Size
      /\ writeCnt - Pos(i) = writePtr - readPtr[i] \/ writeCnt - Pos(i) = writePtr - readPtr[i] + Size
  BY <1>4, <1>5, <1>7, <1>8, Counts DEF PositionFits, FullFits, Pending, Slots
<1>10. PositionFits(i)'
  BY <1>1, <1>4, <1>5, <1>9, Counts DEF PositionFits, Pending
<1>11. EmptyFits(i)'
  <2>1. ~empty[i] /\ writeCnt # Pos(i) + 1
    BY <1>3, <1>5, <1>8, <1>9, Counts DEF EmptyFits
  <2> QED
    BY <1>1, <1>3, <1>4, <2>1 DEF EmptyFits, Moved
<1>12. FullFits(i)'
  <2>1. writeCnt - (Pos(i) + 1) < Size /\ writeCnt - (Pos(i) + 1) = Size - 1
    BY <1>9, Counts
  <2> QED
    BY <1>1, <1>2, <1>4, <1>5, <2>1 DEF FullFits
<1> QED
  BY <1>10, <1>11, <1>12

LEMMA PassWritten ==
  ASSUME TypeOK, WriterTypes, ReaderTypes, NEW i \in Readers, Apart(i), Separate(i)', WriterStep,
         AdvanceWritePtr
  PROVE  (InVector(i) => PositionFits(i) /\ EmptyFits(i) /\ FullFits(i))'
<1>1. /\ w.at = "advance" /\ w'.at \in {"wrap", "compare"} /\ w'.i = 0 /\ writePtr' = writePtr + 1
      /\ UNCHANGED <<writeCnt, full, empty, readPtr, r>>
  BY DEF AdvanceWritePtr, WriterTypes, Copying
<1>2. r[i].at \notin Moved
  BY <1>1 DEF Separate, WriterInCall, InDoneReading, Moved
<1>3. Pos(i)' = Pos(i) /\ NextPos(i)' = NextPos(i) /\ NextPos(i) = Pos(i)
  BY <1>1, <1>2, WriterFrame, Counts DEF StoreReadPtr
<1>4. /\ Taken(i)' /\ ~Compared(i)' /\ ~Filled(i)'
      /\ Taken(i) /\ ~Compared(i) /\ ~Filled(i)
      /\ Passed' = writeCnt + 1 /\ Passed = writeCnt
  BY <1>1, SizeFacts, Counts DEF Taken, Compared, Filled, Taking, Copying, Passing, Passed
<1>5. SUFFICES ASSUME InVector(i)
               PROVE  (PositionFits(i) /\ EmptyFits(i) /\ FullFits(i))'
  BY <1>1 DEF InVector
<1>6. PositionFits(i) /\ EmptyFits(i) /\ FullFits(i)
  BY <1>5 DEF Apart
<1>7. PositionFits(i)'
  <2>1. writeCnt - Pos(i) < Size
    BY <1>4, <1>6 DEF FullFits
  <2> QED
    BY <1>1, <1>3, <1>4, <1>6, <2>1, Counts DEF PositionFits, Pending
<1>8. EmptyFits(i)'
  BY <1>1, <1>2, <1>3, <1>4, <1>6 DEF EmptyFits, Moved
<1>9. FullFits(i)'
  BY <1>1, <1>3, <1>4, <1>6 DEF FullFits
<1> QED
  BY <1>7, <1>8, <1>9

LEMMA WrapWritten ==
  ASSUME TypeOK, WriterTypes, ReaderTypes, NEW i \in Readers, Apart(i), Separate(i)', WriterStep,
         WrapWritePtr
  PROVE  (InVector(i) => PositionFits(i) /\ EmptyFits(i) /\ FullFits(i))'
<1>1. /\ w.at = "wrap" /\ w'.at = "compare" /\ w'.i = 0 /\ writePtr = Size /\ writePtr' = 0
      /\ UNCHANGED <<writeCnt, full, empty, readPtr, r>>
  BY DEF WrapWritePtr, WriterTypes, TypeOK
<1>2. r[i].at \notin Moved
  BY <1>1, NotMoved DEF Apart, WriterInCall
<1>3. Pos(i)' = Pos(i) /\ NextPos(i)' = NextPos(i) /\ NextPos(i) = Pos(i)
  BY <1>1, <1>2, WriterFrame, Counts DEF StoreReadPtr
<1>4. /\ Taken(i)' /\ ~Compared(i)' /\ ~Filled(i)'
      /\ Taken(i) /\ ~Compared(i) /\ ~Filled(i)
      /\ Passed' = Passed /\ Passed = writeCnt + 1
  BY <1>1, SizeFacts, Counts DEF Taken, Compared, Filled, Taking, Copying, Passing, Passed
<1>5. SUFFICES ASSUME InVector(i)
               PROVE  (PositionFits(i) /\ EmptyFits(i) /\ FullFits(i))'
  BY <1>1 DEF InVector
<1>6. PositionFits(i) /\ EmptyFits(i) /\ FullFits(i)
  BY <1>5 DEF Apart
<1>7. PositionFits(i)'
  <2>1. readPtr[i] < Size
    BY <1>2, <1>5, Counts DEF InVector, Slots, Moved
  <2> QED
    BY <1>1, <1>3, <1>4, <1>6, <2>1, Counts DEF PositionFits, Pending
<1>8. EmptyFits(i)'
  BY <1>1, <1>2, <1>3, <1>4, <1>6 DEF EmptyFits, Moved
<1>9. FullFits(i)'
  BY <1>1, <1>3, <1>4, <1>6 DEF FullFits
<1> QED
  BY <1>7, <1>8, <1>9

LEMMA CompareUnequal ==
  ASSUME TypeOK, WriterTypes, ReaderTypes, NEW i \in Readers, Apart(i), Separate(i)', WriterStep,
         CompareReadPtr, w.i = i, readPtr[i] # writePtr
  PROVE  (InVector(i) => PositionFits(i) /\ EmptyFits(i) /\ FullFits(i))'
<1>1. /\ w.at = "compare" /\ UNCHANGED <<writeCnt, writePtr, full, empty, readPtr, r>>
      /\ w' = WriterLoop("compare", "fill")
  BY DEF CompareReadPtr, shared
<1>2. \/ w'.at = "compare" /\ w'.i = w.i + 1
      \/ w'.at = "fill" /\ w'.i = 0 /\ w.i + 1 = NumReaders
  BY <1>1, LoopFacts
<1>3. r[i].at \notin Moved
  BY <1>1, NotMoved DEF Apart, WriterInCall
<1>4. Pos(i)' = Pos(i) /\ NextPos(i)' = NextPos(i) /\ NextPos(i) = Pos(i)
  BY <1>1, <1>3, WriterFrame, Counts DEF StoreReadPtr
<1>5. /\ ~Taken(i)' /\ Compared(i)' /\ ~Filled(i)'
      /\ Taken(i) /\ ~Compared(i) /\ ~Filled(i)
      /\ Passed' = Passed /\ Passed = writeCnt + 1
  BY <1>1, <1>2, SizeFacts, Counts
     DEF Taken, Compared, Filled, Taking, Copying, Passing, Passed, WriterTypes, Readers
<1>6. SUFFICES ASSUME InVector(i)
               PROVE  (PositionFits(i) /\ EmptyFits(i) /\ FullFits(i))'
  BY <1>1 DEF InVector
<1>7. PositionFits(i) /\ EmptyFits(i) /\ FullFits(i)
  BY <1>6 DEF Apart
<1>8. PositionFits(i)'
  BY <1>1, <1>4, <1>5, <1>7 DEF PositionFits, Pending
<1>9. EmptyFits(i)'
  BY <1>1, <1>3, <1>4, <1>5, <1>7 DEF EmptyFits, Moved
<1>10. FullFits(i)'
  <2>1. writeCnt + 1 - Pos(i) # Size
    BY <1>1, <1>4, <1>5, <1>7, Counts DEF PositionFits, Pending
  <2>2. ~full[i]
    BY <1>5, <1>7, <2>1, Counts DEF FullFits
  <2> QED
    BY <1>1, <1>2, <1>4, <1>5, <2>1, <2>2 DEF FullFits
<1> QED
  BY <1>8, <1>9, <1>10

LEMMA MarkFull ==
  ASSUME TypeOK, WriterTypes, ReaderTypes, NEW i \in Readers, Apart(i), Separate(i)', WriterStep,
         SetFull, w.i = i
  PROVE  (InVector(i) => PositionFits(i) /\ EmptyFits(i) /\ FullFits(i))'
<1>1. /\ w.at = "setFull" /\ UNCHANGED <<writeCnt, writePtr, empty, readPtr, r>> /\ full'[i]
      /\ w' = WriterLoop("compare", "fill")
  BY DEF SetFull, FullSet, TypeOK
<1>2. \/ w'.at = "compare" /\ w'.i = w.i + 1
      \/ w'.at = "fill" /\ w'.i = 0 /\ w.i + 1 = NumReaders
  BY <1>1, LoopFacts
<1>3. r[i].at \notin Moved
  BY <1>1, NotMoved DEF Apart, WriterInCall
<1>4. Pos(i)' = Pos(i) /\ NextPos(i)' = NextPos(i) /\ NextPos(i) = Pos(i)
  BY <1>1, <1>3, WriterFrame, Counts DEF StoreReadPtr
<1>5. /\ ~Taken(i)' /\ Compared(i)' /\ ~Filled(i)'
      /\ Taken(i) /\ ~Compared(i) /\ ~Filled(i)
      /\ Passed' = Passed /\ Passed = writeCnt + 1
  BY <1>1, <1>2, SizeFacts, Counts
     DEF Taken, Compared, Filled, Taking, Copying, Passing, Passed, WriterTypes, Readers
<1>6. SUFFICES ASSUME InVector(i)
               PROVE  (PositionFits(i) /\ EmptyFits(i) /\ FullFits(i))'
  BY <1>1 DEF InVector
<1>7. PositionFits(i) /\ EmptyFits(i) /\ FullFits(i) /\ readPtr[i] = writePtr
  BY <1>1, <1>6 DEF Apart, FullFits
<1>8. PositionFits(i)'
  BY <1>1, <1>4, <1>5, <1>7 DEF PositionFits, Pending
<1>9. EmptyFits(i)'
  BY <1>1, <1>3, <1>4, <1>5, <1>7 DEF EmptyFits, Moved
<1>10. FullFits(i)'
  <2>1. writeCnt + 1 - Pos(i) = Size
    BY <1>4, <1>5, <1>7, Counts DEF PositionFits, Pending
  <2> QED
    BY <1>1, <1>2, <1>4, <1>5, <2>1 DEF FullFits
<1> QED
  BY <1>8, <1>9, <1>10

LEMMA FillOne ==
  ASSUME TypeOK, WriterTypes, ReaderTypes, NEW i \in Readers, Apart(i), Separate(i)', WriterStep,
         FillEmpty, w.i + 1 < NumReaders, w.i = i
  PROVE  (InVector(i) => PositionFits(i) /\ EmptyFits(i) /\ FullFits(i))'
<1>1. /\ w.at = "fill" /\ UNCHANGED <<writePtr, full, readPtr, r>> /\ ~empty'[i]
      /\ w' = [at |-> "fill", i |-> w.i + 1, tmp |-> 0]
  BY DEF FillEmpty, TypeOK, WriterLoop
<1>2. w'.at = "fill" /\ w'.i = w.i + 1 /\ writeCnt' = writeCnt
  BY <1>1 DEF FillEmpty
<1>3. r[i].at \notin Moved
  BY <1>1, NotMoved DEF Apart, WriterInCall
<1>4. Pos(i)' = Pos(i) /\ NextPos(i)' = NextPos(i) /\ NextPos(i) = Pos(i)
  BY <1>1, <1>3, WriterFrame, Counts DEF StoreReadPtr
<1>5. /\ ~Taken(i)' /\ Compared(i)' /\ Filled(i)'
      /\ ~Taken(i) /\ Compared(i) /\ ~Filled(i)
      /\ Passed' = Passed /\ Passed = writeCnt + 1
  BY <1>1, <1>2, SizeFacts, Counts
     DEF Taken, Compared, Filled, Taking, Copying, Passing, Passed, Readers
<1>6. SUFFICES ASSUME InVector(i)
               PROVE  (PositionFits(i) /\ EmptyFits(i) /\ FullFits(i))'
  BY <1>1 DEF InVector
<1>7. PositionFits(i) /\ EmptyFits(i) /\ FullFits(i)
  BY <1>6 DEF Apart
<1>8. PositionFits(i)'
  BY <1>1, <1>2, <1>4, <1>5, <1>7 DEF PositionFits, Pending
<1>9. EmptyFits(i)'
  BY <1>1, <1>2, <1>3, <1>4, <1>5, <1>7 DEF EmptyFits, Moved
<1>10. FullFits(i)'
  BY <1>1, <1>2, <1>4, <1>5, <1>7 DEF FullFits
<1> QED
  BY <1>8, <1>9, <1>10

\* The last turn of the loop, for every reader: ++writeCnt.
LEMMA FillLast ==
  ASSUME TypeOK, WriterTypes, ReaderTypes, NEW i \in Readers, Apart(i), Separate(i)', WriterStep,
         FillEmpty, ~(w.i + 1 < NumReaders)
  PROVE  (InVector(i) => PositionFits(i) /\ EmptyFits(i) /\ FullFits(i))'
<1>1. /\ w.at = "fill" /\ UNCHANGED <<writePtr, full, readPtr, r>>
      /\ empty' = [empty EXCEPT ![w.i] = FALSE]
      /\ w' = [at |-> "lock", i |-> 0, tmp |-> 0]
  BY DEF FillEmpty, TypeOK, WriterLoop
<1>2. w'.at = "lock" /\ writeCnt' = writeCnt + 1
  BY <1>1 DEF FillEmpty
<1>3. r[i].at \notin Moved
  BY <1>1, NotMoved DEF Apart, WriterInCall
<1>4. Pos(i)' = Pos(i) /\ NextPos(i)' = NextPos(i) /\ NextPos(i) = Pos(i)
  BY <1>1, <1>3, WriterFrame, Counts DEF StoreReadPtr
<1>5. /\ ~Taken(i)' /\ ~Compared(i)' /\ ~Filled(i)'
      /\ ~Taken(i) /\ Compared(i) /\ (i # w.i => Filled(i))
      /\ Passed' = writeCnt + 1 /\ Passed = writeCnt + 1
  BY <1>1, <1>2, SizeFacts, Counts
     DEF Taken, Compared, Filled, Taking, Copying, Passing, Passed, Readers, WriterTypes
<1>6. SUFFICES ASSUME InVector(i)
               PROVE  (PositionFits(i) /\ EmptyFits(i) /\ FullFits(i))'
  BY <1>1 DEF InVector
<1>7. PositionFits(i) /\ EmptyFits(i) /\ FullFits(i)
  BY <1>6 DEF Apart
<1>8. PositionFits(i)'
  BY <1>1, <1>2, <1>4, <1>5, <1>7, Counts DEF PositionFits, Pending
<1>9. EmptyFits(i)'
  <2>1. ~empty'[i]
    BY <1>1, <1>3, <1>5, <1>7 DEF EmptyFits, TypeOK
  <2>2. writeCnt + 1 # Pos(i)
    BY <1>4, <1>7, Counts DEF PositionFits
  <2> QED
    BY <1>1, <1>2, <1>3, <1>4, <2>1, <2>2 DEF EmptyFits, Moved
<1>10. FullFits(i)'
  <2>1. full[i] <=> writeCnt + 1 - Pos(i) = Size
    BY <1>5, <1>7 DEF FullFits
  <2>2. full'[i] <=> writeCnt' - Pos(i)' = Size
    BY <1>1, <1>2, <1>4, <2>1, Counts
  <2> HIDE <1>7, <2>1
  <2> QED
    BY <1>2, <1>5, <2>2 DEF FullFits
<1> QED
  BY <1>8, <1>9, <1>10

LEMMA WriterKeepsApart ==
  ASSUME TypeOK, WriterTypes, ReaderTypes, NEW i \in Readers, Apart(i), Separate(i)',
         WriterStep \/ NewPacketStep
  PROVE  Apart(i)'
<1>1. (InVector(i) => PositionFits(i) /\ EmptyFits(i) /\ FullFits(i))'
  <2>1. CASE \/ NewPacketStep \/ LoadReadPtr \/ CopyHeader \/ CopyData \/ LockToNotify \/ NotifyAll
             \/ TestFull /\ (w.i # i \/ full[i])
             \/ StoreReadPtr /\ w.i # i
             \/ CompareReadPtr /\ (w.i # i \/ readPtr[i] = writePtr)
             \/ SetFull /\ w.i # i
             \/ FillEmpty /\ w.i # i /\ w.i + 1 < NumReaders
    BY <2>1, WriterElsewhere
  <2>2. CASE WriterStep
    <3>1. CASE TestFull /\ w.i = i /\ ~full[i]
      BY <2>2, <3>1, TestNotFull
    <3>2. CASE StoreReadPtr /\ w.i = i
      BY <2>2, <3>2, TakeOldest
    <3>3. CASE AdvanceWritePtr
      BY <2>2, <3>3, PassWritten
    <3>4. CASE WrapWritePtr
      BY <2>2, <3>4, WrapWritten
    <3>5. CASE CompareReadPtr /\ w.i = i /\ readPtr[i] # writePtr
      BY <2>2, <3>5, CompareUnequal
    <3>6. CASE SetFull /\ w.i = i
      BY <2>2, <3>6, MarkFull
    <3>7. CASE FillEmpty /\ w.i = i /\ w.i + 1 < NumReaders
      BY <2>2, <3>7, FillOne
    <3>8. CASE FillEmpty /\ ~(w.i + 1 < NumReaders)
      BY <2>2, <3>8, FillLast
    <3> QED
      BY <2>1, <2>2, <3>1, <3>2, <3>3, <3>4, <3>5, <3>6, <3>7, <3>8 DEF WriterStep
  <2> QED
    BY <2>1, <2>2
<1> QED
  BY <1>1, WriterFrame, WriterRegisters DEF Apart

(***************************************************************************)
(* The steps of the reader itself.                                         *)
(***************************************************************************)

\* A slot in the vector, at the packet whose turn it is, has that packet: the
\* writer is not at it, as it took the packets that were in its way.
LEMMA SlotOfTurn ==
  ASSUME TypeOK, WriterTypes, ReaderTypes, HasPacket, SlotsHold, NEW i \in Readers, Apart(i),
         r[i].at \in {"header", "payload"}, r[i].slot \in Slots, r[i].want = Pos(i)
  PROVE  data[r[i].slot].hdr = r[i].want /\ data[r[i].slot].pay = r[i].want
<1> DEFINE s == r[i].slot
<1>1. s = readPtr[i] /\ ~empty[i] /\ r[i].at \notin Moved /\ InVector(i)
  BY DEF Apart, ReadSoFar, HasPacket, Reading, Moved, InVector
<1>2. PositionFits(i) /\ EmptyFits(i) /\ FullFits(i)
  BY <1>1 DEF Apart
<1>3. NextPos(i) = Pos(i) /\ s \in Nat /\ s < Size
  BY <1>1, Counts DEF Slots
<1>4. Filled(i) \/ writeCnt # Pos(i)
  BY <1>1, <1>2 DEF EmptyFits
<1>5. Passed - Pos(i) >= 1
  <2>1. CASE Filled(i)
    BY <1>2, <1>3, <2>1, Counts DEF Filled, Passing, PositionFits
  <2>2. CASE writeCnt # Pos(i)
    BY <1>2, <1>3, <2>2, Counts DEF PositionFits
  <2> QED
    BY <1>4, <2>1, <2>2
<1>6. Age(s) = Passed - Pos(i)
  <2>1. /\ Passed - Pos(i) <= Size
        /\ Passed - Pos(i) = writePtr - s \/ Passed - Pos(i) = writePtr - s + Size
    BY <1>1, <1>2, <1>3, Counts DEF PositionFits
  <2> HIDE DEF s
  <2> QED
    BY <1>3, <1>5, <2>1, Counts DEF Age
<1>7. ~(w.at \in {"payload", "advance"} /\ s = writePtr)
  <2>1. w.at \in {"payload", "advance"} => Passed - Pos(i) < Size
    BY <1>2, Counts DEF FullFits, Taken, Copying, Passing
  <2>2. s = writePtr => Age(s) = Size
    BY <1>3, Counts DEF Age
  <2> QED
    BY <1>6, <2>1, <2>2, Counts
<1>8. Passed - Age(s) = Pos(i)
  BY <1>6, Counts
<1>9. data[s] = Packet(Pos(i))
  BY <1>7, <1>8, Counts DEF SlotsHold
<1> QED
  BY <1>9 DEF Packet

\* The steps that are not in doneReading, and the first load in it.
LEMMA ReaderBeforeDone ==
  ASSUME TypeOK, WriterTypes, ReaderTypes, HasPacket, SlotsHold, NEW i \in Readers, Apart(i),
         Separate(i)',
         \/ IsEmpty(i) \/ LockToWait(i) \/ WaitFor(i) \/ WakeUp(i) \/ Unlock(i)
         \/ TestEmpty(i) \/ LoadSlot(i) \/ ReadHeader(i) \/ ReadPayload(i)
         \/ LoadToIncrement(i) \/ TimeOut(i) \/ ProcessingThrows(i)
  PROVE  Apart(i)'
<1>1. /\ UNCHANGED <<data, writePtr, readPtr, full, empty, writeCnt, readCnt, OWCnt, w>>
      /\ r[i].at \notin Moved \/ r'[i] = r[i]
  BY DEF IsEmpty, LockToWait, WaitFor, WakeUp, Unlock, TestEmpty, LoadSlot, ReadHeader,
         ReadPayload, LoadToIncrement, TimeOut, ProcessingThrows, shared, Moved
<1>2. \/ r'[i] = r[i]
      \/ r'[i].at \in {"isEmpty", "lock", "get", "wait", "asleep", "awake", "load"}
      \/ LoadSlot(i) \/ ReadHeader(i) \/ ReadPayload(i) \/ LoadToIncrement(i)
  BY ReaderMoves
     DEF IsEmpty, LockToWait, WaitFor, WakeUp, Unlock, TestEmpty, TimeOut, ProcessingThrows
<1>3. r'[i].at \notin Moved \/ r'[i] = r[i]
  BY <1>2, ReaderMoves DEF Moved
<1>4. /\ Pos(i)' = Pos(i) /\ NextPos(i)' = NextPos(i) /\ Passed' = Passed
      /\ Taken(i)' <=> Taken(i)
      /\ Compared(i)' <=> Compared(i)
      /\ Filled(i)' <=> Filled(i)
      /\ InVector(i)' => InVector(i)
  <2>1. Pos(i)' = Pos(i) /\ Passed' = Passed
    BY <1>1 DEF Pos, Passed
  <2>2. NextPos(i)' = NextPos(i)
    BY <1>1, <1>3, <2>1 DEF NextPos
  <2>3. InVector(i)' => InVector(i)
    BY <1>1, <1>3 DEF InVector, Moved
  <2>4. /\ Taken(i)' <=> Taken(i)
        /\ Compared(i)' <=> Compared(i)
        /\ Filled(i)' <=> Filled(i)
    BY <1>1 DEF Taken, Compared, Filled
  <2> QED
    BY <2>1, <2>2, <2>3, <2>4
<1>5. (InVector(i) => PositionFits(i) /\ EmptyFits(i) /\ FullFits(i))'
  <2>1. CASE InVector(i)
    <3>1. PositionFits(i) /\ EmptyFits(i) /\ FullFits(i)
      BY <2>1 DEF Apart
    <3>2. /\ w'.at \in {"takeLoad", "takeStore"} /\ w'.i = i => full[i]
          /\ w'.at = "setFull" /\ w'.i = i => readPtr[i] = writePtr
      BY <1>1, <3>1 DEF FullFits
    <3>3. r'[i].at \in {"setEmpty", "clearFull"} => r'[i].at = r[i].at
      BY <1>3 DEF Moved
    <3>4. r'[i].at \in Moved <=> r[i].at \in Moved
      BY <1>1, <1>3
    <3> QED
      BY <1>1, <1>4, <3>1, <3>2, <3>3, <3>4, FitsSame
  <2> QED
    BY <1>4, <2>1
<1>6. RegistersHold(i)'
  <2>1. w'.at = "takeStore" /\ w'.i = i => w'.tmp = readPtr'[i]
    BY <1>1 DEF Apart, RegistersHold
  <2>2. CASE r'[i] = r[i]
    BY <1>1, <2>1, <2>2 DEF Apart, RegistersHold
  <2>3. CASE r'[i] # r[i]
    <3>1. /\ r'[i].at \in {"store", "compareWrite"} => r'[i].ptr = readPtr'[i]
          /\ r'[i].at # "wrap"
      BY <1>1, <1>2, <2>3, ReaderMoves
    <3> QED
      BY <2>1, <3>1 DEF RegistersHold
  <2> QED
    BY <2>2, <2>3
<1>7. ReadSoFar(i)'
  <2>1. CASE r'[i] = r[i]
    BY <1>1, <1>4, <2>1 DEF Apart, ReadSoFar
  <2>2. CASE r'[i].at \in {"isEmpty", "lock", "get", "wait", "asleep", "awake", "load"}
    BY <2>2 DEF ReadSoFar
  <2>3. CASE LoadSlot(i)
    BY <1>1, <1>4, <2>3, ReaderMoves, Counts DEF ReadSoFar
  <2>4. CASE ReadHeader(i)
    <3>1. /\ r[i].at = "header" /\ r'[i].at = "payload" /\ r'[i].slot = r[i].slot
          /\ r'[i].want = r[i].want
          /\ r[i].slot \in Slots => r'[i].hdr = data[r[i].slot].hdr
      BY <2>4, ReaderMoves DEF ReadHeader
    <3>2. ReadSoFar(i)
      BY DEF Apart
    <3>3. r[i].slot \in Slots /\ r[i].want = Pos(i) => data[r[i].slot].hdr = r[i].want
      BY <3>1, SlotOfTurn
    <3> QED
      BY <1>1, <1>4, <3>1, <3>2, <3>3 DEF ReadSoFar, Slots
  <2>5. CASE ReadPayload(i)
    <3>1. /\ r[i].at = "payload" /\ r'[i].at = "inc" /\ r'[i].slot = r[i].slot
          /\ r'[i].want = r[i].want /\ r'[i].hdr = r[i].hdr
          /\ r[i].slot \in Slots => r'[i].pay = data[r[i].slot].pay
      BY <2>5, ReaderMoves DEF ReadPayload
    <3>2. ReadSoFar(i)
      BY DEF Apart
    <3>3. r[i].slot \in Slots /\ r[i].want = Pos(i) => data[r[i].slot].pay = r[i].want
      BY <3>1, SlotOfTurn
    <3> QED
      BY <1>1, <1>4, <3>1, <3>2, <3>3 DEF ReadSoFar, Slots
  <2>6. CASE LoadToIncrement(i)
    BY <2>6, ReaderMoves DEF ReadSoFar
  <2> QED
    BY <1>2, <2>1, <2>2, <2>3, <2>4, <2>5, <2>6
<1> QED
  BY <1>5, <1>6, <1>7 DEF Apart

\* doneReading: the writer is not in a call of its own.
LEMMA InDone ==
  ASSUME TypeOK, WriterTypes, ReaderTypes, NEW i \in Readers, Apart(i), r[i].at \in InDoneReading
  PROVE  /\ Passed = writeCnt /\ ~Compared(i) /\ ~Filled(i) /\ writePtr < Size
         /\ w.at \notin WriterInCall /\ w.at # "takeStore" /\ w.at # "setFull"
<1>1. w.at \notin WriterInCall
  BY DEF Apart, Separate
<1> QED
  BY <1>1, Counts DEF WriterInCall, Passing, Compared, Filled

\* The steps of doneReading that move nothing.
LEMMA DoneWithoutMove ==
  ASSUME TypeOK, WriterTypes, ReaderTypes, NEW i \in Readers, Apart(i), Separate(i)',
         CompareEnd(i) \/ LoadToCompare(i)
  PROVE  Apart(i)'
<1>1. /\ UNCHANGED <<data, writePtr, readPtr, full, empty, writeCnt, readCnt, OWCnt, w>>
      /\ r[i].at \in {"atEnd", "compareRead"}
      /\ \/ r[i].at = "atEnd" /\ r'[i].at = "wrap" /\ readPtr[i] = Size
         \/ r'[i].at = "compareRead"
         \/ r'[i].at = "compareWrite" /\ r'[i].ptr = readPtr[i]
  BY ReaderMoves DEF CompareEnd, LoadToCompare, shared, AtEnd
<1>2. /\ Pos(i)' = Pos(i) /\ NextPos(i)' = NextPos(i) /\ Passed' = Passed
      /\ Taken(i)' <=> Taken(i)
      /\ Compared(i)' <=> Compared(i)
      /\ Filled(i)' <=> Filled(i)
      /\ InVector(i)' => InVector(i)
  <2>1. Pos(i)' = Pos(i) /\ Passed' = Passed
    BY <1>1 DEF Pos, Passed
  <2>2. NextPos(i)' = NextPos(i)
    BY <1>1, <2>1 DEF NextPos, Moved
  <2>3. InVector(i)' => InVector(i)
    BY <1>1 DEF InVector
  <2>4. /\ Taken(i)' <=> Taken(i)
        /\ Compared(i)' <=> Compared(i)
        /\ Filled(i)' <=> Filled(i)
    BY <1>1 DEF Taken, Compared, Filled
  <2> QED
    BY <2>1, <2>2, <2>3, <2>4
<1>3. (InVector(i) => PositionFits(i) /\ EmptyFits(i) /\ FullFits(i))'
  <2>1. CASE InVector(i)
    <3>1. PositionFits(i) /\ EmptyFits(i) /\ FullFits(i)
      BY <2>1 DEF Apart
    <3>2. /\ w'.at \in {"takeLoad", "takeStore"} /\ w'.i = i => full[i]
          /\ w'.at = "setFull" /\ w'.i = i => readPtr[i] = writePtr
      BY <1>1, <3>1 DEF FullFits
    <3>3. r'[i].at \in {"setEmpty", "clearFull"} => r'[i].at = r[i].at
      BY <1>1
    <3>4. r'[i].at \in Moved <=> r[i].at \in Moved
      BY <1>1 DEF Moved
    <3> QED
      BY <1>1, <1>2, <3>1, <3>2, <3>3, <3>4, FitsSame
  <2> QED
    BY <1>2, <2>1
<1>4. RegistersHold(i)'
  BY <1>1 DEF RegistersHold, Apart
<1>5. ReadSoFar(i)'
  BY <1>1 DEF ReadSoFar
<1> QED
  BY <1>3, <1>4, <1>5 DEF Apart

LEMMA DoneMoves ==
  ASSUME TypeOK, WriterTypes, ReaderTypes, HasPacket, NEW i \in Readers, Apart(i), Separate(i)',
         StoreIncremented(i) \/ WrapReadPtr(i)
  PROVE  Apart(i)'
<1>1. /\ UNCHANGED <<data, writePtr, full, empty, writeCnt, readCnt, OWCnt, w>>
      /\ \/ /\ r[i].at = "store" /\ r'[i].at = "atEnd" /\ readPtr'[i] = readPtr[i] + 1
         \/ /\ r[i].at = "wrap" /\ r'[i].at = "compareRead"
            /\ readPtr[i] = Size /\ readPtr'[i] = 0
  BY ReaderMoves DEF StoreIncremented, WrapReadPtr, TypeOK, Apart, RegistersHold
<1>2. /\ Passed = writeCnt /\ ~Compared(i) /\ ~Filled(i) /\ writePtr < Size
      /\ w.at \notin WriterInCall
  BY <1>1, InDone DEF InDoneReading
<1>3. /\ Pos(i)' = Pos(i) /\ Passed' = Passed
      /\ Taken(i)' <=> Taken(i)
      /\ Compared(i)' <=> Compared(i)
      /\ Filled(i)' <=> Filled(i)
  BY <1>1 DEF Pos, Passed, Taken, Compared, Filled
<1>4. NextPos(i)' = Pos(i) + 1
  BY <1>1, <1>3, Counts DEF NextPos, Moved
<1>5. (InVector(i) => PositionFits(i) /\ EmptyFits(i) /\ FullFits(i))'
  <2>1. SUFFICES ASSUME InVector(i)'
                 PROVE  (PositionFits(i) /\ EmptyFits(i) /\ FullFits(i))'
    OBVIOUS
  <2>2. InVector(i)
    BY <1>1, <2>1, Counts DEF InVector, Slots
  <2>3. PositionFits(i) /\ EmptyFits(i) /\ FullFits(i) /\ ~empty[i]
    BY <1>1, <2>2 DEF Apart, HasPacket, Reading, Moved
  <2>4. PositionFits(i)'
    <3>1. CASE r[i].at = "store"
      <4>1. writeCnt # Pos(i) /\ NextPos(i) = Pos(i)
        BY <1>2, <2>3, <3>1, Counts DEF EmptyFits, Moved
      <4> QED
        BY <1>1, <1>2, <1>3, <1>4, <2>3, <3>1, <4>1, Counts DEF PositionFits, Pending
    <3>2. CASE r[i].at = "wrap"
      <4>1. NextPos(i) = Pos(i) + 1
        BY <3>2, Counts DEF Moved
      <4> QED
        BY <1>1, <1>2, <1>3, <1>4, <2>3, <3>2, <4>1, Counts DEF PositionFits, Pending
    <3> QED
      BY <1>1, <3>1, <3>2
  <2>5. EmptyFits(i)'
    BY <1>1 DEF EmptyFits, Moved
  <2>6. FullFits(i)'
    <3>1. w'.at \notin {"takeLoad", "takeStore", "setFull"}
      BY <1>1, <1>2 DEF WriterInCall
    <3> QED
      BY <1>1, <1>3, <2>3, <3>1 DEF FullFits
  <2> QED
    BY <2>4, <2>5, <2>6
<1>6. RegistersHold(i)'
  BY <1>1, <1>2 DEF RegistersHold, WriterInCall
<1>7. ReadSoFar(i)'
  BY <1>1 DEF ReadSoFar
<1> QED
  BY <1>5, <1>6, <1>7 DEF Apart

LEMMA DoneCompares ==
  ASSUME TypeOK, WriterTypes, ReaderTypes, HasPacket, NEW i \in Readers, Apart(i), Separate(i)',
         CompareWritePtr(i) \/ SetEmpty(i)
  PROVE  Apart(i)'
<1>1. /\ UNCHANGED <<data, writePtr, readPtr, full, writeCnt, readCnt, OWCnt, w>>
      /\ \/ /\ r[i].at = "compareWrite" /\ empty' = empty
            /\ r'[i].at = IF readPtr[i] = writePtr THEN "setEmpty" ELSE "clearFull"
         \/ /\ r[i].at = "setEmpty" /\ r'[i].at = "clearFull" /\ empty'[i]
  BY ReaderMoves DEF CompareWritePtr, SetEmpty, EmptySet, TypeOK, Apart, RegistersHold, shared
<1>2. /\ Passed = writeCnt /\ ~Compared(i) /\ ~Filled(i) /\ writePtr < Size
      /\ w.at \notin WriterInCall
  BY <1>1, InDone DEF InDoneReading
<1>3. /\ Pos(i)' = Pos(i) /\ Passed' = Passed
      /\ Taken(i)' <=> Taken(i)
      /\ Compared(i)' <=> Compared(i)
      /\ Filled(i)' <=> Filled(i)
  BY <1>1 DEF Pos, Passed, Taken, Compared, Filled
<1>4. NextPos(i)' = Pos(i) + 1 /\ NextPos(i) = Pos(i) + 1
  BY <1>1, <1>3, Counts DEF NextPos, Moved
<1>5. (InVector(i) => PositionFits(i) /\ EmptyFits(i) /\ FullFits(i))'
  <2>1. SUFFICES ASSUME InVector(i)'
                 PROVE  (PositionFits(i) /\ EmptyFits(i) /\ FullFits(i))'
    OBVIOUS
  <2>2. InVector(i) /\ readPtr[i] < Size
    BY <1>1, <2>1, Counts DEF InVector, Slots
  <2>3. PositionFits(i) /\ EmptyFits(i) /\ FullFits(i)
    BY <2>2 DEF Apart
  <2>4. PositionFits(i)'
    BY <1>1, <1>3, <1>4, <2>3 DEF PositionFits, Pending
  <2>5. Pending(i)' = Pending(i)
    BY <1>3, <1>4 DEF Pending
  <2>6. EmptyFits(i)'
    <3>1. CASE r[i].at = "compareWrite"
      <4>1. Pending(i) = 0 <=> readPtr[i] = writePtr
        BY <1>2, <1>4, <2>2, <2>3, Counts DEF PositionFits, Pending
      <4>2. ~empty[i]
        BY <3>1 DEF HasPacket, Moved
      <4> QED
        BY <1>1, <2>5, <3>1, <4>1, <4>2 DEF EmptyFits, Moved
    <3>2. CASE r[i].at = "setEmpty"
      <4>1. Pending(i) = 0
        BY <2>3, <3>2 DEF EmptyFits
      <4> QED
        BY <1>1, <2>5, <3>2, <4>1 DEF EmptyFits, Moved
    <3> QED
      BY <1>1, <3>1, <3>2
  <2>7. FullFits(i)'
    <3>1. w'.at \notin {"takeLoad", "takeStore", "setFull"}
      BY <1>1, <1>2 DEF WriterInCall
    <3> QED
      BY <1>1, <1>3, <2>3, <3>1 DEF FullFits
  <2> QED
    BY <2>4, <2>6, <2>7
<1>6. RegistersHold(i)'
  BY <1>1, <1>2 DEF RegistersHold, WriterInCall
<1>7. ReadSoFar(i)'
  BY <1>1 DEF ReadSoFar
<1> QED
  BY <1>5, <1>6, <1>7 DEF Apart

LEMMA DoneEnds ==
  ASSUME TypeOK, WriterTypes, ReaderTypes, NEW i \in Readers, Apart(i), Separate(i)', ClearFull(i)
  PROVE  Apart(i)'
<1>1. /\ UNCHANGED <<data, writePtr, readPtr, empty, writeCnt, OWCnt, w>>
      /\ r[i].at = "clearFull" /\ r'[i].at = "isEmpty" /\ ~full'[i]
      /\ readCnt'[i] = readCnt[i] + 1 /\ readCnt[i] \in Nat /\ OWCnt[i] \in Nat
  BY ReaderMoves DEF ClearFull, FullCleared, TypeOK
<1>2. /\ Passed = writeCnt /\ ~Compared(i) /\ ~Filled(i)
      /\ w.at \notin WriterInCall
  BY <1>1, InDone DEF InDoneReading
<1>3. /\ Passed' = Passed
      /\ Taken(i)' <=> Taken(i)
      /\ Compared(i)' <=> Compared(i)
      /\ Filled(i)' <=> Filled(i)
  BY <1>1 DEF Passed, Taken, Compared, Filled
<1>4. Pos(i)' = Pos(i) + 1 /\ NextPos(i)' = Pos(i) + 1 /\ NextPos(i) = Pos(i) + 1
  <2>1. Pos(i)' = Pos(i) + 1
    BY <1>1 DEF Pos
  <2> QED
    BY <1>1, <2>1, Counts DEF NextPos, Moved
<1>5. (InVector(i) => PositionFits(i) /\ EmptyFits(i) /\ FullFits(i))'
  <2>1. SUFFICES ASSUME InVector(i)'
                 PROVE  (PositionFits(i) /\ EmptyFits(i) /\ FullFits(i))'
    OBVIOUS
  <2>2. InVector(i)
    BY <1>1, <2>1 DEF InVector
  <2>3. PositionFits(i) /\ EmptyFits(i) /\ FullFits(i)
    BY <2>2 DEF Apart
  <2>4. Pending(i)' = Pending(i)
    BY <1>3, <1>4 DEF Pending
  <2>5. PositionFits(i)'
    BY <1>1, <1>2, <1>3, <1>4, <2>3, <2>4, Counts DEF PositionFits
  <2>6. EmptyFits(i)'
    <3>1. empty[i] <=> Pending(i) = 0
      BY <1>1, <2>3 DEF EmptyFits
    <3>2. Pending(i) = 0 <=> writeCnt = Pos(i) + 1
      BY <1>2, <1>4, Counts
    <3> QED
      BY <1>1, <1>2, <1>3, <1>4, <3>1, <3>2 DEF EmptyFits
  <2>7. FullFits(i)'
    <3>1. w'.at \notin {"takeLoad", "takeStore", "setFull"}
      BY <1>1, <1>2 DEF WriterInCall
    <3>2. writeCnt - (Pos(i) + 1) < Size
      BY <1>2, <2>3, Counts DEF PositionFits
    <3>3. writeCnt' - Pos(i)' < Size /\ writeCnt' - Pos(i)' # Size
      BY <1>1, <1>4, <3>2, Counts
    <3> QED
      BY <1>1, <1>2, <1>3, <3>1, <3>3 DEF FullFits
  <2> QED
    BY <2>5, <2>6, <2>7
<1>6. RegistersHold(i)'
  BY <1>1, <1>2 DEF RegistersHold, WriterInCall
<1>7. ReadSoFar(i)'
  BY <1>1 DEF ReadSoFar
<1> QED
  BY <1>5, <1>6, <1>7 DEF Apart

LEMMA ReaderKeepsApart ==
  ASSUME TypeOK, WriterTypes, ReaderTypes, HasPacket, SlotsHold, NEW i \in Readers, Apart(i),
         Separate(i)', ReaderStep(i) \/ TimeOutStep(i) \/ ThrowStep(i)
  PROVE  Apart(i)'
<1>1. CASE \/ IsEmpty(i) \/ LockToWait(i) \/ WaitFor(i) \/ WakeUp(i) \/ Unlock(i)
           \/ TestEmpty(i) \/ LoadSlot(i) \/ ReadHeader(i) \/ ReadPayload(i)
           \/ LoadToIncrement(i) \/ TimeOut(i) \/ ProcessingThrows(i)
  BY <1>1, ReaderBeforeDone
<1>2. CASE CompareEnd(i) \/ LoadToCompare(i)
  BY <1>2, DoneWithoutMove
<1>3. CASE StoreIncremented(i) \/ WrapReadPtr(i)
  BY <1>3, DoneMoves
<1>4. CASE CompareWritePtr(i) \/ SetEmpty(i)
  BY <1>4, DoneCompares
<1>5. CASE ClearFull(i)
  BY <1>5, DoneEnds
<1> QED
  BY <1>1, <1>2, <1>3, <1>4, <1>5 DEF ReaderStep, TimeOutStep, ThrowStep

-----------------------------------------------------------------------------
(***************************************************************************)
(* The invariant.                                                          *)
(***************************************************************************)

\* The history remembers every overlap, so a reader that has none after a step
\* had none before it, and is not in doneReading during a call of the writer.
LEMMA NoOverlapBefore ==
  ASSUME TypeOK, ReaderTypes, NEW i \in Readers, ~overlap[i] => Apart(i), Next, ~overlap'[i]
  PROVE  ~overlap[i] /\ Separate(i)'
<1>1. CASE WriterStep \/ NewPacketStep
  <2>1. r' = r /\ overlap'[i] = (overlap[i] \/ (w'.at \in WriterInCall /\ r[i].at \in InDoneReading))
    <3>1. r' = r
      BY <1>1 DEF WriterStep, NewPacketStep, NewPacket, TestFull, LoadReadPtr, StoreReadPtr, CopyHeader,
         CopyData, AdvanceWritePtr, WrapWritePtr, CompareReadPtr, SetFull, FillEmpty,
         LockToNotify, NotifyAll
    <3> QED
      BY <1>1, <3>1 DEF WriterStep, NewPacketStep, OverlapWith
  <2> QED
    BY <2>1 DEF Separate
<1>2. ASSUME NEW j \in Readers, ReaderStep(j)
      PROVE  ~overlap[i] /\ Separate(i)'
  <2>1. w' = w
    BY <1>2, ReaderFrame
  <2>2. overlap'[i] = (overlap[i] \/ (w.at \in WriterInCall /\ r'[i].at \in InDoneReading))
    BY <1>2 DEF ReaderStep, OverlapWith
  <2> QED
    BY <2>1, <2>2 DEF Separate
<1>3. ASSUME NEW j \in Readers, TimeOutStep(j) \/ ThrowStep(j)
      PROVE  ~overlap[i] /\ Separate(i)'
  <2>1. w' = w /\ overlap' = overlap /\ (r' = r \/ r' = [r EXCEPT ![j] = NotReading])
    BY <1>3 DEF TimeOutStep, ThrowStep, TimeOut, ProcessingThrows
  <2>2. r'[i] = r[i] \/ r'[i].at = "isEmpty"
    BY <2>1 DEF ReaderTypes, NotReading
  <2>3. Separate(i)
    BY <2>1 DEF Apart
  <2> QED
    BY <2>1, <2>2, <2>3 DEF Separate, InDoneReading
<1> QED
  BY <1>1, <1>2, <1>3 DEF Next

LEMMA InvNext == IInv /\ [Next]_vars => IInv'
<1> SUFFICES ASSUME IInv, [Next]_vars
             PROVE  IInv'
  OBVIOUS
<1>1. TypeOK /\ WriterTypes /\ ReaderTypes /\ WillCount /\ HasPacket /\ NoReadOverflow /\ SlotsHold
  BY DEF IInv
<1>2. CASE UNCHANGED vars
  <2>1. (TypeOK /\ WriterTypes /\ ReaderTypes /\ WillCount)'
    BY <1>1, <1>2 DEF vars, shared, TypeOK, WriterTypes, ReaderTypes, WillCount
  <2>2. (HasPacket /\ NoReadOverflow /\ SlotsHold)'
    BY <1>1, HasPacketNext, SlotsHoldNext
  <2>3. ASSUME NEW i \in Readers, ~overlap'[i]
        PROVE  Apart(i)'
    <3>1. Apart(i)
      BY <1>2, <2>3 DEF vars, IInv
    <3> QED
      BY <1>2, <3>1 DEF vars, shared, Apart, Separate, RegistersHold, ReadSoFar, InVector,
         PositionFits, EmptyFits, FullFits, Pending, NextPos, Pos, Passed, Taken, Compared, Filled
  <2> QED
    BY <2>1, <2>2, <2>3 DEF IInv
<1>3. CASE Next
  <2>1. (TypeOK /\ WriterTypes /\ ReaderTypes /\ WillCount)'
    BY <1>1, <1>3, WriterTypesNext, ReaderTypesNext DEF Next
  <2>2. (HasPacket /\ NoReadOverflow /\ SlotsHold)'
    BY <1>1, HasPacketNext, SlotsHoldNext
  <2>3. ASSUME NEW i \in Readers, ~overlap'[i]
        PROVE  Apart(i)'
    <3>1. ~overlap[i] => Apart(i)
      BY DEF IInv
    <3>2. Apart(i) /\ Separate(i)'
      BY <1>1, <1>3, <2>3, <3>1, NoOverlapBefore
    <3>3. CASE WriterStep \/ NewPacketStep
      BY <1>1, <3>2, <3>3, WriterKeepsApart
    <3>4. ASSUME NEW j \in Readers, ReaderStep(j) \/ TimeOutStep(j) \/ ThrowStep(j)
          PROVE  Apart(i)'
      <4>1. CASE j = i
        BY <1>1, <3>2, <3>4, <4>1, ReaderKeepsApart
      <4>2. CASE j # i
        BY <1>1, <3>2, <3>4, <4>2, OthersKeepApart
      <4> QED
        BY <4>1, <4>2
    <3> QED
      BY <1>3, <3>3, <3>4 DEF Next
  <2> QED
    BY <2>1, <2>2, <2>3 DEF IInv
<1> QED
  BY <1>2, <1>3

LEMMA Invariant == Spec => []IInv
BY InitFacts, InvNext, PTL DEF Spec

\* The variables keep their types: no interleaving moves writePtr out of the
\* vector for longer than the two statements of doneWriting, or has two threads
\* in the statements that hold the mutex.
THEOREM TypeCorrect == Spec => []TypeOK
<1>1. IInv => TypeOK
  BY DEF IInv
<1> QED
  BY <1>1, Invariant, PTL

\* getReadPtr never throws its read overflow: what isEmpty said to a reader
\* stays true until that reader itself is in doneReading.
THEOREM ReadersNeverOverflow == Spec => []NoReadOverflow
<1>1. IInv => NoReadOverflow
  BY DEF IInv
<1> QED
  BY <1>1, Invariant, PTL

-----------------------------------------------------------------------------
(***************************************************************************)
(* What that means for readers apart from the writer.                      *)
(***************************************************************************)

LEMMA WrappedOnce ==
  ASSUME NEW n \in Nat \ {0}, NEW a \in Nat, a < 2 * n
  PROVE  a % n = IF a < n THEN a ELSE a - n
OBVIOUS

LEMMA ConsistentWhenIdle ==
  ASSUME IInv, NEW i \in Readers, ~overlap[i], w.at = "idle", r[i].at \notin InDoneReading,
         InRange(i)
  PROVE  BufferConsistent(i)
<1>1. TypeOK /\ WriterTypes /\ ReaderTypes /\ SlotsHold /\ Apart(i) /\ InVector(i)
  BY DEF IInv, InRange, InVector
<1>2. PositionFits(i) /\ EmptyFits(i) /\ FullFits(i)
  BY <1>1 DEF Apart
<1>3. /\ r[i].at \notin Moved /\ ~Taken(i) /\ ~Compared(i) /\ ~Filled(i)
      /\ w.at \notin Passing /\ writePtr < Size /\ readPtr[i] < Size
  BY <1>1, Counts DEF InDoneReading, Moved, Taken, Compared, Filled, Taking, Copying, Passing,
     InRange, Slots
<1>4. Passed = writeCnt /\ NextPos(i) = Pos(i) /\ Backlog(i) = writeCnt - Pos(i)
  BY <1>1, <1>3, Counts DEF Backlog
<1>5. Backlog(i) \in {writePtr - readPtr[i], writePtr - readPtr[i] + Size} /\ Backlog(i) <= Size
      /\ Backlog(i) \in Nat
  BY <1>1, <1>2, <1>4, Counts DEF PositionFits
<1>6. empty[i] <=> Backlog(i) = 0
  <2>1. empty[i] <=> writeCnt = Pos(i)
    BY <1>2, <1>3 DEF EmptyFits
  <2>2. writeCnt = Pos(i) <=> Backlog(i) = 0
    BY <1>1, <1>4, Counts
  <2> QED
    BY <2>1, <2>2
<1>7. full[i] <=> Backlog(i) = Size
  <2>1. full[i] <=> writeCnt - Pos(i) = Size
    BY <1>2, <1>3 DEF FullFits
  <2> QED
    BY <1>4, <2>1
<1>8. ASSUME NEW k \in 0 .. Backlog(i) - 1
      PROVE  data[(readPtr[i] + k) % Size] = [hdr |-> Pos(i) + k, pay |-> Pos(i) + k]
  <2> DEFINE s == (readPtr[i] + k) % Size
  <2>1. s = IF readPtr[i] + k < Size THEN readPtr[i] + k ELSE readPtr[i] + k - Size
    <3>1. readPtr[i] + k \in Nat /\ readPtr[i] + k < 2 * Size
      BY <1>1, <1>3, <1>5, Counts
    <3> QED
      BY <1>1, <3>1, Counts, WrappedOnce
  <2> HIDE DEF s
  <2>2. s \in Slots /\ s \in Nat
    BY <1>1, <1>3, <1>5, <2>1, Counts DEF Slots
  <2>3. Age(s) = Backlog(i) - k
    BY <1>1, <1>3, <1>5, <2>1, Counts DEF Age
  <2>4. Passed - Age(s) = Pos(i) + k
    BY <1>1, <1>4, <1>5, <2>3, Counts
  <2>5. data[s] = Packet(Pos(i) + k)
    BY <1>1, <2>2, <2>4, Counts DEF SlotsHold
  <2> QED
    BY <2>5 DEF s, Packet
<1> QED
  BY <1>5, <1>6, <1>7, <1>8 DEF BufferConsistent

\* A reader whose doneReading never ran during a call of the writer has the
\* right flags and iterator, and all its packets, whole and in order, between
\* calls: whatever else of the threads mixes, it is doneReading alone that
\* needed the mutex.
THEOREM ApartIsConsistent == Spec => []ApartConsistent
<1>1. IInv => ApartConsistent
  BY ConsistentWhenIdle DEF ApartConsistent
<1> QED
  BY <1>1, Invariant, PTL

\* Such a reader has the packet that was its turn, whole, when it has read it,
\* unless the writer meanwhile took that packet and counted an overwrite.
THEOREM ApartReadsArePackets == Spec => []ApartReadsWhole
<1>1. IInv => ApartReadsWhole
  BY DEF IInv, ApartReadsWhole, Apart, ReadSoFar
<1> QED
  BY <1>1, Invariant, PTL

=============================================================================
