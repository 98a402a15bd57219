--------------------------- MODULE DataBufferProofs ---------------------------
(***************************************************************************)
(* Proofs about the circular buffer, for every size of it, every set of    *)
(* readers and any number of packets.                                      *)
(***************************************************************************)
EXTENDS DataBuffer, SequenceTheorems, TLAPS

(***************************************************************************)
(* The inductive invariant.  Nothing is said of a reader that was overrun  *)
(* past data.end(), except through the counts, which go on being exact.    *)
(***************************************************************************)

\* The packet that slot s holds when it is not being written to.
Latest(s) ==
  LET n == writeCnt - writePtr + s - (IF s < writePtr THEN 0 ELSE Size)
  IN IF n >= 0 THEN n ELSE Blank

SlotsHoldLatest ==
  \A s \in Slots :
    s # writePtr \/ writer = "idle" => data[s] = [hdr |-> Latest(s), pay |-> Latest(s)]

WriterProgress ==
  /\ writer # "idle" => writeCnt < MaxWrites
  /\ writer = "payload" => data[writePtr].hdr = writeCnt
  /\ writer = "done" => data[writePtr] = [hdr |-> writeCnt, pay |-> writeCnt]

\* A reader that found data still has it until its own doneReading.
BusyNotEmpty == \A i \in Readers : reader[i].at # "idle" => ~empty[i]

\* The counts tell whether the writer took the packet a reader holds.
HeldPacket ==
  \A i \in Readers : reader[i].at \in Holding =>
    /\ reader[i].want <= Pos(i)
    /\ reader[i].want = Pos(i) => reader[i].slot = readPtr[i]
    /\ reader[i].want = Pos(i) /\ reader[i].slot \in Slots =>
         /\ reader[i].at \in {"payload", "done"} => reader[i].hdr = reader[i].want
         /\ reader[i].at = "done" => reader[i].pay = reader[i].want

IInv ==
  /\ TypeOK
  /\ FlagsMatchBacklog
  /\ SlotsHoldLatest
  /\ WriterProgress
  /\ BusyNotEmpty
  /\ HeldPacket
  /\ NoReadOverflow

-----------------------------------------------------------------------------
(***************************************************************************)
(* Iterators and slots.                                                    *)
(***************************************************************************)

\* An iterator in data is moved to an iterator in data, one to the right or
\* from the last slot to the first; one outside data stays outside.
LEMMA AdvanceFacts ==
  ASSUME NEW p \in Nat
  PROVE  /\ Advance(p) \in Nat
         /\ p \in Slots => Advance(p) \in Slots
         /\ p \notin Slots => Advance(p) = p + 1
         /\ p + 1 = Size => Advance(p) = 0
         /\ p + 1 # Size => Advance(p) = p + 1
BY SizeAssumption DEF Advance, Slots

\* Counts are natural numbers, and so is the next packet of each reader.
LEMMA PosNat == TypeOK => \A i \in Readers : Pos(i) \in Nat /\ Backlog(i) \in Int
BY DEF TypeOK, Counters, Pos, Backlog

-----------------------------------------------------------------------------
(***************************************************************************)
(* Type correctness.                                                       *)
(***************************************************************************)

LEMMA TypeInit == Init => TypeOK
BY SizeAssumption, MaxWritesAssumption
   DEF Init, TypeOK, Slots, Counters, Holding, NotReading, Blank

LEMMA TypeNext ==
  ASSUME TypeOK, WriterProgress, [Next]_vars
  PROVE  TypeOK'
<1> USE SizeAssumption, MaxWritesAssumption DEF Counters, Holding, NotReading
<1>1. CASE GetWritePtr
  BY <1>1 DEF TypeOK, GetWritePtr, ReadPtrTaken
<1>2. CASE CopyHeader
  BY <1>2 DEF TypeOK, CopyHeader, bufVars
<1>3. CASE CopyData
  BY <1>3 DEF TypeOK, CopyData, bufVars
<1>4. CASE DoneWriting
  <2>1. writePtr' \in Slots
    BY <1>4, AdvanceFacts DEF TypeOK, DoneWriting, Slots
  <2>2. writeCnt' \in 0 .. MaxWrites
    BY <1>4 DEF TypeOK, DoneWriting, WriterProgress
  <2> QED
    BY <1>4, <2>1, <2>2 DEF TypeOK, DoneWriting, FullAfterWriting
<1>5. ASSUME NEW i \in Readers, FoundData(i)
      PROVE  TypeOK'
  <2>1. /\ reader' = [reader EXCEPT ![i].at = "get"]
        /\ UNCHANGED <<data, bufVars, writer, cleared>>
    BY <1>5 DEF FoundData
  <2>2. reader' \in [Readers -> [at : {"idle", "get"} \cup Holding, slot : Nat,
                                hdr : Nat \cup {Blank, Garbage},
                                pay : Nat \cup {Blank, Garbage}, want : Nat]]
    <3> DEFINE R == [at : {"idle", "get"} \cup Holding, slot : Nat,
                     hdr : Nat \cup {Blank, Garbage}, pay : Nat \cup {Blank, Garbage}, want : Nat]
    <3>1. reader \in [Readers -> R]
      BY DEF TypeOK
    <3>2. [reader[i] EXCEPT !.at = "get"] \in R
      <4>1. reader[i] \in R
        BY <1>5, <3>1
      <4> QED
        BY <4>1
    <3> HIDE DEF R
    <3>3. reader' \in [Readers -> R]
      BY <2>1, <3>1, <3>2
    <3> QED
      BY <3>3 DEF R
  <2> QED
    BY <2>1, <2>2 DEF TypeOK, bufVars
<1>6. ASSUME NEW i \in Readers, GetReadPtr(i)
      PROVE  TypeOK'
  <2>1. readPtr[i] \in Nat /\ Pos(i) \in Nat
    BY PosNat DEF TypeOK
  <2>2. CASE empty[i]
    BY <1>6, <2>2 DEF TypeOK, GetReadPtr, Blank
  <2>3. CASE ~empty[i]
    <3>1. reader' = [reader EXCEPT ![i] = [at |-> "header", slot |-> readPtr[i],
                       hdr |-> Blank, pay |-> Blank, want |-> Pos(i)]]
      BY <1>6, <2>3 DEF GetReadPtr
    <3>2. UNCHANGED <<data, bufVars, writer, cleared>>
      BY <1>6, <2>3 DEF GetReadPtr, bufVars
    <3> QED
      BY <2>1, <3>1, <3>2 DEF TypeOK, bufVars, Blank
  <2> QED
    BY <2>2, <2>3
<1>7. ASSUME NEW i \in Readers, ReadHeader(i)
      PROVE  TypeOK'
  BY <1>7 DEF TypeOK, ReadHeader, bufVars
<1>8. ASSUME NEW i \in Readers, ReadPayload(i)
      PROVE  TypeOK'
  BY <1>8 DEF TypeOK, ReadPayload, bufVars
<1>9. ASSUME NEW i \in Readers, ProcessingThrows(i)
      PROVE  TypeOK'
  BY <1>9 DEF TypeOK, ProcessingThrows, bufVars
<1>10. ASSUME NEW i \in Readers, DoneReading(i)
       PROVE  TypeOK'
  BY <1>10, AdvanceFacts DEF TypeOK, DoneReading, EmptyAfterReading, FullAfterReading
<1>11. CASE ClearCnts
  BY <1>11 DEF TypeOK, ClearCnts
<1>12. CASE UNCHANGED vars
  BY <1>12 DEF TypeOK, vars, bufVars
<1> QED
  BY <1>1, <1>2, <1>3, <1>4, <1>5, <1>6, <1>7, <1>8, <1>9, <1>10, <1>11, <1>12
     DEF Next, WriterNext, ReaderNext

-----------------------------------------------------------------------------
(***************************************************************************)
(* A reader that has found data keeps it, and reads no empty buffer.       *)
(***************************************************************************)

LEMMA BusyNext ==
  ASSUME TypeOK, BusyNotEmpty, NoReadOverflow, [Next]_vars
  PROVE  BusyNotEmpty' /\ NoReadOverflow'
<1> USE DEF BusyNotEmpty, NoReadOverflow, TypeOK, Counters
<1>1. CASE GetWritePtr
  BY <1>1 DEF GetWritePtr
<1>2. CASE CopyHeader \/ CopyData
  BY <1>2 DEF CopyHeader, CopyData, bufVars
<1>3. CASE DoneWriting
  BY <1>3 DEF DoneWriting
<1>4. ASSUME NEW i \in Readers, FoundData(i)
      PROVE  BusyNotEmpty' /\ NoReadOverflow'
  BY <1>4 DEF FoundData, bufVars
<1>5. ASSUME NEW i \in Readers, GetReadPtr(i)
      PROVE  BusyNotEmpty' /\ NoReadOverflow'
  <2>1. ~empty[i]
    BY <1>5 DEF GetReadPtr
  <2> QED
    BY <1>5, <2>1 DEF GetReadPtr
<1>6. ASSUME NEW i \in Readers, ReadHeader(i) \/ ReadPayload(i) \/ ProcessingThrows(i)
      PROVE  BusyNotEmpty' /\ NoReadOverflow'
  BY <1>6 DEF ReadHeader, ReadPayload, ProcessingThrows, NotReading, bufVars
<1>7. ASSUME NEW i \in Readers, DoneReading(i)
      PROVE  BusyNotEmpty' /\ NoReadOverflow'
  BY <1>7 DEF DoneReading, EmptyAfterReading, NotReading
<1>8. CASE ClearCnts
  BY <1>8 DEF ClearCnts
<1>9. CASE UNCHANGED vars
  BY <1>9 DEF vars, bufVars
<1> QED
  BY <1>1, <1>2, <1>3, <1>4, <1>5, <1>6, <1>7, <1>8, <1>9 DEF Next, WriterNext, ReaderNext

-----------------------------------------------------------------------------
(***************************************************************************)
(* The flags against the counts, one reader at a time.                     *)
(***************************************************************************)

\* FlagsMatchBacklog of one reader.
FlagsOf(i) ==
  InRange(i) =>
    /\ Backlog(i) \in 0 .. Size
    /\ Backlog(i) \in {writePtr - readPtr[i], writePtr - readPtr[i] + Size}
    /\ empty[i] <=> Backlog(i) = 0
    /\ writer = "idle" => (full[i] <=> Backlog(i) = Size)
    /\ writer # "idle" => /\ Backlog(i) < Size
                          /\ full[i] => Backlog(i) = Size - 1

LEMMA FlagsNext ==
  ASSUME TypeOK, FlagsMatchBacklog, BusyNotEmpty, [Next]_vars
  PROVE  FlagsMatchBacklog'
<1> SUFFICES ASSUME NEW j \in Readers
             PROVE  FlagsOf(j)'
  BY DEF FlagsMatchBacklog, FlagsOf
<1> USE SizeAssumption DEF InRange, Slots, Pos, Backlog
<1>1. FlagsOf(j)
  BY DEF FlagsMatchBacklog, FlagsOf
<1>2. /\ writePtr \in Slots /\ readPtr[j] \in Nat /\ writeCnt \in Nat /\ Size \in Nat \ {0}
      /\ readCnt[j] \in Nat /\ OWCnt[j] \in Nat /\ cleared[j] \in Nat
      /\ full[j] \in BOOLEAN /\ empty[j] \in BOOLEAN
  BY MaxWritesAssumption DEF TypeOK, Counters
<1>3. CASE UNCHANGED <<writePtr, readPtr, full, empty, writeCnt, readCnt>>
           /\ OWCnt'[j] + cleared'[j] = OWCnt[j] + cleared[j]
           /\ OWCnt'[j] \in Nat /\ cleared'[j] \in Nat
           /\ (writer = "idle") = (writer' = "idle")
  BY <1>1, <1>2, <1>3 DEF FlagsOf
<1>4. CASE GetWritePtr
  <2>1. /\ UNCHANGED <<writePtr, full, empty, writeCnt, readCnt, cleared>>
        /\ writer = "idle" /\ writer' = "header"
    BY <1>4 DEF GetWritePtr
  <2>2. CASE full[j]
    <3>1. readPtr'[j] = readPtr[j] + 1 /\ OWCnt'[j] = OWCnt[j] + 1
      BY <1>4, <2>2 DEF GetWritePtr, ReadPtrTaken
    <3> QED
      BY <1>1, <1>2, <2>1, <2>2, <3>1 DEF FlagsOf
  <2>3. CASE ~full[j]
    <3>1. readPtr'[j] = readPtr[j] /\ OWCnt'[j] = OWCnt[j]
      BY <1>4, <2>3 DEF GetWritePtr, ReadPtrTaken
    <3> QED
      BY <1>1, <1>2, <2>1, <2>3, <3>1 DEF FlagsOf
  <2> QED
    BY <2>2, <2>3
<1>5. CASE DoneWriting
  <2>1. /\ UNCHANGED <<readPtr, readCnt, OWCnt, cleared>>
        /\ writer # "idle" /\ writer' = "idle"
        /\ writePtr' = Advance(writePtr) /\ writeCnt' = writeCnt + 1
        /\ full'[j] <=> full[j] \/ readPtr[j] = writePtr'
        /\ ~empty'[j]
    BY <1>5 DEF DoneWriting, FullAfterWriting
  <2>2. CASE writePtr + 1 = Size
    <3>1. writePtr' = 0
      BY <2>1, <2>2 DEF Advance
    <3>2. Backlog(j)' = Backlog(j) + 1
      BY <1>2, <2>1
    <3>3. InRange(j)' => InRange(j)
      BY <2>1
    <3>4. CASE readPtr[j] = 0
      BY <1>1, <1>2, <2>1, <2>2, <3>1, <3>2, <3>3, <3>4 DEF FlagsOf
    <3>5. CASE readPtr[j] # 0
      BY <1>1, <1>2, <2>1, <2>2, <3>1, <3>2, <3>3, <3>5 DEF FlagsOf
    <3> QED
      BY <3>4, <3>5
  <2>3. CASE writePtr + 1 # Size
    <3>1. writePtr' = writePtr + 1
      BY <2>1, <2>3 DEF Advance
    <3> QED
      BY <1>1, <1>2, <2>1, <2>3, <3>1 DEF FlagsOf
  <2> QED
    BY <2>2, <2>3
<1>6. ASSUME NEW i \in Readers, DoneReading(i)
      PROVE  FlagsOf(j)'
  <2>1. UNCHANGED <<writePtr, writeCnt, OWCnt, cleared, writer>>
    BY <1>6 DEF DoneReading
  <2>2. CASE i # j
    <3>1. /\ readPtr'[j] = readPtr[j] /\ full'[j] = full[j] /\ empty'[j] = empty[j]
          /\ readCnt'[j] = readCnt[j]
      BY <1>6, <2>2 DEF DoneReading, EmptyAfterReading, FullAfterReading, TypeOK, Counters
    <3> QED
      BY <1>1, <1>2, <2>1, <3>1 DEF FlagsOf
  <2>3. CASE i = j
    <3>1. /\ readPtr'[j] = Advance(readPtr[j]) /\ ~full'[j]
          /\ empty'[j] <=> empty[j] \/ readPtr'[j] = writePtr
          /\ readCnt'[j] = readCnt[j] + 1
      BY <1>6, <2>3 DEF DoneReading, EmptyAfterReading, FullAfterReading, TypeOK, Counters
    <3>2. ~empty[j]
      BY <1>6, <2>3 DEF DoneReading, BusyNotEmpty
    <3>3. CASE readPtr[j] + 1 = Size
      <4>1. readPtr'[j] = 0
        BY <3>1, <3>3 DEF Advance
      <4> QED
        BY <1>1, <1>2, <2>1, <3>1, <3>2, <3>3, <4>1 DEF FlagsOf
    <3>4. CASE readPtr[j] + 1 # Size
      <4>1. readPtr'[j] = readPtr[j] + 1
        BY <3>1, <3>4 DEF Advance
      <4> QED
        BY <1>1, <1>2, <2>1, <3>1, <3>2, <3>4, <4>1 DEF FlagsOf
    <3> QED
      BY <3>3, <3>4
  <2> QED
    BY <2>2, <2>3
<1>7. ASSUME NEW i \in Readers,
             \/ FoundData(i) \/ GetReadPtr(i) \/ ReadHeader(i) \/ ReadPayload(i)
             \/ ProcessingThrows(i)
      PROVE  FlagsOf(j)'
  BY <1>2, <1>3, <1>7
     DEF FoundData, GetReadPtr, ReadHeader, ReadPayload, ProcessingThrows, bufVars
<1>8. CASE CopyHeader \/ CopyData
  BY <1>2, <1>3, <1>8 DEF CopyHeader, CopyData, bufVars
<1>9. CASE ClearCnts
  <2>1. OWCnt'[j] = 0 /\ cleared'[j] = cleared[j] + OWCnt[j]
    BY <1>9 DEF ClearCnts
  <2> QED
    BY <1>2, <1>3, <1>9, <2>1 DEF ClearCnts
<1>10. CASE UNCHANGED vars
  BY <1>2, <1>3, <1>10 DEF vars, bufVars
<1> QED
  BY <1>4, <1>5, <1>6, <1>7, <1>8, <1>9, <1>10 DEF Next, WriterNext, ReaderNext

-----------------------------------------------------------------------------
(***************************************************************************)
(* The contents of the slots.                                              *)
(***************************************************************************)

LEMMA WriterProgressNext ==
  ASSUME TypeOK, WriterProgress, [Next]_vars
  PROVE  WriterProgress'
<1> USE SizeAssumption, MaxWritesAssumption DEF TypeOK, WriterProgress
<1>1. CASE GetWritePtr
  BY <1>1 DEF GetWritePtr
<1>2. CASE CopyHeader
  BY <1>2 DEF CopyHeader, bufVars
<1>3. CASE CopyData
  <2>1. data'[writePtr] = [data[writePtr] EXCEPT !.pay = writeCnt]
    BY <1>3 DEF CopyData
  <2>2. data'[writePtr] = [hdr |-> writeCnt, pay |-> writeCnt]
    BY <1>3, <2>1 DEF CopyData
  <2> QED
    BY <1>3, <2>2 DEF CopyData, bufVars
<1>4. CASE DoneWriting
  BY <1>4 DEF DoneWriting
<1>5. CASE \E i \in Readers : ReaderNext(i)
  BY <1>5 DEF ReaderNext, FoundData, GetReadPtr, ReadHeader, ReadPayload, ProcessingThrows,
              DoneReading, bufVars
<1>6. CASE ClearCnts
  BY <1>6 DEF ClearCnts
<1>7. CASE UNCHANGED vars
  BY <1>7 DEF vars, bufVars
<1> QED
  BY <1>1, <1>2, <1>3, <1>4, <1>5, <1>6, <1>7 DEF Next, WriterNext

LEMMA SlotsInit == Init => SlotsHoldLatest
<1> SUFFICES ASSUME Init, NEW s \in Slots
             PROVE  data[s] = [hdr |-> Latest(s), pay |-> Latest(s)]
  BY DEF SlotsHoldLatest
<1>1. Latest(s) = Blank
  BY SizeAssumption DEF Init, Latest, Slots
<1> QED
  BY <1>1 DEF Init

LEMMA SlotsNext ==
  ASSUME TypeOK, SlotsHoldLatest, WriterProgress, [Next]_vars
  PROVE  SlotsHoldLatest'
<1> SUFFICES ASSUME NEW s \in Slots, (s # writePtr \/ writer = "idle")'
             PROVE  data'[s] = [hdr |-> Latest(s)', pay |-> Latest(s)']
  BY DEF SlotsHoldLatest
<1>1. /\ writePtr \in Slots /\ writeCnt \in Nat /\ Size \in Nat \ {0} /\ s \in 0 .. Size - 1
  BY SizeAssumption, MaxWritesAssumption DEF TypeOK, Slots
<1>2. CASE UNCHANGED <<data, writePtr, writeCnt>> /\ (writer' = "idle" => writer = "idle")
  BY <1>2 DEF SlotsHoldLatest, Latest
<1>3. CASE GetWritePtr
  BY <1>2, <1>3 DEF GetWritePtr
<1>4. CASE CopyHeader \/ CopyData
  <2>1. s # writePtr /\ data'[s] = data[s] /\ UNCHANGED <<writePtr, writeCnt>>
    BY <1>4 DEF CopyHeader, CopyData, bufVars, TypeOK
  <2> QED
    BY <2>1 DEF SlotsHoldLatest, Latest
<1>5. CASE DoneWriting
  <2>1. UNCHANGED data /\ writePtr' = Advance(writePtr) /\ writeCnt' = writeCnt + 1
        /\ writer = "done"
    BY <1>5 DEF DoneWriting
  <2>2. CASE s = writePtr
    <3>1. Latest(s)' = writeCnt
      BY <1>1, <2>1, <2>2 DEF Latest, Advance, Slots
    <3> QED
      BY <2>1, <2>2, <3>1 DEF WriterProgress
  <2>3. CASE s # writePtr
    <3>1. Latest(s)' = Latest(s)
      BY <1>1, <2>1, <2>3 DEF Latest, Advance, Slots
    <3> QED
      BY <2>1, <2>3, <3>1 DEF SlotsHoldLatest
  <2> QED
    BY <2>2, <2>3
<1>6. CASE \E i \in Readers : ReaderNext(i)
  BY <1>2, <1>6 DEF ReaderNext, FoundData, GetReadPtr, ReadHeader, ReadPayload,
                    ProcessingThrows, DoneReading, bufVars
<1>7. CASE ClearCnts
  BY <1>2, <1>7 DEF ClearCnts
<1>8. CASE UNCHANGED vars
  BY <1>2, <1>8 DEF vars, bufVars
<1> QED
  BY <1>3, <1>4, <1>5, <1>6, <1>7, <1>8 DEF Next, WriterNext

\* The packets a reader has still to take are between its iterator and the
\* writer's, round the end, and no slot there is being written to.
LEMMA PendingFollows ==
  ASSUME TypeOK, FlagsMatchBacklog, SlotsHoldLatest
  PROVE  PendingIntact
<1> SUFFICES ASSUME NEW i \in Readers, InRange(i), NEW k \in 0 .. Backlog(i) - 1
             PROVE  /\ data[SlotAhead(i, k)] = [hdr |-> Pos(i) + k, pay |-> Pos(i) + k]
                    /\ writer # "idle" => SlotAhead(i, k) # writePtr
  BY DEF PendingIntact
<1>1. /\ writePtr \in 0 .. Size - 1 /\ readPtr[i] \in 0 .. Size - 1 /\ writeCnt \in Nat
      /\ Size \in Nat \ {0} /\ Pos(i) \in Nat /\ k \in Nat /\ k < Backlog(i)
  BY SizeAssumption, MaxWritesAssumption, PosNat DEF TypeOK, InRange, Slots
<1>2. /\ Backlog(i) = writeCnt - Pos(i) /\ Backlog(i) <= Size
      /\ Backlog(i) = writePtr - readPtr[i] \/ Backlog(i) = writePtr - readPtr[i] + Size
      /\ writer # "idle" => Backlog(i) < Size
  BY <1>1 DEF FlagsMatchBacklog, Backlog
<1> DEFINE s == SlotAhead(i, k)
<1>3. CASE readPtr[i] + k < Size
  <2>1. s = readPtr[i] + k
    BY <1>3 DEF SlotAhead
  <2>2. s \in Slots /\ Latest(s) = Pos(i) + k /\ (writer # "idle" => s # writePtr)
    BY <1>1, <1>2, <1>3, <2>1 DEF Latest, Slots
  <2> QED
    BY <2>2 DEF SlotsHoldLatest
<1>4. CASE ~(readPtr[i] + k < Size)
  <2>1. s = readPtr[i] + k - Size
    BY <1>4 DEF SlotAhead
  <2>2. s \in Slots /\ Latest(s) = Pos(i) + k /\ (writer # "idle" => s # writePtr)
    BY <1>1, <1>2, <1>4, <2>1 DEF Latest, Slots
  <2> QED
    BY <2>2 DEF SlotsHoldLatest
<1> QED
  BY <1>3, <1>4

-----------------------------------------------------------------------------
(***************************************************************************)
(* What a reader holds.                                                    *)
(***************************************************************************)

\* HeldPacket of one reader.
HeldBy(i) ==
  reader[i].at \in Holding =>
    /\ reader[i].want <= Pos(i)
    /\ reader[i].want = Pos(i) => reader[i].slot = readPtr[i]
    /\ reader[i].want = Pos(i) /\ reader[i].slot \in Slots =>
         /\ reader[i].at \in {"payload", "done"} => reader[i].hdr = reader[i].want
         /\ reader[i].at = "done" => reader[i].pay = reader[i].want

\* The slot of a packet that the writer did not take is intact.
LEMMA HeldIntact ==
  ASSUME TypeOK, FlagsMatchBacklog, SlotsHoldLatest, BusyNotEmpty, NEW i \in Readers,
         HeldBy(i), reader[i].at \in Holding, reader[i].want = Pos(i), reader[i].slot \in Slots
  PROVE  data[reader[i].slot] = [hdr |-> reader[i].want, pay |-> reader[i].want]
<1>1. reader[i].slot = readPtr[i] /\ InRange(i)
  BY DEF HeldBy, InRange
<1>2. Backlog(i) \in Nat /\ Backlog(i) # 0
  BY <1>1, SizeAssumption DEF FlagsMatchBacklog, BusyNotEmpty, Holding
<1>3. 0 \in 0 .. Backlog(i) - 1
  BY <1>2
<1>4. SlotAhead(i, 0) = readPtr[i] /\ Pos(i) + 0 = Pos(i)
  <2>1. Size \in Nat /\ readPtr[i] \in 0 .. Size - 1 /\ Pos(i) \in Nat
    BY <1>1, PosNat, SizeAssumption DEF InRange, Slots
  <2> QED
    BY <2>1 DEF SlotAhead
<1> QED
  BY <1>1, <1>3, <1>4, PendingFollows DEF PendingIntact

LEMMA HeldNext ==
  ASSUME TypeOK, FlagsMatchBacklog, SlotsHoldLatest, BusyNotEmpty, HeldPacket, [Next]_vars
  PROVE  HeldPacket'
<1> SUFFICES ASSUME NEW j \in Readers
             PROVE  HeldBy(j)'
  BY DEF HeldPacket, HeldBy
<1>1. HeldBy(j)
  BY DEF HeldPacket, HeldBy
<1>2. /\ readPtr[j] \in Nat /\ readCnt[j] \in Nat /\ OWCnt[j] \in Nat /\ cleared[j] \in Nat
      /\ Pos(j) \in Nat /\ reader[j].want \in Nat
  BY PosNat DEF TypeOK, Counters
<1>3. CASE /\ reader'[j] = reader[j] /\ readPtr'[j] = readPtr[j]
           /\ Pos(j)' = Pos(j)
  BY <1>1, <1>3 DEF HeldBy
<1>4. CASE GetWritePtr
  <2>1. CASE full[j]
    <3>1. reader'[j] = reader[j] /\ Pos(j)' = Pos(j) + 1
      BY <1>2, <1>4, <2>1 DEF GetWritePtr, Pos
    <3> QED
      BY <1>1, <1>2, <3>1 DEF HeldBy
  <2>2. CASE ~full[j]
    BY <1>3, <1>4, <2>2 DEF GetWritePtr, ReadPtrTaken, Pos
  <2> QED
    BY <2>1, <2>2
<1>5. CASE CopyHeader \/ CopyData \/ DoneWriting
  BY <1>3, <1>5 DEF CopyHeader, CopyData, DoneWriting, bufVars, Pos
<1>6. CASE ClearCnts
  <2>1. Pos(j)' = Pos(j)
    BY <1>2, <1>6 DEF ClearCnts, Pos
  <2> QED
    BY <1>3, <1>6, <2>1 DEF ClearCnts
<1>7. CASE UNCHANGED vars
  BY <1>3, <1>7 DEF vars, bufVars, Pos
<1>8. ASSUME NEW i \in Readers, i # j, ReaderNext(i)
      PROVE  HeldBy(j)'
  <2>1. UNCHANGED <<OWCnt, cleared>> /\ reader'[j] = reader[j]
        /\ readPtr'[j] = readPtr[j] /\ readCnt'[j] = readCnt[j]
    BY <1>8 DEF ReaderNext, FoundData, GetReadPtr, ReadHeader, ReadPayload,
                ProcessingThrows, DoneReading, bufVars, TypeOK, Counters
  <2> QED
    BY <1>3, <2>1 DEF Pos
<1>9. CASE FoundData(j)
  BY <1>9 DEF FoundData, HeldBy, Holding, TypeOK
<1>10. CASE GetReadPtr(j)
  <2>1. CASE empty[j]
    BY <1>10, <2>1 DEF GetReadPtr, HeldBy, Holding, NotReading, TypeOK
  <2>2. CASE ~empty[j]
    <3>1. reader'[j] = [at |-> "header", slot |-> readPtr[j], hdr |-> Blank,
                        pay |-> Blank, want |-> Pos(j)]
      BY <1>10, <2>2 DEF GetReadPtr, NotReading, TypeOK
    <3>2. readPtr'[j] = readPtr[j] /\ Pos(j)' = Pos(j)
      BY <1>10, <2>2 DEF GetReadPtr, Pos
    <3> QED
      BY <1>2, <3>1, <3>2 DEF HeldBy
  <2> QED
    BY <2>1, <2>2
<1>11. CASE ReadHeader(j)
  <2>1. Pos(j)' = Pos(j) /\ readPtr' = readPtr
    BY <1>11 DEF ReadHeader, bufVars, Pos
  <2>2. reader[j].at \in Holding
    BY <1>11 DEF ReadHeader, Holding
  <2>3. /\ reader'[j].at = "payload"
        /\ reader'[j].slot = reader[j].slot /\ reader'[j].want = reader[j].want
        /\ reader[j].slot \in Slots => reader'[j].hdr = data[reader[j].slot].hdr
    BY <1>11 DEF ReadHeader, TypeOK
  <2>4. reader[j].want = Pos(j) /\ reader[j].slot \in Slots
          => reader'[j].hdr = reader[j].want
    <3> SUFFICES ASSUME reader[j].want = Pos(j), reader[j].slot \in Slots
                 PROVE  reader'[j].hdr = reader[j].want
      OBVIOUS
    <3>1. data[reader[j].slot] = [hdr |-> reader[j].want, pay |-> reader[j].want]
      BY <1>1, <2>2, HeldIntact
    <3> QED
      BY <2>3, <3>1
  <2>5. /\ reader[j].want <= Pos(j)
        /\ reader[j].want = Pos(j) => reader[j].slot = readPtr[j]
    BY <1>1, <2>2 DEF HeldBy
  <2> QED
    BY <2>1, <2>3, <2>4, <2>5 DEF HeldBy
<1>12. CASE ReadPayload(j)
  <2>1. Pos(j)' = Pos(j) /\ readPtr' = readPtr
    BY <1>12 DEF ReadPayload, bufVars, Pos
  <2>2. reader[j].at \in Holding /\ reader[j].at = "payload"
    BY <1>12 DEF ReadPayload, Holding
  <2>3. /\ reader'[j].hdr = reader[j].hdr
        /\ reader'[j].slot = reader[j].slot /\ reader'[j].want = reader[j].want
        /\ reader[j].slot \in Slots => reader'[j].pay = data[reader[j].slot].pay
    BY <1>12 DEF ReadPayload, TypeOK
  <2>4. reader[j].want = Pos(j) /\ reader[j].slot \in Slots
          => reader'[j].pay = reader[j].want
    <3> SUFFICES ASSUME reader[j].want = Pos(j), reader[j].slot \in Slots
                 PROVE  reader'[j].pay = reader[j].want
      OBVIOUS
    <3>1. data[reader[j].slot] = [hdr |-> reader[j].want, pay |-> reader[j].want]
      BY <1>1, <2>2, HeldIntact
    <3> QED
      BY <2>3, <3>1
  <2>5. /\ reader[j].want <= Pos(j)
        /\ reader[j].want = Pos(j) => reader[j].slot = readPtr[j]
        /\ reader[j].want = Pos(j) /\ reader[j].slot \in Slots => reader[j].hdr = reader[j].want
    BY <1>1, <2>2 DEF HeldBy
  <2> QED
    BY <2>1, <2>3, <2>4, <2>5 DEF HeldBy
<1>13. CASE ProcessingThrows(j) \/ DoneReading(j)
  <2>1. reader'[j].at = "idle"
    BY <1>13 DEF ProcessingThrows, DoneReading, NotReading, TypeOK
  <2> QED
    BY <2>1 DEF HeldBy, Holding
<1>14. ASSUME NEW i \in Readers, ReaderNext(i)
       PROVE  HeldBy(j)'
  BY <1>8, <1>9, <1>10, <1>11, <1>12, <1>13, <1>14 DEF ReaderNext
<1> QED
  BY <1>4, <1>5, <1>6, <1>7, <1>14 DEF Next, WriterNext

-----------------------------------------------------------------------------
(***************************************************************************)
(* The theorems.                                                           *)
(***************************************************************************)

LEMMA InvInit == Init => IInv
<1> SUFFICES ASSUME Init
             PROVE  IInv
  OBVIOUS
<1>1. TypeOK /\ SlotsHoldLatest
  BY TypeInit, SlotsInit
<1>2. FlagsMatchBacklog
  BY SizeAssumption DEF Init, FlagsMatchBacklog, InRange, Backlog, Pos, Slots
<1>3. WriterProgress /\ BusyNotEmpty /\ HeldPacket /\ NoReadOverflow
  BY DEF Init, WriterProgress, BusyNotEmpty, HeldPacket, NoReadOverflow, Holding, NotReading
<1> QED
  BY <1>1, <1>2, <1>3 DEF IInv

LEMMA InvNext == IInv /\ [Next]_vars => IInv'
BY TypeNext, FlagsNext, SlotsNext, WriterProgressNext, BusyNext, HeldNext DEF IInv

LEMMA Invariance == Spec => []IInv
BY InvInit, InvNext, PTL DEF Spec

\* The variables keep their types, and a packet is never written past MaxWrites.
THEOREM TypeCorrect == Spec => []TypeOK
<1>1. IInv => TypeOK
  BY DEF IInv
<1> QED
  BY <1>1, Invariance, PTL

\* The flags of a reader say how far behind it is (doneWriting, doneReading).
THEOREM FlagsCorrect == Spec => []FlagsMatchBacklog
<1>1. IInv => FlagsMatchBacklog
  BY DEF IInv
<1> QED
  BY <1>1, Invariance, PTL

\* No packet that a reader has still to take is lost or damaged in its slot.
THEOREM PendingCorrect == Spec => []PendingIntact
<1>1. IInv => PendingIntact
  BY PendingFollows DEF IInv
<1> QED
  BY <1>1, Invariance, PTL

\* A reader that is not overwritten while it processes a packet sees that
\* packet, whole, though it reads it in the slot.
THEOREM ReadCorrect == Spec => []UndisturbedRead
<1>1. IInv => UndisturbedRead
  BY DEF IInv, HeldPacket, UndisturbedRead, Holding
<1> QED
  BY <1>1, Invariance, PTL

\* getReadPtr never throws in the two reader loops.
THEOREM NoOverflow == Spec => []NoReadOverflow
<1>1. IInv => NoReadOverflow
  BY DEF IInv
<1> QED
  BY <1>1, Invariance, PTL

\* Only a writer a whole lap ahead drives an iterator out of data.
THEOREM OverrunCorrect == Spec => OverrunNeedsFullLap
<1>1. IInv /\ [Next]_vars =>
        [\A i \in Readers : InRange(i) /\ ~InRange(i)' =>
            /\ readPtr[i] = Size - 1
            /\ Backlog(i) = Size
            /\ writer = "idle"]_vars
  <2> SUFFICES ASSUME IInv, Next, NEW i \in Readers, InRange(i), ~InRange(i)'
               PROVE  readPtr[i] = Size - 1 /\ Backlog(i) = Size /\ writer = "idle"
    BY DEF InRange
  <2>1. readPtr \in [Readers -> Nat] /\ readPtr[i] \in Nat
    BY DEF IInv, TypeOK, Counters
  <2>2. CASE GetWritePtr
    <3>1. writer = "idle" /\ readPtr'[i] = (IF full[i] THEN readPtr[i] + 1 ELSE readPtr[i])
      BY <2>2 DEF GetWritePtr, ReadPtrTaken
    <3>2. full[i] /\ readPtr[i] = Size - 1
      BY <2>1, <3>1, SizeAssumption DEF InRange, Slots
    <3> QED
      BY <3>1, <3>2 DEF IInv, FlagsMatchBacklog
  <2>3. ASSUME NEW j \in Readers, ReaderNext(j)
        PROVE  FALSE
    <3>1. CASE DoneReading(j)
      BY <2>1, <3>1, AdvanceFacts DEF DoneReading, InRange, Slots
    <3>2. CASE ~DoneReading(j)
      BY <2>3, <3>2 DEF ReaderNext, FoundData, GetReadPtr, ReadHeader, ReadPayload,
                        ProcessingThrows, bufVars, InRange
    <3> QED
      BY <3>1, <3>2
  <2>4. CASE CopyHeader \/ CopyData \/ DoneWriting \/ ClearCnts
    BY <2>4 DEF CopyHeader, CopyData, DoneWriting, ClearCnts, bufVars, InRange
  <2> QED
    BY <2>2, <2>3, <2>4 DEF Next, WriterNext
<1> QED
  BY <1>1, Invariance, PTL DEF Spec, OverrunNeedsFullLap

-----------------------------------------------------------------------------
(***************************************************************************)
(* The buffer implements LossyQueue.  A reader's queue is a run of         *)
(* consecutive packets: that is what PendingIntact says of its slots, and  *)
(* what makes the queue a function of the counts.                          *)
(***************************************************************************)

\* Which packet a slot holds is in both its parts.
Whole(n) == [hdr |-> n, pay |-> n]

\* The n packets from p on.
Run(p, n) == [k \in 1 .. n |-> Whole(p + (k - 1))]

\* A function on 1 .. n is a sequence.
LEMMA FunctionIsSeq ==
  ASSUME NEW S, NEW n \in Nat, NEW f \in [1 .. n -> S]
  PROVE  f \in Seq(S)
<1>1. Seq(S) = UNION {[1 .. m -> S] : m \in Nat}
  BY SeqDef
<1> HIDE DEF Seq
<1> QED
  BY <1>1, Zenon

\* A run is a sequence of its length; it is shortened at its head and
\* lengthened at its end.
LEMMA RunLen ==
  ASSUME NEW p \in Nat, NEW n \in Nat
  PROVE  /\ Run(p, n) \in Seq([hdr : Nat, pay : Nat])
         /\ Len(Run(p, n)) = n
         /\ Run(p, n) = << >> <=> n = 0
<1>1. Run(p, n) \in [1 .. n -> [hdr : Nat, pay : Nat]]
  BY DEF Run, Whole
<1>2. Run(p, n) \in Seq([hdr : Nat, pay : Nat])
  BY <1>1, FunctionIsSeq
<1>3. DOMAIN Run(p, n) = 1 .. n /\ DOMAIN Run(p, n) = 1 .. Len(Run(p, n))
  BY <1>2, LenProperties DEF Run
<1>4. Len(Run(p, n)) = n
  BY <1>2, <1>3, LenProperties
<1>5. Run(p, n) = << >> <=> n = 0
  BY <1>2, <1>4, EmptySeq
<1> QED
  BY <1>2, <1>4, <1>5

LEMMA RunTail ==
  ASSUME NEW p \in Nat, NEW n \in Nat \ {0}
  PROVE  Tail(Run(p, n)) = Run(p + 1, n - 1)
<1> DEFINE S == [hdr : Nat, pay : Nat]
           s == Run(p, n)
           t == Run(p + 1, n - 1)
<1>1. s \in Seq(S) /\ Len(s) = n /\ s # << >>
  BY RunLen
<1>2. t \in Seq(S) /\ Len(t) = n - 1
  BY RunLen, n - 1 \in Nat, p + 1 \in Nat
<1>3. Tail(s) \in Seq(S) /\ Len(Tail(s)) = n - 1
      /\ \A k \in 1 .. Len(Tail(s)) : Tail(s)[k] = s[k + 1]
  BY <1>1, HeadTailProperties
<1>4. ASSUME NEW k \in 1 .. n - 1
      PROVE  s[k + 1] = t[k]
  <2>1. s[k + 1] = Whole(p + ((k + 1) - 1)) /\ t[k] = Whole((p + 1) + (k - 1))
    BY DEF Run
  <2> QED
    BY <2>1
<1> HIDE DEF s, t, S
<1>5. Tail(s) = t
  BY <1>2, <1>3, <1>4, SeqEqual
<1> QED
  BY <1>5 DEF s, t

LEMMA RunAppend ==
  ASSUME NEW p \in Nat, NEW n \in Nat
  PROVE  Append(Run(p, n), Whole(p + n)) = Run(p, n + 1)
<1> DEFINE S == [hdr : Nat, pay : Nat]
           s == Run(p, n)
           e == Whole(p + n)
           t == Run(p, n + 1)
<1>1. s \in Seq(S) /\ Len(s) = n
  BY RunLen
<1>2. t \in Seq(S) /\ Len(t) = n + 1
  BY RunLen
<1>3. e \in S
  BY DEF Whole
<1>4. /\ Append(s, e) \in Seq(S) /\ Len(Append(s, e)) = n + 1
      /\ \A k \in 1 .. n : Append(s, e)[k] = s[k]
      /\ Append(s, e)[n + 1] = e
  BY <1>1, <1>3, AppendProperties
<1>5. ASSUME NEW k \in 1 .. n + 1
      PROVE  Append(s, e)[k] = t[k]
  <2>1. t[k] = Whole(p + (k - 1))
    BY DEF Run
  <2>2. CASE k = n + 1
    BY <1>4, <2>1, <2>2
  <2>3. CASE k # n + 1
    <3>1. k \in 1 .. n
      BY <2>3
    <3>2. s[k] = Whole(p + (k - 1))
      BY <3>1 DEF Run
    <3> QED
      BY <1>4, <2>1, <3>1, <3>2
  <2> QED
    BY <2>2, <2>3
<1> HIDE DEF s, t, e, S
<1>6. Append(s, e) = t
  BY <1>2, <1>4, <1>5, SeqEqual
<1> QED
  BY <1>6 DEF s, t, e

\* What the readers' queues are, by their counts.
QueuesAreRuns ==
  \A i \in Readers :
    /\ InRange(i) => QueueOf(i) = Run(Pos(i), Backlog(i)) /\ Backlog(i) \in 0 .. Size
    /\ ~InRange(i) => QueueOf(i) = << >>
    /\ Pos(i) \in Nat

LEMMA QueueRuns == IInv => QueuesAreRuns
<1> SUFFICES ASSUME IInv, NEW i \in Readers
             PROVE  /\ InRange(i) => QueueOf(i) = Run(Pos(i), Backlog(i)) /\ Backlog(i) \in 0 .. Size
                    /\ ~InRange(i) => QueueOf(i) = << >>
                    /\ Pos(i) \in Nat
  BY DEF QueuesAreRuns
<1>1. Pos(i) \in Nat /\ Backlog(i) \in Int
  BY PosNat DEF IInv
<1>2. PendingIntact
  BY PendingFollows DEF IInv
<1>3. ASSUME InRange(i)
      PROVE  QueueOf(i) = Run(Pos(i), Backlog(i)) /\ Backlog(i) \in 0 .. Size
  <2>1. Backlog(i) \in 0 .. Size
    BY <1>3 DEF IInv, FlagsMatchBacklog
  <2>2. ASSUME NEW k \in 1 .. Backlog(i)
        PROVE  data[SlotAhead(i, k - 1)] = Whole(Pos(i) + (k - 1))
    <3>1. k - 1 \in 0 .. Backlog(i) - 1
      BY <2>1, SizeAssumption
    <3> QED
      BY <1>2, <1>3, <3>1 DEF PendingIntact, Whole
  <2> QED
    BY <1>3, <2>1, <2>2 DEF QueueOf, Run
<1> QED
  BY <1>1, <1>3 DEF QueueOf

LEMMA QueueRunsNext == IInv' => QueuesAreRuns'
BY QueueRuns, PTL

\* LossyQueue starts as the buffer does.
LEMMA QueueInit == Init => Queue!Init
<1> SUFFICES ASSUME Init
             PROVE  Queue!Init
  OBVIOUS
<1>1. IInv
  BY InvInit
<1>2. ASSUME NEW i \in Readers
      PROVE  InRange(i) /\ QueueOf(i) = << >> /\ Holds(i) = "nothing"
  <2>1. InRange(i) /\ Backlog(i) = 0 /\ Pos(i) \in Nat
    BY SizeAssumption DEF Init, InRange, Slots, Backlog, Pos
  <2>2. QueueOf(i) = << >>
    BY <1>1, <2>1, QueueRuns, RunLen DEF QueuesAreRuns
  <2> QED
    BY <2>1, <2>2 DEF Init, Holds, Holding, NotReading
<1> QED
  BY <1>2 DEF Init, Queue!Init, Queue!Nothing

\* A step that moves no count and no iterator out of the vector, and after
\* which every reader holds what it held, is not seen in the queues.
LEMMA QueueStutters ==
  ASSUME IInv, IInv', UNCHANGED writeCnt,
         \A i \in Readers : /\ InRange(i)' <=> InRange(i)
                            /\ Pos(i)' = Pos(i)
                            /\ Holds(i)' = Holds(i)
  PROVE  UNCHANGED Queue!qvars
<1>1. ASSUME NEW i \in Readers
      PROVE  QueueOf(i)' = QueueOf(i)
  <2>1. Backlog(i)' = Backlog(i)
    BY DEF Backlog
  <2>2. CASE InRange(i)
    <3>1. QueueOf(i) = Run(Pos(i), Backlog(i))
      BY <2>2, QueueRuns DEF QueuesAreRuns
    <3>2. QueueOf(i)' = Run(Pos(i)', Backlog(i)')
      BY <2>2, QueueRunsNext DEF QueuesAreRuns
    <3> QED
      BY <2>1, <3>1, <3>2
  <2>3. CASE ~InRange(i)
    BY <2>3 DEF QueueOf
  <2> QED
    BY <2>2, <2>3
<1> QED
  BY <1>1 DEF Queue!qvars

\* getWritePtr drops the heads of the full queues, and the readers in whose
\* last slot they are fall out.
LEMMA TakeMakesRoom == IInv /\ IInv' /\ GetWritePtr => Queue!MakeRoom
<1> SUFFICES ASSUME IInv, IInv', GetWritePtr
             PROVE  Queue!MakeRoom
  OBVIOUS
<1> DEFINE fallen == {i \in Readers : InRange(i) /\ full[i] /\ readPtr[i] = Size - 1}
<1>1. QueuesAreRuns /\ QueuesAreRuns'
  BY QueueRuns, QueueRunsNext
<1>2. Size \in Nat \ {0} /\ writeCnt \in Nat
  BY SizeAssumption, MaxWritesAssumption DEF IInv, TypeOK
<1>3. UNCHANGED <<writeCnt, readCnt, cleared, reader>> /\ writer = "idle"
  BY DEF GetWritePtr
<1>4. ASSUME NEW i \in Readers
      PROVE  /\ readPtr[i] \in Nat /\ Pos(i) \in Nat /\ full[i] \in BOOLEAN
             /\ reader[i].want \in Nat
             /\ readPtr'[i] = IF full[i] THEN readPtr[i] + 1 ELSE readPtr[i]
             /\ Pos(i)' = IF full[i] THEN Pos(i) + 1 ELSE Pos(i)
  <2>1. /\ readPtr[i] \in Nat /\ full[i] \in BOOLEAN /\ reader[i].want \in Nat
        /\ readCnt[i] \in Nat /\ OWCnt[i] \in Nat /\ cleared[i] \in Nat
    BY DEF IInv, TypeOK, Counters
  <2>2. OWCnt'[i] = IF full[i] THEN OWCnt[i] + 1 ELSE OWCnt[i]
    BY DEF GetWritePtr
  <2> QED
    BY <1>3, <2>1, <2>2 DEF GetWritePtr, ReadPtrTaken, Pos
<1>5. ASSUME NEW i \in Readers
      PROVE  Queue!Full(i) <=> InRange(i) /\ full[i]
  <2>1. InRange(i) => Len(QueueOf(i)) = Backlog(i)
    BY <1>1, RunLen DEF QueuesAreRuns
  <2>2. InRange(i) => (full[i] <=> Backlog(i) = Size)
    BY <1>3 DEF IInv, FlagsMatchBacklog
  <2> QED
    BY <2>1, <2>2 DEF Queue!Full, Queue!InService
<1>6. fallen \in SUBSET {i \in Readers : Queue!Full(i)}
  BY <1>5
<1>7. ASSUME NEW i \in Readers
      PROVE  InRange(i)' <=> InRange(i) /\ i \notin fallen
  BY <1>2, <1>4 DEF InRange, Slots
<1>8. {i \in Readers : ~InRange(i)}' = {i \in Readers : ~InRange(i)} \cup fallen
  BY <1>7
<1>9. ASSUME NEW i \in Readers
      PROVE  QueueOf(i)' = IF i \in fallen THEN << >>
                           ELSE IF Queue!Full(i) THEN Tail(QueueOf(i)) ELSE QueueOf(i)
  <2>1. CASE ~InRange(i)'
    BY <1>1, <1>5, <1>7, <2>1 DEF QueuesAreRuns
  <2>2. CASE InRange(i)' /\ full[i]
    <3>1. /\ InRange(i) /\ i \notin fallen /\ Queue!Full(i)
          /\ Pos(i)' = Pos(i) + 1 /\ Backlog(i)' = Backlog(i) - 1 /\ Backlog(i) = Size
      BY <1>2, <1>3, <1>4, <1>5, <1>7, <2>2 DEF IInv, FlagsMatchBacklog, Backlog
    <3>2. QueueOf(i) = Run(Pos(i), Backlog(i)) /\ QueueOf(i)' = Run(Pos(i)', Backlog(i)')
      BY <1>1, <2>2, <3>1 DEF QueuesAreRuns
    <3>3. Tail(Run(Pos(i), Backlog(i))) = Run(Pos(i) + 1, Backlog(i) - 1)
      BY <1>2, <1>4, <3>1, RunTail
    <3> QED
      BY <3>1, <3>2, <3>3
  <2>3. CASE InRange(i)' /\ ~full[i]
    <3>1. /\ InRange(i) /\ i \notin fallen /\ ~Queue!Full(i)
          /\ Pos(i)' = Pos(i) /\ Backlog(i)' = Backlog(i)
      BY <1>3, <1>4, <1>5, <1>7, <2>3 DEF Backlog
    <3> QED
      BY <1>1, <2>3, <3>1 DEF QueuesAreRuns
  <2> QED
    BY <2>1, <2>2, <2>3
<1>10. ASSUME NEW i \in Readers
       PROVE  Holds(i)' = IF i \in fallen THEN Queue!Nothing
                          ELSE IF Queue!Full(i) /\ Holds(i) # Queue!Nothing
                               THEN Queue!Dropped ELSE Holds(i)
  <2>1. reader[i].at \in Holding => reader[i].want <= Pos(i)
    BY DEF IInv, HeldPacket
  <2> QED
    BY <1>3, <1>4, <1>5, <1>7, <2>1 DEF Holds, Queue!Nothing, Queue!Dropped
<1> HIDE DEF fallen
<1> QED
  BY <1>3, <1>6, <1>8, <1>9, <1>10 DEF Queue!MakeRoom

\* doneWriting puts the packet into the queue of every reader that did not
\* fall out, and none of them is full.
LEMMA DoneWritingPuts == IInv /\ IInv' /\ DoneWriting => Queue!Put
<1> SUFFICES ASSUME IInv, IInv', DoneWriting
             PROVE  Queue!Put
  OBVIOUS
<1>1. QueuesAreRuns /\ QueuesAreRuns'
  BY QueueRuns, QueueRunsNext
<1>2. /\ UNCHANGED <<readPtr, readCnt, OWCnt, cleared, reader>>
      /\ writeCnt' = writeCnt + 1 /\ writer # "idle" /\ writeCnt \in Nat
  BY MaxWritesAssumption DEF DoneWriting, IInv, TypeOK
<1>3. ASSUME NEW i \in Readers
      PROVE  (InRange(i)' <=> InRange(i)) /\ Pos(i)' = Pos(i) /\ Holds(i)' = Holds(i)
  BY <1>2 DEF InRange, Pos, Holds
<1>4. ASSUME NEW i \in Readers
      PROVE  ~Queue!Full(i)
  <2>1. InRange(i) => Len(QueueOf(i)) = Backlog(i)
    BY <1>1, RunLen DEF QueuesAreRuns
  <2>2. InRange(i) => Backlog(i) < Size
    BY <1>2 DEF IInv, FlagsMatchBacklog
  <2>3. InRange(i) => Backlog(i) # Size
    BY <1>1, <2>2, SizeAssumption DEF QueuesAreRuns
  <2> QED
    BY <2>1, <2>3 DEF Queue!Full, Queue!InService
<1>5. ASSUME NEW i \in Readers
      PROVE  QueueOf(i)' = IF InRange(i) THEN Append(QueueOf(i), Queue!Packet(writeCnt)) ELSE << >>
  <2>1. CASE InRange(i)
    <3>1. /\ QueueOf(i) = Run(Pos(i), Backlog(i)) /\ Pos(i) \in Nat /\ Backlog(i) \in Nat
          /\ QueueOf(i)' = Run(Pos(i)', Backlog(i)')
      BY <1>1, <1>3, <2>1 DEF QueuesAreRuns
    <3>2. Backlog(i)' = Backlog(i) + 1 /\ Pos(i) + Backlog(i) = writeCnt
      BY <1>2, <1>3, <3>1 DEF Backlog
    <3>3. Append(Run(Pos(i), Backlog(i)), Whole(Pos(i) + Backlog(i))) = Run(Pos(i), Backlog(i) + 1)
      BY <3>1, RunAppend
    <3>4. Queue!Packet(writeCnt) = Whole(writeCnt)
      BY DEF Whole, Queue!Packet
    <3> QED
      BY <1>3, <2>1, <3>1, <3>2, <3>3, <3>4
  <2>2. CASE ~InRange(i)
    BY <1>1, <1>3, <2>2 DEF QueuesAreRuns
  <2> QED
    BY <2>1, <2>2
<1>6. [i \in Readers |-> QueueOf(i)]' =
        [i \in Readers |-> IF Queue!InService(i)
           THEN Append([j \in Readers |-> QueueOf(j)][i], Queue!Packet(writeCnt)) ELSE << >>]
  BY <1>5 DEF Queue!InService
<1>7. /\ {i \in Readers : ~InRange(i)}' = {i \in Readers : ~InRange(i)}
      /\ [i \in Readers |-> Holds(i)]' = [i \in Readers |-> Holds(i)]
  BY <1>3
<1> QED
  BY <1>2, <1>4, <1>6, <1>7 DEF Queue!Put

\* The copying of a packet and clearCnts are not seen in the queues.
LEMMA UnseenSteps ==
  IInv /\ IInv' /\ (CopyHeader \/ CopyData \/ ClearCnts \/ UNCHANGED vars) => UNCHANGED Queue!qvars
<1> SUFFICES ASSUME IInv, IInv', CopyHeader \/ CopyData \/ ClearCnts \/ UNCHANGED vars
             PROVE  UNCHANGED Queue!qvars
  OBVIOUS
<1>1. UNCHANGED <<writeCnt, readPtr, readCnt, reader>>
  BY DEF CopyHeader, CopyData, ClearCnts, vars, bufVars
<1>2. ASSUME NEW i \in Readers
      PROVE  Pos(i)' = Pos(i)
  <2>1. readCnt[i] \in Nat /\ OWCnt[i] \in Nat /\ cleared[i] \in Nat
    BY DEF IInv, TypeOK, Counters
  <2>2. CASE ClearCnts
    <3>1. OWCnt'[i] = 0 /\ cleared'[i] = cleared[i] + OWCnt[i]
      BY <2>2 DEF ClearCnts
    <3> QED
      BY <1>1, <2>1, <3>1 DEF Pos
  <2>3. CASE ~ClearCnts
    <3>1. UNCHANGED <<OWCnt, cleared>>
      BY <2>3 DEF CopyHeader, CopyData, vars, bufVars
    <3> QED
      BY <1>1, <3>1 DEF Pos
  <2> QED
    BY <2>2, <2>3
<1>3. ASSUME NEW i \in Readers
      PROVE  (InRange(i)' <=> InRange(i)) /\ Holds(i)' = Holds(i)
  BY <1>1, <1>2 DEF InRange, Holds
<1> QED
  BY <1>1, <1>2, <1>3, QueueStutters

\* A reader's step leaves the other readers alone.
LEMMA OthersUntouched ==
  ASSUME IInv, NEW i \in Readers, ReaderNext(i), NEW j \in Readers, j # i
  PROVE  /\ InRange(j)' <=> InRange(j)
         /\ Pos(j)' = Pos(j)
         /\ Holds(j)' = Holds(j)
<1>1. /\ readPtr'[j] = readPtr[j] /\ readCnt'[j] = readCnt[j] /\ reader'[j] = reader[j]
      /\ UNCHANGED <<OWCnt, cleared>>
  BY DEF IInv, TypeOK, Counters, ReaderNext, FoundData, GetReadPtr, ReadHeader, ReadPayload,
         ProcessingThrows, DoneReading, bufVars
<1> QED
  BY <1>1 DEF InRange, Pos, Holds

\* Looking, and reading in the slot, are not seen; getReadPtr begins, an
\* exception gives up.  Readers that fell out do what they want.
LEMMA ReaderHolds ==
  ASSUME IInv, IInv', NEW i \in Readers, ReaderNext(i), ~DoneReading(i)
  PROVE  Queue!Begin(i) \/ Queue!GiveUp(i) \/ UNCHANGED Queue!qvars
<1>1. UNCHANGED <<writeCnt, readPtr, readCnt, OWCnt, cleared>>
  BY DEF ReaderNext, FoundData, GetReadPtr, ReadHeader, ReadPayload, ProcessingThrows, bufVars
<1>2. ASSUME NEW j \in Readers
      PROVE  (InRange(j)' <=> InRange(j)) /\ Pos(j)' = Pos(j)
  BY <1>1 DEF InRange, Pos
<1>3. QueuesAreRuns /\ QueuesAreRuns'
  BY QueueRuns, QueueRunsNext
<1>4. ASSUME NEW j \in Readers
      PROVE  QueueOf(j)' = QueueOf(j)
  BY <1>1, <1>2, <1>3 DEF QueuesAreRuns, Backlog
<1>5. ASSUME NEW j \in Readers, j # i
      PROVE  Holds(j)' = Holds(j)
  BY <1>5, OthersUntouched
<1>6. /\ {j \in Readers : ~InRange(j)}' = {j \in Readers : ~InRange(j)}
      /\ [j \in Readers |-> QueueOf(j)]' = [j \in Readers |-> QueueOf(j)]
  BY <1>2, <1>4
<1>7. [j \in Readers |-> Holds(j)]' = [[j \in Readers |-> Holds(j)] EXCEPT ![i] = Holds(i)']
  BY <1>5
<1>8. CASE Holds(i)' = Holds(i)
  <2>1. \A j \in Readers : /\ InRange(j)' <=> InRange(j)
                           /\ Pos(j)' = Pos(j)
                           /\ Holds(j)' = Holds(j)
    BY <1>2, <1>5, <1>8
  <2> QED
    BY <1>1, <2>1, QueueStutters
<1>9. CASE GetReadPtr(i) /\ InRange(i)
  <2>1. ~empty[i] /\ reader[i].at = "get"
    BY <1>9 DEF GetReadPtr, IInv, BusyNotEmpty
  <2>2. reader'[i].at = "header" /\ reader'[i].want = Pos(i)
    <3>1. reader' = [reader EXCEPT ![i] = [at |-> "header", slot |-> readPtr[i],
                                           hdr |-> Blank, pay |-> Blank, want |-> Pos(i)]]
      BY <1>9, <2>1 DEF GetReadPtr, NotReading
    <3>2. reader'[i] = [at |-> "header", slot |-> readPtr[i],
                        hdr |-> Blank, pay |-> Blank, want |-> Pos(i)]
      BY <3>1 DEF IInv, TypeOK
    <3> QED
      BY <3>2
  <2>3. Holds(i) = "nothing" /\ Holds(i)' = "head"
    BY <1>2, <1>9, <2>1, <2>2 DEF Holds, Holding
  <2>4. QueueOf(i) # << >>
    <3>1. Backlog(i) # 0 /\ Backlog(i) \in Nat
      BY <1>3, <1>9, <2>1 DEF IInv, FlagsMatchBacklog, QueuesAreRuns
    <3> QED
      BY <1>3, <1>9, <3>1, RunLen DEF QueuesAreRuns
  <2> QED
    BY <1>1, <1>6, <1>7, <1>9, <2>3, <2>4
       DEF Queue!Begin, Queue!InService, Queue!Nothing, Queue!TheHead
<1>10. CASE ProcessingThrows(i) /\ InRange(i)
  <2>1. reader'[i].at = "idle"
    BY <1>10 DEF ProcessingThrows, NotReading, IInv, TypeOK
  <2>2. Holds(i)' = "nothing"
    BY <2>1 DEF Holds, Holding
  <2> QED
    BY <1>1, <1>6, <1>7, <1>10, <2>2 DEF Queue!GiveUp, Queue!InService, Queue!Nothing
<1>11. CASE ~InRange(i)
  <2>1. Holds(i)' = Holds(i)
    BY <1>2, <1>11 DEF Holds
  <2> QED
    BY <1>8, <2>1
<1>12. CASE FoundData(i) \/ ReadHeader(i) \/ ReadPayload(i)
  <2>1. /\ reader[i].at \in Holding <=> reader'[i].at \in Holding
        /\ reader'[i].want = reader[i].want
    BY <1>12 DEF FoundData, ReadHeader, ReadPayload, Holding, IInv, TypeOK
  <2>2. Holds(i)' = Holds(i)
    BY <1>2, <2>1 DEF Holds
  <2> QED
    BY <1>8, <2>2
<1> QED
  BY <1>9, <1>10, <1>11, <1>12 DEF ReaderNext

\* doneReading ends the processing and removes the head.
LEMMA DoneReadingFinishes ==
  ASSUME IInv, IInv', NEW i \in Readers, DoneReading(i)
  PROVE  Queue!Finish(i) \/ UNCHANGED Queue!qvars
<1>1. /\ UNCHANGED <<writeCnt, OWCnt, cleared>> /\ reader[i].at = "done"
      /\ readPtr'[i] = Advance(readPtr[i]) /\ readCnt'[i] = readCnt[i] + 1
      /\ reader'[i].at = "idle" /\ readPtr[i] \in Nat
      /\ readCnt[i] \in Nat /\ OWCnt[i] \in Nat /\ cleared[i] \in Nat
  BY DEF DoneReading, NotReading, IInv, TypeOK, Counters
<1>2. QueuesAreRuns /\ QueuesAreRuns'
  BY QueueRuns, QueueRunsNext
<1>3. Pos(i)' = Pos(i) + 1
  BY <1>1 DEF Pos
<1>4. InRange(i)' <=> InRange(i)
  BY <1>1, AdvanceFacts, SizeAssumption DEF InRange, Slots
<1>5. ASSUME NEW j \in Readers, j # i
      PROVE  /\ InRange(j)' <=> InRange(j)
             /\ QueueOf(j)' = QueueOf(j)
             /\ Holds(j)' = Holds(j)
  <2>1. (InRange(j)' <=> InRange(j)) /\ Pos(j)' = Pos(j) /\ Holds(j)' = Holds(j)
    BY <1>5, OthersUntouched DEF ReaderNext
  <2> QED
    BY <1>1, <1>2, <2>1 DEF QueuesAreRuns, Backlog
<1>6. {j \in Readers : ~InRange(j)}' = {j \in Readers : ~InRange(j)}
  BY <1>4, <1>5
<1>7. Holds(i)' = "nothing"
  BY <1>1 DEF Holds, Holding
<1>8. CASE InRange(i)
  <2>1. Holds(i) # "nothing"
    BY <1>1, <1>8 DEF Holds, Holding
  <2>2. Backlog(i) \in Nat \ {0} /\ Pos(i) \in Nat
    BY <1>1, <1>2, <1>8 DEF IInv, BusyNotEmpty, FlagsMatchBacklog, QueuesAreRuns
  <2>3. Backlog(i)' = Backlog(i) - 1
    <3>1. writeCnt' = writeCnt /\ writeCnt \in Nat /\ Pos(i) \in Nat
      BY <1>1, <2>2, MaxWritesAssumption DEF IInv, TypeOK
    <3> QED
      BY <1>3, <3>1 DEF Backlog
  <2>4. QueueOf(i)' = Tail(QueueOf(i))
    BY <1>2, <1>3, <1>4, <1>8, <2>2, <2>3, RunTail DEF QueuesAreRuns
  <2>5. QueueOf(i) # << >>
    BY <1>2, <1>8, <2>2, RunLen DEF QueuesAreRuns
  <2>6. /\ [j \in Readers |-> QueueOf(j)]' =
             [[j \in Readers |-> QueueOf(j)] EXCEPT ![i] = Tail(QueueOf(i))]
        /\ [j \in Readers |-> Holds(j)]' = [[j \in Readers |-> Holds(j)] EXCEPT ![i] = "nothing"]
    BY <1>5, <1>7, <2>4
  <2> QED
    BY <1>1, <1>6, <1>8, <2>1, <2>5, <2>6 DEF Queue!Finish, Queue!InService, Queue!Nothing
<1>9. CASE ~InRange(i)
  <2>1. QueueOf(i)' = QueueOf(i) /\ Holds(i)' = Holds(i)
    BY <1>4, <1>9 DEF QueueOf, Holds
  <2>2. /\ [j \in Readers |-> QueueOf(j)]' = [j \in Readers |-> QueueOf(j)]
        /\ [j \in Readers |-> Holds(j)]' = [j \in Readers |-> Holds(j)]
    BY <1>5, <2>1
  <2> QED
    BY <1>1, <1>6, <2>2 DEF Queue!qvars
<1> QED
  BY <1>8, <1>9

\* Every step of the buffer is a step of the queues, or none.
LEMMA QueueNext == IInv /\ IInv' /\ [Next]_vars => [Queue!Next]_(Queue!qvars)
<1> SUFFICES ASSUME IInv, IInv', [Next]_vars
             PROVE  Queue!Next \/ UNCHANGED Queue!qvars
  OBVIOUS
<1>1. CASE GetWritePtr
  BY <1>1, TakeMakesRoom DEF Queue!Next
<1>2. CASE DoneWriting
  BY <1>2, DoneWritingPuts DEF Queue!Next
<1>3. CASE CopyHeader \/ CopyData \/ ClearCnts \/ UNCHANGED vars
  BY <1>3, UnseenSteps
<1>4. ASSUME NEW i \in Readers, ReaderNext(i)
      PROVE  Queue!Next \/ UNCHANGED Queue!qvars
  BY <1>4, ReaderHolds, DoneReadingFinishes DEF Queue!Next
<1> QED
  BY <1>1, <1>2, <1>3, <1>4 DEF Next, WriterNext

\* The circular buffer, with its iterators, flags and pointers into slots, does
\* what LossyQueue promises, for every size and every set of readers.
THEOREM BufferImplementsQueue == Spec => ImplementsQueue
<1>1. Init => Queue!Init
  BY QueueInit
<1>2. IInv /\ IInv' /\ [Next]_vars => [Queue!Next]_(Queue!qvars)
  BY QueueNext
<1> QED
  BY <1>1, <1>2, Invariance, PTL DEF Spec, ImplementsQueue, Queue!Spec

=============================================================================
