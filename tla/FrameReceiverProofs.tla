------------------------- MODULE FrameReceiverProofs -------------------------
(***************************************************************************)
(* Proofs about the reception of frames, for every modulus of the frame    *)
(* numbers, every first number, every length of the queue and any number   *)
(* of frames.                                                              *)
(***************************************************************************)
EXTENDS FrameReceiver, SequenceTheorems, TLAPS

(***************************************************************************)
(* The inductive invariant.                                                *)
(***************************************************************************)

Before == taken[Len(taken) - 1]

\* runThread's locals are those of the last frame taken and the one before.
NumbersAreTaken ==
  /\ firstFrame <=> taken = <<>>
  /\ taken # <<>> => frameNumber = Number(Last)
  /\ Len(taken) > 1 => prevFrameNumber = Number(Before)
  /\ at # "pop" => taken # <<>>
  /\ at \in {"outOfOrder", "outOfOrderStore", "loss", "lossStore"} => Len(taken) > 1

\* A register is as old as its counter while nothing else writes counters.
RegisterFresh ==
  ~wasCleared =>
    /\ clearing = "no"
    /\ at = "outOfOrderStore" => reg = frameOutOrderCnt
    /\ at = "lossStore" => reg = frameLossCnt
    /\ at = "rxStore" => reg = frameRxCnt

\* The frame that was taken last is counted when it is done.
CountedSoFar ==
  ~wasCleared => frameRxCnt + frameOutOrderCnt = Len(taken) - (IF at = "pop" THEN 0 ELSE 1)

\* Frames that came in order and were not yet told by a number that starts again.
Regular == taken # <<>> /\ InOrder /\ Start + Last < Modulus /\ ~wasCleared

NothingLostYet == taken = <<>> /\ ~wasCleared => frameLossCnt = 0

LossSoFar ==
  Regular =>
    /\ at \notin {"outOfOrder", "outOfOrderStore"}
    /\ at = "pop" => frameRxCnt + frameLossCnt = Last - taken[1] + 1
    /\ at \in {"rx", "rxStore"} => frameRxCnt + frameLossCnt = Last - taken[1]
    /\ at \in {"loss", "lossStore"} => frameRxCnt + frameLossCnt = Before - taken[1] + 1

IInv ==
  /\ TypeOK
  /\ NumbersAreTaken
  /\ RegisterFresh
  /\ CountedSoFar
  /\ NothingLostYet
  /\ LossSoFar

-----------------------------------------------------------------------------
(***************************************************************************)
(* Numbers and sequences of frames.                                        *)
(***************************************************************************)

\* A frame's number fits its field, and is the frame's place in the stream
\* while the numbers have not started again.
LEMMA NumberFacts ==
  ASSUME NEW k \in Nat
  PROVE  /\ Number(k) \in 0 .. Modulus - 1
         /\ Start + k < Modulus => Number(k) = Start + k
BY NumbersAssumption DEF Number

\* The unsigned difference is one that can be added to a counter, and for a
\* larger number it is the number of those in between.
LEMMA DeltaFacts ==
  ASSUME NEW new \in 0 .. Modulus - 1, NEW prev \in 0 .. Modulus - 1
  PROVE  /\ FrameNumberDelta(new, prev) \in Nat
         /\ prev < new => FrameNumberDelta(new, prev) = new - prev - 1
BY NumbersAssumption DEF FrameNumberDelta

\* A sequence over a set is one over a larger set.
LEMMA SeqMonotone ==
  ASSUME NEW S, NEW T, S \subseteq T, NEW q \in Seq(S)
  PROVE  q \in Seq(T)
OBVIOUS

\* A sequence of frames that were sent is one when more were sent.
LEMMA SentLater ==
  ASSUME NEW m \in Nat, NEW n \in Nat, m <= n, NEW q \in Seq(0 .. m - 1)
  PROVE  q \in Seq(0 .. n - 1)
<1>1. 0 .. m - 1 \subseteq 0 .. n - 1
  OBVIOUS
<1> QED
  BY <1>1, SeqMonotone

\* What append, head and tail do to sequences over a set.
LEMMA SeqFacts ==
  ASSUME NEW S, NEW q \in Seq(S), NEW k \in S
  PROVE  /\ Append(q, k) \in Seq(S) /\ Len(Append(q, k)) = Len(q) + 1
         /\ q # << >> => Head(q) \in S /\ Tail(q) \in Seq(S) /\ Len(Tail(q)) = Len(q) - 1
         /\ Len(q) \in Nat
OBVIOUS

\* Each type on its own.
LEMMA Types ==
  ASSUME TypeOK
  PROVE  /\ sent \in Nat /\ queue \in Seq(0 .. sent - 1) /\ taken \in Seq(0 .. sent - 1)
         /\ Len(queue) <= Depth
         /\ frameNumber \in 0 .. Modulus - 1 /\ prevFrameNumber \in 0 .. Modulus - 1
         /\ frameLossCnt \in Nat /\ frameRxCnt \in Nat /\ frameOutOrderCnt \in Nat
BY DEF TypeOK

-----------------------------------------------------------------------------
(***************************************************************************)
(* Type correctness.                                                       *)
(***************************************************************************)

LEMMA TypeInit == Init => TypeOK
<1> SUFFICES ASSUME Init
             PROVE  TypeOK
  OBVIOUS
<1>1. queue \in Seq(0 .. sent - 1) /\ taken \in Seq(0 .. sent - 1) /\ Len(queue) <= Depth
  BY DepthAssumption DEF Init
<1>2. sent \in 0 .. MaxSent /\ skipped \subseteq 0 .. sent - 1
  BY BoundsAssumption DEF Init
<1>3. {frameNumber, prevFrameNumber} \subseteq 0 .. Modulus - 1
  BY NumbersAssumption DEF Init
<1>4. {frameLossCnt, frameRxCnt, frameOutOrderCnt, reg} \subseteq Nat
  BY DEF Init
<1>5. at = "pop" /\ clearing = "no" /\ wasCleared \in BOOLEAN
  BY DEF Init
<1> QED
  BY <1>1, <1>2, <1>3, <1>4, <1>5 DEF TypeOK

\* A frame that is put into the queue or not leaves the queue as it should be.
LEMMA AcceptType ==
  ASSUME NEW S, queue \in Seq(S), Len(queue) <= Depth,
         NEW k \in S, NEW error \in BOOLEAN, acceptFrame(k, error)
  PROVE  queue' \in Seq(S) /\ Len(queue') <= Depth
BY DepthAssumption, SeqFacts DEF acceptFrame, busy

\* A frame that is taken is counted next, and out of order or lost ones only
\* when there was a frame before.
LEMMA PopGoesOn ==
  ASSUME TypeOK, Pop
  PROVE  /\ at' \in {"outOfOrder", "loss", "rx"}
         /\ at' \in {"outOfOrder", "loss"} => ~firstFrame
<1>1. frameNumber \in Int /\ frameNumber' \in Int
  <2> DEFINE Sent == 0 .. sent - 1
  <2>1. Head(queue) \in Sent
    <3>1. queue \in Seq(Sent) /\ queue # << >>
      BY Types DEF Pop
    <3> HIDE DEF Sent
    <3> QED
      BY <3>1, SeqFacts
  <2>2. Head(queue) \in Nat
    BY <2>1
  <2>3. frameNumber' \in 0 .. Modulus - 1
    BY <2>2, NumberFacts DEF Pop
  <2> QED
    BY <2>3, Types, NumbersAssumption
<1>2. frameNumber' < frameNumber \/ frameNumber' >= frameNumber
  BY <1>1
<1> QED
  BY <1>2 DEF Pop

LEMMA TypeNext ==
  ASSUME TypeOK, [Next]_vars
  PROVE  TypeOK'
<1> USE NumbersAssumption, DepthAssumption, BoundsAssumption
<1>1. CASE Deliver
  <2>1. /\ sent' = sent + 1 /\ sent' \in 0 .. MaxSent
        /\ UNCHANGED <<skipped, counters, numbers, at, reg, clearing, taken, wasCleared>>
    BY <1>1 DEF Deliver, TypeOK
  <2>2. queue \in Seq(0 .. sent' - 1) /\ taken \in Seq(0 .. sent' - 1)
    <3>1. sent \in Nat /\ sent' \in Nat /\ sent <= sent'
      BY <2>1, Types
    <3> QED
      BY <3>1, Types, SentLater
  <2>3. PICK error \in BOOLEAN : acceptFrame(sent, error)
    BY <1>1 DEF Deliver
  <2>4. queue' \in Seq(0 .. sent' - 1) /\ Len(queue') <= Depth
    <3>1. sent \in 0 .. sent' - 1 /\ Len(queue) <= Depth
      BY <2>1 DEF TypeOK
    <3> QED
      BY <2>2, <2>3, <3>1, AcceptType
  <2> QED
    BY <2>1, <2>2, <2>4 DEF TypeOK, counters, numbers
<1>2. CASE Skip
  <2>1. /\ sent' = sent + 1 /\ sent' \in 0 .. MaxSent /\ skipped' = skipped \cup {sent}
        /\ UNCHANGED <<queue, counters, numbers, at, reg, clearing, taken, wasCleared>>
    BY <1>2 DEF Skip, TypeOK
  <2>2. queue \in Seq(0 .. sent' - 1) /\ taken \in Seq(0 .. sent' - 1)
    <3>1. sent \in Nat /\ sent' \in Nat /\ sent <= sent'
      BY <2>1, Types
    <3> QED
      BY <3>1, Types, SentLater
  <2> QED
    BY <2>1, <2>2 DEF TypeOK, counters, numbers
<1>3. CASE DeliverLate
  <2>1. PICK k \in skipped : acceptFrame(k, FALSE) /\ skipped' = skipped \ {k}
    BY <1>3 DEF DeliverLate
  <2>2. k \in 0 .. sent - 1
    BY <2>1 DEF TypeOK
  <2>3. queue' \in Seq(0 .. sent - 1) /\ Len(queue') <= Depth
    BY <2>1, <2>2, AcceptType DEF TypeOK
  <2> QED
    BY <1>3, <2>1, <2>3 DEF TypeOK, DeliverLate, counters, numbers
<1>4. CASE DeliverAgain
  <2>1. sent - 1 \in 0 .. sent - 1
    BY <1>4 DEF DeliverAgain, TypeOK
  <2>2. queue' \in Seq(0 .. sent - 1) /\ Len(queue') <= Depth
    BY <1>4, <2>1, AcceptType DEF TypeOK, DeliverAgain
  <2> QED
    BY <1>4, <2>2 DEF TypeOK, DeliverAgain, counters, numbers
<1>5. CASE Pop
  <2> DEFINE Sent == 0 .. sent - 1
  <2>1. /\ queue \in Seq(Sent) /\ taken \in Seq(Sent) /\ queue # << >> /\ Len(queue) <= Depth
        /\ queue' = Tail(queue) /\ taken' = Append(taken, Head(queue))
    BY <1>5 DEF TypeOK, Pop
  <2>2. /\ queue' \in Seq(Sent) /\ Len(queue') <= Depth
        /\ taken' \in Seq(Sent) /\ Head(queue) \in Sent
    <3> HIDE DEF Sent
    <3>1. Head(queue) \in Sent
      BY <2>1, SeqFacts
    <3> QED
      BY <2>1, <3>1, SeqFacts
  <2>3. frameNumber' = Number(Head(queue)) /\ prevFrameNumber' = frameNumber /\ firstFrame' = FALSE
    BY <1>5 DEF Pop
  <2>4. {frameNumber', prevFrameNumber'} \subseteq 0 .. Modulus - 1
    <3>1. Head(queue) \in Nat
      BY <2>2
    <3>2. Number(Head(queue)) \in 0 .. Modulus - 1
      BY <3>1, NumberFacts
    <3> QED
      BY <2>3, <3>2 DEF TypeOK
  <2>5. at' \in {"outOfOrder", "loss", "rx"}
    BY <1>5, PopGoesOn
  <2> QED
    BY <1>5, <2>2, <2>4, <2>5 DEF TypeOK, Pop, counters
<1>6. CASE LoadOutOfOrder \/ LoadLoss \/ LoadRx
  BY <1>6 DEF TypeOK, LoadOutOfOrder, LoadLoss, LoadRx, Load, network, counters, numbers
<1>7. CASE StoreOutOfOrder
  BY <1>7 DEF TypeOK, StoreOutOfOrder, Store, AfterDiscard, network, numbers
<1>8. CASE StoreLoss
  <2>1. FrameNumberDelta(frameNumber, prevFrameNumber) \in Nat
    BY DeltaFacts DEF TypeOK
  <2> QED
    <3>1. frameLossCnt' \in Nat
      BY <1>8, <2>1 DEF TypeOK, StoreLoss
    <3>2. UNCHANGED <<network, numbers, reg, clearing, taken, wasCleared, frameRxCnt, frameOutOrderCnt>>
      BY <1>8 DEF StoreLoss, Store
    <3>3. at' = "rx"
      BY <1>8 DEF StoreLoss, Store
    <3> QED
      BY <3>1, <3>2, <3>3 DEF TypeOK, network, numbers
<1>9. CASE StoreRx
  BY <1>9 DEF TypeOK, StoreRx, Store, network, numbers
<1>10. CASE ClearLoss \/ ClearRx \/ ClearOutOfOrder
  <2>1. UNCHANGED <<network, numbers, at, reg, taken>>
    BY <1>10 DEF ClearLoss, ClearRx, ClearOutOfOrder
  <2>2. {frameLossCnt', frameRxCnt', frameOutOrderCnt'} \subseteq Nat
    BY <1>10 DEF ClearLoss, ClearRx, ClearOutOfOrder, TypeOK
  <2>3. clearing' \in {"no", "rx", "outOfOrder"} /\ wasCleared' \in BOOLEAN
    BY <1>10 DEF ClearLoss, ClearRx, ClearOutOfOrder, TypeOK
  <2> QED
    BY <2>1, <2>2, <2>3 DEF TypeOK, network, numbers
<1>11. CASE UNCHANGED vars
  BY <1>11 DEF TypeOK, vars, network, counters, numbers
<1> QED
  BY <1>1, <1>2, <1>3, <1>4, <1>5, <1>6, <1>7, <1>8, <1>9, <1>10, <1>11 DEF Next

\* Frame numbers fit their field, the queue keeps its depth, and every counter
\* and register stays a natural number, whatever the network does.
THEOREM TypeCorrect == Spec => []TypeOK
BY TypeInit, TypeNext, PTL DEF Spec

-----------------------------------------------------------------------------
(***************************************************************************)
(* The inductive invariant holds.                                          *)
(***************************************************************************)

LEMMA InvInit == Init => IInv
<1> SUFFICES ASSUME Init
             PROVE  IInv
  OBVIOUS
<1>1. taken = << >> /\ Len(taken) = 0 /\ at = "pop" /\ firstFrame
  BY DEF Init
<1>2. NumbersAreTaken /\ RegisterFresh
  BY <1>1 DEF Init, NumbersAreTaken, RegisterFresh
<1>3. CountedSoFar /\ NothingLostYet /\ LossSoFar
  BY <1>1 DEF Init, CountedSoFar, NothingLostYet, LossSoFar, Regular
<1> QED
  BY <1>2, <1>3, TypeInit DEF IInv

\* A frame that is taken leaves the counters to be brought up to date.
LEMMA PopInv ==
  ASSUME IInv, TypeOK', Pop
  PROVE  IInv'
<1> USE NumbersAssumption
<1> DEFINE k == Head(queue)
<1>1. /\ taken \in Seq(Nat) /\ taken' = Append(taken, k) /\ k \in Nat
      /\ frameNumber' = Number(k) /\ prevFrameNumber' = frameNumber
      /\ UNCHANGED <<counters, reg, clearing, wasCleared>> /\ at = "pop" /\ ~firstFrame'
  <2>1. queue \in Seq(0 .. sent - 1) /\ taken \in Seq(0 .. sent - 1) /\ 0 .. sent - 1 \subseteq Nat
    BY Types DEF IInv
  <2>2. taken \in Seq(Nat) /\ queue \in Seq(Nat)
    BY <2>1, SeqMonotone
  <2>3. k \in Nat
    BY <2>2, SeqFacts DEF Pop
  <2> QED
    BY <2>2, <2>3 DEF Pop
<1>2. /\ Len(taken') = Len(taken) + 1 /\ taken' \in Seq(Nat) /\ Len(taken) \in Nat
      /\ taken'[Len(taken')] = k /\ taken' # << >>
      /\ \A n \in 1 .. Len(taken) : taken'[n] = taken[n]
  BY <1>1
<1>3. Last' = k /\ (taken # << >> => Before' = Last)
  BY <1>1, <1>2 DEF Last, Before
<1>4. NumbersAreTaken'
  <2>1. taken # << >> => prevFrameNumber' = Number(Last)
    BY <1>1 DEF IInv, NumbersAreTaken
  <2>2. at' \in {"outOfOrder", "loss"} => taken # << >>
    BY PopGoesOn DEF IInv, NumbersAreTaken
  <2>3. at' \in {"outOfOrder", "loss", "rx"}
    BY PopGoesOn DEF IInv
  <2>4. taken # << >> <=> Len(taken') > 1
    BY <1>1, <1>2, EmptySeq
  <2>5. taken' # << >> => frameNumber' = Number(Last')
    BY <1>1, <1>3
  <2>6. Len(taken') > 1 => prevFrameNumber' = Number(Before')
    BY <1>3, <2>1, <2>4
  <2>7. /\ firstFrame' <=> taken' = << >>
        /\ at' \in {"outOfOrder", "outOfOrderStore", "loss", "lossStore"} => Len(taken') > 1
    BY <1>1, <1>2, <2>2, <2>3, <2>4
  <2> QED
    BY <1>2, <2>5, <2>6, <2>7 DEF NumbersAreTaken, Number
<1>5. at' \in {"outOfOrder", "loss", "rx"}
  BY PopGoesOn DEF IInv
<1>6. RegisterFresh' /\ CountedSoFar' /\ NothingLostYet'
  <2>1. RegisterFresh' /\ NothingLostYet'
    BY <1>1, <1>2, <1>5 DEF IInv, RegisterFresh, NothingLostYet
  <2>2. ~wasCleared => frameRxCnt + frameOutOrderCnt = Len(taken)
    BY <1>1, <1>2 DEF IInv, CountedSoFar
  <2> QED
    BY <1>1, <1>2, <1>5, <2>1, <2>2 DEF CountedSoFar, counters
<1>7. LossSoFar'
  <2> SUFFICES ASSUME Regular'
               PROVE  /\ at' # "outOfOrder"
                      /\ at' = "rx" => frameRxCnt + frameLossCnt = Last' - taken'[1]
                      /\ at' = "loss" => frameRxCnt + frameLossCnt = Before' - taken'[1] + 1
    BY <1>1, <1>5 DEF LossSoFar, counters
  <2>1. CASE taken = << >>
    <3>1. at' = "rx" /\ Last' = taken'[1]
      BY <1>2, <1>3, <2>1 DEF Pop, IInv, NumbersAreTaken
    <3>2. frameRxCnt + frameLossCnt = 0
      <4>1. ~wasCleared /\ Len(taken) = 0
        BY <1>1, <2>1 DEF Regular
      <4>2. frameRxCnt + frameOutOrderCnt = 0 /\ frameLossCnt = 0
        BY <1>1, <2>1, <4>1 DEF IInv, CountedSoFar, NothingLostYet
      <4>3. frameRxCnt \in Nat /\ frameOutOrderCnt \in Nat
        BY DEF IInv, TypeOK
      <4> QED
        BY <4>2, <4>3
    <3> QED
      BY <3>1, <3>2, <1>2, <1>3
  <2>2. CASE taken # << >>
    <3>1. \A m, n \in 1 .. Len(taken) + 1 : m < n => taken'[m] < taken'[n]
      <4>1. DOMAIN taken' = 1 .. Len(taken) + 1
        BY <1>2
      <4> QED
        BY <4>1 DEF Regular, InOrder
    <3>2. InOrder /\ Last < k /\ Last \in Nat
      <4>1. Len(taken) \in 1 .. Len(taken) /\ DOMAIN taken = 1 .. Len(taken)
        BY <1>1, <1>2, <2>2
      <4>2. Last \in Nat /\ taken'[Len(taken)] = Last /\ taken'[Len(taken) + 1] = k
        BY <1>1, <1>2, <4>1 DEF Last
      <4>3. Last < k
        BY <1>2, <3>1, <4>1, <4>2
      <4>4. InOrder
        BY <1>2, <3>1, <4>1 DEF InOrder
      <4> QED
        BY <4>2, <4>3, <4>4
    <3>3. Regular /\ Start + k < Modulus
      BY <1>1, <1>3, <2>2, <3>2 DEF Regular
    <3>4. frameRxCnt + frameLossCnt = Last - taken[1] + 1
      BY <1>1, <3>3 DEF IInv, LossSoFar
    <3>5. frameNumber = Start + Last /\ frameNumber' = Start + k
      <4>1. Start + Last < Modulus
        BY <3>3 DEF Regular
      <4>2. Number(Last) = Start + Last /\ Number(k) = Start + k
        BY <1>1, <3>2, <3>3, <4>1, NumberFacts
      <4> QED
        BY <1>1, <2>2, <4>2 DEF IInv, NumbersAreTaken
    <3>6. FrameNumberDelta(frameNumber', frameNumber) = k - Last - 1
      <4>1. frameNumber \in 0 .. Modulus - 1 /\ frameNumber' \in 0 .. Modulus - 1
        BY Types DEF IInv, TypeOK
      <4>2. frameNumber < frameNumber' /\ frameNumber' - frameNumber - 1 = k - Last - 1
        BY <1>1, <3>2, <3>5
      <4> QED
        BY <4>1, <4>2, DeltaFacts
    <3>7. at' = IF k = Last + 1 THEN "rx" ELSE "loss"
      <4>1. ~firstFrame
        BY <2>2 DEF IInv, NumbersAreTaken
      <4>2. ~(frameNumber' < frameNumber) /\ frameNumber' >= frameNumber
        BY <1>1, <3>2, <3>5, NumbersAssumption
      <4>3. FrameNumberDelta(frameNumber', frameNumber) # 0 <=> k # Last + 1
        BY <1>1, <3>2, <3>6
      <4> QED
        BY <4>1, <4>2, <4>3 DEF Pop
    <3> QED
      BY <1>2, <1>3, <2>2, <3>2, <3>4, <3>7
  <2> QED
    BY <2>1, <2>2
<1> QED
  BY <1>4, <1>6, <1>7 DEF IInv

\* Frames on the network and in the queue are not in the invariant.
LEMMA NetworkInv ==
  ASSUME IInv, TypeOK', UNCHANGED <<counters, numbers, at, reg, clearing, taken, wasCleared>>
  PROVE  IInv'
BY DEF IInv, NumbersAreTaken, RegisterFresh, CountedSoFar, NothingLostYet, LossSoFar,
       Regular, InOrder, Last, Before, Number, counters, numbers

\* Loading a counter and storing it again, in runThread.
LEMMA CountingInv ==
  ASSUME IInv, TypeOK',
         LoadOutOfOrder \/ StoreOutOfOrder \/ LoadLoss \/ StoreLoss \/ LoadRx \/ StoreRx
  PROVE  IInv'
<1>1. /\ UNCHANGED <<numbers, clearing, taken, wasCleared>>
      /\ Regular' <=> Regular
      /\ Last' = Last /\ Before' = Before
  BY DEF LoadOutOfOrder, StoreOutOfOrder, LoadLoss, StoreLoss, LoadRx, StoreRx, Load, Store,
         Regular, InOrder, Last, Before
<1>2. /\ frameLossCnt \in Nat /\ frameRxCnt \in Nat /\ frameOutOrderCnt \in Nat
      /\ taken \in Seq(Nat) /\ Len(taken) \in Nat
  <2>1. frameLossCnt \in Nat /\ frameRxCnt \in Nat /\ frameOutOrderCnt \in Nat
    BY DEF IInv, TypeOK
  <2>2. taken \in Seq(Nat)
    <3>1. taken \in Seq(0 .. sent - 1) /\ 0 .. sent - 1 \subseteq Nat
      BY DEF IInv, TypeOK
    <3> QED
      BY <3>1, SeqMonotone
  <2> QED
    BY <2>1, <2>2
<1>3. NumbersAreTaken'
  <2>1. taken # << >> /\ (at' \in {"outOfOrderStore", "lossStore"} => Len(taken) > 1)
    BY DEF LoadOutOfOrder, StoreOutOfOrder, LoadLoss, StoreLoss, LoadRx, StoreRx, Load, Store,
           AfterDiscard, IInv, NumbersAreTaken
  <2>2. at' \notin {"outOfOrder", "loss"}
    BY DEF LoadOutOfOrder, StoreOutOfOrder, LoadLoss, StoreLoss, LoadRx, StoreRx, Load, Store,
           AfterDiscard
  <2> QED
    BY <1>1, <2>1, <2>2 DEF IInv, NumbersAreTaken, Number, numbers
<1>4. RegisterFresh' /\ NothingLostYet'
  <2>1. taken # << >>
    BY DEF LoadOutOfOrder, StoreOutOfOrder, LoadLoss, StoreLoss, LoadRx, StoreRx, Load, Store,
           IInv, NumbersAreTaken
  <2> QED
    BY <1>1, <2>1 DEF IInv, RegisterFresh, NothingLostYet, counters, AfterDiscard,
           LoadOutOfOrder, StoreOutOfOrder, LoadLoss, StoreLoss, LoadRx, StoreRx, Load, Store
<1>5. CASE LoadOutOfOrder \/ LoadLoss \/ LoadRx
  <2>1. CountedSoFar'
    BY <1>1, <1>5 DEF LoadOutOfOrder, LoadLoss, LoadRx, Load, IInv, CountedSoFar, counters
  <2>2. LossSoFar'
    BY <1>1, <1>5 DEF LoadOutOfOrder, LoadLoss, LoadRx, Load, IInv, LossSoFar, counters
  <2> QED
    BY <1>3, <1>4, <2>1, <2>2 DEF IInv
<1>6. CASE StoreOutOfOrder
  <2>1. CountedSoFar'
    BY <1>1, <1>2, <1>6 DEF StoreOutOfOrder, Store, AfterDiscard, IInv, CountedSoFar, RegisterFresh
  <2>2. LossSoFar'
    BY <1>1, <1>6 DEF StoreOutOfOrder, Store, IInv, LossSoFar
  <2> QED
    BY <1>3, <1>4, <2>1, <2>2 DEF IInv
<1>7. CASE StoreLoss
  <2>1. CountedSoFar'
    BY <1>1, <1>2, <1>7 DEF StoreLoss, Store, IInv, CountedSoFar
  <2>2. ASSUME Regular
        PROVE  frameRxCnt' + frameLossCnt' = Last - taken[1]
    <3>1. /\ Before \in Nat /\ Last \in Nat /\ taken[1] \in Nat
          /\ Before < Last /\ Start + Last < Modulus
      <4>1. Len(taken) > 1 /\ DOMAIN taken = 1 .. Len(taken)
        BY <1>2, <1>7 DEF StoreLoss, Store, IInv, NumbersAreTaken
      <4>2. 1 \in DOMAIN taken /\ Len(taken) \in DOMAIN taken /\ Len(taken) - 1 \in DOMAIN taken
        BY <1>2, <4>1
      <4> QED
        BY <1>2, <2>2, <4>1, <4>2 DEF Regular, InOrder, Last, Before
    <3>2. frameNumber = Start + Last /\ prevFrameNumber = Start + Before
      <4>1. Number(Last) = Start + Last /\ Number(Before) = Start + Before
        BY <3>1, NumberFacts, NumbersAssumption
      <4> QED
        BY <1>7, <4>1 DEF StoreLoss, Store, IInv, NumbersAreTaken
    <3>3. FrameNumberDelta(frameNumber, prevFrameNumber) = Last - Before - 1
      <4>1. /\ frameNumber \in 0 .. Modulus - 1 /\ prevFrameNumber \in 0 .. Modulus - 1
            /\ prevFrameNumber < frameNumber
        BY <3>1, <3>2, NumbersAssumption DEF IInv, TypeOK
      <4>2. FrameNumberDelta(frameNumber, prevFrameNumber) = frameNumber - prevFrameNumber - 1
        BY <4>1, DeltaFacts
      <4> QED
        BY <3>1, <3>2, <4>2, NumbersAssumption
    <3>4. /\ frameRxCnt + frameLossCnt = Before - taken[1] + 1 /\ frameRxCnt' = frameRxCnt
          /\ frameLossCnt' = frameLossCnt + FrameNumberDelta(frameNumber, prevFrameNumber)
      BY <1>7, <2>2 DEF StoreLoss, Store, IInv, LossSoFar, RegisterFresh, Regular
    <3> QED
      BY <1>2, <3>1, <3>3, <3>4
  <2>3. LossSoFar'
    BY <1>1, <1>7, <2>2 DEF StoreLoss, Store, LossSoFar
  <2> QED
    BY <1>3, <1>4, <2>1, <2>3 DEF IInv
<1>8. CASE StoreRx
  <2>1. CountedSoFar'
    BY <1>1, <1>2, <1>8 DEF StoreRx, Store, IInv, CountedSoFar, RegisterFresh
  <2>2. ASSUME Regular
        PROVE  frameRxCnt' + frameLossCnt' = Last - taken[1] + 1
    <3>1. Last \in Nat /\ taken[1] \in Nat
      BY <1>2, <2>2 DEF Regular, Last
    <3>2. frameRxCnt + frameLossCnt = Last - taken[1] /\ frameRxCnt' = frameRxCnt + 1
      BY <1>8, <2>2 DEF StoreRx, Store, IInv, LossSoFar, RegisterFresh, Regular
    <3>3. frameLossCnt' = frameLossCnt
      BY <1>8 DEF StoreRx
    <3> QED
      BY <1>2, <3>1, <3>2, <3>3
  <2>3. LossSoFar'
    BY <1>1, <1>8, <2>2 DEF StoreRx, Store, LossSoFar
  <2> QED
    BY <1>3, <1>4, <2>1, <2>3 DEF IInv
<1> QED
  BY <1>5, <1>6, <1>7, <1>8

\* Once clearFrameCnt is called nothing is said of the counters.
LEMMA ClearInv ==
  ASSUME IInv, TypeOK', ClearLoss \/ ClearRx \/ ClearOutOfOrder
  PROVE  IInv'
<1>1. wasCleared' /\ UNCHANGED <<numbers, at, reg, taken>>
  BY DEF ClearLoss, ClearRx, ClearOutOfOrder, IInv, RegisterFresh
<1> QED
  BY <1>1 DEF IInv, NumbersAreTaken, RegisterFresh, CountedSoFar, NothingLostYet, LossSoFar,
              Regular, Last, Before, Number, numbers

LEMMA InvNext == IInv /\ [Next]_vars => IInv'
<1> SUFFICES ASSUME IInv, [Next]_vars
             PROVE  IInv'
  OBVIOUS
<1>1. TypeOK'
  BY TypeNext DEF IInv
<1>2. CASE Deliver \/ Skip \/ DeliverLate \/ DeliverAgain \/ UNCHANGED vars
  <2>1. UNCHANGED <<counters, numbers, at, reg, clearing, taken, wasCleared>>
    BY <1>2 DEF Deliver, Skip, DeliverLate, DeliverAgain, vars
  <2> QED
    BY <1>1, <2>1, NetworkInv
<1> QED
  BY <1>1, <1>2, PopInv, CountingInv, ClearInv DEF Next

LEMMA Invariant == Spec => []IInv
BY InvInit, InvNext, PTL DEF Spec

\* Received and lost frames add up to those that were sent, while they come in order:
\* a loss in the network, an error and a full queue are all counted, once.
THEOREM LossesCountedOnce == Spec => []LossExact
<1>1. IInv => LossExact
  BY DEF IInv, LossSoFar, Regular, LossExact
<1> QED
  BY <1>1, Invariant, PTL

\* Every frame that leaves the queue is counted as received or as out of order.
THEOREM FramesCountedOnce == Spec => []EveryFrameCounted
<1>1. IInv => EveryFrameCounted
  <2> SUFFICES ASSUME IInv, at = "pop", ~wasCleared
               PROVE  frameRxCnt + frameOutOrderCnt = Len(taken)
    BY DEF EveryFrameCounted
  <2>1. taken \in Seq(0 .. sent - 1)
    BY DEF IInv, TypeOK
  <2> QED
    BY <2>1 DEF IInv, CountedSoFar
<1> QED
  BY <1>1, Invariant, PTL

=============================================================================
