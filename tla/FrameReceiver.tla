---------------------------- MODULE FrameReceiver ----------------------------
(***************************************************************************)
(* Frames on their way into SmurfProcessor: acceptFrame, called by rogue   *)
(* for each frame that the network delivers, the queue, the part of        *)
(* runThread that tells lost and out-of-order frames by their numbers, and *)
(* clearFrameCnt, called by the control server.  The counters are plain    *)
(* integers that two threads write: an increment is a load and a store.    *)
(***************************************************************************)
EXTENDS Integers, Sequences, FiniteSets

CONSTANTS
  Modulus,    \* frame numbers are 0 .. Modulus - 1 (2^32 in the header)
  Start,      \* the number of the first frame sent
  Depth,      \* queueDepth
  Faults,     \* what the network does: subset of {"lose", "delay", "repeat"}
  MaxSent,    \* bound: frames sent
  MaxTaken    \* bound: frames taken from the queue

ASSUME NumbersAssumption == Modulus \in Nat \ {0} /\ Start \in 0 .. Modulus - 1
ASSUME DepthAssumption == Depth \in Nat \ {0}
ASSUME FaultsAssumption == Faults \subseteq {"lose", "delay", "repeat"}
ASSUME BoundsAssumption == MaxSent \in Nat /\ MaxTaken \in Nat

VARIABLES
  sent,              \* frames sent; frame k is the k-th of them, from 0
  skipped,           \* frames that the network has not delivered
  queue,             \* queue_
  frameNumber,       \* runThread's locals
  prevFrameNumber,
  firstFrame,
  frameLossCnt,      \* the three counters
  frameRxCnt,
  frameOutOrderCnt,
  at,                \* the next statement of runThread, and its register
  reg,
  clearing,          \* the next statement of clearFrameCnt
  taken,             \* history: the frames taken from the queue, in order
  wasCleared         \* history: whether clearFrameCnt was called

network == <<sent, skipped, queue>>
counters == <<frameLossCnt, frameRxCnt, frameOutOrderCnt>>
numbers == <<frameNumber, prevFrameNumber, firstFrame>>
vars == <<network, counters, numbers, at, reg, clearing, taken, wasCleared>>

-----------------------------------------------------------------------------
\* The number in the header of frame k.
Number(k) == (Start + k) % Modulus

busy == Len(queue) >= Depth

SignedDelta(new, prev) == new - prev - 1           \* mutant: a repeated frame gives -1
DeltaOfNext(new, prev) == (new - prev) % Modulus   \* mutant: the frame itself is counted

\* frameNumber - prevFrameNumber - 1, in 32-bit unsigned arithmetic.
FrameNumberDelta(new, prev) == (new - prev - 1) % Modulus

Init ==
  /\ sent = 0 /\ skipped = {} /\ queue = <<>>
  /\ frameNumber = 0 /\ prevFrameNumber = 0 /\ firstFrame = TRUE
  /\ frameLossCnt = 0 /\ frameRxCnt = 0 /\ frameOutOrderCnt = 0
  /\ at = "pop" /\ reg = 0
  /\ clearing = "no"
  /\ taken = <<>>
  /\ wasCleared = FALSE

(***************************************************************************)
(* The network delivers frame k and acceptFrame takes it, or not: it drops *)
(* a frame with an error and any frame that finds the queue busy.          *)
(***************************************************************************)
acceptFrame(k, error) ==
  queue' = IF busy \/ error THEN queue ELSE Append(queue, k)

Deliver ==
  /\ sent < MaxSent
  /\ \E error \in BOOLEAN : acceptFrame(sent, error)
  /\ sent' = sent + 1
  /\ UNCHANGED <<skipped, counters, numbers, at, reg, clearing, taken, wasCleared>>

Skip ==
  /\ Faults \cap {"lose", "delay"} # {}
  /\ sent < MaxSent
  /\ skipped' = skipped \cup {sent}
  /\ sent' = sent + 1
  /\ UNCHANGED <<queue, counters, numbers, at, reg, clearing, taken, wasCleared>>

DeliverLate ==
  /\ "delay" \in Faults
  /\ \E k \in skipped : acceptFrame(k, FALSE) /\ skipped' = skipped \ {k}
  /\ UNCHANGED <<sent, counters, numbers, at, reg, clearing, taken, wasCleared>>

DeliverAgain ==
  /\ "repeat" \in Faults
  /\ sent > 0
  /\ acceptFrame(sent - 1, FALSE)
  /\ UNCHANGED <<sent, skipped, counters, numbers, at, reg, clearing, taken, wasCleared>>

(***************************************************************************)
(* runThread, from queue_.pop() to ++frameRxCnt.                           *)
(***************************************************************************)
Pop ==
  /\ at = "pop"
  /\ queue # <<>>
  /\ Len(taken) < MaxTaken
  /\ queue' = Tail(queue)
  /\ taken' = Append(taken, Head(queue))
  /\ prevFrameNumber' = frameNumber
  /\ frameNumber' = Number(Head(queue))
  /\ firstFrame' = FALSE
  /\ at' = CASE firstFrame -> "rx"
             [] ~firstFrame /\ frameNumber' < frameNumber -> "outOfOrder"
             [] ~firstFrame /\ frameNumber' >= frameNumber ->
                  IF FrameNumberDelta(frameNumber', frameNumber) # 0 THEN "loss" ELSE "rx"
  /\ UNCHANGED <<sent, skipped, counters, reg, clearing, wasCleared>>

\* Loading a counter, and storing what was loaded plus something.
Load(here, counter, next) ==
  /\ at = here
  /\ reg' = counter
  /\ at' = next
  /\ UNCHANGED <<network, counters, numbers, clearing, taken, wasCleared>>

Store(here, next) ==
  /\ at = here
  /\ at' = next
  /\ UNCHANGED <<network, numbers, reg, clearing, taken, wasCleared>>

LoadOutOfOrder == Load("outOfOrder", frameOutOrderCnt, "outOfOrderStore")

CountsOn == "rx"      \* mutant: no continue after ++frameOutOrderCnt
AfterDiscard == "pop"

StoreOutOfOrder ==
  /\ Store("outOfOrderStore", AfterDiscard)
  /\ frameOutOrderCnt' = reg + 1
  /\ UNCHANGED <<frameLossCnt, frameRxCnt>>

LoadLoss == Load("loss", frameLossCnt, "lossStore")

StoreLoss ==
  /\ Store("lossStore", "rx")
  /\ frameLossCnt' = reg + FrameNumberDelta(frameNumber, prevFrameNumber)
  /\ UNCHANGED <<frameRxCnt, frameOutOrderCnt>>

LoadRx == Load("rx", frameRxCnt, "rxStore")

\* The frame is processed; nothing of that changes this module's state.
StoreRx ==
  /\ Store("rxStore", "pop")
  /\ frameRxCnt' = reg + 1
  /\ UNCHANGED <<frameLossCnt, frameOutOrderCnt>>

(***************************************************************************)
(* clearFrameCnt, in a thread of the control server.                       *)
(***************************************************************************)
ClearLoss ==
  /\ clearing = "no" /\ ~wasCleared
  /\ frameLossCnt' = 0 /\ clearing' = "rx"
  /\ wasCleared' = TRUE
  /\ UNCHANGED <<network, numbers, frameRxCnt, frameOutOrderCnt, at, reg, taken>>

ClearRx ==
  /\ clearing = "rx"
  /\ frameRxCnt' = 0 /\ clearing' = "outOfOrder"
  /\ UNCHANGED <<network, numbers, frameLossCnt, frameOutOrderCnt, at, reg, taken, wasCleared>>

ClearOutOfOrder ==
  /\ clearing = "outOfOrder"
  /\ frameOutOrderCnt' = 0 /\ clearing' = "no"
  /\ UNCHANGED <<network, numbers, frameLossCnt, frameRxCnt, at, reg, taken, wasCleared>>

Next ==
  \/ Deliver \/ Skip \/ DeliverLate \/ DeliverAgain
  \/ Pop
  \/ LoadOutOfOrder \/ StoreOutOfOrder
  \/ LoadLoss \/ StoreLoss
  \/ LoadRx \/ StoreRx
  \/ ClearLoss \/ ClearRx \/ ClearOutOfOrder

Spec == Init /\ [][Next]_vars

-----------------------------------------------------------------------------
(***************************************************************************)
(* Properties.                                                             *)
(***************************************************************************)

Last == taken[Len(taken)]

\* What was taken from the queue came in the order it was sent.
InOrder == \A m, n \in DOMAIN taken : m < n => taken[m] < taken[n]

\* Types: frame numbers fit the header field and the counters do not go down
\* below zero; the queue holds frames that were sent.
TypeOK ==
  /\ sent \in 0 .. MaxSent
  /\ skipped \subseteq 0 .. sent - 1
  /\ queue \in Seq(0 .. sent - 1) /\ Len(queue) <= Depth
  /\ {frameNumber, prevFrameNumber} \subseteq 0 .. Modulus - 1
  /\ {frameLossCnt, frameRxCnt, frameOutOrderCnt, reg} \subseteq Nat
  /\ at \in {"pop", "outOfOrder", "loss", "rx", "outOfOrderStore", "lossStore", "rxStore"}
  /\ clearing \in {"no", "rx", "outOfOrder"} /\ wasCleared \in BOOLEAN
  /\ taken \in Seq(0 .. sent - 1)

\* While frames come in order (and their numbers do not wrap), received and
\* lost frames add up to all that were sent since the first: whatever is lost
\* in the network, dropped for an error or dropped because the queue is busy is
\* counted, once, when the next frame gets through.
LossExact ==
  at = "pop" /\ taken # <<>> /\ InOrder /\ Start + Last < Modulus /\ ~wasCleared
    => frameRxCnt + frameLossCnt = Last - taken[1] + 1

\* Every frame taken from the queue is counted once, as received or as out of
\* order, in whatever order and however often it came.
EveryFrameCounted ==
  at = "pop" /\ ~wasCleared => frameRxCnt + frameOutOrderCnt = Len(taken)

=============================================================================
