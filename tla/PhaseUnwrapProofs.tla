-------------------------- MODULE PhaseUnwrapProofs --------------------------
(***************************************************************************)
(* Proofs about unwrapping, for every size of a turn and thresholds        *)
(* between a third of half a turn and half a turn, every word of whole     *)
(* turns, every number of samples and channels, every movement of the      *)
(* signals and any number of frames.                                       *)
(***************************************************************************)
EXTENDS PhaseUnwrap, TLAPS

(***************************************************************************)
(* The inductive invariant.                                                *)
(***************************************************************************)

WholeWraps == \A j \in ChanIndex : wrap_counter[j] % Turn = 0

\* No frame comes twice, so that frameNumber tells whether the last frame was
\* discarded.
FramesOnce ==
  /\ seen.number <= sent
  /\ \A f \in held : f.number \in 1 .. sent /\ f.number # seen.number
  /\ \A f, g \in held : f.number = g.number => f = g

\* The buffer that is not the next to be filled has the last frame.
OtherBuffer ==
  ~firstFrame /\ frameNumber = seen.number => b[1 - bufn] = Samples(seen)

\* What a channel shows is its sample and the turns counted so far, modulo the word.
ShowsSample ==
  ~firstFrame /\ ~seen.clear =>
    \A j \in ChanIndex :
      (input_data[j] - (Sample(seen.phase[shown[j]]) + wrap_counter[j])) % Word = 0

IInv ==
  /\ TypeOK
  /\ WholeWraps
  /\ FramesOnce
  /\ OtherBuffer
  /\ ShowsSample
  /\ WholeTurns

-----------------------------------------------------------------------------
(***************************************************************************)
(* Turns.                                                                  *)
(***************************************************************************)

LEMMA TurnFacts == Turn \in Nat \ {0} /\ Half \in Nat \ {0} /\ upper_unwrap \in Nat \ {0}
BY TurnAssumption DEF Turn

\* The numbers of a 32-bit integer.
LEMMA WordFacts == Word \in Nat \ {0} /\ 0 \in Int32 /\ Int32 \subseteq Int
<1>1. Word \in Nat \ {0} /\ Word = 2 * (Word \div 2) /\ Word \div 2 \in Int
  BY WordAssumption
<1> QED
  BY <1>1 DEF Int32

\* Division with remainder, and that there is only one.
LEMMA Division ==
  ASSUME NEW n \in Nat \ {0}, NEW x \in Int
  PROVE  /\ x % n \in 0 .. n - 1
         /\ x \div n \in Int
         /\ x = (n * (x \div n)) + (x % n)
OBVIOUS

LEMMA Multiple ==
  ASSUME NEW n \in Nat \ {0}, NEW k \in Int
  PROVE  (n * k) % n = 0
OBVIOUS

\* Whole turns, or words, stay whole when they are added and subtracted.
LEMMA WholeSum ==
  ASSUME NEW n \in Nat \ {0}, NEW x \in Int, NEW y \in Int, x % n = 0, y % n = 0
  PROVE  (x + y) % n = 0 /\ (x - y) % n = 0
<1> DEFINE k == x \div n
           m == y \div n
<1>1. k \in Int /\ x = n * k
  BY Division
<1>2. m \in Int /\ y = n * m
  BY Division
<1> HIDE DEF k, m
<1>3. x + y = n * (k + m) /\ x - y = n * (k - m) /\ k + m \in Int /\ k - m \in Int
  BY <1>1, <1>2
<1>4. (n * (k + m)) % n = 0 /\ (n * (k - m)) % n = 0
  BY <1>3, Multiple
<1> QED
  BY <1>3, <1>4

\* A word is whole turns.
LEMMA WholeWord ==
  ASSUME NEW x \in Int, x % Word = 0
  PROVE  x % Turn = 0
<1> DEFINE k == x \div Word
           m == Word \div Turn
<1>1. k \in Int /\ x = Word * k
  BY WordAssumption, Division
<1>2. m \in Int /\ Word = Turn * m
  BY WordAssumption, TurnFacts, Division
<1> HIDE DEF k, m
<1>3. x = Turn * (m * k) /\ m * k \in Int
  BY <1>1, <1>2, TurnFacts
<1> QED
  BY <1>3, TurnFacts, Multiple

\* What a 32-bit integer keeps of a sum is whole words away from it.
LEMMA WrappedFacts ==
  ASSUME NEW x \in Int
  PROVE  /\ Wrapped(x) \in Int32 /\ Wrapped(x) \in Int
         /\ (Wrapped(x) - x) % Word = 0
<1> DEFINE h == Word \div 2
           q == (x + h) \div Word
           r == (x + h) % Word
<1>1. h \in Int /\ Word = 2 * h
  BY WordAssumption, Division
<1>2. q \in Int /\ r \in 0 .. Word - 1 /\ x + h = (Word * q) + r
  BY <1>1, WordAssumption, Division
<1>3. Wrapped(x) = r - h
  BY DEF Wrapped
<1> HIDE DEF q, r
<1>4. Wrapped(x) \in Int32 /\ Wrapped(x) \in Int
  BY <1>1, <1>2, <1>3 DEF Int32
<1>5. Word * (-q) = -(Word * q) /\ Word * q \in Int
  BY <1>2, WordAssumption
<1>6. Wrapped(x) - x = Word * (-q)
  BY <1>1, <1>2, <1>3, <1>5
<1>7. (Word * (-q)) % Word = 0
  BY <1>2, WordAssumption, Multiple
<1> QED
  BY <1>4, <1>6, <1>7

\* A sample fits 16 bits and is whole turns away from its phase.
LEMMA SampleFacts ==
  ASSUME NEW x \in Int
  PROVE  /\ Sample(x) \in -Half .. Half - 1 /\ Sample(x) \in Int
         /\ \E k \in Int : Sample(x) = x + Turn * k
         /\ (Sample(x) - x) % Turn = 0
<1>1. /\ (x + Half) % Turn \in 0 .. Turn - 1 /\ (x + Half) \div Turn \in Int
      /\ x + Half = (Turn * ((x + Half) \div Turn)) + ((x + Half) % Turn)
  BY TurnFacts, Division
<1>2. Sample(x) \in -Half .. Half - 1 /\ Sample(x) \in Int
  BY <1>1, TurnFacts DEF Sample, Turn
<1> DEFINE k == -((x + Half) \div Turn)
<1>3. k \in Int
  BY <1>1
<1>4. Turn * k = -(Turn * ((x + Half) \div Turn))
  BY <1>1, TurnFacts
<1>5. Sample(x) = x + Turn * k
  BY <1>1, <1>4, TurnFacts DEF Sample
<1>6. Sample(x) - x = Turn * k
  BY <1>2, <1>3, <1>5, TurnFacts
<1>7. (Turn * k) % Turn = 0
  BY <1>3, TurnFacts, Multiple
<1> QED
  BY <1>2, <1>3, <1>5, <1>6, <1>7

\* Unwrapping adds whole turns.
LEMMA UnwrapWhole ==
  ASSUME NEW d \in Int, NEW p \in Int
  PROVE  Unwrap(d, p) \in Int /\ Unwrap(d, p) % Turn = 0
<1>1. Unwrap(d, p) \in {0, Turn, -Turn}
  BY DEF Unwrap
<1>2. (Turn * 0) % Turn = 0 /\ (Turn * 1) % Turn = 0 /\ (Turn * (-1)) % Turn = 0
  BY TurnFacts, Multiple
<1> QED
  BY <1>1, <1>2, TurnFacts

\* A step smaller than the gap between the threshold and half a turn is found again:
\* over an edge it takes the sample beyond both thresholds, and short of the edges
\* it cannot be beyond both.
LEMMA UnwrapFollows ==
  ASSUME NEW x \in Int, NEW y \in Int,
         -(Half - upper_unwrap) < y - x, y - x < Half - upper_unwrap
  PROVE  Sample(y) + Unwrap(Sample(y), Sample(x)) - Sample(x) = y - x
<1>1. PICK k \in Int : Sample(x) = x + Turn * k
  BY SampleFacts
<1>2. PICK m \in Int : Sample(y) = y + Turn * m
  BY SampleFacts
<1>3. Sample(x) \in -Half .. Half - 1 /\ Sample(y) \in -Half .. Half - 1
  BY SampleFacts
<1> DEFINE n == m - k
<1>4. n \in Int /\ Sample(y) - Sample(x) = y - x + Turn * n
  BY <1>1, <1>2, TurnFacts
<1>5. n \in {-1, 0, 1}
  <2>1. CASE n >= 2
    <3>1. Turn * n >= 2 * Turn
      BY <2>1, <1>4, TurnFacts
    <3> QED
      BY <1>3, <1>4, <3>1, TurnAssumption DEF Turn
  <2>2. CASE n <= -2
    <3>1. Turn * n <= -(2 * Turn)
      BY <2>2, <1>4, TurnFacts
    <3> QED
      BY <1>3, <1>4, <3>1, TurnAssumption DEF Turn
  <2> QED
    BY <1>4, <2>1, <2>2
<1>6. CASE n = 0
  <2>1. Sample(y) - Sample(x) = y - x
    BY <1>4, <1>6, TurnFacts
  <2>2. Unwrap(Sample(y), Sample(x)) = 0
    BY <1>3, <2>1, TurnAssumption DEF Unwrap, lower_unwrap
  <2> QED
    BY <1>3, <2>1, <2>2
<1>7. CASE n = 1
  <2>1. Sample(y) - Sample(x) = y - x + Turn
    BY <1>4, <1>7, TurnFacts
  <2>2. Unwrap(Sample(y), Sample(x)) = -Turn
    BY <1>3, <2>1, TurnAssumption DEF Unwrap, lower_unwrap, Turn
  <2> QED
    BY <1>3, <2>1, <2>2, TurnFacts
<1>8. CASE n = -1
  <2>1. Sample(y) - Sample(x) = y - x - Turn
    BY <1>4, <1>8, TurnFacts
  <2>2. Unwrap(Sample(y), Sample(x)) = Turn
    BY <1>3, <2>1, TurnAssumption DEF Unwrap, lower_unwrap, Turn
  <2> QED
    BY <1>3, <2>1, <2>2, TurnFacts
<1> QED
  BY <1>5, <1>6, <1>7, <1>8

-----------------------------------------------------------------------------
(***************************************************************************)
(* Frames.                                                                 *)
(***************************************************************************)

LEMMA IndexFacts == 0 \in RawIndex
BY CountsAssumption DEF RawIndex

\* A new frame has a new number.
LEMMA NextFrameFacts ==
  ASSUME TypeOK, NEW f \in NextFrames
  PROVE  /\ f \in Frames /\ f.number = sent + 1 /\ sent < MaxSent
         /\ f.phase \in [RawIndex -> Int] /\ f.clear \in BOOLEAN /\ f.read \in BOOLEAN
<1>1. PICK step \in [RawIndex -> Steps] :
        f.phase = [r \in RawIndex |-> phase[r] + step[r]]
  BY DEF NextFrames
<1>2. /\ f = [number |-> f.number, phase |-> f.phase, clear |-> f.clear, read |-> f.read]
      /\ f.number = sent + 1 /\ f.clear \in BOOLEAN /\ f.read \in BOOLEAN /\ sent < MaxSent
  BY DEF NextFrames
<1>3. f.phase \in [RawIndex -> Int]
  BY <1>1, InputsAssumption DEF TypeOK
<1>4. f.number \in 0 .. MaxSent
  BY <1>2, BoundsAssumption DEF TypeOK
<1> QED
  BY <1>2, <1>3, <1>4 DEF Frames

\* The samples of a frame in a buffer.
LEMMA SamplesFacts ==
  ASSUME NEW f \in Frames
  PROVE  /\ Samples(f) \in [RawIndex -> -Half .. Half - 1]
         /\ \A r \in RawIndex : f.phase[r] \in Int /\ Samples(f)[r] = Sample(f.phase[r])
BY SampleFacts DEF Samples, Frames

-----------------------------------------------------------------------------
(***************************************************************************)
(* What runThread does with a frame.                                       *)
(***************************************************************************)

LEMMA TypeInit == Init => TypeOK
<1> SUFFICES ASSUME Init
             PROVE  TypeOK
  OBVIOUS
<1>1. phase \in [RawIndex -> Int] /\ sent \in 0 .. MaxSent /\ \A f \in held : f \in Frames
  BY InputsAssumption, BoundsAssumption DEF Init
<1>2. b \in [0 .. 1 -> [RawIndex -> -Half .. Half - 1]] /\ bufn \in 0 .. 1
  BY TurnFacts DEF Init, Zeros
<1>3. frameNumber \in 0 .. MaxSent /\ firstFrame \in BOOLEAN
  BY BoundsAssumption DEF Init
<1>4. mask \in [ChanIndex -> RawIndex] /\ shown \in [ChanIndex -> RawIndex]
  BY DEF Init
<1>5. wrap_counter \in [ChanIndex -> Int32] /\ input_data \in [ChanIndex -> Int32]
  BY WordFacts DEF Init
<1>6. fast_internal_counter \in 0 .. ReadPeriod - 1
  BY CountsAssumption DEF Init
<1>7. seen \in Frames
  BY BoundsAssumption DEF Init, NoFrame, Zeros, Frames
<1> QED
  BY <1>1, <1>2, <1>3, <1>4, <1>5, <1>6, <1>7 DEF TypeOK

\* Reading the mask file leaves a mask that points into the frame.
LEMMA ReadMaskType ==
  ASSUME mask \in [ChanIndex -> RawIndex], read_mask
  PROVE  mask' \in [ChanIndex -> RawIndex]
<1>1. PICK lines \in 0 .. Chan, m \in [ChanIndex -> Entries] :
        mask' = [j \in ChanIndex |-> IF j < lines THEN MaskEntry(m[j]) ELSE mask[j]]
  BY DEF read_mask
<1>2. ASSUME NEW j \in ChanIndex
      PROVE  MaskEntry(m[j]) \in RawIndex
  <2>1. m[j] \in Nat
    BY InputsAssumption
  <2>2. Raw \in Nat /\ Raw > 0
    BY CountsAssumption
  <2> QED
    BY <2>1, <2>2 DEF MaskEntry, RawIndex
<1> QED
  BY <1>1, <1>2

\* What Take does to the buffers, for every frame.
LEMMA TakeBuffers ==
  ASSUME TypeOK, NEW f \in Frames, Take(f)
  PROVE  /\ b' \in [0 .. 1 -> [RawIndex -> -Half .. Half - 1]] /\ bufn' \in 0 .. 1
         /\ bufn' = 1 - bufn /\ b'[bufn] = Samples(f) /\ b'[1 - bufn] = b[1 - bufn]
         /\ frameNumber' = f.number /\ ~firstFrame'
<1>1. /\ b' = [b EXCEPT ![bufn] = Samples(f)] /\ bufn' = 1 - bufn
      /\ frameNumber' = f.number /\ ~firstFrame'
  BY DEF Take, Swap
<1>2. /\ Samples(f) \in [RawIndex -> -Half .. Half - 1]
      /\ b \in [0 .. 1 -> [RawIndex -> -Half .. Half - 1]]
      /\ bufn \in 0 .. 1 /\ 1 - bufn \in 0 .. 1 /\ 1 - bufn # bufn
  BY SamplesFacts DEF TypeOK
<1> HIDE DEF Samples
<1> QED
  BY <1>1, <1>2

\* A frame that is processed: the channels show its samples, unwrapped against
\* those in the other buffer.
LEMMA ProcessFacts ==
  ASSUME TypeOK, NEW f \in Frames, Take(f), Process(f, b'[bufn], b'[bufn'])
  PROVE  /\ input_data' \in [ChanIndex -> Int32] /\ wrap_counter' \in [ChanIndex -> Int32]
         /\ mask' \in [ChanIndex -> RawIndex]
         /\ fast_internal_counter' \in 0 .. ReadPeriod - 1
         /\ seen' = f /\ shown' = mask
         /\ \A j \in ChanIndex :
              LET x == f.phase[mask[j]]
                  w == Wrapped(wrap_counter[j] + Unwrap(Sample(x), b[1 - bufn][mask[j]]))
              IN /\ mask[j] \in RawIndex /\ x \in Int /\ b[1 - bufn][mask[j]] \in Int
                 /\ w \in Int /\ input_data'[j] = Wrapped(Sample(x) + w)
                 /\ wrap_counter'[j] = IF f.clear THEN 0 ELSE w
<1> DEFINE d == Samples(f)
           p == b[1 - bufn]
           wraps == [j \in ChanIndex |-> Wrapped(wrap_counter[j] + Unwrap(d[mask[j]], p[mask[j]]))]
<1>1. b'[bufn] = d /\ b'[bufn'] = p
  BY TakeBuffers
<1>2. /\ input_data' = [j \in ChanIndex |-> Wrapped(d[mask[j]] + wraps[j])]
      /\ wrap_counter' = IF f.clear THEN [j \in ChanIndex |-> 0] ELSE wraps
      /\ fast_internal_counter' = IF f.read THEN (fast_internal_counter + 1) % ReadPeriod ELSE 0
      /\ IF f.read /\ fast_internal_counter = 0 THEN read_mask ELSE UNCHANGED mask
      /\ seen' = f /\ shown' = mask
  BY <1>1 DEF Process
<1>3. /\ mask \in [ChanIndex -> RawIndex] /\ wrap_counter \in [ChanIndex -> Int32]
      /\ p \in [RawIndex -> -Half .. Half - 1] /\ fast_internal_counter \in Nat
  BY DEF TypeOK
<1>4. mask' \in [ChanIndex -> RawIndex]
  BY <1>2, <1>3, ReadMaskType
<1>5. fast_internal_counter' \in 0 .. ReadPeriod - 1
  BY <1>2, <1>3, CountsAssumption
<1>6. ASSUME NEW j \in ChanIndex
      PROVE  /\ mask[j] \in RawIndex /\ f.phase[mask[j]] \in Int
             /\ d[mask[j]] = Sample(f.phase[mask[j]]) /\ d[mask[j]] \in Int
             /\ p[mask[j]] \in Int
             /\ Unwrap(d[mask[j]], p[mask[j]]) \in Int
             /\ wrap_counter[j] \in Int /\ wraps[j] \in Int32 /\ wraps[j] \in Int
             /\ Wrapped(d[mask[j]] + wraps[j]) \in Int32
  <2>1. mask[j] \in RawIndex /\ p[mask[j]] \in Int /\ wrap_counter[j] \in Int
    <3>1. mask[j] \in RawIndex /\ p[mask[j]] \in Int
      BY <1>3, TurnFacts
    <3>2. wrap_counter[j] \in Int32
      BY <1>3
    <3> QED
      BY <3>1, <3>2, WordFacts
  <2>2. /\ f.phase[mask[j]] \in Int /\ d[mask[j]] = Sample(f.phase[mask[j]])
        /\ d[mask[j]] \in Int
    BY <2>1, SamplesFacts, TurnFacts
  <2>3. Unwrap(d[mask[j]], p[mask[j]]) \in Int
    BY <2>1, <2>2, UnwrapWhole
  <2>4. wraps[j] \in Int32 /\ wraps[j] \in Int
    BY <2>1, <2>3, WrappedFacts
  <2>5. d[mask[j]] + wraps[j] \in Int
    BY <2>2, <2>4
  <2>6. Wrapped(d[mask[j]] + wraps[j]) \in Int32
    BY <2>5, WrappedFacts
  <2> QED
    BY <2>1, <2>2, <2>3, <2>4, <2>6
<1> HIDE DEF d, p
<1>7. input_data' \in [ChanIndex -> Int32] /\ wrap_counter' \in [ChanIndex -> Int32]
  BY <1>2, <1>6, WordFacts
<1>8. ASSUME NEW j \in ChanIndex
      PROVE  LET x == f.phase[mask[j]]
                 w == Wrapped(wrap_counter[j] + Unwrap(Sample(x), p[mask[j]]))
             IN /\ mask[j] \in RawIndex /\ x \in Int /\ p[mask[j]] \in Int
                /\ w \in Int /\ input_data'[j] = Wrapped(Sample(x) + w)
                /\ wrap_counter'[j] = IF f.clear THEN 0 ELSE w
  BY <1>2, <1>6
<1> QED
  BY <1>2, <1>4, <1>5, <1>7, <1>8 DEF p

\* The invariant of a frame that is taken, discarded or not, but for what it says of
\* the frames on the network.
LEMMA TakeInv ==
  ASSUME IInv, NEW f \in Frames, f.number # seen.number, Take(f)
  PROVE  /\ wrap_counter' \in [ChanIndex -> Int32] /\ input_data' \in [ChanIndex -> Int32]
         /\ mask' \in [ChanIndex -> RawIndex] /\ shown' \in [ChanIndex -> RawIndex]
         /\ fast_internal_counter' \in 0 .. ReadPeriod - 1
         /\ seen' \in {seen, f}
         /\ WholeWraps' /\ OtherBuffer' /\ ShowsSample' /\ WholeTurns'
<1>1. TypeOK
  BY DEF IInv
<1>2. /\ bufn' = 1 - bufn /\ b'[bufn] = Samples(f) /\ frameNumber' = f.number /\ ~firstFrame'
      /\ bufn \in 0 .. 1
  BY <1>1, TakeBuffers DEF TypeOK
<1>3. CASE ~firstFrame /\ UNCHANGED <<channels, seen, shown>>
  <2>1. WholeWraps' /\ ShowsSample' /\ WholeTurns'
    BY <1>3 DEF channels, IInv, WholeWraps, ShowsSample, WholeTurns
  <2>2. OtherBuffer'
    BY <1>2, <1>3 DEF OtherBuffer
  <2> QED
    BY <1>1, <1>3, <2>1, <2>2 DEF TypeOK, channels
<1>4. CASE Process(f, b'[bufn], b'[bufn'])
  <2>1. /\ input_data' \in [ChanIndex -> Int32] /\ wrap_counter' \in [ChanIndex -> Int32]
        /\ mask' \in [ChanIndex -> RawIndex]
        /\ fast_internal_counter' \in 0 .. ReadPeriod - 1
        /\ seen' = f /\ shown' = mask /\ shown' \in [ChanIndex -> RawIndex]
    BY <1>1, <1>4, ProcessFacts DEF TypeOK
  <2>2. OtherBuffer'
    BY <1>2, <2>1 DEF OtherBuffer, Samples
  <2>3. ASSUME NEW j \in ChanIndex
        PROVE  /\ ~f.clear =>
                    (input_data'[j] - (Sample(f.phase[mask[j]]) + wrap_counter'[j])) % Word = 0
               /\ wrap_counter'[j] % Turn = 0
               /\ (input_data'[j] - f.phase[mask[j]]) % Turn = 0
    <3> DEFINE x == f.phase[mask[j]]
               q == b[1 - bufn][mask[j]]
               u == Unwrap(Sample(x), q)
               w == Wrapped(wrap_counter[j] + u)
    <3>1. /\ x \in Int /\ q \in Int /\ w \in Int /\ input_data'[j] = Wrapped(Sample(x) + w)
          /\ wrap_counter'[j] = IF f.clear THEN 0 ELSE w
      BY <1>1, <1>4, ProcessFacts
    <3>2. wrap_counter[j] \in Int /\ wrap_counter[j] % Turn = 0
      BY <1>1, WordFacts DEF IInv, WholeWraps, TypeOK
    <3>3. Sample(x) \in Int /\ (Sample(x) - x) % Turn = 0
      BY <3>1, SampleFacts
    <3>4. u \in Int /\ u % Turn = 0
      BY <3>1, <3>3, UnwrapWhole
    <3> HIDE DEF x, q, u
    <3>5. w % Turn = 0
      <4> DEFINE c == wrap_counter[j] + u
      <4>1. c \in Int /\ c % Turn = 0
        BY <3>2, <3>4, TurnFacts, WholeSum
      <4> HIDE DEF c
      <4>2. Wrapped(c) \in Int /\ (Wrapped(c) - c) % Word = 0
        BY <4>1, WrappedFacts
      <4>3. (Wrapped(c) - c) % Turn = 0
        BY <4>1, <4>2, WholeWord
      <4>4. ((Wrapped(c) - c) + c) % Turn = 0
        BY <4>1, <4>2, <4>3, TurnFacts, WholeSum
      <4>5. (Wrapped(c) - c) + c = Wrapped(c)
        BY <4>1, <4>2
      <4>6. w = Wrapped(c)
        BY DEF c
      <4> QED
        BY <4>4, <4>5, <4>6
    <3> HIDE DEF w
    <3> DEFINE v == Sample(x) + w
    <3>6. /\ v \in Int /\ Wrapped(v) \in Int /\ (Wrapped(v) - v) % Word = 0
          /\ (Wrapped(v) - v) % Turn = 0
      <4>1. v \in Int
        BY <3>1, <3>3
      <4> HIDE DEF v
      <4>2. Wrapped(v) \in Int /\ (Wrapped(v) - v) % Word = 0
        BY <4>1, WrappedFacts
      <4> QED
        BY <4>1, <4>2, WholeWord
    <3>7. (v - x) % Turn = 0
      <4>1. ((Sample(x) - x) + w) % Turn = 0
        BY <3>1, <3>3, <3>5, TurnFacts, WholeSum
      <4>2. (Sample(x) - x) + w = v - x
        BY <3>1, <3>3
      <4> QED
        BY <4>1, <4>2
    <3> HIDE DEF v
    <3>8. (Wrapped(v) - x) % Turn = 0
      <4>1. ((Wrapped(v) - v) + (v - x)) % Turn = 0
        BY <3>1, <3>6, <3>7, TurnFacts, WholeSum
      <4>2. (Wrapped(v) - v) + (v - x) = Wrapped(v) - x
        BY <3>1, <3>6
      <4> QED
        BY <4>1, <4>2
    <3>9. /\ (input_data'[j] - x) % Turn = 0 /\ wrap_counter'[j] % Turn = 0
          /\ ~f.clear => (input_data'[j] - (Sample(x) + wrap_counter'[j])) % Word = 0
      <4>1. 0 % Turn = 0
        BY TurnFacts
      <4> QED
        BY <3>1, <3>5, <3>6, <3>8, <4>1 DEF v
    <3> QED
      BY <3>9 DEF x
  <2>4. WholeWraps' /\ WholeTurns'
    BY <2>1, <2>3 DEF WholeWraps, WholeTurns
  <2>5. ShowsSample'
    BY <2>1, <2>3 DEF ShowsSample, Sample
  <2> QED
    BY <2>1, <2>2, <2>4, <2>5
<1> QED
  BY <1>3, <1>4 DEF Take

-----------------------------------------------------------------------------
(***************************************************************************)
(* The inductive invariant holds.                                          *)
(***************************************************************************)

LEMMA InvInit == Init => IInv
<1> SUFFICES ASSUME Init
             PROVE  IInv
  OBVIOUS
<1>1. WholeWraps
  BY TurnFacts DEF Init, WholeWraps
<1>2. FramesOnce
  BY DEF Init, FramesOnce, NoFrame
<1> QED
  BY <1>1, <1>2, TypeInit DEF Init, IInv, OtherBuffer, ShowsSample, WholeTurns

LEMMA ArriveInv ==
  ASSUME IInv, Arrive
  PROVE  IInv'
<1>1. PICK f \in NextFrames : sent' = f.number /\ phase' = f.phase /\ Take(f) /\ UNCHANGED held
  BY DEF Arrive
<1>2. TypeOK /\ FramesOnce
  BY DEF IInv
<1>3. /\ f \in Frames /\ f.number = sent + 1 /\ sent < MaxSent /\ sent \in Nat
      /\ f.phase \in [RawIndex -> Int] /\ f.number \in 0 .. MaxSent
  BY <1>2, NextFrameFacts, BoundsAssumption DEF TypeOK
<1>4. seen.number \in Nat /\ f.number # seen.number
  BY <1>2, <1>3 DEF TypeOK, FramesOnce, Frames
<1>5. /\ wrap_counter' \in [ChanIndex -> Int32] /\ input_data' \in [ChanIndex -> Int32]
      /\ mask' \in [ChanIndex -> RawIndex] /\ shown' \in [ChanIndex -> RawIndex]
      /\ fast_internal_counter' \in 0 .. ReadPeriod - 1
      /\ seen' \in {seen, f}
      /\ WholeWraps' /\ OtherBuffer' /\ ShowsSample' /\ WholeTurns'
  BY <1>1, <1>3, <1>4, TakeInv
<1>6. /\ b' \in [0 .. 1 -> [RawIndex -> -Half .. Half - 1]] /\ bufn' \in 0 .. 1
      /\ frameNumber' = f.number /\ ~firstFrame' /\ firstFrame' \in BOOLEAN
  <2>1. firstFrame' = FALSE
    BY <1>1 DEF Take
  <2> QED
    BY <1>1, <1>2, <1>3, <2>1, TakeBuffers
<1>7. TypeOK'
  BY <1>1, <1>2, <1>3, <1>5, <1>6 DEF TypeOK
<1>8. FramesOnce'
  <2>1. seen'.number <= sent'
    BY <1>1, <1>2, <1>3, <1>4, <1>5 DEF FramesOnce
  <2>2. ASSUME NEW g \in held
        PROVE  g.number \in 1 .. sent' /\ g.number # seen'.number
    BY <1>1, <1>2, <1>3, <1>5 DEF FramesOnce
  <2> QED
    BY <1>1, <1>2, <2>1, <2>2 DEF FramesOnce
<1> QED
  BY <1>5, <1>7, <1>8 DEF IInv

LEMMA KeepBackInv ==
  ASSUME IInv, KeepBack
  PROVE  IInv'
<1>1. PICK f \in NextFrames : sent' = f.number /\ phase' = f.phase /\ held' = held \cup {f}
  BY DEF KeepBack
<1>2. TypeOK /\ FramesOnce /\ UNCHANGED <<buffers, channels, seen, shown>>
  BY DEF IInv, KeepBack
<1>3. /\ f \in Frames /\ f.number = sent + 1 /\ sent < MaxSent /\ sent \in Nat
      /\ f.phase \in [RawIndex -> Int] /\ f.number \in 0 .. MaxSent
  BY <1>2, NextFrameFacts, BoundsAssumption DEF TypeOK
<1>4. TypeOK'
  BY <1>1, <1>2, <1>3 DEF TypeOK, buffers, channels
<1>5. seen.number \in Nat
  BY <1>2 DEF TypeOK, Frames
<1>6. FramesOnce'
  BY <1>1, <1>2, <1>3, <1>5 DEF FramesOnce
<1>7. WholeWraps' /\ OtherBuffer' /\ ShowsSample' /\ WholeTurns'
  BY <1>2 DEF IInv, WholeWraps, OtherBuffer, ShowsSample, WholeTurns, Samples, buffers, channels
<1> QED
  BY <1>4, <1>6, <1>7 DEF IInv

LEMMA ArriveLateInv ==
  ASSUME IInv, ArriveLate
  PROVE  IInv'
<1>1. PICK f \in held : Take(f) /\ held' = held \ {f} /\ UNCHANGED <<phase, sent>>
  BY DEF ArriveLate
<1>2. TypeOK /\ FramesOnce
  BY DEF IInv
<1>3. f \in Frames /\ f.number \in 1 .. sent /\ f.number # seen.number /\ f.number \in 0 .. MaxSent
  BY <1>2 DEF TypeOK, FramesOnce, Frames
<1>4. /\ wrap_counter' \in [ChanIndex -> Int32] /\ input_data' \in [ChanIndex -> Int32]
      /\ mask' \in [ChanIndex -> RawIndex] /\ shown' \in [ChanIndex -> RawIndex]
      /\ fast_internal_counter' \in 0 .. ReadPeriod - 1
      /\ seen' \in {seen, f}
      /\ WholeWraps' /\ OtherBuffer' /\ ShowsSample' /\ WholeTurns'
  BY <1>1, <1>3, TakeInv
<1>5. /\ b' \in [0 .. 1 -> [RawIndex -> -Half .. Half - 1]] /\ bufn' \in 0 .. 1
      /\ frameNumber' = f.number /\ ~firstFrame' /\ firstFrame' \in BOOLEAN
  <2>1. firstFrame' = FALSE
    BY <1>1 DEF Take
  <2> QED
    BY <1>1, <1>2, <1>3, <2>1, TakeBuffers
<1>6. TypeOK'
  BY <1>1, <1>2, <1>3, <1>4, <1>5 DEF TypeOK
<1>7. FramesOnce'
  <2>1. ASSUME NEW g \in held'
        PROVE  g.number \in 1 .. sent' /\ g.number # seen'.number
    BY <1>1, <1>2, <1>4, <2>1 DEF FramesOnce
  <2> QED
    BY <1>1, <1>2, <1>3, <1>4, <2>1 DEF FramesOnce
<1> QED
  BY <1>4, <1>6, <1>7 DEF IInv

LEMMA InvNext == IInv /\ [Next]_vars => IInv'
<1> SUFFICES ASSUME IInv, [Next]_vars
             PROVE  IInv'
  OBVIOUS
<1>1. CASE UNCHANGED vars
  BY <1>1 DEF vars, signals, buffers, channels, IInv, TypeOK, WholeWraps, FramesOnce, OtherBuffer,
              ShowsSample, WholeTurns, Samples
<1> QED
  BY <1>1, ArriveInv, KeepBackInv, ArriveLateInv DEF Next

LEMMA Invariant == Spec => []IInv
BY InvInit, InvNext, PTL DEF Spec

-----------------------------------------------------------------------------
(***************************************************************************)
(* The properties.                                                         *)
(***************************************************************************)

\* The mask points into the frame whatever the mask file holds, and all values fit.
THEOREM TypeCorrect == Spec => []TypeOK
<1>1. IInv => TypeOK
  BY DEF IInv
<1> QED
  BY <1>1, Invariant, PTL

\* A channel is never off its signal by anything but whole turns.
THEOREM TurnsAreWhole == Spec => []WholeTurns
<1>1. IInv => WholeTurns
  BY DEF IInv
<1> QED
  BY <1>1, Invariant, PTL

\* A frame that is shown after one that was not discarded moves each channel by what
\* its signal moved, when that is a step unwrapping can follow.
LEMMA TakeFollows ==
  ASSUME IInv, NEW f \in Frames, Take(f), frameNumber = seen.number, seen' # seen,
         NEW j \in ChanIndex, Followable(j)
  PROVE  Follows(j)
<1>1. TypeOK
  BY DEF IInv
<1>2. Process(f, b'[bufn], b'[bufn'])
  BY DEF Take
<1> DEFINE x == seen.phase[mask[j]]
           y == f.phase[mask[j]]
<1>3. /\ seen' = f /\ mask[j] \in RawIndex /\ y \in Int
      /\ wrap_counter[j] \in Int /\ x \in Int
      /\ input_data'[j] =
           Wrapped(Sample(y) + Wrapped(wrap_counter[j] + Unwrap(Sample(y), b[1 - bufn][mask[j]])))
  BY <1>1, <1>2, ProcessFacts, WordFacts DEF TypeOK, Frames
<1>4. b[1 - bufn][mask[j]] = Sample(x)
  <2>1. b[1 - bufn] = Samples(seen)
    BY DEF IInv, OtherBuffer, Followable
  <2> QED
    BY <1>1, <1>3, <2>1, SamplesFacts DEF TypeOK
<1>5. /\ input_data[j] \in Int
      /\ (input_data[j] - (Sample(x) + wrap_counter[j])) % Word = 0
  BY <1>1, WordFacts DEF Followable, IInv, ShowsSample, TypeOK
<1>6. -(Half - upper_unwrap) < y - x /\ y - x < Half - upper_unwrap
  BY <1>3 DEF Followable
<1>7. Sample(x) \in Int /\ Sample(y) \in Int
  BY <1>3, SampleFacts
<1> DEFINE u == Unwrap(Sample(y), Sample(x))
           c == wrap_counter[j] + u
           v == Sample(y) + Wrapped(c)
<1>8. u \in Int /\ c \in Int
  <2>1. u \in Int
    BY <1>7, UnwrapWhole
  <2> QED
    BY <1>3, <2>1
<1>9. Sample(y) + u - Sample(x) = y - x
  BY <1>3, <1>6, UnwrapFollows
<1> HIDE DEF x, y, u
<1>10. input_data'[j] = Wrapped(v)
  BY <1>3, <1>4 DEF x, y, u
<1>11. Wrapped(c) \in Int /\ (Wrapped(c) - c) % Word = 0 /\ v \in Int
  <2> HIDE DEF c
  <2>1. Wrapped(c) \in Int /\ (Wrapped(c) - c) % Word = 0
    BY <1>8, WrappedFacts
  <2> QED
    BY <1>7, <2>1
<1>12. Wrapped(v) \in Int /\ (Wrapped(v) - v) % Word = 0
  <2> HIDE DEF v
  <2> QED
    BY <1>11, WrappedFacts
<1> DEFINE i == input_data[j] - (Sample(x) + wrap_counter[j])
<1>13. (((Wrapped(v) - v) + (Wrapped(c) - c)) - i) % Word = 0
  <2>1. Wrapped(v) - v \in Int /\ Wrapped(c) - c \in Int /\ i \in Int
    BY <1>3, <1>5, <1>7, <1>8, <1>11, <1>12
  <2> HIDE DEF i, v, c
  <2>2. ((Wrapped(v) - v) + (Wrapped(c) - c)) % Word = 0
    BY <1>11, <1>12, <2>1, WordFacts, WholeSum
  <2>3. (Wrapped(v) - v) + (Wrapped(c) - c) \in Int /\ i % Word = 0
    BY <1>5, <2>1 DEF i
  <2> QED
    BY <2>1, <2>2, <2>3, WordFacts, WholeSum
<1>14. ((Wrapped(v) - v) + (Wrapped(c) - c)) - i = (Wrapped(v) - input_data[j]) - (y - x)
  BY <1>3, <1>5, <1>7, <1>8, <1>9, <1>11, <1>12
<1>15. ((input_data'[j] - input_data[j]) - (y - x)) % Word = 0
  BY <1>10, <1>13, <1>14
<1> QED
  BY <1>3, <1>15 DEF x, y, Follows

\* Channels follow their signals over the edges of the samples.
THEOREM ChannelsFollow == Spec => Unwraps
<1> DEFINE Step == frameNumber = seen.number /\ seen' # seen =>
                     \A j \in ChanIndex : Followable(j) => Follows(j)
<1>1. ASSUME IInv, [Next]_vars
      PROVE  [Step]_vars
  <2> SUFFICES ASSUME Next, frameNumber = seen.number, seen' # seen,
                      NEW j \in ChanIndex, Followable(j)
               PROVE  Follows(j)
    BY <1>1
  <2>1. ASSUME NEW f \in Frames, Take(f)
        PROVE  Follows(j)
    BY <1>1, <2>1, TakeFollows
  <2>2. CASE Arrive
    BY <1>1, <2>1, <2>2, NextFrameFacts DEF Arrive, IInv
  <2>3. CASE KeepBack
    BY <2>3 DEF KeepBack
  <2>4. CASE ArriveLate
    BY <1>1, <2>1, <2>4 DEF ArriveLate, IInv, TypeOK
  <2> QED
    BY <2>2, <2>3, <2>4 DEF Next
<1> QED
  BY <1>1, Invariant, PTL DEF Spec, Unwraps

=============================================================================
