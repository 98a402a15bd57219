------------------------------ MODULE PhaseUnwrap ------------------------------
(***************************************************************************)
(* How runThread turns the samples of a frame, which are phases modulo one *)
(* turn, into phases that run on over several turns: the two frame         *)
(* buffers, the discarding of out-of-order frames, the wrap counters, the  *)
(* clear bit, and the mask file that says which sample a channel shows.    *)
(* All of it is state of one thread, so a frame is one action.  A frame in *)
(* a test mode is a frame with other samples.                              *)
(***************************************************************************)
EXTENDS Integers, FiniteSets

CONSTANTS
  Half,         \* half a turn: samples are -Half .. Half - 1 (0x8000)
  upper_unwrap, \* 0x6000
  Word,         \* what wrap_t and avgdata_t count to: int32_t, 2^32
  Raw,          \* the samples of a frame are numbered 0 .. Raw - 1 (smurf_raw_samples)
  Chan,         \* the channels are 0 .. Chan - 1 (smurfsamples)
  ReadPeriod,   \* frames between two readings of the files (5000)
  Entries,      \* the numbers that a line of the mask file may hold
  Starts,       \* the phases a signal may start from
  Steps,        \* how far a phase may move between two frames
  MaxSent,      \* bound: frames sent
  MaxHeld       \* bound: frames kept back at a time

Turn == 2 * Half

ASSUME TurnAssumption ==
  Half \in Nat /\ upper_unwrap \in Nat /\ upper_unwrap < Half /\ Half <= 3 * upper_unwrap
ASSUME WordAssumption ==
  Word \in Nat \ {0} /\ Word % Turn = 0 /\ Word % 2 = 0
ASSUME CountsAssumption == {Raw, Chan, ReadPeriod} \subseteq Nat \ {0}
ASSUME InputsAssumption == Entries \subseteq Nat /\ Starts \cup Steps \subseteq Int
ASSUME BoundsAssumption == MaxSent \in Nat /\ MaxHeld \in Nat

VARIABLES
  phase,        \* the phase of each signal, in the last frame sent
  sent,         \* frames sent
  held,         \* frames that the network keeps back
  b, bufn,      \* the two buffers, and the one for the next frame
  frameNumber, firstFrame,
  mask, wrap_counter, input_data,
  fast_internal_counter,   \* modulo ReadPeriod
  seen,         \* history: the last frame that was not discarded
  shown         \* history: the mask that was used for it

signals == <<phase, sent, held>>
buffers == <<b, bufn, frameNumber, firstFrame>>
channels == <<mask, wrap_counter, input_data, fast_internal_counter>>
vars == <<signals, buffers, channels, seen, shown>>

-----------------------------------------------------------------------------
lower_unwrap == -upper_unwrap
Int32 == -(Word \div 2) .. (Word \div 2) - 1
RawIndex == 0 .. Raw - 1
ChanIndex == 0 .. Chan - 1

\* A phase as a 16-bit sample.
Sample(x) == ((x + Half) % Turn) - Half

\* A frame as it is sent: phases, and the bits that tell runThread to clear or
\* to read its files.
Frames == [number : 0 .. MaxSent, phase : [RawIndex -> Int], clear : BOOLEAN, read : BOOLEAN]

Zeros == [r \in RawIndex |-> 0]
NoFrame == [number |-> 0, phase |-> Zeros, clear |-> FALSE, read |-> FALSE]

\* The samples of a frame in a buffer.
Samples(f) == [r \in RawIndex |-> Sample(f.phase[r])]

Init ==
  /\ phase \in [RawIndex -> Starts] /\ sent = 0 /\ held = {}
  /\ b = [i \in 0 .. 1 |-> Zeros] /\ bufn = 0
  /\ frameNumber = 0 /\ firstFrame = TRUE
  /\ mask \in [ChanIndex -> RawIndex]    \* read_mask, in the constructor
  /\ wrap_counter = [j \in ChanIndex |-> 0]
  /\ input_data = [j \in ChanIndex |-> 0]
  /\ fast_internal_counter = 0
  /\ seen = NoFrame
  /\ shown = mask

-----------------------------------------------------------------------------
Clamped(x) ==                 \* mutant: a counter that stops at its end
  IF x < -(Word \div 2) THEN -(Word \div 2)
  ELSE IF x < Word \div 2 THEN x ELSE (Word \div 2) - 1

(***************************************************************************)
(* What an int32_t keeps of a sum.  The standard leaves a signed overflow  *)
(* undefined; the build asks for no optimisation (CMakeLists.txt:25) and   *)
(* adds modulo the word.                                                   *)
(***************************************************************************)
Wrapped(x) == ((x + Word \div 2) % Word) - Word \div 2

\* What sample d after sample p adds to the wrap counter.
Unwrap(d, p) ==
  CASE d > upper_unwrap /\ p < lower_unwrap -> -Turn
    [] d < lower_unwrap /\ p > upper_unwrap -> Turn
    [] OTHER -> 0

AnyEntry(m) == m              \* mutant: no test against smurf_raw_samples

\* The mask that a line of the mask file sets.
MaskEntry(m) == IF m < Raw THEN m ELSE 0

\* The file may be missing or end early, and the rest of the mask stays.
read_mask ==
  \E lines \in 0 .. Chan, m \in [ChanIndex -> Entries] :
    mask' = [j \in ChanIndex |-> IF j < lines THEN MaskEntry(m[j]) ELSE mask[j]]

(***************************************************************************)
(* A frame that is not discarded: d is its samples, p those in the other   *)
(* buffer.                                                                 *)
(***************************************************************************)
Process(f, d, p) ==
  LET wraps == [j \in ChanIndex |-> Wrapped(wrap_counter[j] + Unwrap(d[mask[j]], p[mask[j]]))]
  IN /\ input_data' = [j \in ChanIndex |-> Wrapped(d[mask[j]] + wraps[j])]
     /\ wrap_counter' = IF f.clear THEN [j \in ChanIndex |-> 0] ELSE wraps
     /\ fast_internal_counter' = IF f.read THEN (fast_internal_counter + 1) % ReadPeriod ELSE 0
     /\ IF f.read /\ fast_internal_counter = 0 THEN read_mask ELSE UNCHANGED mask
     /\ seen' = f
     /\ shown' = mask

NoSwap(n) == n                \* mutant: the buffers are not swapped
Swap(n) == 1 - n

\* runThread, for one frame from the queue.
Take(f) ==
  /\ b' = [b EXCEPT ![bufn] = Samples(f)]
  /\ bufn' = Swap(bufn)
  /\ frameNumber' = f.number
  /\ firstFrame' = FALSE
  /\ IF ~firstFrame /\ f.number < frameNumber
       THEN UNCHANGED <<channels, seen, shown>>
       ELSE Process(f, b'[bufn], b'[bufn'])

(***************************************************************************)
(* The signals move and a frame is sent: it arrives, or it is kept back    *)
(* and arrives later or never.                                             *)
(***************************************************************************)
NextFrames ==
  {f \in [number : {sent + 1}, phase : {[r \in RawIndex |-> phase[r] + step[r]] : step \in [RawIndex -> Steps]},
          clear : BOOLEAN, read : BOOLEAN] : sent < MaxSent}

Arrive ==
  \E f \in NextFrames :
    /\ sent' = f.number /\ phase' = f.phase
    /\ Take(f)
    /\ UNCHANGED held

KeepBack ==
  /\ Cardinality(held) < MaxHeld
  /\ \E f \in NextFrames :
       /\ sent' = f.number /\ phase' = f.phase
       /\ held' = held \cup {f}
  /\ UNCHANGED <<buffers, channels, seen, shown>>

ArriveLate ==
  \E f \in held :
    /\ Take(f)
    /\ held' = held \ {f}
    /\ UNCHANGED <<phase, sent>>

Next == Arrive \/ KeepBack \/ ArriveLate

Spec == Init /\ [][Next]_vars

-----------------------------------------------------------------------------
(***************************************************************************)
(* Properties.                                                             *)
(***************************************************************************)

\* Types: in particular the mask only ever points at samples of the frame,
\* whatever the mask file says, and counts and channels are 32-bit integers.
TypeOK ==
  /\ phase \in [RawIndex -> Int] /\ sent \in 0 .. MaxSent
  /\ \A f \in held : f \in Frames
  /\ b \in [0 .. 1 -> [RawIndex -> -Half .. Half - 1]] /\ bufn \in 0 .. 1
  /\ frameNumber \in 0 .. MaxSent /\ firstFrame \in BOOLEAN
  /\ mask \in [ChanIndex -> RawIndex]
  /\ wrap_counter \in [ChanIndex -> Int32] /\ input_data \in [ChanIndex -> Int32]
  /\ fast_internal_counter \in 0 .. ReadPeriod - 1
  /\ seen \in Frames /\ shown \in [ChanIndex -> RawIndex]

\* Unwrapping never damages a phase: whatever was lost, late, cleared or masked
\* anew, and however often the counter itself has wrapped, a channel differs from
\* the signal it shows by whole turns.
WholeTurns ==
  ~firstFrame => \A j \in ChanIndex : (input_data[j] - seen.phase[shown[j]]) % Turn = 0

\* The step from the last frame shown to the one that is shown now is one that
\* unwrapping can follow, for channel j: less than the gap between the threshold and
\* half a turn, with no clear and no new mask in between.
Followable(j) ==
  LET step == seen'.phase[mask[j]] - seen.phase[mask[j]]
  IN /\ ~firstFrame /\ ~seen.clear /\ shown[j] = mask[j]
     /\ -(Half - upper_unwrap) < step /\ step < Half - upper_unwrap

\* The channel moves as its signal does, but for the words of 2^32 that a 32-bit
\* integer cannot hold: past half a word, 2^15 turns, it goes on from the other end.
Follows(j) ==
  ((input_data'[j] - input_data[j]) - (seen'.phase[mask[j]] - seen.phase[mask[j]])) % Word = 0

\* While the frame before was not a discarded one, a channel follows its signal
\* over the edge of the samples, in both directions, over the ends of the 32-bit
\* counter, and over lost frames if the signal did not move far meanwhile.
Unwraps ==
  [][frameNumber = seen.number /\ seen' # seen =>
       \A j \in ChanIndex : Followable(j) => Follows(j)]_vars

(***************************************************************************)
(* What a comment says and the code does not do.                           *)
(***************************************************************************)

\* smurf_processor.cpp:175, "Discard out-of-order frames": a discarded frame has no
\* effect on the channels, which follow their signals as if it had not come.
DiscardHarmless ==
  [][seen' # seen => \A j \in ChanIndex : Followable(j) => Follows(j)]_vars
=============================================================================
