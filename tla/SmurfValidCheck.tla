---------------------------- MODULE SmurfValidCheck ----------------------------
(***************************************************************************)
(* The timing checks (classes SmurfValidCheck and SmurfTime), which        *)
(* runThread calls for every packet: the log of jumps, and the unix time   *)
(* that goes into the packet's header, which is the one the checks read    *)
(* last.  Their clocks are unsigned: a clock that steps back has a         *)
(* difference that is larger than every limit.                             *)
(***************************************************************************)
EXTENDS Integers

CONSTANTS
  PerSecond,    \* ticks of a second on the timing system's clock
  StartDelay,   \* seconds until the checks start (30)
  Limit,        \* largest difference allowed, for each clock
  MinUnix,      \* smallest difference allowed of the unix time
  Step,         \* how far each clock may move between two packets
  FrameModulus, \* frame numbers (2^32)
  FirstFrames,  \* frame numbers before the first packet
  MaxPackets    \* bound: packets

ASSUME ConstantsAssumption == PerSecond \in Nat \ {0} /\ FrameModulus \in Nat \ {0}
ASSUME FramesAssumption == FirstFrames \subseteq 0 .. FrameModulus - 1
ASSUME LimitsAssumption ==
  Limit \in [unix : Nat, epics : Nat, sync : Nat, frame : Nat] /\ {MinUnix, StartDelay} \subseteq Nat
\* Any clock may step back: the unix time is CLOCK_REALTIME, which can be set.
ASSUME StepAssumption ==
  Step \in [unix : SUBSET Int, epics : SUBSET Int, sync : SUBSET Int, frame : SUBSET Int]

Clocks == {"unix", "epics", "sync", "frame"}

VARIABLES
  init, ready, initial_timing_system, last_frame_jump,
  current,      \* each SmurfTime's value at its last update
  now,          \* what each clock shows, as a header and the system give it
  stamp,        \* the unix time in the last packet's header
  jumped,       \* the last packet's checks found a jump
  line,         \* frame number of the log's last line, 0 before the first
  packets,
  ran,          \* history: the checks ran for the last packet
  refused,      \* history: the log could not be opened when a line was last due
  before,       \* history: current before the last checks
  wentBack,     \* history: the timing system's clock has stepped back
  setBack,      \* history: the unix clock has stepped back since it was read
  wrapped       \* history: frame numbers started again since a line was due

checks == <<init, ready, initial_timing_system, last_frame_jump, current>>
history == <<ran, refused, before, wentBack, setBack, wrapped>>
vars == <<checks, now, stamp, jumped, line, packets, history>>

-----------------------------------------------------------------------------
\* unsigned difference larger than max_allowed_delta or smaller than
\* min_allowed_delta
update(c, delta) == delta \notin (IF c = "unix" THEN MinUnix ELSE 0) .. Limit[c]

Seconds(t) == t["epics"] \div PerSecond

\* The check for the start is in unsigned arithmetic, too.
Started(t) == Seconds(t) - (IF init THEN initial_timing_system ELSE Seconds(t)) \notin 0 .. StartDelay - 1

LogOpenLater(t) == t["frame"] > last_frame_jump + 1    \* mutant: one frame of frame_wait
\* frame_wait is 0.
LogOpen(t) == t["frame"] > last_frame_jump

FrameAfter(t) == t["frame"] + 1        \* mutant
JumpFrame(t) == t["frame"]

Init ==
  /\ init = FALSE /\ ready = FALSE /\ initial_timing_system = 0 /\ last_frame_jump = 0
  /\ current = [c \in Clocks |-> 0]
  /\ now \in [unix : {100}, epics : {10}, sync : {5}, frame : FirstFrames]
  /\ stamp = 0 /\ jumped = FALSE /\ line = 0 /\ packets = 0
  /\ ran = FALSE /\ refused = FALSE /\ before = current
  /\ wentBack = FALSE /\ setBack = FALSE /\ wrapped = FALSE

\* The clocks move on to a packet, none of them to before 0; frame numbers go round.
NextClocks ==
  {[unix |-> now.unix + u, epics |-> now.epics + e, sync |-> now.sync + s,
    frame |-> (now.frame + f) % FrameModulus] :
      u \in {d \in Step.unix : now.unix + d >= 0}, e \in {d \in Step.epics : now.epics + d >= 0},
      s \in {d \in Step.sync : now.sync + d >= 0}, f \in Step.frame}

(***************************************************************************)
(* run, which returns early until the checks start, and put_field of the   *)
(* time.                                                                   *)
(***************************************************************************)

StampBefore(t) == current.unix                                   \* mutant: before run
StampOrZero(t) == IF Started(t) THEN t["unix"] ELSE 0            \* mutant
Stamp(t) == IF Started(t) THEN t["unix"] ELSE current.unix

NotStarted(t) ==
  /\ ~Started(t)
  /\ jumped' = FALSE /\ ran' = FALSE
  /\ setBack' = (setBack \/ t.unix < now.unix)
  /\ wrapped' = (wrapped \/ t.frame < now.frame)
  /\ UNCHANGED <<ready, last_frame_jump, current, line, refused, before>>

\* A line is due: the number is kept whether or not the log can be opened.
WriteLine(t) ==
  /\ last_frame_jump' = JumpFrame(t)
  /\ refused' \in BOOLEAN
  /\ line' = IF refused' THEN line ELSE t.frame
  /\ wrapped' = FALSE

NoLine(t) ==
  /\ wrapped' = (wrapped \/ t.frame < now.frame)
  /\ UNCHANGED <<last_frame_jump, refused, line>>

Check(t) ==
  /\ Started(t)
  /\ ready' = TRUE /\ ran' = TRUE
  /\ current' = t
  /\ jumped' = \E c \in Clocks : update(c, t[c] - current[c])
  /\ IF jumped' /\ LogOpen(t) THEN WriteLine(t) ELSE NoLine(t)
  /\ before' = current
  /\ setBack' = FALSE

Packet ==
  /\ packets < MaxPackets
  /\ packets' = packets + 1
  /\ \E t \in NextClocks :
       /\ now' = t
       /\ stamp' = Stamp(t)
       /\ wentBack' = (wentBack \/ t.epics < now.epics)
       /\ NotStarted(t) \/ Check(t)
       /\ init' = TRUE
       /\ initial_timing_system' = IF init THEN initial_timing_system ELSE Seconds(t)

Next == Packet

Spec == Init /\ [][Next]_vars

(***************************************************************************)
(* Properties.                                                             *)
(***************************************************************************)

\* The variables keep their types.
TypeOK ==
  /\ {init, ready, jumped, ran, refused, wentBack, setBack, wrapped} \subseteq BOOLEAN
  /\ {last_frame_jump, line} \subseteq 0 .. FrameModulus - 1
  /\ \A c \in Clocks : {current[c], now[c], before[c]} \subseteq Nat
  /\ stamp \in Nat

\* The unix time of a packet is before that of the packet before only when the
\* unix clock was set back after that one was read: not when the timing
\* system's clock steps back and stops the checks, which then leave an old time.
StampsInOrder == [][stamp' < stamp => setBack \/ now'.unix < now.unix]_vars

\* From the first packet checked on, a packet has the unix time of when it was
\* made, unless the timing system's clock has stepped back.
StampsFresh == ready /\ ~wentBack => stamp = now.unix

\* A packet that is further from the one checked before than a limit allows, on
\* any clock and in either direction, is in the log: its frame number is that of
\* the last line, or the log could not be opened for this number, or the numbers
\* have started again since a line was due.
JumpsLogged ==
  /\ ran
  /\ \E c \in Clocks : now[c] - before[c] \notin 0 .. Limit[c]
  => now.frame = line \/ (refused /\ now.frame = last_frame_jump) \/ wrapped

=============================================================================
