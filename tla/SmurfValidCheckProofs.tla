------------------------ MODULE SmurfValidCheckProofs ------------------------
(***************************************************************************)
(* Proofs about the timing checks, for every rate and every step of the    *)
(* clocks, every limit, every start delay and any number of packets.       *)
(***************************************************************************)
EXTENDS SmurfValidCheck, TLAPS

(***************************************************************************)
(* The inductive invariant.                                                *)
(***************************************************************************)

\* A packet has the time that was read last, which is not in the future while the
\* unix clock has not been set back since.
StampIsCurrent == stamp = current.unix /\ (~setBack => current.unix <= now.unix)

\* Unless the timing system's clock has stepped back, it has not got behind its
\* start; and after the first check the delay is over for good.
ClockAfterStart ==
  ~wentBack =>
    /\ init => initial_timing_system <= Seconds(now)
    /\ ready => init /\ initial_timing_system + StartDelay <= Seconds(now)

\* A line was due last at an earlier frame or this one, or the numbers have
\* started again; it is the log's last line, if the log could be opened.
LogNotAhead ==
  /\ wrapped \/ last_frame_jump <= now.frame
  /\ refused \/ line = last_frame_jump

IInv ==
  /\ TypeOK
  /\ initial_timing_system \in Nat
  /\ StampIsCurrent
  /\ ClockAfterStart
  /\ LogNotAhead
  /\ StampsFresh
  /\ JumpsLogged

-----------------------------------------------------------------------------
(***************************************************************************)
(* Clocks.                                                                 *)
(***************************************************************************)

\* A later time is not an earlier second.
LEMMA SecondsMonotone ==
  ASSUME NEW a \in Nat, NEW b \in Nat, a <= b
  PROVE  /\ a \div PerSecond \in Nat /\ b \div PerSecond \in Nat
         /\ a \div PerSecond <= b \div PerSecond
BY ConstantsAssumption

\* What the clocks show is a number, however far they step.
LEMMA ClockFacts ==
  ASSUME TypeOK, NEW t \in NextClocks
  PROVE  /\ \A c \in Clocks : t[c] \in Nat
         /\ t.frame \in 0 .. FrameModulus - 1
<1>1. PICK u \in {d \in Step.unix : now.unix + d >= 0}, e \in {d \in Step.epics : now.epics + d >= 0},
           s \in {d \in Step.sync : now.sync + d >= 0}, f \in Step.frame :
        t = [unix |-> now.unix + u, epics |-> now.epics + e, sync |-> now.sync + s,
             frame |-> (now.frame + f) % FrameModulus]
  BY DEF NextClocks
<1>2. now["unix"] \in Nat /\ now["epics"] \in Nat /\ now["sync"] \in Nat /\ now["frame"] \in Nat
  BY DEF TypeOK, Clocks
<1>3. u \in Int /\ e \in Int /\ s \in Int /\ f \in Int
  BY StepAssumption
<1>4. (now.frame + f) % FrameModulus \in 0 .. FrameModulus - 1
  BY <1>2, <1>3, ConstantsAssumption
<1> QED
  BY <1>1, <1>2, <1>3, <1>4, ConstantsAssumption DEF Clocks

\* With a clock that has not stepped back the checks do not stop again.
LEMMA StaysStarted ==
  ASSUME IInv, NEW t \in NextClocks, now.epics <= t.epics, ~wentBack
  PROVE  /\ Seconds(now) <= Seconds(t) /\ Seconds(t) \in Nat /\ Seconds(now) \in Nat
         /\ ready => Started(t)
<1>1. now["epics"] \in Nat /\ t["epics"] \in Nat
  BY ClockFacts DEF IInv, TypeOK, Clocks
<1>2. Seconds(now) <= Seconds(t) /\ Seconds(t) \in Nat /\ Seconds(now) \in Nat
  BY <1>1, SecondsMonotone DEF Seconds
<1> QED
  BY <1>2, LimitsAssumption DEF IInv, ClockAfterStart, Started

-----------------------------------------------------------------------------
(***************************************************************************)
(* The inductive invariant holds.                                          *)
(***************************************************************************)

LEMMA InvInit == Init => IInv
<1> SUFFICES ASSUME Init
             PROVE  IInv
  OBVIOUS
<1>1. /\ now["unix"] \in Nat /\ now["epics"] \in Nat /\ now["sync"] \in Nat
      /\ now["frame"] \in 0 .. FrameModulus - 1
  <2>1. PICK f \in FirstFrames : now = [unix |-> 100, epics |-> 10, sync |-> 5, frame |-> f]
    BY DEF Init
  <2> QED
    BY <2>1, FramesAssumption
<1>2. \A c \in Clocks : {current[c], now[c], before[c]} \subseteq Nat
  BY <1>1, ConstantsAssumption DEF Init, Clocks
<1>3. TypeOK
  <2>1. {init, ready, jumped, ran, refused, wentBack, setBack, wrapped} \subseteq BOOLEAN
    BY DEF Init
  <2>2. {last_frame_jump, line} \subseteq 0 .. FrameModulus - 1 /\ stamp \in Nat
    BY ConstantsAssumption DEF Init
  <2> QED
    BY <1>2, <2>1, <2>2 DEF TypeOK
<1>4. StampIsCurrent /\ LogNotAhead /\ initial_timing_system \in Nat
  BY <1>1, ConstantsAssumption DEF Init, StampIsCurrent, LogNotAhead, Clocks
<1> QED
  BY <1>3, <1>4 DEF Init, IInv, ClockAfterStart, StampsFresh, JumpsLogged

\* What a packet does, with the time t it is made at.
PacketAt(t) ==
  /\ now' = t /\ stamp' = Stamp(t) /\ wentBack' = (wentBack \/ t.epics < now.epics)
  /\ NotStarted(t) \/ Check(t)
  /\ init' = TRUE
  /\ initial_timing_system' = IF init THEN initial_timing_system ELSE Seconds(t)

\* The types, after a packet.
LEMMA PacketTypes ==
  ASSUME IInv, NEW t \in NextClocks, PacketAt(t)
  PROVE  TypeOK' /\ initial_timing_system' \in Nat
<1>1. /\ \A c \in Clocks : t[c] \in Nat
      /\ t.frame \in 0 .. FrameModulus - 1
  BY ClockFacts DEF IInv
<1>2. t["epics"] \in Nat /\ t["unix"] \in Nat /\ current["unix"] \in Nat
  BY <1>1 DEF IInv, TypeOK, Clocks
<1>3. initial_timing_system' \in Nat
  <2>1. Seconds(t) \in Nat
    BY <1>2, SecondsMonotone DEF Seconds
  <2> QED
    BY <2>1 DEF PacketAt, IInv
<1>4. stamp' \in Nat
  BY <1>2 DEF PacketAt, Stamp
<1>5. \A c \in Clocks : {current'[c], now'[c], before'[c]} \subseteq Nat
  BY <1>1 DEF PacketAt, IInv, TypeOK, NotStarted, Check
<1>6. {last_frame_jump', line'} \subseteq 0 .. FrameModulus - 1
  BY <1>1 DEF PacketAt, IInv, TypeOK, NotStarted, Check, WriteLine, NoLine, JumpFrame
<1>7. {init', ready', jumped', ran', refused', wentBack', setBack', wrapped'} \subseteq BOOLEAN
  BY DEF PacketAt, IInv, TypeOK, NotStarted, Check, WriteLine, NoLine
<1> QED
  BY <1>3, <1>4, <1>5, <1>6, <1>7 DEF TypeOK

\* The log, after a packet.
LEMMA PacketLog ==
  ASSUME IInv, NEW t \in NextClocks, PacketAt(t)
  PROVE  LogNotAhead' /\ JumpsLogged'
<1>1. /\ \A c \in Clocks : t[c] \in Nat /\ current[c] \in Nat
      /\ t["frame"] \in Nat /\ now["frame"] \in Nat /\ last_frame_jump \in Nat
  BY ClockFacts DEF IInv, TypeOK, Clocks
<1>2. LogNotAhead'
  <2>1. CASE Check(t) /\ WriteLine(t)
    BY <1>1, <2>1 DEF PacketAt, WriteLine, JumpFrame, LogNotAhead
  <2>2. CASE NotStarted(t) \/ (Check(t) /\ NoLine(t))
    <3>1. /\ last_frame_jump' = last_frame_jump /\ line' = line /\ refused' = refused
          /\ wrapped' = (wrapped \/ t.frame < now.frame) /\ now' = t
      BY <2>2 DEF PacketAt, NotStarted, NoLine
    <3>2. (refused \/ line = last_frame_jump) /\ (wrapped \/ last_frame_jump <= now.frame)
      BY DEF IInv, LogNotAhead
    <3>3. wrapped' \/ last_frame_jump' <= now'.frame
      <4>1. wrapped \in BOOLEAN
        BY DEF IInv, TypeOK
      <4>2. ~wrapped' => ~wrapped /\ ~(t.frame < now.frame)
        BY <3>1, <4>1
      <4> QED
        BY <1>1, <3>1, <3>2, <4>2
    <3> QED
      BY <3>1, <3>2, <3>3 DEF LogNotAhead
  <2> QED
    BY <2>1, <2>2 DEF PacketAt, Check
<1>3. JumpsLogged'
  <2> SUFFICES ASSUME ran', NEW c \in Clocks, now'[c] - before'[c] \notin 0 .. Limit[c]
               PROVE  \/ now'.frame = line' \/ (refused' /\ now'.frame = last_frame_jump')
                      \/ wrapped'
    BY DEF JumpsLogged
  <2>1. Check(t) /\ now' = t
    BY DEF PacketAt, NotStarted
  <2>2. jumped'
    <3>1. t[c] - current[c] \notin 0 .. Limit[c] /\ Limit[c] \in Nat
      BY <2>1, LimitsAssumption DEF Check, Clocks
    <3>2. update(c, t[c] - current[c])
      BY <1>1, <3>1, LimitsAssumption DEF update
    <3> QED
      BY <2>1, <3>2 DEF Check
  <2>3. CASE LogOpen(t)
    BY <2>1, <2>2, <2>3 DEF Check, WriteLine, JumpFrame
  <2>4. CASE ~LogOpen(t)
    <3>1. t["frame"] <= last_frame_jump /\ last_frame_jump' = last_frame_jump
      BY <1>1, <2>1, <2>4 DEF Check, NoLine, LogOpen
    <3>2. wrapped' \/ now'.frame = last_frame_jump'
      BY <1>1, <1>2, <2>1, <3>1 DEF LogNotAhead
    <3> QED
      BY <1>2, <3>2 DEF LogNotAhead
  <2> QED
    BY <2>3, <2>4
<1> QED
  BY <1>2, <1>3

\* The clocks and the time in the header, after a packet.
LEMMA PacketTimes ==
  ASSUME IInv, NEW t \in NextClocks, PacketAt(t)
  PROVE  StampIsCurrent' /\ ClockAfterStart' /\ StampsFresh'
<1>1. /\ t["unix"] \in Nat /\ now["unix"] \in Nat /\ current["unix"] \in Nat
      /\ t["epics"] \in Nat /\ now["epics"] \in Nat
  BY ClockFacts DEF IInv, TypeOK, Clocks
<1>2. StampIsCurrent'
  <2>1. CASE Check(t)
    BY <1>1, <2>1 DEF PacketAt, Check, Stamp, StampIsCurrent
  <2>2. CASE NotStarted(t)
    <3>1. /\ stamp' = current.unix /\ current' = current /\ now' = t
          /\ setBack' = (setBack \/ t.unix < now.unix)
      BY <2>2 DEF PacketAt, NotStarted, Stamp
    <3>2. ~setBack' => current["unix"] <= t["unix"]
      <4>1. ~setBack' => ~setBack /\ ~(t.unix < now.unix)
        BY <3>1
      <4>2. ~setBack => current["unix"] <= now["unix"]
        BY DEF IInv, StampIsCurrent
      <4> QED
        BY <1>1, <4>1, <4>2
    <3> QED
      BY <3>1, <3>2 DEF StampIsCurrent
  <2> QED
    BY <2>1, <2>2 DEF PacketAt
<1>3. ~wentBack' => ~wentBack /\ now.epics <= t.epics
  <2>1. ~wentBack' => ~wentBack /\ ~(t.epics < now.epics)
    BY DEF PacketAt
  <2> QED
    BY <1>1, <2>1
<1>4. ~wentBack' => /\ Seconds(now) <= Seconds(t) /\ Seconds(t) \in Nat /\ Seconds(now) \in Nat
                    /\ ready => Started(t)
  BY <1>3, StaysStarted
<1>5. initial_timing_system' \in Nat
  BY PacketTypes
<1>6. ClockAfterStart'
  <2> SUFFICES ASSUME ~wentBack'
               PROVE  /\ initial_timing_system' <= Seconds(t)
                      /\ ready' => initial_timing_system' + StartDelay <= Seconds(t)
    BY DEF PacketAt, ClockAfterStart, Seconds
  <2>1. initial_timing_system' <= Seconds(t)
    BY <1>3, <1>4 DEF PacketAt, IInv, ClockAfterStart
  <2>2. CASE Check(t)
    <3>1. Seconds(t) - initial_timing_system' \notin 0 .. StartDelay - 1
      BY <2>2 DEF PacketAt, Check, Started
    <3> QED
      BY <1>4, <1>5, <2>1, <3>1, LimitsAssumption
  <2>3. CASE NotStarted(t)
    BY <1>4, <2>1, <2>3 DEF NotStarted
  <2> QED
    BY <2>2, <2>3 DEF PacketAt
<1>7. StampsFresh'
  <2>1. ASSUME ready', ~wentBack'
        PROVE  Check(t)
    BY <1>4, <2>1 DEF PacketAt, NotStarted
  <2> QED
    BY <2>1 DEF PacketAt, StampsFresh, Check, Stamp
<1> QED
  BY <1>2, <1>6, <1>7

LEMMA InvNext == IInv /\ [Next]_vars => IInv'
<1> SUFFICES ASSUME IInv, [Next]_vars
             PROVE  IInv'
  OBVIOUS
<1>1. CASE Packet
  <2>1. PICK t \in NextClocks : PacketAt(t)
    BY <1>1 DEF Packet, PacketAt
  <2> QED
    BY <2>1, PacketTypes, PacketLog, PacketTimes DEF IInv
<1>2. CASE UNCHANGED vars
  BY <1>2 DEF vars, checks, history, IInv, TypeOK, StampIsCurrent, ClockAfterStart, Seconds,
              LogNotAhead, StampsFresh, JumpsLogged
<1> QED
  BY <1>1, <1>2 DEF Next

LEMMA Invariant == Spec => []IInv
BY InvInit, InvNext, PTL DEF Spec

-----------------------------------------------------------------------------
(***************************************************************************)
(* The properties.                                                         *)
(***************************************************************************)

\* Clocks show numbers and frame numbers fit their field.
THEOREM TypeCorrect == Spec => []TypeOK
<1>1. IInv => TypeOK
  BY DEF IInv
<1> QED
  BY <1>1, Invariant, PTL

\* From the first check on packets have the time they were made, unless the timing
\* system's clock stepped back.
THEOREM StampsAreFresh == Spec => []StampsFresh
<1>1. IInv => StampsFresh
  BY DEF IInv
<1> QED
  BY <1>1, Invariant, PTL

\* A jump of any clock has a line of its frame number in the log, or the log could not
\* be opened for this number, or the numbers started again.
THEOREM JumpsAreLogged == Spec => []JumpsLogged
<1>1. IInv => JumpsLogged
  BY DEF IInv
<1> QED
  BY <1>1, Invariant, PTL

\* The time of a packet goes back only if the unix clock was set back after the time of
\* the packet before was read, whatever the timing system's clock does.
THEOREM StampsKeepOrder == Spec => StampsInOrder
<1>1. ASSUME IInv, [Next]_vars
      PROVE  [stamp' < stamp => setBack \/ now'.unix < now.unix]_vars
  <2>1. CASE Packet
    <3>1. PICK t \in NextClocks : stamp' = Stamp(t) /\ now' = t
      BY <2>1 DEF Packet
    <3>2. t["unix"] \in Nat /\ now["unix"] \in Nat /\ current["unix"] \in Nat
      BY <1>1, <3>1, ClockFacts DEF IInv, TypeOK, Clocks
    <3>3. stamp = current.unix /\ (~setBack => current["unix"] <= now["unix"])
      BY <1>1 DEF IInv, StampIsCurrent
    <3> QED
      BY <3>1, <3>2, <3>3 DEF Stamp
  <2> QED
    BY <1>1, <2>1 DEF Next
<1> QED
  BY <1>1, Invariant, PTL DEF Spec, StampsInOrder

=============================================================================
