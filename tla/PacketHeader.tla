----------------------------- MODULE PacketHeader -----------------------------
(***************************************************************************)
(* The header of a SMuRF packet.  The control server's listener sets words *)
(* of the TES bias array in its own thread; runThread copies the array     *)
(* into the header of every frame, adds the time and the number of         *)
(* channels, and copies the header into a packet, whose owner can then set *)
(* any field.  The bytes are read by two sets of accessors that have their *)
(* own tables of offsets: class SmurfHeader, in runThread, and class       *)
(* ISmurfPacket_RO, in the readers.                                        *)
(* A number is the sequence of its bytes, least significant first.         *)
(***************************************************************************)
EXTENDS TesBiasArray, Sequences

CONSTANTS
  Firmware,     \* headers of frames: functions from 0 .. 127 to bytes
  Registers,    \* the numbers of bias registers that change, of 1 .. 32
  Levels,       \* the values of a register
  EditWords,    \* words of a packet's bias array that its owner sets
  Biases,       \* the values the owner sets them to
  MaxFrames,    \* bound: frames received
  MaxUpdates,   \* bound: calls of the listener
  MaxEdits      \* bound: fields the owner sets in one packet

ASSUME RegistersAssumption == Registers \subseteq 1 .. 2 * TesBiasCount
ASSUME EditWordsAssumption == EditWords \subseteq Words
ASSUME ValuesAssumption == Firmware \subseteq [0 .. 127 -> Bytes] /\ Levels \cup Biases \subseteq Int
ASSUME BoundsAssumption == {MaxFrames, MaxUpdates, MaxEdits} \subseteq Nat

VARIABLES
  TesBiasValue,   \* the listener's copy of the registers
  listener,       \* [at, word, value, byte]: byte is the one stored next
  tesBias,        \* SmurfProcessor's array
  mutex,          \* who holds its mutex
  frame,          \* the header of the frame in runThread's buffer
  run,            \* [at, byte]: byte is the one copied next
  packet,         \* the header of a packet
  meant,          \* history: what the packet's fields were set to
  words,          \* history: the words that setTesBias has set
  seen,           \* history: words when runThread locked the mutex
  frames, updates,   \* counts, for the bounds
  edits           \* fields the owner of the packet may still set

biasVars == <<TesBiasValue, listener, tesBias, words, updates>>
runVars == <<frame, run, seen, frames>>
packetVars == <<packet, meant, edits>>
vars == <<biasVars, runVars, packetVars, mutex>>

-----------------------------------------------------------------------------
HeaderBytes == 0 .. 127

\* header<field>Offset
packetOffset ==
  [Version |-> 0, CrateID |-> 1, SlotNumber |-> 2, TimingConfiguration |-> 3,
   NumberChannels |-> 4, UnixTime |-> 48, FluxRampIncrement |-> 56, FluxRampOffset |-> 60,
   Counter0 |-> 64, Counter1 |-> 68, Counter2 |-> 72, AveragingResetBits |-> 80,
   FrameCounter |-> 84, TESRelaySetting |-> 88, ExternalTimeClock |-> 96,
   ControlField |-> 104, TestParameters |-> 105, NumberRows |-> 112,
   NumberRowsReported |-> 114, RowLength |-> 120, DataRate |-> 122]

Fields == DOMAIN packetOffset
TESDACOffset == 8

\* The type that get<field> and set<field> move.
packetWidth(f) ==
  CASE f \in {"Version", "CrateID", "SlotNumber", "TimingConfiguration", "ControlField",
              "TestParameters"} -> 1
    [] f \in {"NumberRows", "NumberRowsReported", "RowLength", "DataRate"} -> 2
    [] f \in {"UnixTime", "Counter2", "ExternalTimeClock"} -> 8
    [] OTHER -> 4

\* put_field and setHeaderWord
put_field(header, offset, width, value) ==
  [k \in DOMAIN header |->
     IF k \in offset .. offset + width - 1 THEN value[k - offset + 1] ELSE header[k]]

\* pull_bit_field and getHeaderWord
pull_bit_field(header, offset, width) == [k \in 1 .. width |-> header[offset + k - 1]]

getHeaderWord(header, f) == pull_bit_field(header, packetOffset[f], packetWidth(f))
setHeaderWord(header, f, value) == put_field(header, packetOffset[f], packetWidth(f), value)

\* The bits of the control field.
Bits == [ClearAverage |-> 0, DisableStream |-> 1, DisableFileWrite |-> 2, ReadConfigEachCycle |-> 3]

Control(header) == header[packetOffset["ControlField"]]
getWordBit(byte, index) == (byte \div 2 ^ index) % 2 = 1

OnlyTheBit(byte, index, value) == IF value THEN 2 ^ index ELSE 0   \* mutant
setWordBit(byte, index, value) ==
  byte + (IF value THEN 2 ^ index ELSE 0) - (IF getWordBit(byte, index) THEN 2 ^ index ELSE 0)

TestMode(header) == Control(header) \div 16
setTestMode(byte, mode) == (byte % 16) + 16 * (mode % 16)

(***************************************************************************)
(* SmurfHeader: offset, width, and what is left of the value in the end.   *)
(***************************************************************************)

headerField ==
  [version |-> <<0, 1, 1>>, num_channels |-> <<4, 4, 4>>, hz_counter |-> <<64, 4, 4>>,
   ext_counter |-> <<68, 4, 4>>, epics_nanoseconds |-> <<72, 4, 4>>,
   epics_seconds |-> <<76, 4, 4>>, frame_counter |-> <<84, 4, 4>>, syncword |-> <<96, 5, 4>>,
   user0a_ctrl |-> <<104, 2, 2>>, test_parameter |-> <<105, 1, 1>>, num_rows |-> <<112, 2, 2>>,
   num_rows_reported |-> <<114, 2, 2>>, row_len |-> <<120, 2, 2>>, data_rate |-> <<122, 2, 2>>]

get(header, g) ==
  LET t == headerField[g] IN SubSeq(pull_bit_field(header, t[1], t[2]), 1, t[3])

\* Four accessors give a default for a field of zero.  Their counterparts in
\* ISmurfPacket_RO do not: they are getHeaderWord, and give the zero.
defaults == [num_rows |-> <<33, 0>>, num_rows_reported |-> <<33, 0>>,
             row_len |-> <<60, 0>>, data_rate |-> <<140, 0>>]
get_or_default(header, g) == IF get(header, g) = <<0, 0>> THEN defaults[g] ELSE get(header, g)

user0a(header) == LET x == get(header, "user0a_ctrl") IN x[1] + 256 * x[2]
get_ctrl_bit(header, bit) == getWordBit(user0a(header), bit)
UnmaskedMode(header) == user0a(header) \div 16    \* mutant
get_test_mode(header) == (user0a(header) \div 16) % 16

\* put_field is given the offset for a width, which is 4 too.
set_num_channels(header, num_ch) == put_field(header, 4, 4, num_ch)
smurfsamples == <<528 % 256, 528 \div 256, 0, 0>>

-----------------------------------------------------------------------------
Blank == [k \in HeaderBytes |-> 0]

\* What the accessors of ISmurfPacket should give back.
Meaning(header, bias) ==
  [field |-> [f \in Fields \ {"ControlField"} |-> getHeaderWord(header, f)],
   bit |-> [b \in DOMAIN Bits |-> getWordBit(Control(header), Bits[b])],
   mode |-> TestMode(header),
   bias |-> bias]

Idle == [at |-> "idle", word |-> 0, value |-> 0, byte |-> 0]
At(place) == [at |-> place, byte |-> 0]

Init ==
  /\ TesBiasValue = [r \in 0 .. 2 * TesBiasCount - 1 |-> 0]
  /\ listener = Idle
  /\ tesBias = [k \in 0 .. TesBiasBufferSize - 1 |-> 0]
  /\ mutex = "free"
  /\ frame = Blank
  /\ run = At("idle")
  /\ packet = Blank
  /\ words = [w \in Words |-> 0]
  /\ seen = words
  /\ meant = Meaning(Blank, words)
  /\ frames = 0 /\ updates = 0 /\ edits = 0

(***************************************************************************)
(* The listener: send_test_bias, one call at a time, and setTesBias.       *)
(***************************************************************************)

send_test_bias ==
  /\ listener.at = "idle" /\ updates < MaxUpdates
  /\ \E r \in Registers, value \in Levels :
       LET reg_index == r - 1
           index == reg_index \div 2
           new == [TesBiasValue EXCEPT ![reg_index] = value]
       IN /\ TesBiasValue' = new
          /\ listener' = [at |-> "lock", word |-> index, byte |-> 0,
                          value |-> new[2 * index + 1] - new[2 * index]]
  /\ updates' = updates + 1
  /\ UNCHANGED <<tesBias, words, runVars, packetVars, mutex>>

NoMutex == TRUE     \* mutant
MutexFree == mutex = "free"

LockToSet ==
  /\ listener.at = "lock" /\ MutexFree
  /\ mutex' = "listener"
  /\ listener' = [listener EXCEPT !.at = "store"]
  /\ UNCHANGED <<TesBiasValue, tesBias, words, updates, runVars, packetVars>>

StoreByte ==
  /\ listener.at = "store"
  /\ tesBias' = StoreWord(tesBias, listener.word, listener.value, listener.byte)
  /\ IF listener.byte = 2
       THEN /\ listener' = Idle
            /\ mutex' = "free"
            /\ words' = [words EXCEPT ![listener.word] = Low20(listener.value)]
       ELSE /\ listener' = [listener EXCEPT !.byte = @ + 1]
            /\ UNCHANGED <<mutex, words>>
  /\ UNCHANGED <<TesBiasValue, updates, runVars, packetVars>>

(***************************************************************************)
(* runThread                                                               *)
(***************************************************************************)

Receive ==
  /\ run.at = "idle" /\ frames < MaxFrames
  /\ frame' \in Firmware
  /\ frames' = frames + 1
  /\ run' = At("lock")
  /\ UNCHANGED <<biasVars, packetVars, mutex, seen>>

LockToCopy ==
  /\ run.at = "lock" /\ MutexFree
  /\ mutex' = "runThread"
  /\ seen' = words
  /\ run' = At("copy")
  /\ UNCHANGED <<biasVars, packetVars, frame, frames>>

CopyByte ==
  /\ run.at = "copy"
  /\ frame' = [frame EXCEPT ![TESDACOffset + run.byte] = tesBias[run.byte]]
  /\ IF run.byte = TesBiasBufferSize - 1
       THEN run' = At("average") /\ mutex' = "free"
       ELSE run' = [run EXCEPT !.byte = @ + 1] /\ UNCHANGED mutex
  /\ UNCHANGED <<biasVars, packetVars, seen, frames>>

\* average_control returns 0: no packet of this frame.
GoOnAveraging ==
  /\ run.at = "average"
  /\ run' = At("idle")
  /\ UNCHANGED <<biasVars, packetVars, mutex, frame, seen, frames>>

\* The time, the number of channels, copyHeader.
MakePacket ==
  /\ run.at = "average"
  /\ LET tm == <<1, 2, 3, 4, 5, 6, 7, 8>>
         header == set_num_channels(put_field(frame, 48, 8, tm), smurfsamples)
     IN /\ frame' = header
        /\ packet' = header
        /\ meant' = [Meaning(frame, seen) EXCEPT !.field.UnixTime = tm,
                                                 !.field.NumberChannels = smurfsamples]
  /\ run' = At("idle")
  /\ edits' = MaxEdits
  /\ UNCHANGED <<biasVars, mutex, seen, frames>>

(***************************************************************************)
(* The owner of a packet.                                                  *)
(***************************************************************************)

Editing ==
  /\ edits > 0
  /\ edits' = edits - 1
  /\ UNCHANGED <<biasVars, runVars, mutex>>

SetField ==
  /\ Editing
  /\ \E f \in Fields \ {"ControlField"}, b \in {0, 170} :
       LET value == [k \in 1 .. packetWidth(f) |-> b]
       IN /\ packet' = setHeaderWord(packet, f, value)
          /\ meant' = [meant EXCEPT !.field[f] = value]

PutControl(byte) == setHeaderWord(packet, "ControlField", <<byte>>)

\* The whole byte at once: its bits and the test mode.
SetControl ==
  /\ Editing
  /\ \E byte \in {0, 165} :
       /\ packet' = PutControl(byte)
       /\ meant' = [meant EXCEPT !.bit = [b \in DOMAIN Bits |-> getWordBit(byte, Bits[b])],
                                !.mode = byte \div 16]

SetBit ==
  /\ Editing
  /\ \E b \in DOMAIN Bits, value \in BOOLEAN :
       /\ packet' = PutControl(setWordBit(Control(packet), Bits[b], value))
       /\ meant' = [meant EXCEPT !.bit[b] = value]

SetMode ==
  /\ Editing
  /\ \E mode \in {0, 5, 15} :
       /\ packet' = PutControl(setTestMode(Control(packet), mode))
       /\ meant' = [meant EXCEPT !.mode = mode]

SetTESBias ==
  /\ Editing
  /\ \E w \in EditWords, value \in Biases :
       LET old == [k \in DOMAIN tesBias |-> packet[TESDACOffset + k]]
           new == setWord(old, w, value)
       IN /\ packet' = [k \in HeaderBytes |-> IF k - TESDACOffset \in DOMAIN new
                                              THEN new[k - TESDACOffset] ELSE packet[k]]
          /\ meant' = [meant EXCEPT !.bias[w] = Low20(value)]

-----------------------------------------------------------------------------
Listener == send_test_bias \/ LockToSet \/ StoreByte
RunThread == Receive \/ LockToCopy \/ CopyByte \/ GoOnAveraging \/ MakePacket
Owner == SetField \/ SetControl \/ SetBit \/ SetMode \/ SetTESBias

Next == Listener \/ RunThread \/ Owner

Spec == Init /\ [][Next]_vars

(***************************************************************************)
(* Properties.                                                             *)
(***************************************************************************)

\* The variables keep their types: bytes are bytes after every conversion.
TypeOK ==
  /\ tesBias \in [0 .. TesBiasBufferSize - 1 -> Bytes]
  /\ frame \in [HeaderBytes -> Bytes]
  /\ packet \in [HeaderBytes -> Bytes]
  /\ mutex \in {"free", "listener", "runThread"}
  /\ \A w \in Words : words[w] \in -(2 ^ 19) .. 2 ^ 19 - 1

\* The array and the byte that a read of the last word takes beside it.
AndAfter(bytes) == [k \in 0 .. TesBiasBufferSize |-> IF k \in DOMAIN bytes THEN bytes[k] ELSE 255]

\* Between the listener's calls every word of the array is the difference of
\* its two registers, cut to 20 bits (a difference needs 21), although a
\* neighbour was stored into the same byte.
BiasFollows ==
  listener.at = "idle" =>
    \A w \in Words :
      getWord(AndAfter(tesBias), 0, w) = Low20(TesBiasValue[2 * w + 1] - TesBiasValue[2 * w])

\* The bias words in a frame's header are all of one moment: no word, and no
\* pair of neighbours, is half from before and half from after a setTesBias.
BiasWhole ==
  run.at = "average" => \A w \in Words : getWord(frame, TESDACOffset, w) = seen[w]

Rows == {"NumberRows", "NumberRowsReported"}

\* Every accessor of a packet gives back what its field was set to, by the
\* firmware, runThread or the owner, whatever was set in the other fields,
\* bits and words since.  A number of rows of zero is left out: smurf_packet.h:171-172
\* promises a default for it, and the code gives the zero.
PacketMeans ==
  /\ \A f \in Fields \ {"ControlField"} :
       getHeaderWord(packet, f) = meant.field[f] \/ (f \in Rows /\ meant.field[f] = <<0, 0>>)
  /\ \A b \in DOMAIN Bits : getWordBit(Control(packet), Bits[b]) = meant.bit[b]
  /\ TestMode(packet) = meant.mode
  /\ \A w \in Words : getWord(packet, TESDACOffset, w) = meant.bias[w]

\* runThread and the readers see the same in a header, with one table of
\* offsets and widths each: the test parameter does not get into the test mode
\* although user0a_ctrl is read two bytes wide, nor the fifth byte of the
\* synchronisation word into the sequence number.  Rows, row length and data
\* rate agree unless they are zero, for which only runThread has a default.
ViewsAgree ==
  /\ \A p \in {<<"version", "Version">>, <<"num_channels", "NumberChannels">>,
               <<"hz_counter", "Counter0">>, <<"ext_counter", "Counter1">>,
               <<"frame_counter", "FrameCounter">>, <<"test_parameter", "TestParameters">>} :
       get(packet, p[1]) = getHeaderWord(packet, p[2])
  /\ get(packet, "epics_nanoseconds") \o get(packet, "epics_seconds") = getHeaderWord(packet, "Counter2")
  /\ get(packet, "syncword") = SubSeq(getHeaderWord(packet, "ExternalTimeClock"), 1, 4)
  /\ \A p \in {<<"num_rows", "NumberRows">>, <<"num_rows_reported", "NumberRowsReported">>,
               <<"row_len", "RowLength">>, <<"data_rate", "DataRate">>} :
       getHeaderWord(packet, p[2]) # <<0, 0>> =>
         get_or_default(packet, p[1]) = getHeaderWord(packet, p[2])
  /\ \A b \in DOMAIN Bits : get_ctrl_bit(packet, Bits[b]) = getWordBit(Control(packet), Bits[b])
  /\ get_test_mode(packet) = TestMode(packet)

=============================================================================
