# TLA+ models of smurf-processor

smurf-processor receives frames of resonator data from the SMuRF firmware, unwraps,
filters and averages them, and hands the resulting packets to a user's transmitter and
to a file writer. These modules model its state machines, check them with TLC on small
instances, and prove their safety properties with TLAPS for every value of the
constants; the packet buffer is shown to implement an abstract queue. Line numbers are
those of the sources under `src/`.

## The system

    rogue (network)                     control server (pyrogue)
       | acceptFrame                        | clearFrameCnt, setTesBias
       v                                    v
    queue_ --> runThread: frame numbers -> unwrap -> filter -> average_control
                                                                  | every n-th frame
                                                                  v
                          txBuffer (DataBuffer, 10 slots): getWritePtr, doneWriting
                              |                                |
                 pktTansmitter (thread)                 pktWriter (thread)
                     transmit() (user code)                 SmurfDataFile::write_file

| component | state | operations | what is hard | correct means |
|---|---|---|---|---|
| packet buffer (`data_buffer.*`) | slots, write iterator, read iterator, `full` and `empty` of each reader, counters | `getWritePtr`, `doneWriting`, `isEmpty`, `getReadPtr`, `doneReading`, `clearCnts` | one writer and two readers without a lock; slow readers are overwritten; readers hold pointers | flags and iterators agree with the packets; every packet is read once, whole, or counted as overwritten |
| reader threads (`pktTansmitter`, `pktWriter`) | position in the loop | test, timed wait, take, process, release | lost notifications, exceptions of `transmit` | readers do not sleep beside data and never stop the receiver |
| frame reception (`acceptFrame`, `runThread`) | queue, last frame number, three counters | accept, pop, compare numbers, count; `clearFrameCnt` | late, repeated and lost frames, wrap of the number, counters written by two threads | every frame is counted once, every missing frame once |
| unwrap, mask (`runThread`, `read_mask`) | two frame buffers, wrap counter of each channel | swap, unwrap, clear bit | discarded frames, changes of the mask | unwrapped phase follows the true phase up to a constant |
| averaging (`SmurfHeader::average_control`) | `average_counter`, last sync word | count, end of average | change of `num_averages` while running | one packet for every n frames, averaging exactly those |
| filter (`SmurfFilter`) | ring of records, `samples_since_clear`, `order_n` | `filter`, `end_run`, `clear_filter` | ring index, change of order | output depends on the records since the last clear only |
| data file (`SmurfDataFile`) | descriptor, name, part number, frame counter | `write_file` | rotation, disable bit, changes of the configuration in the middle of the call, failing opens and writes, restarts | files hold whole runs of packets within the limit, and parts are not overwritten early |
| configuration (`SmurfConfig`, `read_mask`) | fields | `read_config_file` | fields change under the other threads, a string piecemeal | a mixed value is gone with the next packet |
| TES bias (`TesBiasArray`) | 16 words of 20 bits in 40 bytes | `setWord`, `getWord` | words share bytes, are cut to 20 bits, and are set while a header is made | a word is read as written, its neighbours are unchanged |
| packet and header (`smurf_packet.*`) | 128-byte header, payload | field accessors, copies | two tables of offsets and widths, bits within a byte | what one accessor sets another one reads, and no other field changes |
| timing checks (`SmurfTime`, `SmurfValidCheck`) | last values, start, last jump | `update`, `run` | clocks that jump or step back, unsigned differences | jumps are logged, headers have the current time |
| test data (`SmurfTestData`) | counters | pattern generators | | diagnostic only |
| control server (`pyrogue_server.py`) | device tree of external libraries | listeners, commands | | |

## Modules

`DataBuffer` is the buffer with its callers, one action for each method call. The
processing of a packet is split: a reader looks at the header and at the payload in
two steps, and the writer fills them in two, because readers work in the slot itself.
Packet *n* is the *n*-th one written; a slot's header and payload are the number of the
packet they come from. `Pos(i)`, the number of packets reader *i* read or lost, is
computed from the program's own counters `readCnt` and `OWCnt`; the history variable
`cleared` makes up for what `clearCnts` erases. What is behind an iterator that left
the vector is `Garbage`; the real program may crash there, which only ends a
behaviour earlier.

`LossyQueue` is what the buffer promises: a queue for each reader, which takes every packet
whole and loses its head when it is full or when its reader is done with a packet. `DataBuffer`
implements it (`ImplementsQueue`) under this mapping: a reader's queue is the contents of the
`Backlog(i)` slots from its iterator on; it holds the head of its queue while the counts are those
of `getReadPtr`, and a dropped packet when they have moved; a reader whose iterator has left
the vector has fallen out. `doneReading` after a drop takes the head, which is not
the packet that was processed: so the promise is written, since so the code does it.

`PacketThreads` is the same with statements in place of calls: each access of
`runThread`, `pktTansmitter` and `pktWriter` to a shared variable is an action, and a
load is separate from the store that depends on it (`++readPtr.at(i)`, the comparison of
iterators). `CMakeLists.txt` asks for no optimisation and the flags are in a
`deque<bool>`, so accesses go to memory, one byte or one word each; the data races are
the interleavings of these accesses. In the comparison of a read iterator with `writePtr` the
reader's iterator is loaded first. Statements on variables of one thread are part
of a neighbouring action (`++OWCnt` with the store of the iterator, `++writeCnt` with
the last `empty`, `++readCnt` with `full = false`). The mutex is held for
the notification and round the wait, and nowhere else; `wait_for` releases it
and blocks in one step, ends by notification, timeout or spuriously, and takes it
again. The history variable `overlap` remembers the readers whose `doneReading` ran
during `getWritePtr` or `doneWriting`.

`FrameReceiver` is the way of a frame from the network to `++frameRxCnt`: delivery
in order, losses, delays and repetitions by the network (`Faults`), errors, the full
queue, the comparison of frame numbers modulo `Modulus` (2^32 in the header), and the
three counters, whose increments are a load and a store, against `clearFrameCnt`.
The busy state of rogue's queue is external: busy when `Depth` frames are in it.

`PhaseUnwrap` takes a frame from the queue to `input_data`: buffer swap, discarding, wrap
counters, mask, and the clear and read bits of the header. A signal is an integer phase that
moves by one of `Steps` from frame to frame; a sample is that phase modulo one turn. Frames are lost
(`KeepBack`) or late (`ArriveLate`). Wrap counters and channels are `int32_t` and overflow after
2^15 turns one way: `Wrapped` keeps them modulo `Word`, as a build without optimisation does (the standard
leaves it undefined), and a channel follows its signal modulo `Word`. What a mask file holds is arbitrary, numbers beyond the frame included.
The history variables `seen` and `shown` are the last frame that was not discarded and
the mask used for it.

`Averager` goes on from there to the packet: `SmurfFilter` with its ring, `average_control`, the clear bit,
the configuration read after any frame, `end_run`. Each record is represented by
the frames its values come from, so the ring's indices and the contents of an average can be
checked without floating-point numbers. `average_counter` and `samples_since_clear` count modulo `Word` (2^32): an average by syncword
that is so long wraps both, has the wrapped count in `PacketWhole`, and makes no packet if the wrapped
count is 0, since `average_control` returns it. Orders are those the coefficient arrays have
room for (the code does not check that). The history variables `restart`, `cleared` and
`changed` are the frames of the last end or clear of an average, the last clear of the filter and the last
change of configuration.

`DataFile` is `write_file` in its thread against `read_config_file` in `runThread`. `write_file`
reads four fields of the configuration without a lock; each read ends a step, and the fields are changed between
any two of them. A name is a pair of parts, and a read during the `strncpy` of a new name gives
each part from either (`Readable`). The file system is external: a file is a sequence of items, two
for each packet (header and payload, one `write` each), `unlink` removes
it, `open` creates it without truncating, and a `write` goes to the offset of the open file. `unlink`, whose
result is not looked at, opens and writes fail (`MaxFaults`), each of them alone: a file that could not be unlinked and is
opened all the same keeps what the new packets do not overwrite. `fd` is `bad` (-1) then, which the code takes for open. The program may
be restarted at any point, with the disk as it is. A packet with the disable bit is the action `Disabled`.
The history variables are the packets finished, the items whose write failed, the
packet of the last open, the part files opened since the numbering was last disturbed, how many items of each file
were written since it was opened (`fresh`), the files opened over contents that `unlink` had left (`kept`), and
whether the configuration is unchanged since the packet began.

`TesBiasArray` has the byte arithmetic of the words: what `setWord` stores in each of
three bytes, and what `getWord` reads. `PacketHeader` is the life of one header on top of it: the control server's listener keeps the
registers and sets a word, byte by byte and under the mutex; `runThread` receives a frame, copies the array into its header byte
by byte under the same mutex, averages, puts the time and the number of channels, and makes
a packet; the owner of the packet edits it with the setters of `ISmurfPacket`. Both tables, that
of `SmurfHeader` and that of `ISmurfPacket_RO`, are in the module, and the properties
compare what each of them reads. Four accessors of `SmurfHeader` give a default for a field of 0
(`get_or_default`); their counterparts in `ISmurfPacket_RO` give the 0, although `smurf_packet.h` and
`README.SmurfPacket.md` promise the default. Fields are sequences of bytes; the listener and `runThread` take turns only at the
mutex. The history variables are the words of the last frame (`seen`) and what the packet was
last told to hold (`meant`).

`SmurfValidCheck` is `run` for one packet after the other, with clocks that move by
any of `Step`, back as well as forward (the unix time is `CLOCK_REALTIME`, which can be set), and with the
time stamp `runThread` takes from the checks. Clocks and differences are 64-bit and unsigned in the code: a negative
difference is one above every limit. The log may fail to open, after `last_frame_jump` has moved on (`WriteLine`);
`line` is the frame number of the last line that was written. The history variables are whether
the checks ran for the packet, whether the log refused the last line that was due, the clocks of the check before, whether the
timing system's clock has stepped back, whether the unix clock has since it was read, and whether frame
numbers have started again since a line was due.

A module `XProofs` holds the proofs about module `X`; `PacketHeaderProofs` has those about
`TesBiasArray` too. The modules named `MC...` give the constants values for TLC.

## Runs

| run | question | bounds |
|---|---|---|
| `buffer` | Do flags, iterators, counts and slots agree, with whole calls in any order? Is the buffer a lossy queue? | 3 slots, two readers, 6 packets: two full laps, so that a stalled reader is overwritten three times, and driven out of the vector at the last packet; 431,000 states |
| `threads` | Does what `isEmpty` said still hold in `getReadPtr`? Does a reader that lost a notification wake up, and does the writer always finish? | 2 slots, both readers, 2 packets (the buffer gets full), every interleaving of the statements |
| `threads_apart` | Is `doneReading` the only call that needed the mutex? | one reader (readers share nothing that either of them writes, except the mutex), 3 slots, 6 packets |
| `frames` | Is every frame counted once? | 4 frames, queue of 2, all faults, the number wraps at the fourth frame |
| `unwrap` | Does a channel follow its signal, whatever is lost, cleared or masked? | 4 frames, two signals that start near the edges of the samples and cross them both ways, a turn of 16 with the thresholds at 3/4 of the half turn as in the code, one frame late or lost; a word of two turns, so that the counter and the channel overflow at the first turn upwards |
| `averaging` | Is a flat average one of exactly its frames, and does the filter find its records? | 7 frames, a ring of 3 and counts in a word of 6, so that both wrap; orders -1, 1 and 2 (the longest), averages by syncword, of 2, and a negative number, changed after any frame; 518,000 states |
| `files` | Do files hold what was given, within the limit, whatever changes or fails on the way? | 4 packets, 2 part numbers (they come round), names that differ in both parts, `data_frames` 0 or 2, two changes of the configuration and one failure (`unlink`, `open`, `write`) or restart at any point; 3 million states |
| `header` | Are bias words and fields whole, and do all accessors agree? | the code's widths and offsets; one frame, two bias updates of neighbouring words at values on the edges of 20 bits, one edit of the packet by each setter; 116,000 states |
| `timing` | When is a stamp current, when does it go back, and which jumps are logged? | 5 packets, a step of each clock within its limit and one beyond it, the unix and the timing system's clock set back, frame numbers that wrap, a log that opens or not; 1.4 million states |

Runs that TLC refutes, each showing a disagreement between the code and what a comment
says of it:

| run | what happens |
|---|---|
| `buffer_overrun` | `getWritePtr` moves a full reader's iterator past the end of the vector |
| `threads_phantom` | a reader is handed slots that hold old packets, up to a whole lap of them |
| `unwrap_discard` | a discarded late frame is what the next frame is unwrapped against, and the channel is a turn off |

Deadlock is checked in `buffer`. In the other runs the bounds on packets and frames stop
the system in the end; that nobody waits for ever is what `threads` checks. `PhaseUnwrap`, `Averager` and
`SmurfValidCheck` have one thread, whose step is always possible when there is a frame; `DataFile` has no wait, and
in `PacketHeader` the mutex is held for one copy by each side.

More consequences of the same code are not runs of their own; several of them are against what a comment or the header says.

* `doneReading` compares the iterators and stores `empty = true` later; a packet that
  arrives in between stays unseen until the next one arrives.
* `full = false` can come after a `doneWriting` that has just set the flag, or the flag can be
  missed while the reader's iterator is at `data.end()`: then an unread packet is
  overwritten and `OWCnt` does not change.
* A reader still working on a packet when the writer gets its slot sees the header of one packet and
  the payload of another; `UndisturbedRead` speaks of the others.
* The frame after a late one, which is discarded, is compared with the late one's number, and
  `frameLossCnt` grows although nothing is missing; `LossExact` speaks of frames in order.
* A repeated frame number adds 2^32 - 1 to `frameLossCnt`. The frame after the largest number is dropped as out of order (`LossExact`
  excludes it by `Start + Last < Modulus`).
* A counter that is cleared between the load and the store of an increment gets its old
  value back; `LossExact` and `EveryFrameCounted` speak of counters not cleared yet.
* A change of `filter_order` or `num_averages` in the middle of an average makes the packet
  one of other frames than `average_counter` says; `PacketWhole` excludes it by `whole`.
* When `num_averages` is lowered to `average_counter` or less in the middle of an average, the
  comparison for equality fails and the average does not end; `OnTime` speaks of an unchanged
  configuration.
* A new mask gives a channel another resonator and keeps its wrap counter and the filter's history: `WholeTurns`
  holds, and a value of before goes on into the averages. `Unwraps` compares frames with the same mask.
* The clear, the disable bit and the clocks in a packet's header are those of the last frame of the average.
* After a failed `open` up to `data_frames` packets are written nowhere (`RetriesInTime` says no more).
* With `file_name_extend` set, a new name is used from the next part on only. Without it, a new
  name closes the file and leaves `frame_counter`, so that the new file is shorter than `data_frames`. With
  `data_frames` = 0, packets still in the buffer get a file each, and a negative value, compared as
  unsigned, would mean files without end.
* The disable bit and a restart begin the part numbers at 0 again, and the old parts are unlinked as
  their numbers come; `PartsKept` excludes both.
* A file that `unlink` leaves and `open` opens ends with what an older run wrote (`FilesWhole` excludes it by `kept`).
* The stamp is 0 in the packets of the first 30 seconds, and stays what it was when
  the timing system's clock steps back before its start plus 30 seconds (`StampsFresh` excludes it by `wentBack`,
  `StampsInOrder` does not). It goes back when `CLOCK_REALTIME` is set back, and only then.
* After the frame numbers have started again, no jump is logged until they are above the last one logged
  (`JumpsLogged` excludes it by `wrapped`), although the comment says "On frame jump, write file".
* A jump whose line cannot be written because the log does not open is not tried again, nor is one of
  a later packet with the same frame number (`JumpsLogged` excludes both by `refused`).
  The checks run for a packet and not for a frame, while `smurftcp.h` asks for a call "before first branch out of fast loop".
* A bias is the difference of two 20-bit registers, needs 21 bits and is cut to 20: `BiasFollows` is
  about the value that is left.
* `getNumberRows` and `getNumberRowsReported` give 0 for a field of 0, although `smurf_packet.h:171-172` and
  `README.SmurfPacket.md:31-32` promise 33 and the number of rows. The defaults are in `SmurfHeader` alone (whose accessors nothing
  calls); `PacketMeans` and `ViewsAgree` leave out a number of 0. `getRowLength` and `getDataRate` give 0 for a field of 0, where `runThread` has 60 and 140; `ViewsAgree`
  compares the four accessors with a default for fields other than 0.

### Fairness

`FairSpec` of `PacketThreads` assumes that a thread that can run does (`WF` of each
thread's steps), that the 10 seconds of a wait pass (`WF` of `TimeOutStep`), and that a
mutex which is free again and again is not withheld from a thread for ever (`SF` of the
three lock statements): it is held for a few instructions and the readers come back to
it after 10 seconds or a packet. No fairness is assumed of the arrival of packets.

## Proofs

Every invariant and every action property of the runs that pass, and the refinement of
`LossyQueue`, is a theorem `Spec => ...` of the component's module, for all values of its
constants. The constants that bound the runs (`MaxWrites`, `MaxFrames`, `MaxSent` and so on)
are arbitrary naturals in the proofs. Each module of proofs has the same outline: an
inductive invariant `IInv`, lemmas about the operators, `InvInit`, one lemma for each action or group of
actions, `InvNext`, and the theorems, which follow from `IInv`. What each `IInv` adds to the properties, and what is assumed:

**`DataBuffer`** (there is at least one slot).

* `SlotsHoldLatest`: a slot that is not being written to holds the last packet that
  was written to it, as a function of `writeCnt` and `writePtr`; `PendingIntact` is not
  inductive without it, since packets overwritten and packets pending share the slots;
* `WriterProgress`: the parts written so far of the packet in progress;
* `BusyNotEmpty`: a reader between `isEmpty` and `doneReading` is not marked
  empty, so its backlog is not zero when it releases a packet;
* `HeldPacket`: while the counts of a reader have not moved, its pointer is its
  iterator's slot and the parts it read are those of its packet.

`FlagsMatchBacklog` says nothing of a reader whose iterator left the vector, and the
invariant needs nothing of it: such an iterator never returns (lemma `AdvanceFacts`).

`BufferImplementsQueue` follows from the same invariant: the initial states map to empty queues, and each action
to a step of `LossyQueue` or to none. A packet enters the queues when `doneWriting` moves the
write iterator, for then the slots of a reader's backlog are those of before with the packet at the end
(`PendingIntact`, `FlagsMatchBacklog`); `getWritePtr` takes the heads of the full queues; the
halves of a packet's processing change no queue, because the slot in progress is in no backlog.

**`PacketThreads`** (at least one slot and one reader). `ReadersNeverOverflow` holds at every
interleaving: only a reader sets its own `empty`, and only where it has taken the packet
(`HasPacket`). `ApartIsConsistent` and `ApartReadsArePackets` are about a reader whose `doneReading`
never ran during `getWritePtr` or `doneWriting`. For such a reader the invariant `Apart` says that what either thread loaded
is still in the variable when it is compared or stored (`RegistersHold`); that
iterators and counts fit, allowing for the statements that are still to come (`PositionFits`: `NextPos` and
`Passed` count a packet as soon as the iterator has moved); and which flags the writer's loops have
reached (`Taken`, `Compared`, `Filled` in `FullFits` and `EmptyFits`). `SlotsHold` is what
the slots contain, for any reader. Other readers take no part: the flags, iterators and counters of
a reader are written by itself and by the writer only.

**`FrameReceiver`** (a modulus, a first number below it, a queue of at least one frame).
`NumbersAreTaken` ties `runThread`'s locals to the frames taken; `RegisterFresh` says that the value of an
increment is still that of the counter, unless a counter was cleared; `CountedSoFar` and
`LossSoFar` are the two properties at every statement of the loop, with the frame in progress
not counted yet.

**`PhaseUnwrap`** (`TurnAssumption`: the threshold is below half a turn and at least a
third of it; the code has 0x6000 of 0x8000). With a lower one, a movement that `Unwraps` admits could take a
sample from beyond one threshold to beyond the other within a turn, and `Unwraps` would be false. `WordAssumption`: the width
of the counters is a number of whole turns, as 2^32 is, so that what an overflow takes away are turns.
`FramesOnce` makes the frame number tell whether the last frame was
discarded, `OtherBuffer` says that otherwise the buffer not being filled has the last frame, and
`ShowsSample` that a channel is its sample plus the turns counted.

**`Averager`** (`RingAssumption`: the counters' word is a multiple of the ring, as 2^32 is
of 16; orders between -1 and what the ring has room for; `num_averages` is an `int`). `CountIsAge` is
`average_counter` in a word of that size. `FlatSum` is the running sum of a flat average as a set of frames, and
`samples_since_clear` in its word: `PacketWhole` says that a packet averages all frames since the last end, and is divided by
their number modulo the word, which is not 0. `RingInOrder` is what each record of the ring holds, from the newest backwards, for a ring whose
index is itself a remainder; both speak of the filter as the next frame will find it, since a change of
order clears it only then.

**`DataFile`** (names are pairs; `data_frames` has a largest value, `Limit`, as an `int` has; there is
a part number). `NoneOnTheWay` ties the descriptor to the place in `write_file`; `FreshTypes` keeps a file that was not
opened over old contents as long as what was written to it; `OpenFileFollows` is
`FilesWhole` and `SizeBound` for the open file, whose offset is what it got since it was opened; `CountsOn` and `RetryCounted` bound
the packets that a failed open costs; `OneName` and `NameTaken` say that without a change of the
configuration the name compared and the name opened are the same; `SinceCounts` says that the part number is
as far from a file's as there were rotations, round the end, and `PartOnTheWay` which file is about to be opened.

**`PacketHeader`** and **`TesBiasArray`** (firmware headers are 128 bytes; registers, values and words are in
range). The invariant has a part for each actor. `ListenerInv`: the registers are the listener's alone; a word on the way is
stored up to its byte (`SetInProgress`), and every other word is what was set last (`WordsSet`). It rests on
the lemmas about `StoreWord`, in which each byte stored builds on those before and
keeps the neighbour's nibble, so that three bytes make the low 20 bits of any integer (`SetWordFacts`).
`RunInv`: a thread holds the mutex exactly where the code is between lock and unlock (`MutexHeld`), so that the words copied so
far are those of the moment of the lock (`CopiedSoFar`). `MeantIsMeaning`: what was meant is what
the bytes mean, for which the fields, the bits and the words must not overlap. `ViewsAgree` follows
from the packet being 128 bytes, and the two tables.

**`SmurfValidCheck`** (clocks and limits are naturals; no clock is assumed to go forward).
`StampIsCurrent` ties the stamp to the time it came from, which is in the future only after the unix clock was set
back; `ClockAfterStart` keeps the end of the start delay, without which a stamp could become stale again; and
`LogNotAhead` relates the number of the last jump to the present one, unless numbers have started again, and to the
log's last line, unless the log was refused.

Only model-checked are the liveness properties of `PacketThreads` (`NoOversleep`,
`WriterFinishes`): their proofs need ENABLED for the fairness conditions, which is out of the
prover's reach. Under `FairSpec` the safety theorems hold as well, since it implies `Spec`.

## Plan

Some of the hazards in `PROJECT.json` have no property: the code makes no promise that could be
stated (an increment that undoes a `clearFrameCnt`, an average in progress when `num_averages` is lowered, the history of a channel
whose mask changes, the cut of a bias difference to 20 bits), or the models leave out what they are about (the
length of a frame, a negative `data_frames`). Of the proofs, those of liveness are left, and a
statement that the steps of `PacketThreads` implement `DataBuffer` for readers that are
apart from the writer, which the two modules now show only property by property.

## Not modelled

* Parsing of the configuration and mask files: text input; what a reading can change is in the modules.
* Floating-point arithmetic of the filter; which records a value comes from is in `Averager`.
* Test patterns (`SmurfTestData`): they replace samples in place, and a frame in a test mode is a frame with other
  samples for everything after it. (`gen_test_smurf_data` returns no value in modes 1 to 4; the result is not used.)
* Logging, and the device tree of the control server (external libraries).
* The writing of payload values and raw bytes by index (`setValue`, `setHeaderByte`), and the exceptions for an index out
  of range, which no caller passes.
* The length of a frame, which the firmware fixes and nothing here checks.
* Shutdown: `runTxThread` is never set to false, the destructor is empty and the threads
  are never joined, so there is no stopping to model.
