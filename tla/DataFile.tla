------------------------------- MODULE DataFile -------------------------------
(***************************************************************************)
(* The data file: SmurfDataFile::write_file in the thread pktWriter, while *)
(* runThread's read_config_file changes the fields of the configuration    *)
(* that it reads, one at a time and without a lock.  A step of write_file  *)
(* ends where it has read a field.  The name is a string and strncpy       *)
(* stores it piecemeal: a name is a pair of parts, and one that is read    *)
(* while it is being stored has each part from either name.                *)
(* A packet is two writes, its header and its payload: packet n is the     *)
(* items 2n and 2n + 1 of a file.                                          *)
(***************************************************************************)
EXTENDS Integers, Sequences, Functions

CONSTANTS
  Names,        \* values of data_file_name, each a pair of parts
  DataFrames,   \* values of data_frames
  Parts,        \* part numbers (99999 in the code)
  MaxPackets,   \* bound: packets that write_file is called with
  MaxChanges,   \* bound: changes of the configuration
  MaxFaults     \* bound: calls of the file system that fail, and restarts

ASSUME NamesAssumption == \A n \in Names : n = <<n[1], n[2]>>
\* data_frames is an int: there is a largest value.
ASSUME DataFramesAssumption ==
  DataFrames \subseteq Nat /\ \E m \in DataFrames : \A d \in DataFrames : d <= m
ASSUME PartsAssumption == Parts \in Nat \ {0}

VARIABLES
  data_file_name,     \* [from, to]: the name before and after the current strncpy
  file_name_extend,   \* as a condition
  data_frames,
  at,                 \* where write_file is
  filename,           \* the name of the file open, or last opened
  fd,                 \* "none" (0), "open", or "bad" (-1)
  frame_counter,
  part_,
  offset,             \* the file offset of the open file, in items
  disk,               \* contents of the files that exist
  packet,             \* history: packets write_file has finished
  missed,             \* history: items whose write failed
  tried,              \* history: the packet that was there at the last open
  since,              \* history: the part files opened since the numbers were
                      \* last disturbed, with the rotations since (to Parts)
  fresh,              \* history: of each file, the items up to the offset it was
                      \* last written to since it was opened
  kept,               \* history: the files opened over contents unlink had left
  settled,            \* history: no change of the configuration in this packet
  changes, faults     \* counts, for the bounds

config == <<data_file_name, file_name_extend, data_frames>>
history == <<packet, missed, tried, since, fresh, kept, settled>>
vars == <<config, at, filename, fd, frame_counter, part_, offset, disk, history, changes, faults>>

-----------------------------------------------------------------------------
NoPart == -1
NoName == [name |-> <<"", "">>, part |-> NoPart]

\* What a read of data_file_name can give.
Readable == {<<a, b>> : a \in {data_file_name.from[1], data_file_name.to[1]},
                        b \in {data_file_name.from[2], data_file_name.to[2]}}

Paths == [name : {<<a[1], b[2]>> : a, b \in Names}, part : {NoPart} \cup 0 .. Parts - 1]

Without(f) == [g \in DOMAIN disk \ {f} |-> disk[g]]

KeptOnDisk(f) == disk         \* mutant: the old file is not unlinked
\* unlink(f)
Unlinked(f) == Without(f)

\* open(f, O_WRONLY | O_CREAT): creates, and does not truncate.
Created(d, f) == [g \in DOMAIN d \cup {f} |-> IF g \in DOMAIN d THEN d[g] ELSE <<>>]

\* The contents old after a write of items at an offset.
Overwritten(old, from, items) ==
  LET n == from + Len(items)
  IN [k \in 1 .. (IF n > Len(old) THEN n ELSE Len(old)) |->
        IF k > from /\ k <= n THEN items[k - from] ELSE old[k]]

PartStays == part_          \* mutant
PartUnbounded == part_ + 1  \* mutant
NextPart == (part_ + 1) % Parts

NeverDiffers(n) == FALSE    \* mutant: the name is not compared
\* The configured name is compared with the whole path.
NameDiffers(n) == filename # [name |-> n, part |-> NoPart]

CountIfOpen == IF fd = "open" THEN frame_counter + 1 ELSE frame_counter  \* mutant
Counted == frame_counter + 1

StaysOpen == fd       \* mutant: close() without fd = 0
Closed == "none"

-----------------------------------------------------------------------------
\* The first reading of the configuration is over.  Old files are those that were
\* written before a rotation, a change of the name or a restart.
Init ==
  /\ data_file_name \in {[from |-> n, to |-> n] : n \in Names}
  /\ file_name_extend \in BOOLEAN
  /\ data_frames \in DataFrames
  /\ at = "idle"
  /\ filename = NoName
  /\ fd = "none"
  /\ frame_counter = 0
  /\ part_ = 0
  /\ offset = 0
  /\ disk = << >>
  /\ packet = 0 /\ missed = {} /\ tried = 0 /\ since = << >> /\ settled = TRUE
  /\ fresh = << >> /\ kept = {}
  /\ changes = 0 /\ faults = 0

(***************************************************************************)
(* read_config_file, in runThread.                                         *)
(***************************************************************************)

Changing ==
  /\ changes < MaxChanges
  /\ changes' = changes + 1
  /\ settled' = FALSE
  /\ UNCHANGED <<at, filename, fd, frame_counter, part_, offset, disk, packet, missed, tried, since,
                 fresh, kept, faults>>

ChangeFrames ==
  /\ Changing
  /\ data_frames' \in DataFrames \ {data_frames}
  /\ UNCHANGED <<data_file_name, file_name_extend>>

ChangeExtend ==
  /\ Changing
  /\ file_name_extend' = ~file_name_extend
  /\ UNCHANGED <<data_file_name, data_frames>>

BeginName ==
  /\ Changing
  /\ data_file_name.from = data_file_name.to
  /\ \E n \in Names \ {data_file_name.to} : data_file_name' = [data_file_name EXCEPT !.to = n]
  /\ UNCHANGED <<file_name_extend, data_frames>>

EndName ==
  /\ data_file_name.from # data_file_name.to
  /\ data_file_name' = [data_file_name EXCEPT !.from = data_file_name.to]
  /\ UNCHANGED <<file_name_extend, data_frames, at, filename, fd, frame_counter, part_, offset, disk,
                 history, changes, faults>>

(***************************************************************************)
(* write_file, in pktWriter.                                               *)
(***************************************************************************)

Disabled ==
  /\ at = "idle" /\ packet < MaxPackets
  /\ part_' = 0
  /\ fd' = "none"
  /\ frame_counter' = 0
  /\ packet' = packet + 1
  /\ since' = << >>
  /\ UNCHANGED <<config, at, filename, offset, disk, missed, tried, fresh, kept, settled, changes, faults>>

TestExtend ==
  /\ at = "idle" /\ packet < MaxPackets
  /\ settled' = (data_file_name.from = data_file_name.to)
  /\ at' = IF ~file_name_extend THEN "compare" ELSE IF fd = "none" THEN "name" ELSE "write"
  /\ since' = IF file_name_extend THEN since ELSE << >>
  /\ UNCHANGED <<config, filename, fd, frame_counter, part_, offset, disk, packet, missed, tried,
                 fresh, kept, changes, faults>>

CompareName ==
  /\ at = "compare"
  /\ \E n \in Readable : fd' = IF NameDiffers(n) THEN "none" ELSE fd
  /\ at' = IF fd' = "none" THEN "name" ELSE "write"
  /\ UNCHANGED <<config, filename, frame_counter, part_, offset, disk, history, changes, faults>>

CopyName ==
  /\ at = "name"
  /\ \E n \in Readable : filename' = [name |-> n, part |-> NoPart]
  /\ at' = "extend"
  /\ UNCHANGED <<config, fd, frame_counter, part_, offset, disk, history, changes, faults>>

ExtendName ==
  /\ at = "extend"
  /\ filename' = IF file_name_extend THEN [filename EXCEPT !.part = part_] ELSE filename
  /\ at' = "open"
  /\ UNCHANGED <<config, fd, frame_counter, part_, offset, disk, history, changes, faults>>

\* The early return is for fd = 0, which open does not give: a failure is -1.  The
\* result of unlink is not looked at: it may leave the old file, and open succeed.
OpenFile ==
  /\ at = "open"
  /\ \E removed, opened \in BOOLEAN :
       LET rest == IF removed THEN Unlinked(filename) ELSE disk
       IN /\ removed \/ filename \in DOMAIN disk
          /\ (removed /\ opened) \/ faults < MaxFaults
          /\ faults' = IF removed /\ opened THEN faults ELSE faults + 1
          /\ fd' = IF opened THEN "open" ELSE "bad"
          /\ disk' = IF opened THEN Created(rest, filename) ELSE rest
          /\ fresh' = [f \in DOMAIN disk' |-> IF opened /\ f = filename THEN 0 ELSE fresh[f]]
          /\ kept' = IF removed THEN kept \ {filename}
                     ELSE IF opened THEN kept \cup {filename} ELSE kept
  /\ since' = IF filename.part = NoPart THEN since
              ELSE [f \in DOMAIN since \cup {filename} |-> IF f = filename THEN 0 ELSE since[f]]
  /\ offset' = 0
  /\ tried' = packet
  /\ at' = "write"
  /\ UNCHANGED <<config, filename, frame_counter, part_, packet, missed, settled, changes>>

Items == <<2 * packet, 2 * packet + 1>>

\* What of the packet's header and payload gets to the file.
WritesPossible == IF fd = "bad" THEN {<< >>} ELSE {Items, <<Items[1]>>, <<Items[2]>>, << >>}

\* writeToFile, whose writes are not checked, and the count.
WriteAndCount ==
  /\ at = "write"
  /\ \E items \in WritesPossible :
       /\ fd = "open" /\ items # Items => faults < MaxFaults
       /\ faults' = IF fd = "open" /\ items # Items THEN faults + 1 ELSE faults
       /\ missed' = missed \cup (Range(Items) \ Range(items))
       /\ offset' = offset + Len(items)
       /\ disk' = IF fd = "bad" THEN disk
                  ELSE [disk EXCEPT ![filename] = Overwritten(@, offset, items)]
       /\ fresh' = IF fd = "bad" THEN fresh ELSE [fresh EXCEPT ![filename] = offset']
  /\ IF Counted >= data_frames
       THEN /\ fd' = Closed
            /\ frame_counter' = 0
            /\ part_' = NextPart
            /\ since' = [f \in DOMAIN since |-> IF since[f] < Parts THEN since[f] + 1 ELSE Parts]
       ELSE /\ frame_counter' = Counted
            /\ UNCHANGED <<fd, part_, since>>
  /\ packet' = packet + 1
  /\ at' = "idle"
  /\ UNCHANGED <<config, filename, tried, kept, settled, changes>>

\* The program ends at any point and is started again; what is on the disk
\* stays.
Restart ==
  /\ faults < MaxFaults
  /\ faults' = faults + 1
  /\ at' = "idle"
  /\ filename' = NoName
  /\ fd' = "none"
  /\ frame_counter' = 0
  /\ part_' = 0
  /\ data_file_name' = [from |-> data_file_name.to, to |-> data_file_name.to]
  /\ packet' = IF at = "idle" THEN packet ELSE packet + 1
  /\ since' = << >>
  /\ UNCHANGED <<file_name_extend, data_frames, offset, disk, missed, tried, fresh, kept, settled, changes>>

-----------------------------------------------------------------------------
ReadConfig == ChangeFrames \/ ChangeExtend \/ BeginName \/ EndName

WriteFile ==
  \/ Disabled \/ TestExtend \/ CompareName \/ CopyName \/ ExtendName \/ OpenFile \/ WriteAndCount

Next == ReadConfig \/ WriteFile \/ Restart

Spec == Init /\ [][Next]_vars

(***************************************************************************)
(* Properties.                                                             *)
(***************************************************************************)

Limit == CHOOSE m \in DataFrames \cup {1} : \A d \in DataFrames \cup {1} : d <= m

\* The variables keep their types.
TypeOK ==
  /\ data_file_name \in [from : Names, to : Names]
  /\ file_name_extend \in BOOLEAN
  /\ data_frames \in DataFrames
  /\ at \in {"idle", "compare", "name", "extend", "open", "write"}
  /\ filename \in Paths \cup {NoName}
  /\ fd \in {"none", "open", "bad"}
  /\ frame_counter \in 0 .. Limit
  /\ part_ \in 0 .. Parts - 1
  /\ DOMAIN disk \subseteq Paths
  /\ fd = "open" => filename \in DOMAIN disk

\* What a file holds since it was opened is what write_file was given meanwhile, in
\* order and without a gap but for writes that failed: no file goes on after another
\* one was written in between.  And nothing of an older file of the same name stays
\* behind it although it is opened without O_TRUNC, unless unlink failed.
FilesWhole ==
  \A f \in DOMAIN disk :
    /\ \A k \in 1 .. fresh[f] - 1 :
         /\ disk[f][k] < disk[f][k + 1]
         /\ disk[f][k] + 1 .. disk[f][k + 1] - 1 \subseteq missed
    /\ f \notin kept => fresh[f] = Len(disk[f])

\* No file gets more packets than the largest data_frames there was, although
\* frame_counter goes on counting when the name changes, and starts again
\* where no file was open.
SizeBound == \A f \in DOMAIN disk : Len(disk[f]) <= 2 * Limit

\* The failed open that is taken for an open file is not for ever: another
\* open follows after at most data_frames packets.
RetriesInTime == fd = "bad" => packet - tried <= Limit

\* Without extension, a packet that no change of the configuration overlaps
\* goes to the file of the configured name, whatever mix of two names an
\* earlier packet may have read.
FollowsName ==
  at = "write" /\ settled /\ ~file_name_extend =>
    filename = [name |-> data_file_name.to, part |-> NoPart]

\* A part file is opened (and so emptied) again only Parts rotations later,
\* unless the disable bit, a restart or a packet that found the extension off
\* came in between.
PartsKept ==
  [][at = "open" /\ at' = "write" /\ filename \in DOMAIN since => since[filename] >= Parts]_vars

=============================================================================
