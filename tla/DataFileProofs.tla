---------------------------- MODULE DataFileProofs ----------------------------
(***************************************************************************)
(* Proofs about the data file, for all names, values of data_frames and    *)
(* part numbers, any number of packets, changes of the configuration,      *)
(* failures and restarts.                                                  *)
(***************************************************************************)
EXTENDS DataFile, TLAPS

(***************************************************************************)
(* The inductive invariant.                                                *)
(***************************************************************************)

HistoryTypes ==
  /\ packet \in Nat /\ tried \in Nat /\ offset \in Nat
  /\ missed \subseteq Nat
  /\ settled \in BOOLEAN
  /\ disk \in [DOMAIN disk -> Seq(Nat)]
  /\ since \in [DOMAIN since -> 0 .. Parts]

\* What was written to a file since it was opened is at most what it holds.
FreshTypes ==
  /\ fresh \in [DOMAIN disk -> Nat]
  /\ \A f \in DOMAIN disk : fresh[f] <= Len(disk[f])

\* On the way to open there is no file open, and after it there is one, or -1.
NoneOnTheWay ==
  /\ at \in {"name", "extend", "open"} => fd = "none"
  /\ at = "write" => fd # "none"

\* A full count closes the file.
CountsOn == frame_counter < Limit

\* Packets that went by since an open that failed are counted.
RetryCounted == fd = "bad" => packet - tried <= frame_counter

\* The first n items of a file: in order, and what is not there was lost.
Whole(contents, n, lost) ==
  \A k \in 1 .. n - 1 :
    /\ contents[k] < contents[k + 1]
    /\ contents[k] + 1 .. contents[k + 1] - 1 \subseteq lost

\* And they go up to an item that comes next.
WholeUpTo(contents, n, next, lost) ==
  n > 0 =>
    /\ contents[n] < next
    /\ contents[n] + 1 .. next - 1 \subseteq lost

\* The open file is written behind what it got since it was opened, with the packets
\* that are counted, and is whole up to the packet that comes next.
OpenFileFollows ==
  fd = "open" =>
    /\ offset = fresh[filename]
    /\ offset <= 2 * frame_counter
    /\ WholeUpTo(disk[filename], offset, 2 * packet, missed)

\* In a packet without a change of the configuration there is one name to read.
OneName == settled /\ at # "idle" => data_file_name.from = data_file_name.to

NameTaken ==
  settled /\ (at = "extend" \/ (at \in {"open", "write"} /\ ~file_name_extend)) =>
    filename = [name |-> data_file_name.to, part |-> NoPart]

\* The part number is as far from a file's as rotations went by, round the end.
SinceCounts ==
  \A f \in DOMAIN since :
    /\ f.part \in 0 .. Parts - 1
    /\ since[f] < Parts => part_ = f.part + since[f] \/ part_ = f.part + since[f] - Parts
    /\ since[f] = 0 => fd # "none"

PartOnTheWay ==
  /\ at = "compare" => DOMAIN since = {}
  /\ at \in {"extend", "open"} => filename \in Paths
  /\ at = "extend" => filename.part = NoPart
  /\ at = "open" /\ filename.part # NoPart => filename.part = part_

IInv ==
  /\ TypeOK /\ HistoryTypes /\ FreshTypes
  /\ NoneOnTheWay /\ CountsOn /\ RetryCounted
  /\ OpenFileFollows /\ FilesWhole /\ SizeBound
  /\ OneName /\ NameTaken
  /\ SinceCounts /\ PartOnTheWay

-----------------------------------------------------------------------------
(***************************************************************************)
(* Limits, names and numbers.                                              *)
(***************************************************************************)

LEMMA LimitFacts == Limit \in Nat \ {0} /\ (\A d \in DataFrames : d <= Limit)
<1>1. PICK m \in DataFrames : \A d \in DataFrames : d <= m
  BY DataFramesAssumption
<1>2. DataFrames \subseteq Nat
  BY DataFramesAssumption
<1>3. \E k \in DataFrames \cup {1} : \A d \in DataFrames \cup {1} : d <= k
  <2>1. CASE m >= 1
    BY <1>1, <2>1
  <2>2. CASE m < 1
    <3>1. \A d \in DataFrames \cup {1} : d <= 1
      BY <1>1, <1>2, <2>2
    <3> QED
      BY <3>1
  <2> QED
    BY <1>1, <1>2, <2>1, <2>2
<1>4. Limit \in DataFrames \cup {1} /\ (\A d \in DataFrames \cup {1} : d <= Limit)
  BY <1>3 DEF Limit
<1> QED
  BY <1>2, <1>4

LEMMA NextPartFacts ==
  ASSUME part_ \in 0 .. Parts - 1
  PROVE  /\ NextPart \in 0 .. Parts - 1
         /\ NextPart = part_ + 1 \/ NextPart = part_ + 1 - Parts
<1>1. Parts \in Nat \ {0}
  BY PartsAssumption
<1>2. CASE part_ + 1 = Parts
  BY <1>1, <1>2 DEF NextPart
<1>3. CASE part_ + 1 < Parts
  <2>1. (part_ + 1) % Parts = part_ + 1
    BY <1>1, <1>3
  <2> QED
    BY <1>1, <1>3, <2>1 DEF NextPart
<1> QED
  BY <1>1, <1>2, <1>3

\* What a name reads as has a path; when it is not being changed, it is the name.
LEMMA ReadFacts ==
  ASSUME TypeOK, NEW n \in Readable
  PROVE  /\ [name |-> n, part |-> NoPart] \in Paths
         /\ \A p \in 0 .. Parts - 1 : [name |-> n, part |-> p] \in Paths
         /\ data_file_name.from = data_file_name.to => n = data_file_name.to
<1>1. data_file_name.from \in Names /\ data_file_name.to \in Names
  BY DEF TypeOK
<1>2. n \in {<<a[1], b[2]>> : a, b \in Names}
  BY <1>1 DEF Readable
<1>3. data_file_name.from = data_file_name.to => n = data_file_name.to
  BY <1>1, NamesAssumption DEF Readable
<1> QED
  BY <1>2, <1>3 DEF Paths

\* A write leaves what is before it, and what is behind it.
LEMMA Overwrites ==
  ASSUME NEW old \in Seq(Nat), NEW items \in Seq(Nat), NEW from \in 0 .. Len(old)
  PROVE  LET new == Overwritten(old, from, items)
             n == from + Len(items)
         IN /\ new \in Seq(Nat)
            /\ Len(new) = IF n > Len(old) THEN n ELSE Len(old)
            /\ \A k \in 1 .. from : new[k] = old[k]
            /\ \A k \in 1 .. Len(items) : new[from + k] = items[k]
<1> DEFINE n == from + Len(items)
           l == IF n > Len(old) THEN n ELSE Len(old)
           new == [k \in 1 .. l |-> IF k > from /\ k <= n THEN items[k - from] ELSE old[k]]
<1>1. Len(old) \in Nat /\ Len(items) \in Nat /\ n \in Nat /\ from \in Nat /\ from <= Len(old)
      /\ l \in Nat /\ n <= l /\ Len(old) <= l
  OBVIOUS
<1>2. Overwritten(old, from, items) = new
  BY DEF Overwritten
<1>3. ASSUME NEW k \in 1 .. l
      PROVE  new[k] \in Nat
  <2>1. CASE k > from /\ k <= n
    <3>1. k - from \in 1 .. Len(items)
      BY <1>1, <2>1
    <3> QED
      BY <1>1, <2>1, <3>1
  <2>2. CASE ~(k > from /\ k <= n)
    <3>1. k \in 1 .. Len(old)
      BY <1>1, <2>2
    <3> QED
      BY <1>1, <2>2, <3>1
  <2> QED
    BY <2>1, <2>2
<1>4. new \in Seq(Nat) /\ Len(new) = l
  BY <1>1, <1>3
<1>5. ASSUME NEW k \in 1 .. from
      PROVE  new[k] = old[k]
  <2>1. k \in 1 .. l /\ ~(k > from)
    BY <1>1
  <2> QED
    BY <2>1
<1>6. ASSUME NEW k \in 1 .. Len(items)
      PROVE  new[from + k] = items[k]
  <2>1. from + k \in 1 .. l /\ from + k > from /\ from + k <= n /\ from + k - from = k
    BY <1>1
  <2> QED
    BY <2>1
<1> HIDE DEF new
<1> QED
  BY <1>2, <1>4, <1>5, <1>6

\* What of a packet can get to the file, and what is missed.
LEMMA WriteFacts ==
  ASSUME packet \in Nat, NEW items \in WritesPossible
  PROVE  /\ items \in Seq(Nat) /\ Len(items) \in 0 .. 2
         /\ Range(Items) \subseteq Nat
         /\ \A k \in 1 .. Len(items) : items[k] \in {2 * packet, 2 * packet + 1}
         /\ Len(items) = 2 => items[1] = 2 * packet /\ items[2] = 2 * packet + 1
         /\ \A x \in {2 * packet, 2 * packet + 1} :
              x \in (Range(Items) \ Range(items)) \/ (\E k \in 1 .. Len(items) : items[k] = x)
         /\ fd = "bad" => items = << >>
<1>1. Items = <<2 * packet, 2 * packet + 1>> /\ Items[1] = 2 * packet
      /\ Items[2] = 2 * packet + 1
  BY DEF Items
<1>2. Range(Items) = {2 * packet, 2 * packet + 1}
  BY <1>1 DEF Range
<1>3. CASE items = << >>
  <2>1. Len(items) = 0 /\ items \in Seq(Nat)
    BY <1>3
  <2>2. Range(items) = {}
    BY <1>3 DEF Range
  <2> QED
    BY <1>2, <1>3, <2>1, <2>2
<1>4. CASE items = <<2 * packet>> /\ fd # "bad"
  <2>1. Len(items) = 1 /\ items[1] = 2 * packet /\ items \in Seq(Nat)
    BY <1>4
  <2>2. Range(items) = {2 * packet}
    BY <1>4 DEF Range
  <2> QED
    BY <1>2, <1>4, <2>1, <2>2
<1>5. CASE items = <<2 * packet + 1>> /\ fd # "bad"
  <2>1. Len(items) = 1 /\ items[1] = 2 * packet + 1 /\ items \in Seq(Nat)
    BY <1>5
  <2>2. Range(items) = {2 * packet + 1}
    BY <1>5 DEF Range
  <2> QED
    BY <1>2, <1>5, <2>1, <2>2
<1>6. CASE items = <<2 * packet, 2 * packet + 1>> /\ fd # "bad"
  <2>1. Len(items) = 2 /\ items[1] = 2 * packet /\ items[2] = 2 * packet + 1
        /\ items \in Seq(Nat)
    BY <1>6
  <2> QED
    BY <1>2, <1>6, <2>1
<1> QED
  BY <1>1, <1>3, <1>4, <1>5, <1>6 DEF WritesPossible

-----------------------------------------------------------------------------
(***************************************************************************)
(* The invariant holds in the first state, and every step keeps it.        *)
(***************************************************************************)

LEMMA InvInit == Init => IInv
<1> SUFFICES ASSUME Init
             PROVE  IInv
  OBVIOUS
<1>1. DOMAIN disk = {} /\ DOMAIN since = {}
  BY DEF Init
<1>2. TypeOK
  BY <1>1, LimitFacts, PartsAssumption DEF Init, TypeOK
<1>3. HistoryTypes
  BY <1>1 DEF Init, HistoryTypes
<1>8. FreshTypes
  BY <1>1 DEF Init, FreshTypes
<1>4. NoneOnTheWay /\ CountsOn /\ RetryCounted /\ OpenFileFollows
  BY LimitFacts DEF Init, NoneOnTheWay, CountsOn, RetryCounted, OpenFileFollows
<1>5. FilesWhole /\ SizeBound
  BY <1>1 DEF FilesWhole, SizeBound
<1>6. OneName /\ NameTaken /\ PartOnTheWay
  BY DEF Init, OneName, NameTaken, PartOnTheWay
<1>7. SinceCounts
  BY <1>1 DEF SinceCounts
<1> QED
  BY <1>2, <1>3, <1>4, <1>5, <1>6, <1>7, <1>8 DEF IInv

\* read_config_file: the packet in progress is no longer settled.
LEMMA InvReadConfig ==
  ASSUME IInv, ReadConfig
  PROVE  IInv'
<1>1. /\ TypeOK /\ HistoryTypes /\ FreshTypes /\ NoneOnTheWay /\ CountsOn /\ RetryCounted
      /\ OpenFileFollows /\ FilesWhole /\ SizeBound /\ OneName /\ SinceCounts /\ PartOnTheWay
  BY DEF IInv
<1>2. UNCHANGED <<at, filename, fd, frame_counter, part_, offset, disk, packet, missed, tried, since,
                 fresh, kept>>
  BY DEF ReadConfig, ChangeFrames, ChangeExtend, BeginName, EndName, Changing, history
<1>3. /\ data_file_name' \in [from : Names, to : Names]
      /\ file_name_extend' \in BOOLEAN /\ data_frames' \in DataFrames
  BY <1>1 DEF ReadConfig, ChangeFrames, ChangeExtend, BeginName, EndName, TypeOK
<1>4. settled' \in BOOLEAN /\ (settled' => at' = "idle")
  <2>1. CASE EndName
    BY <1>1, <2>1 DEF EndName, history, OneName, HistoryTypes
  <2>2. CASE Changing
    BY <2>2 DEF Changing
  <2> QED
    BY <2>1, <2>2 DEF ReadConfig, ChangeFrames, ChangeExtend, BeginName
<1>5. TypeOK'
  BY <1>1, <1>2, <1>3 DEF TypeOK
<1>6. (HistoryTypes /\ FreshTypes)'
  BY <1>1, <1>2, <1>4 DEF HistoryTypes, FreshTypes
<1>7. (NoneOnTheWay /\ CountsOn /\ RetryCounted /\ OpenFileFollows)'
  BY <1>1, <1>2 DEF NoneOnTheWay, CountsOn, RetryCounted, OpenFileFollows
<1>8. (FilesWhole /\ SizeBound)'
  BY <1>1, <1>2 DEF FilesWhole, SizeBound
<1>9. (OneName /\ NameTaken)'
  BY <1>2, <1>4 DEF OneName, NameTaken
<1>10. (SinceCounts /\ PartOnTheWay)'
  BY <1>1, <1>2 DEF SinceCounts, PartOnTheWay
<1> QED
  BY <1>5, <1>6, <1>7, <1>8, <1>9, <1>10 DEF IInv

\* The disable bit and a restart: there is no file, and the part numbers begin again.
LEMMA InvWithoutFile ==
  ASSUME IInv, Disabled \/ Restart
  PROVE  IInv'
<1>1. /\ TypeOK /\ HistoryTypes /\ FreshTypes /\ NoneOnTheWay /\ CountsOn /\ RetryCounted
      /\ OpenFileFollows /\ FilesWhole /\ SizeBound /\ OneName /\ SinceCounts /\ PartOnTheWay
  BY DEF IInv
<1>2. /\ part_' = 0 /\ fd' = "none" /\ frame_counter' = 0 /\ at' = "idle"
      /\ DOMAIN since' = {} /\ since' = << >>
      /\ UNCHANGED <<offset, disk, missed, tried, settled, fresh, kept>>
      /\ UNCHANGED <<file_name_extend, data_frames>>
  BY DEF Disabled, Restart, config
<1>3. /\ packet' \in Nat /\ filename' \in Paths \cup {NoName}
      /\ data_file_name' \in [from : Names, to : Names]
  BY <1>1 DEF Disabled, Restart, config, TypeOK, HistoryTypes
<1>4. TypeOK'
  BY <1>1, <1>2, <1>3, LimitFacts, PartsAssumption DEF TypeOK
<1>5. (HistoryTypes /\ FreshTypes)'
  BY <1>1, <1>2, <1>3 DEF HistoryTypes, FreshTypes
<1>6. (NoneOnTheWay /\ CountsOn /\ RetryCounted /\ OpenFileFollows)'
  BY <1>2, LimitFacts DEF NoneOnTheWay, CountsOn, RetryCounted, OpenFileFollows
<1>7. (FilesWhole /\ SizeBound)'
  BY <1>1, <1>2 DEF FilesWhole, SizeBound
<1>8. (OneName /\ NameTaken /\ PartOnTheWay)'
  BY <1>2 DEF OneName, NameTaken, PartOnTheWay
<1>9. SinceCounts'
  BY <1>2 DEF SinceCounts
<1> QED
  BY <1>4, <1>5, <1>6, <1>7, <1>8, <1>9 DEF IInv

\* The steps of write_file before open: a file may be closed, and a name is chosen.
LEMMA InvChooseName ==
  ASSUME IInv, TestExtend \/ CompareName \/ CopyName \/ ExtendName
  PROVE  IInv'
<1>1. /\ TypeOK /\ HistoryTypes /\ FreshTypes /\ NoneOnTheWay /\ CountsOn /\ RetryCounted
      /\ OpenFileFollows /\ FilesWhole /\ SizeBound /\ OneName /\ NameTaken
      /\ SinceCounts /\ PartOnTheWay
  BY DEF IInv
<1>2. /\ UNCHANGED <<config, frame_counter, part_, offset, disk, packet, missed, tried, fresh, kept>>
      /\ fd' \in {"none", fd}
      /\ fd' # fd => at = "compare"
      /\ at' \in {"compare", "name", "extend", "open", "write"}
      /\ at' \in {"name", "extend", "open"} => fd' = "none"
      /\ at' = "write" => fd' # "none"
      /\ filename' # filename => fd' = "none"
  BY <1>1 DEF TestExtend, CompareName, CopyName, ExtendName, history, NoneOnTheWay
<1>3. filename' \in Paths \cup {NoName}
  <2>1. CASE CopyName
    BY <1>1, <2>1, ReadFacts DEF CopyName
  <2>2. CASE ExtendName
    <3>1. filename \in Paths /\ part_ \in 0 .. Parts - 1
      BY <1>1, <2>2 DEF ExtendName, PartOnTheWay, TypeOK
    <3>2. [filename EXCEPT !.part = part_] \in Paths
      BY <3>1 DEF Paths
    <3> QED
      BY <2>2, <3>1, <3>2 DEF ExtendName
  <2>3. CASE TestExtend \/ CompareName
    BY <1>1, <2>3 DEF TestExtend, CompareName, TypeOK
  <2> QED
    BY <2>1, <2>2, <2>3
<1>4. TypeOK'
  BY <1>1, <1>2, <1>3 DEF TypeOK, config
<1>5. /\ settled' \in BOOLEAN
      /\ since' \in {since, << >>}
      /\ at # "idle" => settled' = settled /\ since' = since
  BY <1>1 DEF TestExtend, CompareName, CopyName, ExtendName, history, HistoryTypes
<1>6. (HistoryTypes /\ FreshTypes)'
  <2>1. since' \in [DOMAIN since' -> 0 .. Parts]
    <3>1. CASE since' = since
      BY <1>1, <3>1 DEF HistoryTypes
    <3>2. CASE since' = << >>
      BY <3>2
    <3> QED
      BY <1>5, <3>1, <3>2
  <2> QED
    BY <1>1, <1>2, <1>5, <2>1 DEF HistoryTypes, FreshTypes
<1>7. (NoneOnTheWay /\ CountsOn /\ RetryCounted /\ OpenFileFollows)'
  BY <1>1, <1>2 DEF NoneOnTheWay, CountsOn, RetryCounted, OpenFileFollows
<1>8. (FilesWhole /\ SizeBound)'
  BY <1>1, <1>2 DEF FilesWhole, SizeBound
<1>9. OneName'
  BY <1>1, <1>2 DEF OneName, config, TestExtend, CompareName, CopyName, ExtendName, history
<1>10. NameTaken'
  <2>1. CASE TestExtend
    BY <2>1 DEF TestExtend, NameTaken, config
  <2>2. CASE CompareName
    <3>1. PICK n \in Readable : fd' = IF NameDiffers(n) THEN "none" ELSE fd
      BY <2>2 DEF CompareName
    <3>2. at' = "write" => ~NameDiffers(n)
      BY <2>2, <3>1 DEF CompareName
    <3>3. settled => n = data_file_name.to
      BY <1>1, <2>2, ReadFacts DEF CompareName, OneName
    <3>4. UNCHANGED <<data_file_name, filename, settled>> /\ at' \in {"name", "write"}
      BY <2>2 DEF CompareName, config, history
    <3> QED
      BY <3>2, <3>3, <3>4 DEF NameTaken, NameDiffers
  <2>3. CASE CopyName
    BY <1>1, <2>3, ReadFacts DEF CopyName, NameTaken, OneName, config, history
  <2>4. CASE ExtendName
    BY <1>1, <2>4 DEF ExtendName, NameTaken, config, history
  <2> QED
    BY <2>1, <2>2, <2>3, <2>4
<1>11. SinceCounts'
  <2>1. CASE TestExtend
    <3>1. since' = since \/ DOMAIN since' = {}
      BY <1>5
    <3>2. fd' = fd /\ part_' = part_
      BY <2>1 DEF TestExtend
    <3> QED
      BY <1>1, <3>1, <3>2 DEF SinceCounts
  <2>2. CASE CompareName
    BY <1>1, <2>2 DEF CompareName, PartOnTheWay, SinceCounts, history
  <2>3. CASE CopyName \/ ExtendName
    BY <1>1, <2>3 DEF CopyName, ExtendName, SinceCounts, history
  <2> QED
    BY <2>1, <2>2, <2>3
<1>12. PartOnTheWay'
  <2>1. CASE TestExtend \/ CompareName
    BY <1>1, <2>1 DEF TestExtend, CompareName, PartOnTheWay, history
  <2>2. CASE CopyName
    BY <1>1, <2>2, ReadFacts DEF CopyName, PartOnTheWay
  <2>3. CASE ExtendName
    <3>1. /\ at' = "open" /\ part_' = part_
          /\ filename' = IF file_name_extend THEN [filename EXCEPT !.part = part_] ELSE filename
      BY <2>3 DEF ExtendName
    <3>2. filename \in Paths /\ part_ \in 0 .. Parts - 1 /\ filename.part = NoPart
      BY <1>1, <2>3 DEF ExtendName, PartOnTheWay, TypeOK
    <3>3. /\ [filename EXCEPT !.part = part_] \in Paths
          /\ [filename EXCEPT !.part = part_].part = part_
      BY <3>2 DEF Paths
    <3> QED
      BY <3>1, <3>2, <3>3 DEF PartOnTheWay
  <2> QED
    BY <2>1, <2>2, <2>3
<1> QED
  BY <1>4, <1>6, <1>7, <1>8, <1>9, <1>10, <1>11, <1>12 DEF IInv

\* A file that is whole up to the packet is whole after the packet's writes.
LEMMA WholeAfterWrite ==
  ASSUME packet \in Nat, NEW old \in Seq(Nat), NEW items \in WritesPossible,
         NEW n \in 0 .. Len(old), Whole(old, n, missed), WholeUpTo(old, n, 2 * packet, missed)
  PROVE  LET lost == missed \cup (Range(Items) \ Range(items))
             new == Overwritten(old, n, items)
             m == n + Len(items)
         IN /\ Whole(new, m, lost) /\ WholeUpTo(new, m, 2 * (packet + 1), lost)
            /\ new \in Seq(Nat) /\ Len(new) = IF m > Len(old) THEN m ELSE Len(old)
<1> SUFFICES ASSUME NEW lost, lost = missed \cup (Range(Items) \ Range(items)),
                    NEW new, new = Overwritten(old, n, items)
             PROVE  /\ Whole(new, n + Len(items), lost)
                    /\ WholeUpTo(new, n + Len(items), 2 * (packet + 1), lost)
                    /\ new \in Seq(Nat)
                    /\ Len(new) = IF n + Len(items) > Len(old) THEN n + Len(items) ELSE Len(old)
  OBVIOUS
<1> DEFINE m == Len(items)
           a == 2 * packet
<1>1. n \in Nat /\ m \in 0 .. 2 /\ a \in Nat /\ 2 * (packet + 1) = a + 2
      /\ \A k \in 1 .. n : old[k] \in Nat
  BY WriteFacts
<1>2. /\ new \in Seq(Nat) /\ Len(new) = IF n + m > Len(old) THEN n + m ELSE Len(old)
      /\ \A k \in 1 .. n : new[k] = old[k]
      /\ \A k \in 1 .. m : new[n + k] = items[k]
  <2>1. items \in Seq(Nat)
    BY WriteFacts
  <2> QED
    BY <2>1, Overwrites
<1>3. /\ \A k \in 1 .. m : items[k] \in {a, a + 1}
      /\ m = 2 => items[1] = a /\ items[2] = a + 1
      /\ \A x \in {a, a + 1} : x \in lost \/ (\E k \in 1 .. m : items[k] = x)
      /\ missed \subseteq lost
  BY WriteFacts
<1>4. /\ \A k \in 1 .. n - 1 : old[k] < old[k + 1] /\ old[k] + 1 .. old[k + 1] - 1 \subseteq missed
      /\ n > 0 => old[n] < a /\ old[n] + 1 .. a - 1 \subseteq missed
  BY DEF Whole, WholeUpTo
<1> HIDE DEF m, a
<1>5. CASE m = 0
  <2>1. a \in lost /\ a + 1 \in lost /\ n + m = n
    BY <1>1, <1>3, <1>5
  <2>2. Whole(new, n + m, lost)
    <3> SUFFICES ASSUME NEW k \in 1 .. n - 1
                 PROVE  new[k] < new[k + 1] /\ new[k] + 1 .. new[k + 1] - 1 \subseteq lost
      BY <2>1 DEF Whole
    <3>1. k \in 1 .. n /\ k + 1 \in 1 .. n
      BY <1>1
    <3> QED
      BY <1>2, <1>3, <1>4, <3>1
  <2>3. ASSUME n > 0
        PROVE  new[n] < a + 2 /\ new[n] + 1 .. a + 1 \subseteq lost
    <3>1. n \in 1 .. n /\ new[n] = old[n] /\ old[n] \in Nat
      BY <1>1, <1>2, <2>3
    <3>2. new[n] + 1 .. a + 1 \subseteq (old[n] + 1 .. a - 1) \cup {a, a + 1}
      BY <1>1, <3>1
    <3>3. old[n] < a /\ old[n] + 1 .. a - 1 \subseteq lost
      BY <1>3, <1>4, <2>3
    <3>4. new[n] < a + 2
      BY <1>1, <3>1, <3>3
    <3> QED
      BY <2>1, <3>2, <3>3, <3>4
  <2> QED
    BY <1>1, <1>2, <2>1, <2>2, <2>3 DEF WholeUpTo, m
<1>6. CASE m # 0
  <2>1. m \in {1, 2} /\ items[1] \in {a, a + 1} /\ new[n + 1] = items[1]
    BY <1>1, <1>2, <1>3, <1>6
  <2>2. items[1] = a + 1 => a \in lost /\ m = 1
    BY <1>1, <1>3, <2>1
  <2>3. m = 2 => new[n + 1] = a /\ new[n + 2] = a + 1
    BY <1>2, <1>3
  <2>4. m = 1 /\ items[1] = a => a + 1 \in lost
    BY <1>1, <1>3
  <2>5. Whole(new, n + m, lost)
    <3> SUFFICES ASSUME NEW k \in 1 .. (n + m) - 1
                 PROVE  new[k] < new[k + 1] /\ new[k] + 1 .. new[k + 1] - 1 \subseteq lost
      BY DEF Whole
    <3>4. k \in 1 .. n + m - 1
      BY <1>1
    <3>1. CASE k < n
      <4>1. k \in 1 .. n /\ k + 1 \in 1 .. n /\ k \in 1 .. n - 1
        BY <1>1, <3>1, <3>4
      <4> QED
        BY <1>2, <1>3, <1>4, <4>1
    <3>2. CASE k = n
      <4>1. n > 0 /\ new[k] = old[n] /\ old[n] \in Nat /\ new[k + 1] = items[1]
        BY <1>1, <1>2, <2>1, <3>2, <3>4
      <4>2. old[n] < a /\ old[n] + 1 .. a - 1 \subseteq lost
        BY <1>3, <1>4, <4>1
      <4>3. CASE items[1] = a
        BY <4>1, <4>2, <4>3
      <4>4. CASE items[1] = a + 1
        <5>1. new[k] + 1 .. new[k + 1] - 1 \subseteq (old[n] + 1 .. a - 1) \cup {a}
          BY <1>1, <4>1, <4>4
        <5>2. new[k] < new[k + 1]
          BY <1>1, <4>1, <4>2, <4>4
        <5> QED
          BY <2>2, <4>2, <4>4, <5>1, <5>2
      <4> QED
        BY <2>1, <4>3, <4>4
    <3>3. CASE k > n
      <4>1. m = 2 /\ k = n + 1 /\ k + 1 = n + 2
        BY <1>1, <2>1, <3>3, <3>4
      <4>2. new[k] = a /\ new[k + 1] = a + 1
        BY <2>3, <4>1
      <4> QED
        BY <1>1, <4>2
    <3> QED
      BY <1>1, <3>1, <3>2, <3>3, <3>4
  <2>6. new[n + m] < a + 2 /\ new[n + m] + 1 .. a + 1 \subseteq lost
    <3>1. CASE m = 2
      BY <1>1, <2>3, <3>1
    <3>2. CASE m = 1 /\ items[1] = a
      BY <1>1, <2>1, <2>4, <3>2
    <3>3. CASE m = 1 /\ items[1] = a + 1
      BY <1>1, <2>1, <3>3
    <3> QED
      BY <2>1, <3>1, <3>2, <3>3
  <2> QED
    BY <1>1, <1>2, <2>5, <2>6 DEF WholeUpTo, m
<1> QED
  BY <1>5, <1>6

\* open: the file is empty, or holds what unlink has left, or there is none; the
\* others are as they were.
LEMMA InvOpenFile ==
  ASSUME IInv, OpenFile
  PROVE  IInv'
<1>1. /\ TypeOK /\ HistoryTypes /\ FreshTypes /\ NoneOnTheWay /\ CountsOn /\ RetryCounted
      /\ OpenFileFollows /\ FilesWhole /\ SizeBound /\ OneName /\ NameTaken
      /\ SinceCounts /\ PartOnTheWay
  BY DEF IInv
<1>2. /\ UNCHANGED <<config, filename, frame_counter, part_, packet, missed, settled>>
      /\ at = "open" /\ at' = "write" /\ fd' \in {"open", "bad"} /\ offset' = 0 /\ tried' = packet
      /\ filename \in Paths
  BY <1>1 DEF OpenFile, PartOnTheWay
<1>3. /\ disk' \in [DOMAIN disk' -> Seq(Nat)] /\ DOMAIN disk' \subseteq Paths
      /\ fd' = "open" => filename \in DOMAIN disk' /\ fresh'[filename] = 0
      /\ fresh' \in [DOMAIN disk' -> Nat]
      /\ \A f \in DOMAIN disk' :
           \/ disk'[f] = << >> /\ fresh'[f] = 0
           \/ /\ f \in DOMAIN disk /\ disk'[f] = disk[f]
              /\ \/ fresh'[f] = fresh[f] /\ (f \in kept => f \in kept')
                 \/ fresh'[f] = 0 /\ f \in kept'
  <2>1. disk \in [DOMAIN disk -> Seq(Nat)] /\ DOMAIN disk \subseteq Paths
        /\ fresh \in [DOMAIN disk -> Nat]
    BY <1>1 DEF TypeOK, HistoryTypes, FreshTypes
  <2>2. PICK removed \in BOOLEAN, opened \in BOOLEAN :
          LET rest == IF removed THEN Unlinked(filename) ELSE disk
          IN /\ fd' = IF opened THEN "open" ELSE "bad"
             /\ disk' = IF opened THEN Created(rest, filename) ELSE rest
             /\ fresh' = [f \in DOMAIN disk' |-> IF opened /\ f = filename THEN 0 ELSE fresh[f]]
             /\ kept' = IF removed THEN kept \ {filename}
                        ELSE IF opened THEN kept \cup {filename} ELSE kept
    BY DEF OpenFile
  <2> DEFINE rest == IF removed THEN Unlinked(filename) ELSE disk
  <2>3. /\ DOMAIN rest \subseteq DOMAIN disk
        /\ \A f \in DOMAIN disk : f # filename => f \in DOMAIN rest
        /\ \A f \in DOMAIN rest : rest[f] = disk[f]
        /\ removed => filename \notin DOMAIN rest
        /\ rest \in [DOMAIN rest -> Seq(Nat)]
    BY <2>1 DEF Unlinked, Without
  <2>4. disk' = IF opened THEN Created(rest, filename) ELSE rest
    BY <2>2
  <2> HIDE DEF rest
  <2>5. /\ opened => DOMAIN disk' = DOMAIN rest \cup {filename}
        /\ ~opened => DOMAIN disk' = DOMAIN rest
        /\ \A f \in DOMAIN disk' : disk'[f] = IF f \in DOMAIN rest THEN rest[f] ELSE << >>
        /\ disk' \in [DOMAIN disk' -> Seq(Nat)]
    <3>1. CASE opened
      <4>1. disk' = [f \in DOMAIN rest \cup {filename} |-> IF f \in DOMAIN rest THEN rest[f] ELSE << >>]
        BY <2>4, <3>1 DEF Created
      <4> QED
        BY <2>3, <3>1, <4>1
    <3>2. CASE ~opened
      BY <2>3, <2>4, <3>2
    <3> QED
      BY <3>1, <3>2
  <2>6. /\ \A f \in DOMAIN disk' : fresh'[f] = IF opened /\ f = filename THEN 0 ELSE fresh[f]
        /\ DOMAIN fresh' = DOMAIN disk'
        /\ fresh' = [f \in DOMAIN disk' |-> fresh'[f]]
    BY <2>2
  <2>7. \A f \in DOMAIN disk' : f \in DOMAIN rest \/ (opened /\ f = filename)
    BY <2>5
  <2>8. ASSUME NEW f \in DOMAIN disk'
        PROVE  /\ fresh'[f] \in Nat
               /\ \/ disk'[f] = << >> /\ fresh'[f] = 0
                  \/ /\ f \in DOMAIN disk /\ disk'[f] = disk[f]
                     /\ \/ fresh'[f] = fresh[f] /\ (f \in kept => f \in kept')
                        \/ fresh'[f] = 0 /\ f \in kept'
    <3>1. CASE f \notin DOMAIN rest
      BY <2>5, <2>6, <2>7, <3>1
    <3>2. CASE f \in DOMAIN rest /\ f # filename
      <4>1. f \in DOMAIN disk /\ disk'[f] = disk[f] /\ fresh'[f] = fresh[f] /\ fresh[f] \in Nat
        BY <2>1, <2>3, <2>5, <2>6, <3>2
      <4>2. f \in kept => f \in kept'
        BY <2>2, <3>2
      <4> QED
        BY <4>1, <4>2
    <3>3. CASE f \in DOMAIN rest /\ f = filename
      <4>1. ~removed /\ f \in DOMAIN disk /\ disk'[f] = disk[f] /\ fresh[f] \in Nat
        BY <2>1, <2>3, <2>5, <3>3
      <4>2. CASE opened
        <5>1. f \in kept' /\ fresh'[f] = 0
          BY <2>2, <2>6, <3>3, <4>1, <4>2
        <5> QED
          BY <4>1, <5>1
      <4>3. CASE ~opened
        <5>1. kept' = kept /\ fresh'[f] = fresh[f]
          BY <2>2, <2>6, <4>1, <4>3
        <5> QED
          BY <4>1, <5>1
      <4> QED
        BY <4>2, <4>3
    <3> QED
      BY <3>1, <3>2, <3>3
  <2>9. /\ DOMAIN disk' \subseteq Paths
        /\ fd' = "open" => filename \in DOMAIN disk' /\ fresh'[filename] = 0
    <3>1. fd' = "open" => opened
      BY <2>2
    <3> QED
      BY <1>2, <2>1, <2>3, <2>5, <2>6, <3>1
  <2>10. fresh' \in [DOMAIN disk' -> Nat]
    BY <2>6, <2>8
  <2> QED
    BY <2>5, <2>8, <2>9, <2>10
<1>4. TypeOK'
  BY <1>1, <1>2, <1>3 DEF TypeOK, config
<1>5. since' \in [DOMAIN since' -> 0 .. Parts]
      /\ \A f \in DOMAIN since' : (f \in DOMAIN since /\ since'[f] = since[f])
                                   \/ (f = filename /\ f.part # NoPart /\ since'[f] = 0)
  <2>1. since \in [DOMAIN since -> 0 .. Parts] /\ 0 \in 0 .. Parts
    BY <1>1, PartsAssumption DEF HistoryTypes
  <2>2. CASE filename.part = NoPart
    BY <2>1, <2>2 DEF OpenFile
  <2>3. CASE filename.part # NoPart
    <3>1. since' = [f \in DOMAIN since \cup {filename} |-> IF f = filename THEN 0 ELSE since[f]]
      BY <2>3 DEF OpenFile
    <3> QED
      BY <2>1, <2>3, <3>1
  <2> QED
    BY <2>2, <2>3
<1>6. (HistoryTypes /\ FreshTypes)'
  <2>1. ASSUME NEW f \in DOMAIN disk'
        PROVE  fresh'[f] <= Len(disk'[f])
    <3>1. CASE fresh'[f] = 0
      BY <1>3, <3>1
    <3>2. CASE f \in DOMAIN disk /\ disk'[f] = disk[f] /\ fresh'[f] = fresh[f]
      BY <1>1, <3>2 DEF FreshTypes
    <3> QED
      BY <1>3, <3>1, <3>2
  <2> QED
    BY <1>1, <1>2, <1>3, <1>5, <2>1 DEF HistoryTypes, FreshTypes
<1>7. (NoneOnTheWay /\ CountsOn /\ PartOnTheWay)'
  BY <1>1, <1>2 DEF NoneOnTheWay, CountsOn, PartOnTheWay
<1>8. RetryCounted'
  BY <1>1, <1>2 DEF RetryCounted, TypeOK, HistoryTypes
<1>9. OpenFileFollows'
  <2>1. frame_counter' \in Nat
    BY <1>4, LimitFacts DEF TypeOK
  <2> QED
    BY <1>2, <1>3, <2>1 DEF OpenFileFollows, WholeUpTo
<1>10. (FilesWhole /\ SizeBound)'
  <2>1. ASSUME NEW f \in DOMAIN disk'
        PROVE  /\ Whole(disk'[f], fresh'[f], missed)
               /\ f \notin kept' => fresh'[f] = Len(disk'[f])
               /\ Len(disk'[f]) <= 2 * Limit
    <3>1. CASE disk'[f] = << >> /\ fresh'[f] = 0
      BY <3>1, LimitFacts DEF Whole
    <3>2. CASE f \in DOMAIN disk /\ disk'[f] = disk[f]
      <4>1. Whole(disk[f], fresh[f], missed) /\ Len(disk[f]) <= 2 * Limit
            /\ (f \notin kept => fresh[f] = Len(disk[f]))
        BY <1>1, <3>2 DEF FilesWhole, SizeBound, Whole
      <4>2. CASE fresh'[f] = fresh[f] /\ (f \in kept => f \in kept')
        BY <3>2, <4>1, <4>2
      <4>3. CASE fresh'[f] = 0 /\ f \in kept'
        BY <3>2, <4>1, <4>3 DEF Whole
      <4> QED
        BY <1>3, <3>1, <3>2, <4>2, <4>3
    <3> QED
      BY <1>3, <2>1, <3>1, <3>2
  <2> QED
    BY <1>2, <2>1 DEF FilesWhole, SizeBound, Limit, Whole
<1>11. (OneName /\ NameTaken)'
  BY <1>1, <1>2 DEF OneName, NameTaken, config
<1>12. SinceCounts'
  <2> SUFFICES ASSUME NEW f \in DOMAIN since'
               PROVE  /\ f.part \in 0 .. Parts - 1
                      /\ since'[f] < Parts => part_' = f.part + since'[f]
                                               \/ part_' = f.part + since'[f] - Parts
                      /\ since'[f] = 0 => fd' # "none"
    BY DEF SinceCounts
  <2>1. CASE f \in DOMAIN since /\ since'[f] = since[f]
    BY <1>1, <1>2, <2>1 DEF SinceCounts
  <2>2. CASE f = filename /\ f.part # NoPart /\ since'[f] = 0
    <3>1. f.part = part_ /\ part_' = part_ /\ part_ \in 0 .. Parts - 1
      BY <1>1, <1>2, <2>2 DEF PartOnTheWay, TypeOK
    <3>2. part_' = f.part + 0
      BY <3>1, PartsAssumption
    <3> QED
      BY <1>2, <2>2, <3>1, <3>2
  <2> QED
    BY <1>5, <2>1, <2>2
<1> QED
  BY <1>4, <1>6, <1>7, <1>8, <1>9, <1>10, <1>11, <1>12 DEF IInv

\* writeToFile and the count: the file goes on with the packet, and is closed in time.
LEMMA InvWriteAndCount ==
  ASSUME IInv, WriteAndCount
  PROVE  IInv'
<1>1. /\ TypeOK /\ HistoryTypes /\ FreshTypes /\ NoneOnTheWay /\ CountsOn /\ RetryCounted
      /\ OpenFileFollows /\ FilesWhole /\ SizeBound /\ OneName /\ NameTaken
      /\ SinceCounts /\ PartOnTheWay
  BY DEF IInv
<1>2. PICK items \in WritesPossible :
        /\ missed' = missed \cup (Range(Items) \ Range(items))
        /\ offset' = offset + Len(items)
        /\ disk' = IF fd = "bad" THEN disk
                   ELSE [disk EXCEPT ![filename] = Overwritten(@, offset, items)]
        /\ fresh' = IF fd = "bad" THEN fresh ELSE [fresh EXCEPT ![filename] = offset']
  BY DEF WriteAndCount
<1>3. /\ UNCHANGED <<config, filename, tried, settled, kept>>
      /\ at' = "idle" /\ packet' = packet + 1 /\ fd \in {"open", "bad"}
  BY <1>1 DEF WriteAndCount, NoneOnTheWay, TypeOK
<1>4. \/ /\ fd' = "none" /\ frame_counter' = 0 /\ part_' = NextPart
         /\ since' = [f \in DOMAIN since |-> IF since[f] < Parts THEN since[f] + 1 ELSE Parts]
      \/ /\ Counted < data_frames /\ frame_counter' = Counted
         /\ UNCHANGED <<fd, part_, since>>
  <2>1. data_frames \in Nat /\ Counted \in Nat
    BY <1>1, LimitFacts, DataFramesAssumption DEF TypeOK, Counted
  <2>2. ~(Counted >= data_frames) => Counted < data_frames
    BY <2>1
  <2> QED
    BY <2>2 DEF WriteAndCount, Closed
<1>5. /\ frame_counter \in Nat /\ frame_counter < Limit /\ Counted = frame_counter + 1
      /\ data_frames \in Nat /\ data_frames <= Limit /\ Limit \in Nat \ {0}
      /\ packet \in Nat /\ tried \in Nat /\ offset \in Nat /\ missed \subseteq Nat
  BY <1>1, LimitFacts, DataFramesAssumption DEF TypeOK, CountsOn, HistoryTypes, Counted
<1>6. frame_counter' \in 0 .. Limit /\ frame_counter' < Limit
  BY <1>4, <1>5
<1>7. missed' \subseteq Nat /\ missed \subseteq missed' /\ Len(items) \in 0 .. 2
  BY <1>2, <1>5, WriteFacts
<1>8. DOMAIN disk' = DOMAIN disk
  BY <1>1, <1>2 DEF TypeOK
<1>9. ASSUME fd = "open"
      PROVE  /\ Whole(disk'[filename], offset', missed')
             /\ WholeUpTo(disk'[filename], offset', 2 * (packet + 1), missed')
             /\ disk'[filename] \in Seq(Nat)
             /\ offset' = fresh'[filename] /\ offset' <= 2 * (frame_counter + 1)
             /\ Len(disk'[filename]) =
                  IF offset' > Len(disk[filename]) THEN offset' ELSE Len(disk[filename])
             /\ filename \in DOMAIN disk
             /\ \A f \in DOMAIN disk \ {filename} : disk'[f] = disk[f] /\ fresh'[f] = fresh[f]
  <2> DEFINE old == disk[filename]
  <2>1. filename \in DOMAIN disk /\ old \in Seq(Nat)
    BY <1>1, <1>9 DEF TypeOK, HistoryTypes
  <2>2. /\ offset = fresh[filename] /\ offset \in 0 .. Len(old) /\ offset <= 2 * frame_counter
        /\ WholeUpTo(old, offset, 2 * packet, missed)
    <3>1. fresh[filename] \in Nat /\ fresh[filename] <= Len(old)
      BY <1>1, <2>1 DEF FreshTypes
    <3> QED
      BY <1>1, <1>9, <2>1, <3>1 DEF OpenFileFollows
  <2>3. disk' = [disk EXCEPT ![filename] = Overwritten(old, offset, items)]
        /\ fresh' = [fresh EXCEPT ![filename] = offset']
    BY <1>2, <1>9
  <2>4. disk'[filename] = Overwritten(old, offset, items) /\ fresh'[filename] = offset'
    BY <1>1, <2>1, <2>3 DEF HistoryTypes, FreshTypes
  <2>5. Whole(old, offset, missed)
    BY <1>1, <2>1, <2>2 DEF FilesWhole, Whole
  <2>6. \A f \in DOMAIN disk \ {filename} : disk'[f] = disk[f] /\ fresh'[f] = fresh[f]
    BY <1>1, <2>3 DEF FreshTypes
  <2> HIDE DEF old
  <2>7. /\ Whole(disk'[filename], offset', missed')
        /\ WholeUpTo(disk'[filename], offset', 2 * (packet + 1), missed')
        /\ disk'[filename] \in Seq(Nat)
        /\ Len(disk'[filename]) = IF offset' > Len(old) THEN offset' ELSE Len(old)
    <3>1. missed' = missed \cup (Range(Items) \ Range(items)) /\ offset' = offset + Len(items)
      BY <1>2
    <3>2. packet \in Nat
      BY <1>5
    <3> QED
      <4>1. LET lost == missed \cup (Range(Items) \ Range(items))
                new == Overwritten(old, offset, items)
                m == offset + Len(items)
            IN /\ Whole(new, m, lost) /\ WholeUpTo(new, m, 2 * (packet + 1), lost)
               /\ new \in Seq(Nat) /\ Len(new) = IF m > Len(old) THEN m ELSE Len(old)
        BY <2>1, <2>2, <2>5, <3>2, WholeAfterWrite
      <4> QED
        BY <2>4, <3>1, <4>1
  <2>8. offset' <= 2 * (frame_counter + 1)
    <3>1. \A a, b \in Nat, c \in 0 .. 2 : a <= 2 * b => a + c <= 2 * (b + 1)
      OBVIOUS
    <3>2. frame_counter \in Nat /\ offset \in Nat /\ offset' = offset + Len(items)
      BY <1>2, <1>5
    <3> QED
      BY <1>7, <2>2, <3>1, <3>2
  <2> QED
    BY <2>1, <2>4, <2>6, <2>7, <2>8 DEF old
<1>10. ASSUME NEW f \in DOMAIN disk'
       PROVE  /\ disk'[f] \in Seq(Nat) /\ Whole(disk'[f], fresh'[f], missed')
              /\ fresh'[f] \in Nat /\ fresh'[f] <= Len(disk'[f])
              /\ f \notin kept' => fresh'[f] = Len(disk'[f])
              /\ Len(disk'[f]) <= 2 * Limit
  <2>0. /\ f \in DOMAIN disk /\ disk[f] \in Seq(Nat) /\ Len(disk[f]) <= 2 * Limit
        /\ fresh[f] \in Nat /\ fresh[f] <= Len(disk[f])
        /\ f \notin kept => fresh[f] = Len(disk[f])
    BY <1>1, <1>8 DEF HistoryTypes, SizeBound, FreshTypes, FilesWhole
  <2>1. CASE fd = "open" /\ f = filename
    <3>1. /\ disk'[f] \in Seq(Nat) /\ Whole(disk'[f], fresh'[f], missed') /\ fresh'[f] = offset'
          /\ Len(disk'[f]) = IF offset' > Len(disk[f]) THEN offset' ELSE Len(disk[f])
          /\ offset' <= 2 * (frame_counter + 1) /\ offset = fresh[f]
      BY <1>1, <1>9, <2>1 DEF OpenFileFollows
    <3>2. offset' \in Nat /\ offset' >= offset
      BY <1>2, <1>5, <1>7
    <3>3. 2 * (frame_counter + 1) <= 2 * Limit
      BY <1>5
    <3>4. Len(disk'[f]) <= 2 * Limit /\ fresh'[f] <= Len(disk'[f]) /\ fresh'[f] \in Nat
      <4>1. offset' <= 2 * Limit
        BY <1>5, <3>1, <3>2, <3>3
      <4>2. Len(disk[f]) \in Nat /\ Len(disk[f]) <= 2 * Limit
        BY <2>0
      <4> QED
        BY <3>1, <3>2, <4>1, <4>2
    <3>5. f \notin kept' => fresh'[f] = Len(disk'[f])
      BY <1>3, <2>0, <3>1, <3>2
    <3> QED
      BY <3>1, <3>4, <3>5
  <2>2. CASE ~(fd = "open" /\ f = filename)
    <3>1. disk'[f] = disk[f] /\ fresh'[f] = fresh[f]
      BY <1>2, <1>3, <1>9, <2>0, <2>2
    <3>2. Whole(disk[f], fresh[f], missed)
      BY <1>1, <2>0 DEF FilesWhole, Whole
    <3>3. Whole(disk[f], fresh[f], missed')
      BY <1>7, <3>2 DEF Whole
    <3> QED
      BY <1>3, <2>0, <3>1, <3>3
  <2> QED
    BY <2>1, <2>2
<1>11. part_ \in 0 .. Parts - 1 /\ NextPart \in 0 .. Parts - 1
       /\ (NextPart = part_ + 1 \/ NextPart = part_ + 1 - Parts)
  BY <1>1, NextPartFacts DEF TypeOK
<1>12. fd' = "none" \/ fd' = fd
  BY <1>4
<1>13. TypeOK'
  BY <1>1, <1>3, <1>4, <1>6, <1>8, <1>11, <1>12 DEF TypeOK, config
<1>14. (HistoryTypes /\ FreshTypes)'
  <2>1. since' \in [DOMAIN since' -> 0 .. Parts]
    BY <1>1, <1>4, PartsAssumption DEF HistoryTypes
  <2>2. disk' \in [DOMAIN disk' -> Seq(Nat)]
    BY <1>1, <1>2, <1>8, <1>10 DEF HistoryTypes
  <2>3. offset' \in Nat /\ packet' \in Nat
    BY <1>2, <1>3, <1>5, <1>7
  <2>4. fresh' \in [DOMAIN disk' -> Nat] /\ \A f \in DOMAIN disk' : fresh'[f] <= Len(disk'[f])
    <3>1. fresh' \in [DOMAIN disk' -> Nat] \/ fresh' = fresh
      BY <1>1, <1>2, <1>8, <2>3 DEF FreshTypes
    <3> QED
      BY <1>1, <1>8, <1>10, <3>1 DEF FreshTypes
  <2> QED
    BY <1>1, <1>3, <1>7, <2>1, <2>2, <2>3, <2>4 DEF HistoryTypes, FreshTypes
<1>15. (NoneOnTheWay /\ CountsOn /\ OneName /\ NameTaken /\ PartOnTheWay)'
  BY <1>3, <1>6 DEF NoneOnTheWay, CountsOn, OneName, NameTaken, PartOnTheWay, Limit
<1>16. RetryCounted'
  BY <1>1, <1>3, <1>4, <1>5 DEF RetryCounted
<1>17. OpenFileFollows'
  <2> SUFFICES ASSUME fd' = "open"
               PROVE  /\ offset' = fresh'[filename]
                      /\ offset' <= 2 * frame_counter'
                      /\ WholeUpTo(disk'[filename], offset', 2 * packet', missed')
    BY <1>3 DEF OpenFileFollows
  <2>1. fd = "open" /\ frame_counter' = frame_counter + 1
    BY <1>4, <1>5
  <2> QED
    BY <1>3, <1>9, <2>1
<1>18. (FilesWhole /\ SizeBound)'
  BY <1>10 DEF FilesWhole, SizeBound, Whole, Limit
<1>19. SinceCounts'
  <2>1. CASE UNCHANGED <<fd, part_, since>>
    BY <1>1, <2>1 DEF SinceCounts
  <2>2. CASE /\ fd' = "none" /\ part_' = NextPart
             /\ since' = [f \in DOMAIN since |-> IF since[f] < Parts THEN since[f] + 1 ELSE Parts]
    <3> SUFFICES ASSUME NEW f \in DOMAIN since
                 PROVE  /\ f.part \in 0 .. Parts - 1
                        /\ since'[f] < Parts => part_' = f.part + since'[f]
                                                 \/ part_' = f.part + since'[f] - Parts
                        /\ since'[f] # 0
      BY <2>2 DEF SinceCounts
    <3>1. since[f] \in 0 .. Parts /\ Parts \in Nat \ {0}
      BY <1>1, PartsAssumption DEF HistoryTypes
    <3>2. since'[f] = IF since[f] < Parts THEN since[f] + 1 ELSE Parts
      BY <2>2
    <3>3. /\ f.part \in 0 .. Parts - 1
          /\ since[f] < Parts => part_ = f.part + since[f] \/ part_ = f.part + since[f] - Parts
      BY <1>1 DEF SinceCounts
    <3> QED
      BY <1>11, <2>2, <3>1, <3>2, <3>3
  <2> QED
    BY <1>4, <2>1, <2>2
<1> QED
  BY <1>13, <1>14, <1>15, <1>16, <1>17, <1>18, <1>19 DEF IInv

LEMMA InvNext == IInv /\ [Next]_vars => IInv'
<1> SUFFICES ASSUME IInv, [Next]_vars
             PROVE  IInv'
  OBVIOUS
<1>1. CASE ReadConfig
  BY <1>1, InvReadConfig
<1>2. CASE Disabled \/ Restart
  BY <1>2, InvWithoutFile
<1>3. CASE TestExtend \/ CompareName \/ CopyName \/ ExtendName
  BY <1>3, InvChooseName
<1>4. CASE OpenFile
  BY <1>4, InvOpenFile
<1>5. CASE WriteAndCount
  BY <1>5, InvWriteAndCount
<1>6. CASE UNCHANGED vars
  <2>1. /\ UNCHANGED <<data_file_name, file_name_extend, data_frames, at, filename, fd>>
        /\ UNCHANGED <<frame_counter, part_, offset, disk, packet, missed, tried, since, settled>>
        /\ UNCHANGED <<fresh, kept, changes, faults>>
    BY <1>6 DEF vars, config, history
  <2>2. TypeOK' /\ HistoryTypes' /\ FreshTypes'
    BY <2>1 DEF IInv, TypeOK, HistoryTypes, FreshTypes
  <2>3. NoneOnTheWay' /\ CountsOn' /\ RetryCounted'
    BY <2>1 DEF IInv, NoneOnTheWay, CountsOn, RetryCounted
  <2>4. OpenFileFollows' /\ FilesWhole' /\ SizeBound'
    BY <2>1 DEF IInv, OpenFileFollows, WholeUpTo, FilesWhole, SizeBound
  <2>5. OneName' /\ NameTaken'
    BY <2>1 DEF IInv, OneName, NameTaken
  <2>6. SinceCounts' /\ PartOnTheWay'
    BY <2>1 DEF IInv, SinceCounts, PartOnTheWay
  <2> QED
    BY <2>2, <2>3, <2>4, <2>5, <2>6 DEF IInv
<1> QED
  BY <1>1, <1>2, <1>3, <1>4, <1>5, <1>6 DEF Next, WriteFile

LEMMA Invariant == Spec => []IInv
BY InvInit, InvNext, PTL DEF Spec

-----------------------------------------------------------------------------
(***************************************************************************)
(* Theorems.                                                               *)
(***************************************************************************)

\* The part number stays below Parts, the count below the largest data_frames, and a
\* file that is taken for open (and is not -1) exists.
THEOREM TypeCorrect == Spec => []TypeOK
<1>1. IInv => TypeOK
  BY DEF IInv
<1> QED
  BY <1>1, Invariant, PTL

\* A file holds a whole run of the packets write_file was given since it was opened,
\* but for writes that failed, although open does not truncate and fd may be -1, and
\* nothing behind it unless unlink failed.
THEOREM FilesAreWhole == Spec => []FilesWhole
<1>1. IInv => FilesWhole
  BY DEF IInv
<1> QED
  BY <1>1, Invariant, PTL

\* No file gets larger than the largest data_frames, whenever that or the name changes.
THEOREM FilesAreBounded == Spec => []SizeBound
<1>1. IInv => SizeBound
  BY DEF IInv
<1> QED
  BY <1>1, Invariant, PTL

\* After an open that failed, the next one comes within data_frames packets.
THEOREM OpenIsRetried == Spec => []RetriesInTime
<1>1. IInv => RetriesInTime
  <2> SUFFICES ASSUME IInv, fd = "bad"
               PROVE  packet - tried <= Limit
    BY DEF RetriesInTime
  <2>1. packet - tried <= frame_counter /\ frame_counter < Limit
    BY DEF IInv, RetryCounted, CountsOn
  <2>2. packet \in Nat /\ tried \in Nat /\ frame_counter \in Nat /\ Limit \in Nat
    BY LimitFacts DEF IInv, HistoryTypes, TypeOK
  <2> QED
    BY <2>1, <2>2
<1> QED
  BY <1>1, Invariant, PTL

\* A packet that no change of the configuration overlaps goes to the configured name.
THEOREM FileFollowsName == Spec => []FollowsName
<1>1. IInv => FollowsName
  BY DEF IInv, NameTaken, FollowsName
<1> QED
  BY <1>1, Invariant, PTL

\* A part file is not opened, and so emptied, again before Parts rotations.
THEOREM PartsAreKept == Spec => PartsKept
<1>1. ASSUME IInv, at = "open", filename \in DOMAIN since
      PROVE  since[filename] >= Parts
  <2>1. /\ filename.part \in 0 .. Parts - 1
        /\ since[filename] < Parts => \/ part_ = filename.part + since[filename]
                                      \/ part_ = filename.part + since[filename] - Parts
        /\ since[filename] = 0 => fd # "none"
    BY <1>1 DEF IInv, SinceCounts
  <2>2. fd = "none" /\ (filename.part # NoPart => filename.part = part_)
    BY <1>1 DEF IInv, NoneOnTheWay, PartOnTheWay
  <2>3. since[filename] \in 0 .. Parts /\ Parts \in Nat
    BY <1>1, PartsAssumption DEF IInv, HistoryTypes
  <2>4. filename.part = part_ /\ filename.part \in Nat
    <3>1. filename.part \in Nat
      BY <2>1, <2>3
    <3>2. filename.part # NoPart
      BY <3>1 DEF NoPart
    <3> QED
      BY <2>2, <3>1, <3>2
  <2>5. CASE since[filename] < Parts
    <3>1. since[filename] = 0
      BY <2>1, <2>3, <2>4, <2>5
    <3> QED
      BY <2>1, <2>2, <3>1
  <2> QED
    BY <2>3, <2>5
<1>2. IInv /\ [Next]_vars =>
        [at = "open" /\ at' = "write" /\ filename \in DOMAIN since => since[filename] >= Parts]_vars
  BY <1>1
<1> QED
  BY <1>2, Invariant, PTL DEF Spec, PartsKept

=============================================================================
