--------------------------- MODULE AveragerProofs ---------------------------
(***************************************************************************)
(* Proofs about filter and averaging, for every length of the ring, every  *)
(* word that is a multiple of it, every configuration and any number of    *)
(* frames.                                                                 *)
(***************************************************************************)
EXTENDS Averager, TLAPS

(***************************************************************************)
(* The inductive invariant.                                                *)
(***************************************************************************)

\* The filter as the next frame finds it.
Current == IF F.order_n # filter_order THEN ClearedFilter ELSE F

\* average_counter counts the frames since it was set to 0, in a word.
CountIsAge == average_counter = (frames - restart) % Word

\* While the configuration stays, the current record of a flat average sums up the
\* frames since the last one ended, and samples_since_clear counts them in its word.
FlatSum ==
  changed <= restart /\ filter_order = -1 =>
    /\ Current.yd[Current.bn] = restart + 1 .. frames
    /\ Current.samples_since_clear = (frames - restart) % Word

\* What a record holds that was written some frames ago, or cleared since.
FromFrame(n) == IF n > cleared THEN <<n, {n}>> ELSE <<0, {}>>

\* The ring of a general filter holds the last frames, in order; a filter that will
\* be cleared by the next frame counts as cleared already.
RingInOrder ==
  filter_order # -1 =>
    /\ F.order_n # filter_order => frames = cleared
    /\ \A r \in Index :
         LET nx == RecordBefore(Current.bn, r)
         IN <<Current.xd[nx], Current.yd[nx]>> = FromFrame(frames - r)

IInv ==
  /\ TypeOK
  /\ CountIsAge
  /\ FlatSum
  /\ RingInOrder
  /\ OnTime
  /\ PacketWhole

-----------------------------------------------------------------------------
(***************************************************************************)
(* Words and the ring.                                                     *)
(***************************************************************************)

LEMMA Division ==
  ASSUME NEW n \in Nat \ {0}, NEW x \in Int
  PROVE  /\ x % n \in 0 .. n - 1 /\ x \div n \in Int
         /\ x = (n * (x \div n)) + (x % n)
OBVIOUS

LEMMA ModUnique ==
  ASSUME NEW n \in Nat \ {0}, NEW q \in Int, NEW r \in 0 .. n - 1
  PROVE  ((n * q) + r) % n = r
OBVIOUS

\* A number that is small enough is its own remainder.
LEMMA ModSmall ==
  ASSUME NEW n \in Nat \ {0}, NEW x \in 0 .. n - 1
  PROVE  x % n = x
<1>1. x = (n * 0) + x
  OBVIOUS
<1> QED
  BY <1>1, ModUnique

\* A remainder is not larger, and n more leaves it.
LEMMA ModFacts ==
  ASSUME NEW n \in Nat \ {0}, NEW x \in Int
  PROVE  /\ x % n \in 0 .. n - 1
         /\ x \in Nat => x % n <= x
         /\ (x + n) % n = x % n
<1> DEFINE q == x \div n
           m == x % n
<1>1. m \in 0 .. n - 1 /\ q \in Int /\ x = (n * q) + m
  BY Division
<1>2. ASSUME x \in 0 .. n - 1
      PROVE  x % n = x
  BY <1>2, ModSmall
<1>3. x \in Nat => m <= x
  BY <1>1, <1>2
<1>4. (x + n) % n = m
  <2> HIDE DEF q, m
  <2>1. x + n = (n * (q + 1)) + m
    BY <1>1
  <2>2. ((n * (q + 1)) + m) % n = m
    BY <1>1, ModUnique
  <2> QED
    BY <2>1, <2>2
<1> QED
  BY <1>1, <1>2, <1>3, <1>4

\* Counting on in a word is counting on.
LEMMA ModNext ==
  ASSUME NEW n \in Nat \ {0}, NEW x \in Int
  PROVE  ((x % n) + 1) % n = (x + 1) % n
<1> DEFINE q == x \div n
           m == x % n
<1>1. m \in 0 .. n - 1 /\ q \in Int /\ x = (n * q) + m
  BY Division
<1> HIDE DEF q, m
<1>2. CASE m + 1 < n
  <2>1. m + 1 \in 0 .. n - 1 /\ x + 1 = (n * q) + (m + 1)
    BY <1>1, <1>2
  <2>2. ((n * q) + (m + 1)) % n = m + 1
    BY <1>1, <2>1, ModUnique
  <2>3. (m + 1) % n = m + 1
    BY <1>1, <2>1, ModSmall
  <2> QED
    BY <2>1, <2>2, <2>3 DEF m
<1>3. CASE m + 1 = n
  <2>1. x + 1 = (n * (q + 1)) + 0
    BY <1>1, <1>3
  <2>2. ((n * (q + 1)) + 0) % n = 0
    BY <1>1, ModUnique
  <2>3. m + 1 = (n * 1) + 0
    BY <1>1, <1>3
  <2>4. ((n * 1) + 0) % n = 0
    BY ModUnique
  <2> QED
    BY <2>1, <2>2, <2>3, <2>4 DEF m
<1> QED
  BY <1>1, <1>2, <1>3

LEMMA WordFacts ==
  /\ Records \in Nat \ {0} /\ Word \in Nat \ {0} /\ Records < Word
  /\ \E q \in Nat : Word = Records * q
<1>1. Records \in Nat \ {0} /\ Word \in Nat \ {0} /\ Records < Word /\ Word % Records = 0
  BY RingAssumption
<1>2. Word = Records * (Word \div Records) /\ Word \div Records \in Nat
  BY <1>1
<1> QED
  BY <1>1, <1>2

\* A number of averages is 0 as an unsigned count only when it is 0.
LEMMA NumberNotZero ==
  ASSUME NEW n \in Averages, n # 0
  PROVE  n % Word # 0
<1>1. n \in -(Word \div 2) .. (Word \div 2) - 1 /\ Word \in Nat \ {0}
  BY ConfigAssumption, WordFacts
<1>2. n \in Int /\ -Word < n /\ n < Word
  BY <1>1
<1>3. CASE n > 0
  <2>1. n \in 0 .. Word - 1
    BY <1>1, <1>2, <1>3
  <2> QED
    BY <1>1, <1>3, <2>1, ModSmall
<1>4. CASE n < 0
  <2>1. n + Word \in 0 .. Word - 1 /\ n + Word # 0
    BY <1>1, <1>2, <1>4
  <2>2. (n + Word) % Word = n + Word
    BY <1>1, <2>1, ModSmall
  <2>3. (n + Word) % Word = n % Word
    BY <1>1, <1>2, ModFacts
  <2> QED
    BY <2>1, <2>2, <2>3
<1> QED
  BY <1>2, <1>3, <1>4

\* The unsigned index is the record that is r behind, round the ring's end.
LEMMA RecordBeforeIs ==
  ASSUME NEW n \in Index, NEW r \in Index
  PROVE  RecordBefore(n, r) = IF r <= n THEN n - r ELSE n - r + Records
<1>1. n \in Nat /\ r \in Nat /\ n < Records /\ r < Records /\ n - r \in Int
  BY WordFacts DEF Index
<1>2. CASE r <= n
  <2>1. n - r \in 0 .. Word - 1 /\ n - r \in 0 .. Records - 1
    BY <1>1, <1>2, WordFacts
  <2>2. (n - r) % Word = n - r
    BY <2>1, WordFacts, ModSmall
  <2>3. (n - r) % Records = n - r
    BY <2>1, WordFacts, ModSmall
  <2> QED
    BY <1>2, <2>2, <2>3 DEF RecordBefore
<1>3. CASE n < r
  <2>1. PICK q \in Nat : Word = Records * q
    BY WordFacts
  <2>2. n - r + Word \in 0 .. Word - 1
    BY <1>1, <1>3, WordFacts
  <2>3. (n - r) % Word = n - r + Word
    <3>1. (n - r + Word) % Word = (n - r) % Word
      BY <1>1, WordFacts, ModFacts
    <3>2. (n - r + Word) % Word = n - r + Word
      BY <2>2, WordFacts, ModSmall
    <3> QED
      BY <3>1, <3>2
  <2>4. n - r + Records \in 0 .. Records - 1 /\ q - 1 \in Int
    BY <1>1, <1>3, WordFacts
  <2>5. n - r + Word = (Records * (q - 1)) + (n - r + Records)
    BY <1>1, <2>1, WordFacts
  <2>6. (n - r + Word) % Records = n - r + Records
    <3>1. ((Records * (q - 1)) + (n - r + Records)) % Records = n - r + Records
      BY <2>4, WordFacts, ModUnique
    <3> QED
      BY <2>5, <3>1
  <2> QED
    BY <1>1, <1>3, <2>3, <2>6 DEF RecordBefore
<1> QED
  BY <1>1, <1>2, <1>3

LEMMA NextRecordIs ==
  ASSUME NEW n \in Index
  PROVE  /\ NextRecord(n) \in Index
         /\ NextRecord(n) = IF n + 1 = Records THEN 0 ELSE n + 1
<1>1. n \in Nat /\ n + 1 <= Records /\ Records \in Nat \ {0}
  BY WordFacts DEF Index
<1>2. CASE n + 1 = Records
  BY <1>1, <1>2 DEF NextRecord, Index
<1>3. CASE n + 1 < Records
  <2>1. n + 1 \in 0 .. Records - 1
    BY <1>1, <1>3
  <2>2. (n + 1) % Records = n + 1
    BY <1>1, <2>1, ModSmall
  <2> QED
    BY <1>3, <2>1, <2>2 DEF NextRecord, Index
<1> QED
  BY <1>1, <1>2, <1>3

\* From the next record, the records behind are the current one and those behind it.
LEMMA BeforeNext ==
  ASSUME NEW n \in Index, NEW r \in Index
  PROVE  /\ RecordBefore(n, r) \in Index
         /\ r = 0 => RecordBefore(NextRecord(n), r) = NextRecord(n)
         /\ r # 0 => /\ r - 1 \in Index
                     /\ RecordBefore(NextRecord(n), r) = RecordBefore(n, r - 1)
                     /\ RecordBefore(NextRecord(n), r) # NextRecord(n)
<1>1. n \in Nat /\ r \in Nat /\ n < Records /\ r < Records /\ Records \in Nat
  BY WordFacts DEF Index
<1>2. RecordBefore(n, r) \in Index
  <2>1. RecordBefore(n, r) = IF r <= n THEN n - r ELSE n - r + Records
    BY RecordBeforeIs
  <2> QED
    BY <1>1, <2>1 DEF Index
<1>3. NextRecord(n) \in Index /\ NextRecord(n) = IF n + 1 = Records THEN 0 ELSE n + 1
  BY NextRecordIs
<1>4. RecordBefore(NextRecord(n), r) =
        IF r <= NextRecord(n) THEN NextRecord(n) - r ELSE NextRecord(n) - r + Records
  BY <1>3, RecordBeforeIs
<1>5. r = 0 => RecordBefore(NextRecord(n), r) = NextRecord(n)
  BY <1>1, <1>3, <1>4
<1>6. ASSUME r # 0
      PROVE  /\ r - 1 \in Index
             /\ RecordBefore(NextRecord(n), r) = RecordBefore(n, r - 1)
             /\ RecordBefore(NextRecord(n), r) # NextRecord(n)
  <2>1. r - 1 \in Index
    BY <1>1, <1>6 DEF Index
  <2>2. RecordBefore(n, r - 1) = IF r - 1 <= n THEN n - (r - 1) ELSE n - (r - 1) + Records
    BY <2>1, RecordBeforeIs
  <2> QED
    BY <1>1, <1>3, <1>4, <1>6, <2>1, <2>2
<1> QED
  BY <1>2, <1>5, <1>6

-----------------------------------------------------------------------------
(***************************************************************************)
(* The filter.                                                             *)
(***************************************************************************)

Filters ==
  [order_n : -1 .. Records - 1, samples_since_clear : 0 .. Word - 1, bn : Index,
   xd : [Index -> 0 .. MaxFrames], yd : [Index -> SUBSET (1 .. MaxFrames)]]

LEMMA ClearedFacts ==
  /\ ClearedFilter \in Filters
  /\ ClearedFilter.order_n = -1 /\ ClearedFilter.samples_since_clear = 0
  /\ ClearedFilter.bn = 0 /\ ClearedFilter.bn \in Index
  /\ \A i \in Index : ClearedFilter.xd[i] = 0 /\ ClearedFilter.yd[i] = {}
BY WordFacts, BoundAssumption DEF ClearedFilter, Filters, Index

LEMMA OrderFacts ==
  TypeOK => filter_order \in -1 .. Records - 1 /\ num_averages \in Int
BY ConfigAssumption DEF TypeOK

\* The filter that the next frame finds.
LEMMA CurrentFacts ==
  ASSUME TypeOK
  PROVE  /\ Current \in Filters /\ Current.samples_since_clear \in 0 .. Word - 1
         /\ Current.bn \in Index
<1>1. F \in Filters /\ frames \in Nat
  BY DEF TypeOK, Filters
<1>2. Current \in Filters
  BY <1>1, ClearedFacts DEF Current
<1> QED
  BY <1>2 DEF Filters

\* A filter is the record of its fields.
LEMMA FilterFields ==
  ASSUME NEW C \in Filters
  PROVE  /\ C = [order_n |-> C.order_n, samples_since_clear |-> C.samples_since_clear,
                bn |-> C.bn, xd |-> C.xd, yd |-> C.yd]
         /\ C.xd \in [Index -> 0 .. MaxFrames] /\ C.yd \in [Index -> SUBSET (1 .. MaxFrames)]
         /\ C.bn \in Index
BY DEF Filters

\* What filter makes of it: an average goes on, or a record is added.
LEMMA FilterFacts ==
  ASSUME TypeOK, frames < MaxFrames,
         NEW P, P = filter(filter_order, frames + 1)
  PROVE  /\ P \in Filters /\ P.order_n = filter_order
         /\ P.samples_since_clear = (Current.samples_since_clear + 1) % Word
         /\ filter_order = -1 => P.yd[P.bn] = Current.yd[Current.bn] \cup {frames + 1}
         /\ filter_order # -1 =>
              /\ P.bn = NextRecord(Current.bn)
              /\ \A i \in Index : P.xd[i] = IF i = P.bn THEN frames + 1 ELSE Current.xd[i]
              /\ \A i \in Index : P.yd[i] = IF i = P.bn THEN {frames + 1} ELSE Current.yd[i]
<1> DEFINE G == Prepared(filter_order)
<1>1. /\ Current \in Filters /\ Current.samples_since_clear \in 0 .. Word - 1
      /\ frames \in Nat /\ frames + 1 \in 1 .. MaxFrames
      /\ filter_order \in -1 .. Records - 1 /\ Current.bn \in Index
  BY CurrentFacts, OrderFacts, BoundAssumption DEF TypeOK
<1>2. G = [Current EXCEPT !.order_n = filter_order, !.samples_since_clear = (@ + 1) % Word]
  BY DEF Prepared, Current
<1>3. /\ G \in Filters /\ G.order_n = filter_order
      /\ G.samples_since_clear = (Current.samples_since_clear + 1) % Word
      /\ G.bn = Current.bn /\ G.xd = Current.xd /\ G.yd = Current.yd
  <2> DEFINE C == Current
  <2>1. /\ C = [order_n |-> C.order_n, samples_since_clear |-> C.samples_since_clear, bn |-> C.bn,
                xd |-> C.xd, yd |-> C.yd]
        /\ C.xd \in [Index -> 0 .. MaxFrames] /\ C.yd \in [Index -> SUBSET (1 .. MaxFrames)]
        /\ C.bn \in Index
    BY <1>1, FilterFields
  <2>3. (C.samples_since_clear + 1) % Word \in 0 .. Word - 1
    <3>1. C.samples_since_clear + 1 \in Int
      BY <1>1
    <3> DEFINE x == C.samples_since_clear + 1
    <3> HIDE DEF x
    <3>2. x \in Int => x % Word \in 0 .. Word - 1
      BY WordFacts, ModFacts
    <3> QED
      BY <3>1, <3>2 DEF x
  <2> HIDE DEF C
  <2>2. G = [order_n |-> filter_order, samples_since_clear |-> (C.samples_since_clear + 1) % Word, bn |-> C.bn,
             xd |-> C.xd, yd |-> C.yd]
    BY <1>2, <2>1 DEF C
  <2> HIDE DEF G
  <2> QED
    BY <1>1, <2>1, <2>2, <2>3 DEF Filters, C
<1> HIDE DEF G
<1>4. CASE filter_order = -1
  <2>1. P = [G EXCEPT !.yd[G.bn] = @ \cup {frames + 1}]
    BY <1>4 DEF filter, Summed, G
  <2>2. G.yd \in [Index -> SUBSET (1 .. MaxFrames)] /\ G.bn \in Index
    BY <1>3 DEF Filters
  <2>3. P.yd = [G.yd EXCEPT ![G.bn] = @ \cup {frames + 1}] /\ P.bn = G.bn
    BY <1>3, <2>1 DEF Filters
  <2>4. P.yd \in [Index -> SUBSET (1 .. MaxFrames)]
    BY <1>1, <2>2, <2>3
  <2>5. P \in Filters /\ P.order_n = G.order_n /\ P.samples_since_clear = G.samples_since_clear
    BY <1>3, <2>1, <2>3, <2>4 DEF Filters
  <2> QED
    BY <1>3, <1>4, <2>2, <2>3, <2>5
<1>5. CASE filter_order # -1
  <2> DEFINE n == NextRecord(G.bn)
  <2>1. P = [G EXCEPT !.bn = n, !.xd[n] = frames + 1, !.yd[n] = {frames + 1}]
    BY <1>5 DEF filter, Pushed, G
  <2>2. /\ G.yd \in [Index -> SUBSET (1 .. MaxFrames)] /\ G.xd \in [Index -> 0 .. MaxFrames]
        /\ n \in Index
    BY <1>1, <1>3, NextRecordIs DEF Filters
  <2> HIDE DEF n
  <2>3. /\ P.xd = [G.xd EXCEPT ![n] = frames + 1] /\ P.yd = [G.yd EXCEPT ![n] = {frames + 1}]
        /\ P.bn = n /\ P.order_n = G.order_n /\ P.samples_since_clear = G.samples_since_clear
        /\ P = [order_n |-> P.order_n, samples_since_clear |-> P.samples_since_clear,
                bn |-> P.bn, xd |-> P.xd, yd |-> P.yd]
    BY <1>3, <2>1 DEF Filters
  <2>4. P.xd \in [Index -> 0 .. MaxFrames] /\ P.yd \in [Index -> SUBSET (1 .. MaxFrames)]
    BY <1>1, <2>2, <2>3
  <2>5. P \in Filters
    BY <1>3, <2>2, <2>3, <2>4 DEF Filters
  <2>6. /\ \A i \in Index : P.xd[i] = IF i = n THEN frames + 1 ELSE G.xd[i]
        /\ \A i \in Index : P.yd[i] = IF i = n THEN {frames + 1} ELSE G.yd[i]
    BY <2>2, <2>3
  <2>7. n = NextRecord(Current.bn)
    BY <1>3 DEF n
  <2>8. P.bn = NextRecord(Current.bn)
    BY <2>3, <2>7
  <2>9. /\ \A i \in Index : P.xd[i] = IF i = P.bn THEN frames + 1 ELSE Current.xd[i]
        /\ \A i \in Index : P.yd[i] = IF i = P.bn THEN {frames + 1} ELSE Current.yd[i]
    <3>1. P.bn = n /\ G.xd = Current.xd /\ G.yd = Current.yd
      BY <1>3, <2>3
    <3> QED
      BY <2>6, <3>1
  <2>10. P.order_n = filter_order /\ P.samples_since_clear = (Current.samples_since_clear + 1) % Word
    BY <1>3, <2>3
  <2> QED
    BY <1>5, <2>5, <2>8, <2>9, <2>10
<1> QED
  BY <1>4, <1>5

\* The ring after a frame of a general filter: every record has moved one further back.
LEMMA PushedInOrder ==
  ASSUME TypeOK, RingInOrder, frames < MaxFrames, filter_order # -1,
         NEW P, P = filter(filter_order, frames + 1), NEW r \in Index
  PROVE  LET nx == RecordBefore(P.bn, r)
         IN <<P.xd[nx], P.yd[nx]>> = FromFrame(frames + 1 - r)
<1>1. /\ P.bn = NextRecord(Current.bn) /\ P.bn \in Index /\ Current.bn \in Index
      /\ \A i \in Index : P.xd[i] = IF i = P.bn THEN frames + 1 ELSE Current.xd[i]
      /\ \A i \in Index : P.yd[i] = IF i = P.bn THEN {frames + 1} ELSE Current.yd[i]
      /\ frames \in Nat /\ cleared \in 0 .. frames /\ r \in Nat
  <2>1. Current.bn \in Index
    BY CurrentFacts
  <2>2. frames \in Nat /\ cleared \in 0 .. frames /\ r \in Nat
    BY DEF TypeOK, Index
  <2>3. /\ P.bn = NextRecord(Current.bn)
        /\ \A i \in Index : P.xd[i] = IF i = P.bn THEN frames + 1 ELSE Current.xd[i]
        /\ \A i \in Index : P.yd[i] = IF i = P.bn THEN {frames + 1} ELSE Current.yd[i]
    BY FilterFacts
  <2>4. P.bn \in Index
    BY <2>1, <2>3, NextRecordIs
  <2> QED
    BY <2>1, <2>2, <2>3, <2>4
<1>2. CASE r = 0
  <2>1. RecordBefore(P.bn, r) = P.bn
    BY <1>1, <1>2, BeforeNext
  <2>2. frames + 1 - r > cleared /\ frames + 1 - r = frames + 1
    BY <1>1, <1>2
  <2> QED
    BY <1>1, <2>1, <2>2 DEF FromFrame
<1>3. CASE r # 0
  <2>1. /\ r - 1 \in Index /\ RecordBefore(P.bn, r) = RecordBefore(Current.bn, r - 1)
        /\ RecordBefore(P.bn, r) # P.bn
    <3>1. /\ r - 1 \in Index
          /\ RecordBefore(NextRecord(Current.bn), r) = RecordBefore(Current.bn, r - 1)
          /\ RecordBefore(NextRecord(Current.bn), r) # NextRecord(Current.bn)
      BY <1>1, <1>3, BeforeNext
    <3> QED
      BY <1>1, <3>1
  <2>2. RecordBefore(Current.bn, r - 1) \in Index
    BY <1>1, <2>1, BeforeNext
  <2>3. LET nx == RecordBefore(Current.bn, r - 1)
        IN <<Current.xd[nx], Current.yd[nx]>> = FromFrame(frames - (r - 1))
    BY <2>1 DEF RingInOrder
  <2>4. frames - (r - 1) = frames + 1 - r
    BY <1>1
  <2>5. LET nx == RecordBefore(Current.bn, r - 1)
        IN nx # P.bn /\ P.xd[nx] = Current.xd[nx] /\ P.yd[nx] = Current.yd[nx]
    BY <1>1, <2>1, <2>2
  <2> QED
    BY <2>1, <2>3, <2>4, <2>5
<1> QED
  BY <1>2, <1>3

-----------------------------------------------------------------------------
(***************************************************************************)
(* A frame.                                                                *)
(***************************************************************************)

\* What Process does, with the names of its local definitions.
LEMMA ProcessFacts ==
  ASSUME NEW sync \in BOOLEAN, NEW clear \in BOOLEAN, NEW read \in BOOLEAN,
         Process(sync, clear, read), TypeOK,
         NEW P, P = filter(filter_order, frames + 1),
         NEW count, count = (average_counter + 1) % Word
  PROVE  /\ frames < MaxFrames /\ frames' = frames + 1 /\ taps' = TapsOf(P, filter_order)
         /\ num_averages' \in Averages /\ filter_order' \in Orders /\ streaming' \in BOOLEAN
         /\ changed' = IF num_averages' # num_averages \/ filter_order' # filter_order
                         THEN frames + 1 ELSE changed
         /\ cleared' = IF clear \/ filter_order' # filter_order THEN frames + 1 ELSE cleared
         /\ IF Done(count, num_averages, sync) \/ clear
              THEN average_counter' = 0 /\ restart' = frames + 1
              ELSE average_counter' = count /\ restart' = restart
         /\ F' = IF clear \/ (Done(count, num_averages, sync) /\ P.order_n = -1)
                   THEN ClearedFilter ELSE P
         /\ \/ packet' = packet
            \/ /\ Done(count, num_averages, sync)
               /\ packet' = [at |-> frames + 1, of |-> P.yd[P.bn], over |-> P.samples_since_clear,
                             count |-> count, order |-> filter_order,
                             whole |-> changed <= restart, from |-> restart]
<1> DEFINE done == Done(count, num_averages, sync)
           kept == IF clear THEN ClearedFilter ELSE P
<1>1. /\ frames < MaxFrames /\ frames' = frames + 1 /\ taps' = TapsOf(P, filter_order)
      /\ average_counter' = IF clear THEN clear_average(IF done THEN 0 ELSE count)
                            ELSE IF done THEN 0 ELSE count
      /\ IF read THEN ReadConfig ELSE UNCHANGED config
      /\ F' = IF done THEN end_run(kept) ELSE kept
      /\ packet' = IF done /\ streaming'
                     THEN [at |-> frames + 1, of |-> P.yd[P.bn], over |-> P.samples_since_clear,
                           count |-> count, order |-> filter_order,
                           whole |-> changed <= restart, from |-> restart]
                     ELSE packet
      /\ restart' = IF done \/ clear THEN frames + 1 ELSE restart
      /\ cleared' = IF clear \/ filter_order' # filter_order THEN frames + 1 ELSE cleared
      /\ changed' = IF <<num_averages', filter_order'>> # <<num_averages, filter_order>>
                      THEN frames + 1 ELSE changed
  BY DEF Process
<1> HIDE DEF done
<1>2. num_averages' \in Averages /\ filter_order' \in Orders /\ streaming' \in BOOLEAN
  BY <1>1 DEF ReadConfig, config, TypeOK
<1>3. <<num_averages', filter_order'>> = <<num_averages, filter_order>>
        <=> num_averages' = num_averages /\ filter_order' = filter_order
  OBVIOUS
<1>4. IF done \/ clear
        THEN average_counter' = 0 /\ restart' = frames + 1
        ELSE average_counter' = count /\ restart' = restart
  BY <1>1 DEF clear_average
<1>5. F' = IF clear \/ (done /\ P.order_n = -1) THEN ClearedFilter ELSE P
  BY <1>1, ClearedFacts DEF end_run
<1> QED
  BY <1>1, <1>2, <1>3, <1>4, <1>5 DEF done

-----------------------------------------------------------------------------
(***************************************************************************)
(* The invariant holds in the first state, and every frame keeps it.       *)
(***************************************************************************)

LEMMA InvInit == Init => IInv
<1> SUFFICES ASSUME Init
             PROVE  IInv
  OBVIOUS
<1>1. TypeOK
  BY ClearedFacts, RingAssumption, BoundAssumption DEF Init, TypeOK, Filters
<1>2. Current = ClearedFilter
  BY DEF Init, Current
<1>3. Records \in Nat \ {0} /\ Word \in Nat \ {0}
  BY WordFacts
<1>4. CountIsAge
  BY <1>3, ModSmall DEF Init, CountIsAge
<1>5. FlatSum
  BY <1>2, <1>3, ClearedFacts, ModSmall DEF Init, FlatSum
<1>6. RingInOrder
  <2>1. ASSUME NEW r \in Index
        PROVE  LET nx == RecordBefore(Current.bn, r)
               IN <<Current.xd[nx], Current.yd[nx]>> = FromFrame(frames - r)
    <3>1. RecordBefore(Current.bn, r) \in Index
      BY <1>2, <2>1, ClearedFacts, BeforeNext
    <3>2. r \in Nat /\ ~(frames - r > cleared)
      BY <2>1 DEF Index, Init
    <3> QED
      BY <1>2, <3>1, <3>2, ClearedFacts DEF FromFrame
  <2> QED
    BY <2>1 DEF RingInOrder, Init
<1>7. OnTime
  BY OrderFacts, <1>1 DEF OnTime, Init
<1>8. PacketWhole
  BY DEF PacketWhole, Init, NoPacket
<1> QED
  BY <1>1, <1>4, <1>5, <1>6, <1>7, <1>8 DEF IInv

LEMMA InvProcess ==
  ASSUME NEW sync \in BOOLEAN, NEW clear \in BOOLEAN, NEW read \in BOOLEAN,
         Process(sync, clear, read), IInv
  PROVE  IInv'
<1> DEFINE P == filter(filter_order, frames + 1)
           count == (average_counter + 1) % Word
           done == Done(count, num_averages, sync)
<1>1. /\ TypeOK /\ CountIsAge /\ FlatSum /\ RingInOrder
      /\ OnTime /\ PacketWhole
  BY DEF IInv
<1>2. /\ frames < MaxFrames /\ frames' = frames + 1
      /\ num_averages' \in Averages /\ filter_order' \in Orders /\ streaming' \in BOOLEAN
      /\ changed' = IF num_averages' # num_averages \/ filter_order' # filter_order
                      THEN frames + 1 ELSE changed
      /\ cleared' = IF clear \/ filter_order' # filter_order THEN frames + 1 ELSE cleared
      /\ IF done \/ clear
           THEN average_counter' = 0 /\ restart' = frames + 1
           ELSE average_counter' = count /\ restart' = restart
      /\ F' = IF clear \/ (done /\ P.order_n = -1) THEN ClearedFilter ELSE P
      /\ \/ packet' = packet
         \/ /\ done
            /\ packet' = [at |-> frames + 1, of |-> P.yd[P.bn], over |-> P.samples_since_clear,
                          count |-> count, order |-> filter_order,
                          whole |-> changed <= restart, from |-> restart]
  BY <1>1, ProcessFacts
<1>3. /\ P \in Filters /\ P.order_n = filter_order
      /\ P.samples_since_clear = (Current.samples_since_clear + 1) % Word
      /\ filter_order = -1 => P.yd[P.bn] = Current.yd[Current.bn] \cup {frames + 1}
  BY <1>1, <1>2, FilterFacts
<1>4. ASSUME filter_order # -1, NEW r \in Index
      PROVE  LET nx == RecordBefore(P.bn, r)
             IN <<P.xd[nx], P.yd[nx]>> = FromFrame(frames + 1 - r)
  BY <1>1, <1>2, <1>4, PushedInOrder
<1>5. /\ frames \in Nat /\ MaxFrames \in Nat /\ num_averages \in Int /\ num_averages' \in Int
      /\ restart \in 0 .. frames /\ cleared \in 0 .. frames /\ changed \in 0 .. frames
      /\ average_counter \in Nat /\ Word \in Nat \ {0}
  BY <1>1, <1>2, WordFacts, BoundAssumption, ConfigAssumption DEF TypeOK
<1>6. count = (frames - restart + 1) % Word /\ count \in 0 .. Word - 1
  <2>1. frames - restart \in Int /\ average_counter + 1 \in Int
    BY <1>5
  <2>2. average_counter = (frames - restart) % Word
    BY <1>1 DEF CountIsAge
  <2>3. (((frames - restart) % Word) + 1) % Word = (frames - restart + 1) % Word
    BY <1>5, <2>1, ModNext
  <2>4. (average_counter + 1) % Word \in 0 .. Word - 1
    BY <1>5, <2>1, ModFacts
  <2> QED
    BY <2>2, <2>3, <2>4
<1> HIDE DEF P, count, done
<1>7. Current.samples_since_clear = (frames - restart) % Word =>
        P.samples_since_clear = (frames - restart + 1) % Word
  <2>1. (((frames - restart) % Word) + 1) % Word = (frames - restart + 1) % Word
    <3> DEFINE x == frames - restart
    <3>1. x \in Int
      BY <1>5
    <3> HIDE DEF x
    <3>2. ((x % Word) + 1) % Word = (x + 1) % Word
      BY <1>5, <3>1, ModNext
    <3> QED
      BY <3>2 DEF x
  <2> QED
    BY <1>3, <2>1
<1>8. TypeOK'
  <2>1. frames' \in 0 .. MaxFrames
    BY <1>2, <1>5
  <2>2. average_counter' \in 0 .. Word - 1
    BY <1>2, <1>5, <1>6
  <2>3. F' \in Filters
    BY <1>2, <1>3, ClearedFacts
  <2>4. restart' \in 0 .. frames' /\ cleared' \in 0 .. frames' /\ changed' \in 0 .. frames'
    BY <1>2, <1>5
  <2> QED
    BY <1>2, <2>1, <2>2, <2>3, <2>4 DEF TypeOK, Filters
<1>9. CountIsAge'
  <2>1. CASE done \/ clear
    <3>1. 0 % Word = 0
      BY <1>5, ModSmall
    <3> QED
      BY <1>2, <1>5, <2>1, <3>1 DEF CountIsAge
  <2>2. CASE ~(done \/ clear)
    <3>1. frames' - restart' = frames - restart + 1
      BY <1>2, <1>5, <2>2
    <3> QED
      BY <1>2, <1>6, <2>2, <3>1 DEF CountIsAge
  <2> QED
    BY <2>1, <2>2
<1>10. FlatSum'
  <2> SUFFICES ASSUME changed' <= restart', filter_order' = -1
               PROVE  /\ Current'.yd[Current'.bn] = restart' + 1 .. frames'
                      /\ Current'.samples_since_clear = (frames' - restart') % Word
    BY DEF FlatSum
  <2>1. CASE done \/ clear
    <3>1. Current' = ClearedFilter
      <4>1. F' = ClearedFilter \/ F'.order_n # filter_order'
        BY <1>2, <1>3, <2>1
      <4> QED
        BY <4>1 DEF Current
    <3>2. restart' + 1 .. frames' = {} /\ frames' - restart' = 0
      BY <1>2, <1>5, <2>1
    <3>3. 0 % Word = 0
      BY <1>5, ModSmall
    <3> QED
      BY <3>1, <3>2, <3>3, ClearedFacts
  <2>2. CASE ~(done \/ clear)
    <3>1. restart' = restart /\ F' = P
      BY <1>2, <2>2
    <3>2. changed' = changed /\ filter_order' = filter_order
      BY <1>2, <1>5, <3>1
    <3>3. Current' = P
      BY <1>3, <3>1, <3>2 DEF Current
    <3>4. Current.yd[Current.bn] = restart + 1 .. frames
          /\ Current.samples_since_clear = (frames - restart) % Word
      BY <1>1, <3>1, <3>2 DEF FlatSum
    <3>5. restart + 1 .. frames + 1 = (restart + 1 .. frames) \cup {frames + 1}
      BY <1>5
    <3>6. P.yd[P.bn] = restart + 1 .. frames + 1
      BY <1>3, <3>2, <3>4, <3>5
    <3>7. P.samples_since_clear = (frames - restart + 1) % Word
      BY <1>7, <3>4
    <3>8. frames' = frames + 1
      BY <1>2
    <3>9. restart' + 1 .. frames' = restart + 1 .. frames + 1 /\ frames' - restart' = frames - restart + 1
      BY <1>5, <3>1, <3>8
    <3> QED
      BY <3>3, <3>6, <3>7, <3>9
  <2> QED
    BY <2>1, <2>2
<1>11. RingInOrder'
  <2> SUFFICES ASSUME filter_order' # -1
               PROVE  /\ F'.order_n # filter_order' => frames' = cleared'
                      /\ \A r \in Index :
                           LET nx == RecordBefore(Current'.bn, r)
                           IN <<Current'.xd[nx], Current'.yd[nx]>> = FromFrame(frames - r)'
    BY DEF RingInOrder, RecordBefore, Index
  <2>1. CASE clear \/ filter_order' # filter_order
    <3>1. Current' = ClearedFilter
      <4>1. F' = ClearedFilter \/ F'.order_n # filter_order'
        BY <1>2, <1>3, <2>1
      <4> QED
        BY <4>1 DEF Current
    <3>2. frames' = cleared'
      BY <1>2, <2>1
    <3>3. ASSUME NEW r \in Index
          PROVE  LET nx == RecordBefore(Current'.bn, r)
                 IN <<Current'.xd[nx], Current'.yd[nx]>> = FromFrame(frames - r)'
      <4>1. RecordBefore(Current'.bn, r) \in Index
        BY <3>1, <3>3, ClearedFacts, BeforeNext
      <4>2. r \in Nat /\ ~(frames' - r > cleared')
        BY <1>2, <1>5, <3>2, <3>3 DEF Index
      <4> QED
        BY <3>1, <4>1, <4>2, ClearedFacts DEF FromFrame
    <3> QED
      BY <3>2, <3>3
  <2>2. CASE ~clear /\ filter_order' = filter_order
    <3>1. F' = P /\ cleared' = cleared /\ P.order_n = filter_order'
      BY <1>2, <1>3, <2>2
    <3>2. Current' = P
      BY <3>1 DEF Current
    <3>3. ASSUME NEW r \in Index
          PROVE  LET nx == RecordBefore(Current'.bn, r)
                 IN <<Current'.xd[nx], Current'.yd[nx]>> = FromFrame(frames - r)'
      <4>1. LET nx == RecordBefore(P.bn, r)
            IN <<P.xd[nx], P.yd[nx]>> = FromFrame(frames + 1 - r)
        BY <1>4, <2>2, <3>3
      <4>2. frames' - r = frames + 1 - r /\ cleared' = cleared
        <5>1. r \in Int /\ frames' = frames + 1
          BY <1>2, <3>3 DEF Index
        <5> QED
          BY <1>5, <3>1, <5>1
      <4>3. FromFrame(frames - r)' = FromFrame(frames + 1 - r)
        BY <4>2 DEF FromFrame
      <4> QED
        BY <3>2, <4>1, <4>3
    <3> QED
      BY <3>1, <3>3
  <2> QED
    BY <2>1, <2>2
<1>12. OnTime'
  <2> SUFFICES ASSUME num_averages' > 0, changed' <= restart'
               PROVE  average_counter' < num_averages' /\ frames' - restart' < num_averages'
    BY DEF OnTime
  <2>1. CASE done \/ clear
    BY <1>2, <1>5, <2>1
  <2>2. CASE ~(done \/ clear)
    <3>1. restart' = restart /\ average_counter' = count /\ changed' = changed
          /\ num_averages' = num_averages
      BY <1>2, <1>5, <2>2
    <3>2. frames - restart < num_averages
      BY <1>1, <3>1 DEF OnTime
    <3>3. count # num_averages % Word
      BY <1>5, <2>2, <3>1 DEF done, Done
    <3>4. frames - restart + 1 # num_averages
      BY <1>6, <3>3
    <3>5. count <= frames - restart + 1
      <4>1. frames - restart + 1 \in Nat
        BY <1>5
      <4> DEFINE x == frames - restart + 1
      <4>2. x \in Nat /\ x \in Int
        BY <4>1
      <4> HIDE DEF x
      <4>3. x % Word <= x
        BY <1>5, <4>2, ModFacts
      <4> QED
        BY <1>6, <4>3 DEF x
    <3> QED
      BY <1>2, <1>5, <1>6, <3>1, <3>2, <3>4, <3>5
  <2> QED
    BY <2>1, <2>2
<1>13. PacketWhole'
  <2>1. CASE packet' = packet
    BY <1>1, <2>1 DEF PacketWhole
  <2>2. CASE /\ done
             /\ packet' = [at |-> frames + 1, of |-> P.yd[P.bn], over |-> P.samples_since_clear,
                           count |-> count, order |-> filter_order,
                           whole |-> changed <= restart, from |-> restart]
    <3>1. /\ packet'.at = frames + 1 /\ packet'.of = P.yd[P.bn]
          /\ packet'.over = P.samples_since_clear /\ packet'.count = count
          /\ packet'.order = filter_order /\ packet'.whole = (changed <= restart)
          /\ packet'.from = restart
      BY <2>2
    <3> SUFFICES ASSUME packet'.order = -1, packet'.whole
                 PROVE  /\ packet'.of = packet'.from + 1 .. packet'.at
                        /\ packet'.over = (packet'.at - packet'.from) % Word
                        /\ packet'.count = packet'.over
                        /\ packet'.over # 0
      BY DEF PacketWhole
    <3>2. filter_order = -1 /\ changed <= restart
      BY <3>1
    <3>3. Current.yd[Current.bn] = restart + 1 .. frames
          /\ Current.samples_since_clear = (frames - restart) % Word
      BY <1>1, <3>2 DEF FlatSum
    <3>4. restart + 1 .. frames + 1 = (restart + 1 .. frames) \cup {frames + 1}
      BY <1>5
    <3>5. P.yd[P.bn] = restart + 1 .. frames + 1
      BY <1>3, <3>2, <3>3, <3>4
    <3>6. P.samples_since_clear = (frames - restart + 1) % Word
      BY <1>7, <3>3
    <3>7. packet'.at - packet'.from = frames - restart + 1
      BY <1>5, <3>1
    <3>8. count # 0
      BY <1>1, <2>2, NumberNotZero DEF done, Done, TypeOK
    <3> QED
      BY <1>6, <3>1, <3>5, <3>6, <3>7, <3>8
  <2> QED
    BY <1>2, <2>1, <2>2
<1> QED
  BY <1>8, <1>9, <1>10, <1>11, <1>12, <1>13 DEF IInv

LEMMA InvNext == IInv /\ [Next]_vars => IInv'
<1> SUFFICES ASSUME IInv, [Next]_vars
             PROVE  IInv'
  OBVIOUS
<1>1. CASE Next
  BY <1>1, InvProcess DEF Next
<1>2. CASE UNCHANGED vars
  BY <1>2 DEF vars, config, IInv, TypeOK, CountIsAge, FlatSum, RingInOrder,
              Current, FromFrame, OnTime, PacketWhole, RecordBefore, Index, ClearedFilter
<1> QED
  BY <1>1, <1>2

LEMMA Invariant == Spec => []IInv
BY InvInit, InvNext, PTL DEF Spec

-----------------------------------------------------------------------------
(***************************************************************************)
(* Theorems.                                                               *)
(***************************************************************************)

\* The ring's index never leaves the ring, and average_counter stays in its word.
THEOREM TypeCorrect == Spec => []TypeOK
<1>1. IInv => TypeOK
  BY DEF IInv
<1> QED
  BY <1>1, Invariant, PTL

\* While the configuration stays, average_control ends every average in time.
THEOREM AveragesOnTime == Spec => []OnTime
<1>1. IInv => OnTime
  BY DEF IInv
<1> QED
  BY <1>1, Invariant, PTL

\* The packet of a flat average holds exactly the frames since the one before,
\* and filter and average_control agree on their number.
THEOREM PacketsAreWhole == Spec => []PacketWhole
<1>1. IInv => PacketWhole
  BY DEF IInv
<1> QED
  BY <1>1, Invariant, PTL

\* The general filter reads the record of the frame r frames ago at distance r, or a
\* cleared one, over the ring's end and after clears and changes of order.
THEOREM TapsStayInOrder == Spec => TapsInOrder
<1>1. ASSUME IInv, [Next]_vars, frames' # frames, NEW r \in DOMAIN taps'
      PROVE  taps'[r] = IF frames' - r > cleared THEN <<frames' - r, {frames' - r}>> ELSE <<0, {}>>
  <2>1. PICK sync, clear, read \in BOOLEAN : Process(sync, clear, read)
    BY <1>1 DEF Next, vars
  <2> DEFINE P == filter(filter_order, frames + 1)
  <2>2. TypeOK /\ RingInOrder
    BY <1>1 DEF IInv
  <2>3. frames < MaxFrames /\ frames' = frames + 1 /\ taps' = TapsOf(P, filter_order)
    BY <2>1, <2>2, ProcessFacts
  <2>4. filter_order \in -1 .. Records - 1 /\ Records \in Nat
    BY <2>2, OrderFacts, WordFacts
  <2>5. r \in 1 .. filter_order
    BY <1>1, <2>3 DEF TapsOf
  <2>6. r \in Index /\ filter_order # -1
    BY <2>4, <2>5 DEF Index
  <2> HIDE DEF P
  <2>7. LET nx == RecordBefore(P.bn, r)
        IN <<P.xd[nx], P.yd[nx]>> = FromFrame(frames + 1 - r)
    BY <2>2, <2>3, <2>6, PushedInOrder DEF P
  <2>8. taps'[r] = FromFrame(frames + 1 - r)
    BY <2>3, <2>5, <2>7 DEF TapsOf
  <2>9. frames' - r = frames + 1 - r
    BY <2>2, <2>3, <2>5 DEF TypeOK
  <2> QED
    BY <2>8, <2>9 DEF FromFrame
<1>2. IInv /\ [Next]_vars =>
        [frames' # frames =>
           \A r \in DOMAIN taps' :
             taps'[r] = IF frames' - r > cleared
                          THEN <<frames' - r, {frames' - r}>> ELSE <<0, {}>>]_vars
  BY <1>1
<1> QED
  BY <1>2, Invariant, PTL DEF Spec, TapsInOrder

=============================================================================
