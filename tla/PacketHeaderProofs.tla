-------------------------- MODULE PacketHeaderProofs --------------------------
(***************************************************************************)
(* Proofs about the header of a packet and the bias words in it, for every *)
(* header the firmware sends, all values of the registers and any number   *)
(* of frames, updates and edits.                                           *)
(***************************************************************************)
EXTENDS PacketHeader, SequenceTheorems, TLAPS

-----------------------------------------------------------------------------
(***************************************************************************)
(* Bytes and words of 20 bits.                                             *)
(***************************************************************************)

LEMMA Low20Type ==
  ASSUME NEW v \in Int
  PROVE  Low20(v) \in -(2 ^ 19) .. 2 ^ 19 - 1
BY DEF Low20

\* What setWord stores is a byte, whatever was there.
LEMMA ByteFacts ==
  /\ \A v \in Int, k \in 0 .. 2 : ByteOf(v, k) \in Bytes
  /\ \A old, new \in Bytes :
       /\ LowNibbleIn(old, new) \in Bytes /\ HighNibbleIn(old, new) \in Bytes
       /\ LowNibbleIn(old, new) % 16 = new % 16 /\ LowNibbleIn(old, new) \div 16 = old \div 16
       /\ HighNibbleIn(old, new) \div 16 = new \div 16 /\ HighNibbleIn(old, new) % 16 = old % 16
<1>1. ASSUME NEW v \in Int, NEW k \in 0 .. 2
      PROVE  ByteOf(v, k) \in Bytes
  <2>1. k = 0 \/ k = 1 \/ k = 2
    OBVIOUS
  <2>2. 256 ^ 0 = 1 /\ 256 ^ 1 = 256 /\ 256 ^ 2 = (256 * 256)
    OBVIOUS
  <2> QED
    BY <2>1, <2>2 DEF ByteOf, Bytes
<1>2. ASSUME NEW old \in Bytes, NEW new \in Bytes
      PROVE  /\ LowNibbleIn(old, new) \in Bytes /\ HighNibbleIn(old, new) \in Bytes
             /\ LowNibbleIn(old, new) % 16 = new % 16 /\ LowNibbleIn(old, new) \div 16 = old \div 16
             /\ HighNibbleIn(old, new) \div 16 = new \div 16 /\ HighNibbleIn(old, new) % 16 = old % 16
  <2>1. /\ LowNibbleIn(old, new) \in Bytes /\ LowNibbleIn(old, new) % 16 = new % 16
        /\ LowNibbleIn(old, new) \div 16 = old \div 16
    BY DEF Bytes, LowNibbleIn
  <2>2. /\ HighNibbleIn(old, new) \in Bytes /\ HighNibbleIn(old, new) \div 16 = new \div 16
        /\ HighNibbleIn(old, new) % 16 = old % 16
    BY DEF Bytes, HighNibbleIn
  <2> QED
    BY <2>1, <2>2
<1> QED
  BY <1>1, <1>2

\* The value of the word w in its three bytes: one nibble is its neighbour's.
WordBits(w, b0, b1, b2) ==
  IF Word(w) = 0 THEN Low20(b0 + 2 ^ 8 * b1 + 2 ^ 16 * (b2 % 16))
  ELSE Low20((b0 \div 16) + 2 ^ 4 * b1 + 2 ^ 12 * b2)

LEMMA Low20Period ==
  ASSUME NEW x \in Int, NEW q \in Int
  PROVE  Low20(x + 2 ^ 20 * q) = Low20(x)
BY DEF Low20

LEMMA ByteOfIs ==
  ASSUME NEW x \in Int
  PROVE  /\ ByteOf(x, 0) = x % 256 /\ ByteOf(x, 1) = (x \div 256) % 256
         /\ ByteOf(x, 2) = ((x \div 256) \div 256) % 256
<1>1. 256 ^ 0 = 1 /\ 256 ^ 1 = 256 /\ 256 ^ 2 = 256 * 256
  OBVIOUS
<1>2. x \div 1 = x /\ x \div (256 * 256) = (x \div 256) \div 256
  OBVIOUS
<1> QED
  BY <1>1, <1>2 DEF ByteOf

\* What is read does not depend on the other nibble, nor on the byte after the word.
LEMMA WordRead ==
  ASSUME NEW w \in Words,
         NEW b0 \in Bytes, NEW b1 \in Bytes, NEW b2 \in Bytes, NEW b3 \in Bytes
  PROVE  SignedWord(Word(w) = 0, b0, b1, b2, b3) = WordBits(w, b0, b1, b2)
<1>1. CASE Word(w) = 0
  <2> DEFINE x == b0 + 2 ^ 8 * b1 + 2 ^ 16 * (b2 % 16)
             q == b2 \div 16
  <2>1. b0 + 2 ^ 8 * b1 + 2 ^ 16 * b2 = x + 2 ^ 20 * q /\ x \in Int /\ q \in Int
    BY DEF Bytes
  <2>2. Low20(x + 2 ^ 20 * q) = Low20(x)
    <3> HIDE DEF x, q
    <3> QED
      BY <2>1, Low20Period
  <2> QED
    BY <1>1, <2>1, <2>2 DEF WordBits, SignedWord
<1>2. CASE Word(w) # 0
  <2> DEFINE x == (b0 \div 16) + 2 ^ 4 * b1 + 2 ^ 12 * b2
  <2>1. x \in Int /\ b3 \in Int
    BY DEF Bytes
  <2>2. Low20(x + 2 ^ 20 * b3) = Low20(x)
    <3> HIDE DEF x
    <3> QED
      BY <2>1, Low20Period
  <2> QED
    BY <1>2, <2>2 DEF WordBits, SignedWord
<1> QED
  BY <1>1, <1>2

\* Three bytes of an integer are its low 20 bits, where a word keeps them.
LEMMA WordsValue ==
  ASSUME NEW w \in Words, NEW v \in Int,
         NEW b0 \in Bytes, NEW b1 \in Bytes, NEW b2 \in Bytes,
         Word(w) = 0 =>
           b0 = ByteOf(v, 0) /\ b1 = ByteOf(v, 1) /\ b2 % 16 = ByteOf(v, 2) % 16,
         Word(w) # 0 =>
           /\ b0 \div 16 = ByteOf(16 * v, 0) \div 16
           /\ b1 = ByteOf(16 * v, 1) /\ b2 = ByteOf(16 * v, 2)
  PROVE  WordBits(w, b0, b1, b2) = Low20(v)
<1>1. CASE Word(w) = 0
  <2> DEFINE v1 == v \div 256
             v2 == v1 \div 256
             n == v2 % 16
             q == v2 \div 16
  <2>1. b0 = v % 256 /\ b1 = v1 % 256 /\ b2 % 16 = n
    <3>1. ByteOf(v, 2) = v2 % 256
      BY ByteOfIs
    <3>2. \A x \in Int : (x % 256) % 16 = x % 16
      OBVIOUS
    <3>3. v2 \in Int
      OBVIOUS
    <3>4. (v2 % 256) % 16 = n
      BY <3>2, <3>3
    <3>5. b0 = v % 256 /\ b1 = v1 % 256
      BY <1>1, ByteOfIs
    <3> QED
      BY <1>1, <3>1, <3>4, <3>5
  <2>2. /\ v1 \in Int /\ v2 \in Int /\ n \in Int /\ q \in Int
        /\ v = 256 * v1 + (v % 256) /\ v1 = 256 * v2 + (v1 % 256) /\ v2 = 16 * q + n
    OBVIOUS
  <2> HIDE DEF v1, v2, n, q
  <2>3. v = (b0 + 2 ^ 8 * b1 + 2 ^ 16 * n) + 2 ^ 20 * q
    BY <2>1, <2>2 DEF Bytes
  <2>4. b0 + 2 ^ 8 * b1 + 2 ^ 16 * n \in Int
    BY <2>2 DEF Bytes
  <2> DEFINE x == b0 + 2 ^ 8 * b1 + 2 ^ 16 * n
  <2>5. Low20(x + 2 ^ 20 * q) = Low20(x)
    <3> HIDE DEF x
    <3> QED
      BY <2>2, <2>4, Low20Period DEF x
  <2> QED
    BY <1>1, <2>1, <2>3, <2>5 DEF WordBits
<1>2. CASE Word(w) # 0
  <2> DEFINE v1 == v \div 16
             v2 == v1 \div 256
             q == v2 \div 256
  <2>1. b0 \div 16 = v % 16 /\ b1 = v1 % 256 /\ b2 = v2 % 256
    <3>1. 16 * v \in Int
      OBVIOUS
    <3>2. /\ ByteOf(16 * v, 0) = (16 * v) % 256
          /\ ByteOf(16 * v, 1) = ((16 * v) \div 256) % 256
          /\ ByteOf(16 * v, 2) = (((16 * v) \div 256) \div 256) % 256
      BY <3>1, ByteOfIs
    <3>3. ((16 * v) % 256) \div 16 = v % 16 /\ (16 * v) \div 256 = v1
      OBVIOUS
    <3> QED
      BY <1>2, <3>2, <3>3
  <2>2. /\ v1 \in Int /\ v2 \in Int /\ q \in Int /\ b0 \div 16 \in Int
        /\ v = 16 * v1 + (v % 16) /\ v1 = 256 * v2 + (v1 % 256) /\ v2 = 256 * q + (v2 % 256)
    BY DEF Bytes
  <2> DEFINE m == b0 \div 16
             x == m + 2 ^ 4 * b1 + 2 ^ 12 * b2
  <2> HIDE DEF v1, v2, q, m
  <2>3. m = v % 16 /\ m \in Int
    BY <2>1, <2>2 DEF m
  <2>4. v = x + 2 ^ 20 * q /\ x \in Int
    BY <2>1, <2>2, <2>3 DEF Bytes
  <2>5. WordBits(w, b0, b1, b2) = Low20(x)
    BY <1>2 DEF WordBits, m
  <2>6. Low20(x + 2 ^ 20 * q) = Low20(x)
    <3>1. x \in Int /\ q \in Int
      BY <2>2, <2>4
    <3> HIDE DEF x
    <3> QED
      BY ONLY <3>1, Low20Period
  <2> QED
    BY <2>4, <2>5, <2>6
<1> QED
  BY <1>1, <1>2

-----------------------------------------------------------------------------
(***************************************************************************)
(* Words in an array of bytes.                                             *)
(***************************************************************************)

Arrays == [0 .. TesBiasBufferSize - 1 -> Bytes]
BiasAt(bytes, w) == getWord(AndAfter(bytes), 0, w)

\* The first n bytes that setWord stores are there.
StoredSoFar(bytes, w, v, n) ==
  LET p == Stored(w, 0) IN
    IF Word(w) = 0
      THEN /\ n > 0 => bytes[p] = ByteOf(v, 0)
           /\ n > 1 => bytes[p + 1] = ByteOf(v, 1)
           /\ n > 2 => bytes[p + 2] % 16 = ByteOf(v, 2) % 16
      ELSE /\ n > 0 => bytes[p] \div 16 = ByteOf(16 * v, 0) \div 16
           /\ n > 1 => bytes[p + 1] = ByteOf(16 * v, 1)
           /\ n > 2 => bytes[p + 2] = ByteOf(16 * v, 2)

\* Where words are: two words share at most a byte, the last of one which is
\* the first of the other.
LEMMA Places ==
  /\ TesBiasBufferSize = 40 /\ Words = 0 .. 15
  /\ \A w \in Words :
       /\ Stored(w, 0) \in 0 .. 37 /\ Stored(w, 1) = Stored(w, 0) + 1 /\ Stored(w, 2) = Stored(w, 0) + 2
       /\ Stored(w, 0) = 5 * Block(w) + 2 * Word(w) /\ Word(w) \in {0, 1}
  /\ \A w, x \in Words : w # x =>
       \/ Stored(w, 0) + 2 < Stored(x, 0)
       \/ Stored(x, 0) + 2 < Stored(w, 0)
       \/ Word(w) = 0 /\ Word(x) = 1 /\ Stored(x, 0) = Stored(w, 0) + 2
       \/ Word(w) = 1 /\ Word(x) = 0 /\ Stored(w, 0) = Stored(x, 0) + 2
<1>1. TesBiasBufferSize = 40 /\ Words = 0 .. 15
  BY DEF TesBiasBufferSize, TesBiasCount, Words
<1>2. \A w \in Words : Block(w) \in 0 .. 7 /\ Word(w) \in {0, 1} /\ w = 2 * Block(w) + Word(w)
  BY <1>1 DEF Block, Word
<1> QED
  BY <1>1, <1>2 DEF Stored

\* A word is made of its three bytes, in the array and in a header.
LEMMA WordIn ==
  ASSUME NEW w \in Words
  PROVE  /\ \A bytes \in Arrays :
              LET p == Stored(w, 0)
              IN BiasAt(bytes, w) = WordBits(w, bytes[p], bytes[p + 1], bytes[p + 2])
         /\ \A header \in [HeaderBytes -> Bytes] :
              LET p == TESDACOffset + Stored(w, 0)
              IN getWord(header, TESDACOffset, w)
                   = WordBits(w, header[p], header[p + 1], header[p + 2])
<1> DEFINE p == Stored(w, 0)
           h == TESDACOffset + Stored(w, 0)
<1>1. p \in 0 .. 37 /\ p = 5 * Block(w) + 2 * Word(w) /\ TesBiasBufferSize = 40
  BY Places
<1>2. 0 + 5 * Block(w) + 2 * Word(w) = p /\ TESDACOffset + 5 * Block(w) + 2 * Word(w) = h
  BY <1>1 DEF Block, Word, Words, TESDACOffset
<1>3. h \in 8 .. 45
  BY <1>1 DEF TESDACOffset
<1> HIDE DEF p, h
<1>4. ASSUME NEW bytes \in Arrays
      PROVE  BiasAt(bytes, w) = WordBits(w, bytes[p], bytes[p + 1], bytes[p + 2])
  <2> DEFINE all == AndAfter(bytes)
  <2>1. /\ all[p] = bytes[p] /\ all[p + 1] = bytes[p + 1] /\ all[p + 2] = bytes[p + 2]
        /\ all[p] \in Bytes /\ all[p + 1] \in Bytes /\ all[p + 2] \in Bytes /\ all[p + 3] \in Bytes
    <3>1. \A k \in 0 .. 39 : all[k] = bytes[k]
      BY <1>1 DEF AndAfter, Arrays
    <3>2. \A k \in 0 .. 40 : all[k] \in Bytes
      <4>1. 255 \in Bytes
        BY DEF Bytes
      <4> QED
        BY <1>1, <4>1 DEF AndAfter, Arrays
    <3> HIDE DEF all
    <3> QED
      BY <1>1, <3>1, <3>2
  <2> HIDE DEF all
  <2>2. BiasAt(bytes, w) = SignedWord(Word(w) = 0, all[p], all[p + 1], all[p + 2], all[p + 3])
    BY <1>2 DEF BiasAt, getWord, all
  <2> QED
    BY <2>1, <2>2, WordRead
<1>5. ASSUME NEW header \in [HeaderBytes -> Bytes]
      PROVE  getWord(header, TESDACOffset, w) = WordBits(w, header[h], header[h + 1], header[h + 2])
  <2>1. header[h] \in Bytes /\ header[h + 1] \in Bytes /\ header[h + 2] \in Bytes /\ header[h + 3] \in Bytes
    BY <1>3 DEF HeaderBytes
  <2>2. getWord(header, TESDACOffset, w)
          = SignedWord(Word(w) = 0, header[h], header[h + 1], header[h + 2], header[h + 3])
    BY <1>2 DEF getWord
  <2> QED
    BY <2>1, <2>2, WordRead
<1> QED
  BY <1>4, <1>5 DEF p, h

-----------------------------------------------------------------------------
(***************************************************************************)
(* Setting a word, byte by byte.                                           *)
(***************************************************************************)

LEMMA PlaceFacts ==
  ASSUME NEW w \in Words, NEW k \in 0 .. 2
  PROVE  /\ Stored(w, k) = Stored(w, 0) + k /\ Stored(w, k) \in 0 .. 39
         /\ Stored(w, 0) \in 0 .. 37 /\ Word(w) \in {0, 1}
<1>1. Stored(w, k) = Stored(w, 0) + k
  BY DEF Stored, Block, Word, Words, TesBiasCount
<1>2. Stored(w, 0) \in 0 .. 37 /\ Word(w) \in {0, 1}
  BY Places
<1> QED
  BY <1>1, <1>2

\* A store of one byte, at p, leaves every other byte, and the other nibble.
ByteStored(bytes, new, w, v, k, p) ==
  /\ \A i \in 0 .. 39 : i # p => new[i] = bytes[i]
  /\ Word(w) = 0 /\ k # 2 => new[p] = ByteOf(v, k)
  /\ Word(w) = 0 /\ k = 2 =>
       new[p] % 16 = ByteOf(v, 2) % 16 /\ new[p] \div 16 = bytes[p] \div 16
  /\ Word(w) # 0 /\ k # 0 => new[p] = ByteOf(16 * v, k)
  /\ Word(w) # 0 /\ k = 0 =>
       new[p] \div 16 = ByteOf(16 * v, 0) \div 16 /\ new[p] % 16 = bytes[p] % 16

LEMMA StoreFacts ==
  ASSUME NEW bytes \in Arrays, NEW w \in Words, NEW v \in Int, NEW k \in 0 .. 2,
         NEW new, new = StoreWord(bytes, w, v, k)
  PROVE  new \in Arrays /\ ByteStored(bytes, new, w, v, k, Stored(w, k))
<1> DEFINE p == Stored(w, k)
           u == IF Word(w) = 0 THEN v ELSE 16 * v
           x == IF Word(w) = 0 /\ k = 2 THEN LowNibbleIn(bytes[p], ByteOf(u, 2))
                ELSE IF Word(w) = 1 /\ k = 0 THEN HighNibbleIn(bytes[p], ByteOf(u, 0))
                ELSE ByteOf(u, k)
<1>1. p \in 0 .. 39 /\ Word(w) \in {0, 1} /\ TesBiasBufferSize = 40
  BY PlaceFacts, Places
<1>2. bytes \in [0 .. 39 -> Bytes] /\ Arrays = [0 .. 39 -> Bytes]
  BY <1>1 DEF Arrays
<1>3. new = [bytes EXCEPT ![p] = x]
  BY DEF StoreWord
<1>4. u \in Int /\ bytes[p] \in Bytes
  BY <1>1, <1>2
<1>5. ByteOf(u, 0) \in Bytes /\ ByteOf(u, 2) \in Bytes /\ ByteOf(u, k) \in Bytes
  <2> HIDE DEF u
  <2>1. 0 \in 0 .. 2 /\ 2 \in 0 .. 2
    OBVIOUS
  <2> QED
    BY <1>4, <2>1, ByteFacts
<1>6. x \in Bytes
  <2> HIDE DEF u, p
  <2> QED
    BY <1>4, <1>5, ByteFacts
<1>7. new \in Arrays /\ new[p] = x /\ \A i \in 0 .. 39 : i # p => new[i] = bytes[i]
  <2> HIDE DEF x, p
  <2> QED
    BY <1>1, <1>2, <1>3, <1>6
<1>8. /\ Word(w) = 0 /\ k # 2 => x = ByteOf(v, k)
      /\ Word(w) # 0 /\ k # 0 => x = ByteOf(16 * v, k)
  BY <1>1
<1>9. Word(w) = 0 /\ k = 2 => x % 16 = ByteOf(v, 2) % 16 /\ x \div 16 = bytes[p] \div 16
  <2> SUFFICES ASSUME Word(w) = 0, k = 2
               PROVE  x % 16 = ByteOf(v, 2) % 16 /\ x \div 16 = bytes[p] \div 16
    OBVIOUS
  <2>1. x = LowNibbleIn(bytes[p], ByteOf(v, 2)) /\ u = v
    OBVIOUS
  <2> HIDE DEF p, x, u
  <2> QED
    BY <1>4, <1>5, <2>1, ByteFacts
<1>10. Word(w) # 0 /\ k = 0 => x \div 16 = ByteOf(16 * v, 0) \div 16 /\ x % 16 = bytes[p] % 16
  <2> SUFFICES ASSUME Word(w) # 0, k = 0
               PROVE  x \div 16 = ByteOf(16 * v, 0) \div 16 /\ x % 16 = bytes[p] % 16
    OBVIOUS
  <2>1. x = HighNibbleIn(bytes[p], ByteOf(16 * v, 0)) /\ u = 16 * v
    BY <1>1
  <2> HIDE DEF p, x, u
  <2> QED
    BY <1>4, <1>5, <2>1, ByteFacts
<1> HIDE DEF x
<1> QED
  BY <1>7, <1>8, <1>9, <1>10 DEF ByteStored

\* No store changes another word.
LEMMA StoreKeeps ==
  ASSUME NEW bytes \in Arrays, NEW w \in Words, NEW v \in Int, NEW k \in 0 .. 2,
         NEW new, new = StoreWord(bytes, w, v, k), NEW x \in Words, x # w
  PROVE  BiasAt(new, x) = BiasAt(bytes, x)
<1> DEFINE p == Stored(w, 0)
           s == Stored(x, 0)
<1>1. /\ new \in Arrays
      /\ \A i \in 0 .. 39 : i # p + k => new[i] = bytes[i]
      /\ Word(w) = 0 /\ k = 2 => new[p + 2] \div 16 = bytes[p + 2] \div 16
      /\ Word(w) # 0 /\ k = 0 => new[p] % 16 = bytes[p] % 16
  <2>1. Stored(w, k) = p + k /\ p \in Int
    BY PlaceFacts
  <2>2. p + 0 = p
    BY <2>1
  <2>3. new \in Arrays /\ ByteStored(bytes, new, w, v, k, p + k)
    BY <2>1, StoreFacts
  <2> HIDE DEF p
  <2> QED
    BY <2>2, <2>3 DEF ByteStored
<1>2. /\ BiasAt(new, x) = WordBits(x, new[s], new[s + 1], new[s + 2])
      /\ BiasAt(bytes, x) = WordBits(x, bytes[s], bytes[s + 1], bytes[s + 2])
  BY <1>1, WordIn
<1>3. p \in 0 .. 37 /\ s \in 0 .. 37 /\ Word(w) \in {0, 1} /\ Word(x) \in {0, 1}
  BY Places
<1>4. \/ p + 2 < s \/ s + 2 < p
      \/ Word(w) = 0 /\ Word(x) = 1 /\ s = p + 2
      \/ Word(w) = 1 /\ Word(x) = 0 /\ p = s + 2
  BY Places
<1> HIDE DEF p, s
<1>5. CASE p + 2 < s \/ s + 2 < p
  <2>1. new[s] = bytes[s] /\ new[s + 1] = bytes[s + 1] /\ new[s + 2] = bytes[s + 2]
    BY <1>1, <1>3, <1>5
  <2> QED
    BY <1>2, <2>1
<1>6. CASE Word(w) = 0 /\ Word(x) = 1 /\ s = p + 2
  <2>1. new[s + 1] = bytes[s + 1] /\ new[s + 2] = bytes[s + 2]
    BY <1>1, <1>3, <1>6
  <2>2. new[s] \div 16 = bytes[s] \div 16
    <3>1. CASE k = 2
      BY <1>1, <1>6, <3>1
    <3>2. CASE k # 2
      BY <1>1, <1>3, <1>6, <3>2
    <3> QED
      BY <3>1, <3>2
  <2> QED
    BY <1>2, <1>6, <2>1, <2>2 DEF WordBits
<1>7. CASE Word(w) = 1 /\ Word(x) = 0 /\ p = s + 2
  <2>1. new[s] = bytes[s] /\ new[s + 1] = bytes[s + 1]
    BY <1>1, <1>3, <1>7
  <2>2. new[s + 2] % 16 = bytes[s + 2] % 16
    <3>1. CASE k = 0
      BY <1>1, <1>7, <3>1
    <3>2. CASE k # 0
      BY <1>1, <1>3, <1>7, <3>2
    <3> QED
      BY <3>1, <3>2
  <2> QED
    BY <1>2, <1>7, <2>1, <2>2 DEF WordBits
<1> QED
  BY <1>4, <1>5, <1>6, <1>7

\* The stores of one word build on each other,
LEMMA StoreProgress ==
  ASSUME NEW bytes \in Arrays, NEW w \in Words, NEW v \in Int, NEW k \in 0 .. 2,
         NEW new, new = StoreWord(bytes, w, v, k), StoredSoFar(bytes, w, v, k)
  PROVE  StoredSoFar(new, w, v, k + 1)
<1> DEFINE p == Stored(w, 0)
<1>1. Stored(w, k) = p + k /\ p \in 0 .. 37
  BY PlaceFacts
<1>2. ByteStored(bytes, new, w, v, k, p + k)
  BY <1>1, StoreFacts
<1> HIDE DEF p
<1>3. /\ \A i \in 0 .. 39 : i # p + k => new[i] = bytes[i]
      /\ Word(w) = 0 /\ k # 2 => new[p + k] = ByteOf(v, k)
      /\ Word(w) = 0 /\ k = 2 => new[p + k] % 16 = ByteOf(v, 2) % 16
      /\ Word(w) # 0 /\ k # 0 => new[p + k] = ByteOf(16 * v, k)
      /\ Word(w) # 0 /\ k = 0 => new[p + k] \div 16 = ByteOf(16 * v, 0) \div 16
  BY <1>2 DEF ByteStored
<1>4. CASE k = 0
  <2>1. p + k = p
    BY <1>1, <1>4
  <2> QED
    BY <1>3, <1>4, <2>1 DEF StoredSoFar, p
<1>5. CASE k = 1
  <2>1. new[p] = bytes[p]
    BY <1>1, <1>3, <1>5
  <2> QED
    BY <1>3, <1>5, <2>1 DEF StoredSoFar, p
<1>6. CASE k = 2
  <2>1. new[p] = bytes[p] /\ new[p + 1] = bytes[p + 1]
    <3>1. {p, p + 1} \subseteq 0 .. 39 /\ p # p + k /\ p + 1 # p + k
      BY <1>1, <1>6
    <3> QED
      BY <1>3, <3>1
  <2> QED
    BY <1>3, <1>6, <2>1 DEF StoredSoFar, p
<1> QED
  BY <1>4, <1>5, <1>6

\* and three of them make the word.
LEMMA ProgressDone ==
  ASSUME NEW bytes \in Arrays, NEW w \in Words, NEW v \in Int, StoredSoFar(bytes, w, v, 3)
  PROVE  BiasAt(bytes, w) = Low20(v)
<1> DEFINE p == Stored(w, 0)
<1>1. p \in 0 .. 37 /\ BiasAt(bytes, w) = WordBits(w, bytes[p], bytes[p + 1], bytes[p + 2])
  BY Places, WordIn
<1>2. /\ Word(w) = 0 =>
           bytes[p] = ByteOf(v, 0) /\ bytes[p + 1] = ByteOf(v, 1)
           /\ bytes[p + 2] % 16 = ByteOf(v, 2) % 16
      /\ Word(w) # 0 =>
           bytes[p] \div 16 = ByteOf(16 * v, 0) \div 16
           /\ bytes[p + 1] = ByteOf(16 * v, 1) /\ bytes[p + 2] = ByteOf(16 * v, 2)
  BY DEF StoredSoFar
<1> HIDE DEF p
<1>3. bytes[p] \in Bytes /\ bytes[p + 1] \in Bytes /\ bytes[p + 2] \in Bytes
  BY <1>1, Places DEF Arrays
<1> DEFINE b0 == bytes[p]
           b1 == bytes[p + 1]
           b2 == bytes[p + 2]
<1>4. b0 \in Bytes /\ b1 \in Bytes /\ b2 \in Bytes
  BY <1>3
<1>5. /\ Word(w) = 0 => b0 = ByteOf(v, 0) /\ b1 = ByteOf(v, 1) /\ b2 % 16 = ByteOf(v, 2) % 16
      /\ Word(w) # 0 =>
           b0 \div 16 = ByteOf(16 * v, 0) \div 16 /\ b1 = ByteOf(16 * v, 1) /\ b2 = ByteOf(16 * v, 2)
  BY <1>2
<1>6. BiasAt(bytes, w) = WordBits(w, b0, b1, b2)
  BY <1>1
<1> HIDE DEF b0, b1, b2
<1> QED
  BY <1>4, <1>5, <1>6, WordsValue

\* What the owner of a packet does in one call.
OneWordSet(bytes, new, w, v) ==
  /\ new \in Arrays
  /\ \A x \in Words : BiasAt(new, x) = IF x = w THEN Low20(v) ELSE BiasAt(bytes, x)

LEMMA SetWordFacts ==
  ASSUME NEW bytes \in Arrays, NEW w \in Words, NEW v \in Int, NEW new, new = setWord(bytes, w, v)
  PROVE  OneWordSet(bytes, new, w, v)
<1> DEFINE one == StoreWord(bytes, w, v, 0)
           two == StoreWord(one, w, v, 1)
<1>1. new = StoreWord(two, w, v, 2)
  BY DEF setWord
<1>2. StoredSoFar(bytes, w, v, 0)
  BY DEF StoredSoFar
<1> HIDE DEF one
<1>3. 0 \in 0 .. 2 /\ 1 \in 0 .. 2 /\ 2 \in 0 .. 2 /\ 0 + 1 = 1 /\ 1 + 1 = 2 /\ 2 + 1 = 3
  OBVIOUS
<1>4. one \in Arrays /\ StoredSoFar(one, w, v, 1)
      /\ \A x \in Words : x # w => BiasAt(one, x) = BiasAt(bytes, x)
  BY <1>2, <1>3, StoreFacts, StoreProgress, StoreKeeps DEF one
<1> HIDE DEF two
<1>5. two \in Arrays /\ StoredSoFar(two, w, v, 2)
      /\ \A x \in Words : x # w => BiasAt(two, x) = BiasAt(one, x)
  BY <1>3, <1>4, StoreFacts, StoreProgress, StoreKeeps DEF two
<1>6. new \in Arrays /\ StoredSoFar(new, w, v, 3)
      /\ \A x \in Words : x # w => BiasAt(new, x) = BiasAt(two, x)
  BY <1>1, <1>3, <1>5, StoreFacts, StoreProgress, StoreKeeps
<1>7. BiasAt(new, w) = Low20(v)
  BY <1>6, ProgressDone
<1> QED
  BY <1>4, <1>5, <1>6, <1>7 DEF OneWordSet

-----------------------------------------------------------------------------
(***************************************************************************)
(* The inductive invariant.                                                *)
(***************************************************************************)

Difference(w) == TesBiasValue[2 * w + 1] - TesBiasValue[2 * w]

BiasTypes ==
  /\ TesBiasValue \in [0 .. 31 -> Int]
  /\ listener \in [at : {"idle", "lock", "store"}, word : Words, value : Int, byte : 0 .. 2]
  /\ listener.at = "lock" => listener.byte = 0
  /\ tesBias \in Arrays
  /\ words \in [Words -> Int]
  /\ \A w \in Words : words[w] \in -(2 ^ 19) .. 2 ^ 19 - 1

\* Every word is as it was set last, but the one that is being set.
WordsSet ==
  \A w \in Words :
    (listener.at = "store" /\ listener.word = w) \/ BiasAt(tesBias, w) = words[w]

SetInProgress ==
  listener.at = "store" => StoredSoFar(tesBias, listener.word, listener.value, listener.byte)

\* Every word was set to its registers' difference, but the one that will be.
WordsFollow ==
  /\ \A w \in Words :
       (listener.at # "idle" /\ listener.word = w) \/ words[w] = Low20(Difference(w))
  /\ listener.at # "idle" => listener.value = Difference(listener.word)

ListenerInv == BiasTypes /\ WordsSet /\ SetInProgress /\ WordsFollow

RunTypes ==
  /\ run \in [at : {"idle", "lock", "copy", "average"}, byte : 0 .. 39]
  /\ frame \in [HeaderBytes -> Bytes]
  /\ seen \in [Words -> Int]

MutexHeld ==
  /\ mutex \in {"free", "listener", "runThread"}
  /\ (mutex = "listener") <=> (listener.at = "store")
  /\ (mutex = "runThread") <=> (run.at = "copy")

\* What was copied so far is what the array holds; nobody sets a word meanwhile.
CopiedSoFar ==
  run.at = "copy" =>
    /\ seen = words
    /\ \A k \in 0 .. 39 : k < run.byte => frame[TESDACOffset + k] = tesBias[k]

RunInv == RunTypes /\ MutexHeld /\ CopiedSoFar /\ BiasWhole

BiasOf(header) == [w \in Words |-> getWord(header, TESDACOffset, w)]

\* What was set is all that the packet means.
MeantIsMeaning == packet \in [HeaderBytes -> Bytes] /\ meant = Meaning(packet, BiasOf(packet))

IInv == ListenerInv /\ RunInv /\ MeantIsMeaning

-----------------------------------------------------------------------------
(***************************************************************************)
(* The listener and the array.                                             *)
(***************************************************************************)

\* Registers and words.
LEMMA RegisterFacts ==
  /\ Words = 0 .. 15 /\ 2 * TesBiasCount - 1 = 31
  /\ \A r \in Registers :
       /\ r - 1 \in 0 .. 31 /\ (r - 1) \div 2 \in Words
       /\ \A w \in Words : w # (r - 1) \div 2 => 2 * w # r - 1 /\ 2 * w + 1 # r - 1
  /\ \A w \in Words : 2 * w \in 0 .. 31 /\ 2 * w + 1 \in 0 .. 31
<1>1. Words = 0 .. 15 /\ 2 * TesBiasCount - 1 = 31 /\ Registers \subseteq 1 .. 32
  BY RegistersAssumption DEF Words, TesBiasCount
<1> QED
  BY <1>1

LEMMA SendInv ==
  ASSUME ListenerInv, send_test_bias
  PROVE  ListenerInv'
<1>1. PICK r \in Registers, value \in Levels :
        LET reg_index == r - 1
            index == reg_index \div 2
            new == [TesBiasValue EXCEPT ![reg_index] = value]
        IN /\ TesBiasValue' = new
           /\ listener' = [at |-> "lock", word |-> index, byte |-> 0,
                           value |-> new[2 * index + 1] - new[2 * index]]
  BY DEF send_test_bias
<1> PICK index : index = (r - 1) \div 2
  OBVIOUS
<1>2. listener.at = "idle" /\ UNCHANGED <<tesBias, words>> /\ BiasTypes
  BY DEF send_test_bias, ListenerInv
<1>3. /\ r - 1 \in 0 .. 31 /\ index \in Words
      /\ \A w \in Words : w # index => 2 * w # r - 1 /\ 2 * w + 1 # r - 1
      /\ \A w \in Words : 2 * w \in 0 .. 31 /\ 2 * w + 1 \in 0 .. 31
  BY RegisterFacts
<1>4. TesBiasValue' = [TesBiasValue EXCEPT ![r - 1] = value] /\ value \in Int
  BY <1>1, ValuesAssumption
<1>5. TesBiasValue' \in [0 .. 31 -> Int]
  BY <1>2, <1>3, <1>4 DEF BiasTypes
<1>6. listener' = [at |-> "lock", word |-> index, byte |-> 0, value |-> Difference(index)']
  BY <1>1 DEF Difference
<1>7. Difference(index)' \in Int
  BY <1>3, <1>5 DEF Difference
<1>8. BiasTypes'
  <2> DEFINE d == Difference(index)'
  <2>1. listener' = [at |-> "lock", word |-> index, byte |-> 0, value |-> d] /\ d \in Int
    BY <1>6, <1>7
  <2> HIDE DEF d
  <2>2. listener' \in [at : {"idle", "lock", "store"}, word : Words, value : Int, byte : 0 .. 2]
        /\ listener'.byte = 0
    BY <1>3, <2>1
  <2> QED
    BY <1>2, <1>5, <2>2 DEF BiasTypes
<1>9. \A w \in Words : w # index => Difference(w)' = Difference(w)
  BY <1>2, <1>3, <1>4 DEF Difference, BiasTypes
<1>10. WordsSet' /\ SetInProgress'
  BY <1>2, <1>6 DEF ListenerInv, WordsSet, SetInProgress
<1>11. WordsFollow'
  <2>1. \A w \in Words : words[w] = Low20(Difference(w))
    BY <1>2 DEF ListenerInv, WordsFollow
  <2>2. ASSUME NEW w \in Words, w # index
        PROVE  words'[w] = Low20(Difference(w)')
    BY <1>2, <1>9, <2>1, <2>2
  <2> HIDE DEF Difference
  <2>3. listener'.at = "lock" /\ listener'.word = index /\ listener'.value = Difference(index)'
    BY <1>6
  <2> QED
    BY <2>2, <2>3 DEF WordsFollow
<1> QED
  BY <1>8, <1>10, <1>11 DEF ListenerInv

LEMMA LockToSetInv ==
  ASSUME ListenerInv, LockToSet
  PROVE  ListenerInv'
<1>1. /\ listener.at = "lock" /\ listener' = [listener EXCEPT !.at = "store"]
      /\ UNCHANGED <<TesBiasValue, tesBias, words>> /\ BiasTypes
  BY DEF LockToSet, ListenerInv
<1>2. /\ listener'.at = "store" /\ listener'.word = listener.word
      /\ listener'.value = listener.value /\ listener'.byte = 0
  BY <1>1 DEF BiasTypes
<1>3. BiasTypes'
  BY <1>1, <1>2 DEF BiasTypes
<1>4. WordsSet' /\ SetInProgress'
  BY <1>1, <1>2 DEF ListenerInv, WordsSet, SetInProgress, StoredSoFar
<1>5. WordsFollow'
  BY <1>1, <1>2 DEF ListenerInv, WordsFollow, Difference
<1> QED
  BY <1>3, <1>4, <1>5 DEF ListenerInv

LEMMA StoreByteInv ==
  ASSUME ListenerInv, StoreByte
  PROVE  ListenerInv'
<1> SUFFICES ASSUME NEW w, NEW v, NEW k,
                    w = listener.word, v = listener.value, k = listener.byte
             PROVE  ListenerInv'
  OBVIOUS
<1>1. /\ listener.at = "store" /\ BiasTypes /\ UNCHANGED TesBiasValue
      /\ tesBias' = StoreWord(tesBias, w, v, k)
      /\ w \in Words /\ v \in Int /\ k \in 0 .. 2 /\ tesBias \in Arrays
  BY DEF StoreByte, ListenerInv, BiasTypes
<1>2. \A x \in Words : x # w => BiasAt(tesBias, x) = words[x]
  BY <1>1 DEF ListenerInv, WordsSet
<1>3. v = Difference(w) /\ StoredSoFar(tesBias, w, v, k)
  BY <1>1 DEF ListenerInv, WordsFollow, SetInProgress
<1>4. \A x \in Words : x # w => words[x] = Low20(Difference(x))
  BY DEF ListenerInv, WordsFollow
<1>5. \A x \in Words : Difference(x)' = Difference(x)
  BY <1>1 DEF Difference
<1>6. /\ tesBias' \in Arrays /\ StoredSoFar(tesBias', w, v, k + 1)
      /\ \A x \in Words : x # w => BiasAt(tesBias', x) = BiasAt(tesBias, x)
  <2>1. tesBias' \in Arrays
    BY <1>1, StoreFacts
  <2>2. StoredSoFar(tesBias', w, v, k + 1)
    BY <1>1, <1>3, StoreProgress
  <2>3. ASSUME NEW x \in Words, x # w
        PROVE  BiasAt(tesBias', x) = BiasAt(tesBias, x)
    BY <1>1, <2>3, StoreKeeps
  <2> QED
    BY <2>1, <2>2, <2>3
<1>7. CASE k = 2
  <2>1. listener' = Idle /\ words' = [words EXCEPT ![w] = Low20(v)] /\ Low20(v) \in -(2 ^ 19) .. 2 ^ 19 - 1
    BY <1>1, <1>7, Low20Type DEF StoreByte
  <2>2. BiasAt(tesBias', w) = Low20(v)
    <3>1. k + 1 = 3
      BY <1>7
    <3> QED
      BY <1>1, <1>6, <3>1, ProgressDone
  <2>3. \A x \in Words : words'[x] = IF x = w THEN Low20(v) ELSE words[x]
    BY <1>1, <2>1 DEF BiasTypes
  <2>4. BiasTypes'
    <3>1. words' \in [Words -> Int] /\ \A x \in Words : words'[x] \in -(2 ^ 19) .. 2 ^ 19 - 1
      <4>1. Low20(v) \in Int
        BY <1>1 DEF Low20
      <4>2. words' \in [Words -> Int]
        BY <1>1, <2>1, <4>1 DEF BiasTypes
      <4> QED
        BY <1>1, <2>1, <2>3, <4>2 DEF BiasTypes
    <3>2. 0 \in Words
      BY Places
    <3> QED
      <4>1. /\ listener' \in [at : {"idle", "lock", "store"}, word : Words, value : Int, byte : 0 .. 2]
            /\ listener'.at = "idle"
        BY <2>1, <3>2 DEF Idle
      <4> QED
        BY <1>1, <1>6, <3>1, <4>1 DEF BiasTypes
  <2>5. WordsSet' /\ SetInProgress'
    BY <1>2, <1>6, <2>1, <2>2, <2>3 DEF WordsSet, SetInProgress, Idle
  <2>6. WordsFollow'
    <3>1. ASSUME NEW x \in Words
          PROVE  words'[x] = Low20(Difference(x)')
      BY <1>3, <1>4, <1>5, <2>3
    <3> QED
      BY <2>1, <3>1 DEF WordsFollow, Idle
  <2> QED
    BY <2>4, <2>5, <2>6 DEF ListenerInv
<1>8. CASE k # 2
  <2>1. listener' = [listener EXCEPT !.byte = k + 1] /\ words' = words /\ k + 1 \in 0 .. 2
    BY <1>1, <1>8 DEF StoreByte
  <2>2. /\ listener'.at = "store" /\ listener'.word = w /\ listener'.value = v /\ listener'.byte = k + 1
    BY <1>1, <2>1 DEF BiasTypes
  <2>3. BiasTypes'
    BY <1>1, <1>6, <2>1, <2>2 DEF BiasTypes
  <2>4. WordsSet' /\ SetInProgress'
    BY <1>2, <1>6, <2>1, <2>2 DEF WordsSet, SetInProgress
  <2>5. WordsFollow'
    <3>1. ASSUME NEW x \in Words, x # w
          PROVE  words'[x] = Low20(Difference(x)')
      BY <1>4, <1>5, <2>1, <3>1
    <3>2. v = Difference(w)'
      BY <1>1, <1>3, <1>5
    <3> QED
      BY <2>2, <3>1, <3>2 DEF WordsFollow
  <2> QED
    BY <2>3, <2>4, <2>5 DEF ListenerInv
<1> QED
  BY <1>7, <1>8

-----------------------------------------------------------------------------
(***************************************************************************)
(* runThread and the mutex.                                                *)
(***************************************************************************)

\* A header that is another one but for the bytes of one field.
WithField(header, new, offset, width, value) ==
  /\ new \in [HeaderBytes -> Bytes]
  /\ \A k \in HeaderBytes :
       new[k] = IF k \in offset .. offset + width - 1 THEN value[k - offset + 1] ELSE header[k]

LEMMA PutFacts ==
  ASSUME NEW header \in [HeaderBytes -> Bytes], NEW offset \in Nat, NEW width \in Nat,
         NEW value \in [1 .. width -> Bytes]
  PROVE  WithField(header, put_field(header, offset, width, value), offset, width, value)
<1>1. DOMAIN header = HeaderBytes
  OBVIOUS
<1>2. ASSUME NEW k \in HeaderBytes
      PROVE  (IF k \in offset .. offset + width - 1 THEN value[k - offset + 1] ELSE header[k]) \in Bytes
  <2>1. CASE k \in offset .. offset + width - 1
    <3>1. k - offset + 1 \in 1 .. width
      BY <2>1 DEF HeaderBytes
    <3> QED
      BY <2>1, <3>1
  <2> QED
    BY <1>2, <2>1
<1> QED
  BY <1>1, <1>2 DEF put_field, WithField

tm == <<1, 2, 3, 4, 5, 6, 7, 8>>

LEMMA Values == tm \in [1 .. 8 -> Bytes] /\ smurfsamples \in [1 .. 4 -> Bytes]
<1>1. \A k \in 1 .. 8 : tm[k] \in Bytes
  BY DEF tm, Bytes
<1>2. 528 % 256 = 16 /\ 528 \div 256 = 2
  OBVIOUS
<1>3. smurfsamples = <<16, 2, 0, 0>>
  BY <1>2 DEF smurfsamples
<1>4. \A k \in 1 .. 4 : smurfsamples[k] \in Bytes
  BY <1>3 DEF Bytes
<1> QED
  BY <1>1, <1>3, <1>4 DEF tm

LEMMA RunTypesNext ==
  ASSUME IInv, RunThread
  PROVE  RunTypes'
<1>1. RunTypes /\ BiasTypes
  BY DEF IInv, RunInv, ListenerInv
<1>2. At("idle").at = "idle" /\ 0 \in 0 .. 39 /\ TesBiasBufferSize = 40
  BY Places DEF At
<1>3. \A p \in {"idle", "lock", "copy", "average"} :
        At(p) \in [at : {"idle", "lock", "copy", "average"}, byte : 0 .. 39]
  BY DEF At
<1>4. CASE Receive
  <2>1. run' = At("lock") /\ seen' = seen /\ frame' \in [HeaderBytes -> Bytes]
    BY <1>4, ValuesAssumption DEF Receive, HeaderBytes
  <2> QED
    BY <1>1, <1>3, <2>1 DEF RunTypes
<1>5. CASE LockToCopy
  <2>1. words \in [Words -> Int]
    BY <1>1 DEF BiasTypes
  <2> QED
    BY <1>1, <1>3, <1>5, <2>1 DEF RunTypes, LockToCopy
<1>6. CASE CopyByte
  <2>1. run.byte \in 0 .. 39 /\ tesBias[run.byte] \in Bytes
    <3>1. run.byte \in 0 .. 39
      BY <1>1 DEF RunTypes
    <3>2. tesBias \in Arrays /\ Arrays = [0 .. 39 -> Bytes]
      <4>1. TesBiasBufferSize - 1 = 39
        BY <1>2
      <4>2. Arrays = [0 .. 39 -> Bytes]
        BY <4>1 DEF Arrays
      <4> QED
        BY <1>1, <4>2 DEF BiasTypes
    <3> QED
      BY <3>1, <3>2
  <2>2. frame' \in [HeaderBytes -> Bytes]
    BY <1>1, <1>6, <2>1 DEF RunTypes, CopyByte
  <2>3. run' = At("average") \/ (run' = [run EXCEPT !.byte = run.byte + 1] /\ run.byte # 39)
    BY <1>2, <1>6 DEF CopyByte
  <2>4. run' \in [at : {"idle", "lock", "copy", "average"}, byte : 0 .. 39]
    <3>1. CASE run' = At("average")
      BY <1>3, <3>1
    <3>2. CASE run' = [run EXCEPT !.byte = run.byte + 1] /\ run.byte # 39
      BY <1>1, <2>1, <3>2 DEF RunTypes
    <3> QED
      BY <2>3, <3>1, <3>2
  <2> QED
    BY <1>1, <1>6, <2>2, <2>4 DEF RunTypes, CopyByte
<1>7. CASE GoOnAveraging
  BY <1>1, <1>3, <1>7 DEF RunTypes, GoOnAveraging
<1>8. CASE MakePacket
  <2>1. /\ frame' = set_num_channels(put_field(frame, 48, 8, tm), smurfsamples)
        /\ run' = At("idle") /\ seen' = seen
    BY <1>8 DEF MakePacket, tm
  <2>2. put_field(frame, 48, 8, tm) \in [HeaderBytes -> Bytes]
    BY <1>1, Values, PutFacts DEF RunTypes, WithField
  <2>3. frame' \in [HeaderBytes -> Bytes]
    BY <2>1, <2>2, Values, PutFacts DEF set_num_channels, WithField
  <2> QED
    BY <1>1, <1>3, <2>1, <2>3 DEF RunTypes
<1> QED
  BY <1>4, <1>5, <1>6, <1>7, <1>8 DEF RunThread

\* What runThread leaves alone.
LEMMA RunThreadLeaves ==
  ASSUME RunThread
  PROVE  UNCHANGED biasVars
BY DEF RunThread, Receive, LockToCopy, CopyByte, GoOnAveraging, MakePacket

\* A whole copy of the array has its words.
LEMMA CopyIsWhole ==
  ASSUME NEW bytes \in Arrays, NEW header \in [HeaderBytes -> Bytes],
         \A k \in 0 .. 39 : header[TESDACOffset + k] = bytes[k], NEW w \in Words
  PROVE  getWord(header, TESDACOffset, w) = BiasAt(bytes, w)
<1> DEFINE p == Stored(w, 0)
<1>1. p \in 0 .. 37
  BY Places
<1>2. /\ BiasAt(bytes, w) = WordBits(w, bytes[p], bytes[p + 1], bytes[p + 2])
      /\ getWord(header, TESDACOffset, w)
           = WordBits(w, header[TESDACOffset + p], header[TESDACOffset + p + 1],
                      header[TESDACOffset + p + 2])
  BY WordIn
<1> HIDE DEF p
<1>3. /\ header[TESDACOffset + p] = bytes[p]
      /\ header[TESDACOffset + p + 1] = bytes[p + 1]
      /\ header[TESDACOffset + p + 2] = bytes[p + 2]
  <2>1. p \in 0 .. 39 /\ p + 1 \in 0 .. 39 /\ p + 2 \in 0 .. 39
        /\ TESDACOffset + p + 1 = TESDACOffset + (p + 1)
        /\ TESDACOffset + p + 2 = TESDACOffset + (p + 2)
    BY <1>1 DEF TESDACOffset
  <2> QED
    BY <2>1
<1> QED
  BY <1>2, <1>3

LEMMA RunThreadInv ==
  ASSUME IInv, RunThread
  PROVE  ListenerInv' /\ RunInv'
<1>1. /\ RunTypes /\ RunTypes' /\ MutexHeld /\ CopiedSoFar /\ BiasTypes /\ WordsSet
      /\ UNCHANGED <<TesBiasValue, listener, tesBias, words>>
  BY RunTypesNext, RunThreadLeaves DEF IInv, RunInv, ListenerInv, biasVars
<1>2. ListenerInv'
  BY <1>1 DEF IInv, ListenerInv, BiasTypes, WordsSet, SetInProgress, WordsFollow, Difference
<1>3. \A p \in {"idle", "lock", "copy", "average"} : At(p).at = p /\ At(p).byte = 0
  BY DEF At
<1>4. CASE Receive \/ GoOnAveraging \/ MakePacket
  <2>1. run'.at \notin {"copy", "average"} /\ run.at # "copy" /\ mutex' = mutex
    BY <1>3, <1>4 DEF Receive, GoOnAveraging, MakePacket
  <2> QED
    BY <1>1, <1>2, <2>1 DEF RunInv, MutexHeld, CopiedSoFar, BiasWhole
<1>5. CASE LockToCopy
  <2>1. /\ run.at = "lock" /\ mutex = "free" /\ mutex' = "runThread" /\ seen' = words
        /\ run'.at = "copy" /\ run'.byte = 0
    BY <1>3, <1>5 DEF LockToCopy, MutexFree
  <2>2. MutexHeld'
    BY <1>1, <2>1 DEF MutexHeld
  <2>3. CopiedSoFar' /\ BiasWhole'
    BY <1>1, <2>1 DEF CopiedSoFar, BiasWhole
  <2> QED
    BY <1>1, <1>2, <2>2, <2>3 DEF RunInv
<1>6. CASE CopyByte
  <2> DEFINE n == run.byte
  <2>1. /\ run.at = "copy" /\ mutex = "runThread" /\ listener.at # "store" /\ seen = words
        /\ seen' = seen /\ n \in 0 .. 39
        /\ frame \in [HeaderBytes -> Bytes] /\ frame' \in [HeaderBytes -> Bytes]
        /\ frame' = [frame EXCEPT ![TESDACOffset + n] = tesBias[n]]
        /\ \A k \in 0 .. 39 : k < n => frame[TESDACOffset + k] = tesBias[k]
    BY <1>1, <1>6 DEF CopyByte, MutexHeld, CopiedSoFar, RunTypes
  <2>2. ASSUME NEW k \in 0 .. 39, k < n + 1
        PROVE  frame'[TESDACOffset + k] = tesBias[k]
    <3> HIDE DEF n
    <3>1. TESDACOffset + k \in HeaderBytes /\ (TESDACOffset + k = TESDACOffset + n <=> k = n)
      BY <2>1 DEF TESDACOffset, HeaderBytes
    <3>2. CASE k = n
      BY <2>1, <3>1, <3>2
    <3>3. CASE k # n
      BY <2>1, <2>2, <3>1, <3>3
    <3> QED
      BY <3>2, <3>3
  <2>3. CASE n = 39
    <3>1. run' = At("average") /\ mutex' = "free"
      BY <1>6, <2>3, Places DEF CopyByte
    <3>2. run'.at = "average"
      BY <1>3, <3>1
    <3>3. MutexHeld'
      BY <1>1, <2>1, <3>1, <3>2 DEF MutexHeld
    <3>4. ASSUME NEW w \in Words
          PROVE  getWord(frame', TESDACOffset, w) = seen'[w]
      <4>1. \A k \in 0 .. 39 : frame'[TESDACOffset + k] = tesBias[k]
        BY <2>2, <2>3
      <4>2. getWord(frame', TESDACOffset, w) = BiasAt(tesBias, w)
        BY <1>1, <2>1, <4>1, CopyIsWhole DEF BiasTypes
      <4> QED
        BY <1>1, <2>1, <4>2 DEF WordsSet
    <3>5. CopiedSoFar' /\ BiasWhole'
      BY <3>2, <3>4 DEF CopiedSoFar, BiasWhole
    <3> QED
      BY <1>1, <1>2, <3>3, <3>5 DEF RunInv
  <2>4. CASE n # 39
    <3>1. run' = [run EXCEPT !.byte = n + 1] /\ mutex' = mutex
      BY <1>6, <2>4, Places DEF CopyByte
    <3>2. run'.at = "copy" /\ run'.byte = n + 1
      BY <1>1, <2>1, <3>1 DEF RunTypes
    <3>3. MutexHeld'
      BY <1>1, <2>1, <3>1, <3>2 DEF MutexHeld
    <3>4. CopiedSoFar' /\ BiasWhole'
      BY <1>1, <2>1, <2>2, <3>2 DEF CopiedSoFar, BiasWhole
    <3> QED
      BY <1>1, <1>2, <3>3, <3>4 DEF RunInv
  <2> QED
    BY <2>3, <2>4
<1> QED
  BY <1>4, <1>5, <1>6 DEF RunThread

\* The listener does not set a word while runThread copies.
LEMMA ListenerKeepsRun ==
  ASSUME IInv, Listener
  PROVE  ListenerInv' /\ RunInv'
<1>1. ListenerInv'
  BY SendInv, LockToSetInv, StoreByteInv DEF IInv, Listener
<1>2. /\ RunTypes /\ MutexHeld /\ CopiedSoFar /\ BiasWhole /\ BiasTypes
      /\ UNCHANGED <<frame, run, seen>>
  BY DEF IInv, RunInv, ListenerInv, Listener, send_test_bias, LockToSet, StoreByte, runVars
<1>3. RunTypes' /\ BiasWhole'
  BY <1>2 DEF RunTypes, BiasWhole
<1>4. MutexHeld' /\ CopiedSoFar'
  <2>1. CASE send_test_bias
    <3>1. listener.at = "idle" /\ listener'.at = "lock" /\ UNCHANGED <<tesBias, words, mutex>>
      BY <2>1 DEF send_test_bias
    <3> QED
      BY <1>2, <3>1 DEF MutexHeld, CopiedSoFar
  <2>2. CASE LockToSet
    <3>1. /\ mutex = "free" /\ mutex' = "listener" /\ UNCHANGED <<tesBias, words>>
          /\ listener'.at = "store"
      BY <1>2, <2>2 DEF LockToSet, MutexFree, BiasTypes
    <3> QED
      BY <1>2, <3>1 DEF MutexHeld, CopiedSoFar
  <2>3. CASE StoreByte
    <3>1. listener.at = "store" /\ mutex = "listener" /\ run.at # "copy"
      BY <1>2, <2>3 DEF StoreByte, MutexHeld
    <3>2. \/ listener'.at = "idle" /\ mutex' = "free"
          \/ listener'.at = "store" /\ mutex' = mutex
      <4>1. listener \in [at : {"idle", "lock", "store"}, word : Words, value : Int, byte : 0 .. 2]
            /\ listener.at = "store"
        BY <1>2, <2>3 DEF BiasTypes, StoreByte
      <4>2. \/ listener' = Idle /\ mutex' = "free"
            \/ listener' = [listener EXCEPT !.byte = @ + 1] /\ mutex' = mutex
        BY <2>3 DEF StoreByte
      <4> QED
        BY <4>1, <4>2 DEF Idle
    <3> QED
      BY <1>2, <3>1, <3>2 DEF MutexHeld, CopiedSoFar
  <2> QED
    BY <2>1, <2>2, <2>3 DEF Listener
<1> QED
  BY <1>1, <1>3, <1>4 DEF RunInv

-----------------------------------------------------------------------------
(***************************************************************************)
(* Fields, bits and words of a header.                                     *)
(***************************************************************************)

\* Fields are in the header, none shares a byte with another or with the bias array.
LEMMA FieldPlaces ==
  /\ \A f \in Fields :
       /\ packetOffset[f] \in Nat /\ packetWidth(f) \in {1, 2, 4, 8}
       /\ packetOffset[f] + packetWidth(f) <= 128
       /\ packetOffset[f] + packetWidth(f) <= 8 \/ packetOffset[f] >= 48
  /\ \A f, g \in Fields : f # g =>
       \/ packetOffset[f] + packetWidth(f) <= packetOffset[g]
       \/ packetOffset[g] + packetWidth(g) <= packetOffset[f]
  /\ {"UnixTime", "NumberChannels", "ControlField"} \subseteq Fields
  /\ packetOffset["UnixTime"] = 48 /\ packetWidth("UnixTime") = 8
  /\ packetOffset["NumberChannels"] = 4 /\ packetWidth("NumberChannels") = 4
  /\ packetOffset["ControlField"] = 104 /\ packetWidth("ControlField") = 1
BY DEF Fields, packetOffset, packetWidth

\* The bias words are those of the bytes 8 to 47.
LEMMA BiasKept ==
  ASSUME NEW header \in [HeaderBytes -> Bytes], NEW new \in [HeaderBytes -> Bytes],
         \A k \in 8 .. 47 : new[k] = header[k]
  PROVE  BiasOf(new) = BiasOf(header)
<1>1. ASSUME NEW w \in Words
      PROVE  getWord(new, TESDACOffset, w) = getWord(header, TESDACOffset, w)
  <2> DEFINE p == TESDACOffset + Stored(w, 0)
  <2>1. p \in 8 .. 45
    <3>1. Stored(w, 0) \in 0 .. 37
      BY Places
    <3> QED
      BY <3>1 DEF TESDACOffset
  <2>2. /\ getWord(new, TESDACOffset, w) = WordBits(w, new[p], new[p + 1], new[p + 2])
        /\ getWord(header, TESDACOffset, w) = WordBits(w, header[p], header[p + 1], header[p + 2])
    BY WordIn
  <2> HIDE DEF p
  <2>3. p \in 8 .. 47 /\ p + 1 \in 8 .. 47 /\ p + 2 \in 8 .. 47
    BY <2>1
  <2> QED
    BY <2>2, <2>3
<1> QED
  BY <1>1 DEF BiasOf

\* Setting a field sets it, and neither another field nor a bias word.
FieldSet(header, new, f, value) ==
  /\ new \in [HeaderBytes -> Bytes]
  /\ \A g \in Fields : getHeaderWord(new, g) = IF g = f THEN value ELSE getHeaderWord(header, g)
  /\ Control(new) = IF f = "ControlField" THEN value[1] ELSE Control(header)
  /\ BiasOf(new) = BiasOf(header)

LEMMA SetHeaderFacts ==
  ASSUME NEW header \in [HeaderBytes -> Bytes], NEW f \in Fields,
         NEW value \in [1 .. packetWidth(f) -> Bytes],
         NEW new, new = setHeaderWord(header, f, value)
  PROVE  FieldSet(header, new, f, value)
<1> DEFINE o == packetOffset[f]
           n == packetWidth(f)
<1>1. /\ o \in Nat /\ n \in 1 .. 8 /\ n \in Nat /\ o + n <= 128 /\ (o + n <= 8 \/ o >= 48)
  BY FieldPlaces
<1>2. new = put_field(header, o, n, value)
  BY DEF setHeaderWord
<1> HIDE DEF o, n
<1>3. value \in [1 .. n -> Bytes]
  BY DEF n
<1>4. /\ new \in [HeaderBytes -> Bytes]
      /\ \A k \in HeaderBytes : new[k] = IF k \in o .. o + n - 1 THEN value[k - o + 1] ELSE header[k]
  <2>1. WithField(header, new, o, n, value)
    BY <1>1, <1>2, <1>3, PutFacts
  <2> QED
    BY <2>1 DEF WithField
<1>5. ASSUME NEW g \in Fields
      PROVE  getHeaderWord(new, g) = IF g = f THEN value ELSE getHeaderWord(header, g)
  <2> DEFINE q == packetOffset[g]
             m == packetWidth(g)
  <2>1. q \in Nat /\ m \in 1 .. 8 /\ q + m <= 128
    BY FieldPlaces
  <2>2. /\ getHeaderWord(new, g) = [k \in 1 .. m |-> new[q + k - 1]]
        /\ getHeaderWord(header, g) = [k \in 1 .. m |-> header[q + k - 1]]
    BY DEF getHeaderWord, pull_bit_field
  <2>3. CASE g = f
    <3>1. q = o /\ m = n
      BY <2>3 DEF o, n
    <3> HIDE DEF q, m
    <3>2. \A k \in 1 .. m : new[q + k - 1] = value[k]
      <4>1. \A k \in 1 .. m : q + k - 1 \in HeaderBytes /\ q + k - 1 \in o .. o + n - 1
                              /\ (q + k - 1) - o + 1 = k
        BY <1>1, <2>1, <3>1 DEF HeaderBytes
      <4> QED
        BY <1>4, <4>1
    <3>3. value = [k \in 1 .. m |-> value[k]]
      BY <1>3, <3>1
    <3> QED
      BY <2>2, <2>3, <3>2, <3>3
  <2>4. CASE g # f
    <3>1. q + m <= o \/ o + n <= q
      BY <2>4, FieldPlaces DEF o, n
    <3> HIDE DEF q, m
    <3>2. \A k \in 1 .. m : new[q + k - 1] = header[q + k - 1]
      <4>1. ASSUME NEW k \in 1 .. m
            PROVE  q + k - 1 \in HeaderBytes /\ q + k - 1 \notin o .. o + n - 1
        <5>1. o \in Nat /\ n \in Nat /\ q \in Nat /\ m \in Nat
          BY <1>1, <2>1
        <5>2. q + k - 1 \in HeaderBytes
          BY <2>1, <5>1 DEF HeaderBytes
        <5>3. q + k - 1 < o \/ q + k - 1 > o + n - 1
          BY <3>1, <5>1
        <5> QED
          BY <5>1, <5>2, <5>3
      <4> QED
        BY <1>4, <4>1
    <3> QED
      BY <2>2, <2>4, <3>2
  <2> QED
    BY <2>3, <2>4
<1>6. Control(new) = IF f = "ControlField" THEN value[1] ELSE Control(header)
  <2>1. /\ Control(new) = getHeaderWord(new, "ControlField")[1]
        /\ Control(header) = getHeaderWord(header, "ControlField")[1]
    BY FieldPlaces DEF Control, getHeaderWord, pull_bit_field
  <2>2. "ControlField" \in Fields
    BY FieldPlaces
  <2> QED
    BY <1>5, <2>1, <2>2
<1>7. BiasOf(new) = BiasOf(header)
  <2>1. ASSUME NEW k \in 8 .. 47
        PROVE  k \in HeaderBytes /\ k \notin o .. o + n - 1
    <3>1. k \in HeaderBytes
      BY DEF HeaderBytes
    <3>2. k < o \/ k > o + n - 1
      BY <1>1
    <3>3. o \in Nat /\ n \in Nat
      BY <1>1
    <3> QED
      BY <3>1, <3>2, <3>3
  <2>2. \A k \in 8 .. 47 : new[k] = header[k]
    BY <1>4, <2>1
  <2> QED
    BY <1>4, <2>2, BiasKept
<1> QED
  BY <1>4, <1>5, <1>6, <1>7 DEF FieldSet

\* The control byte: four bits and the mode are apart.
LEMMA BitFacts ==
  ASSUME NEW byte \in Bytes, NEW i \in 0 .. 3, NEW value \in BOOLEAN
  PROVE  /\ setWordBit(byte, i, value) \in Bytes
         /\ \A j \in 0 .. 3 :
              getWordBit(setWordBit(byte, i, value), j) = IF j = i THEN value ELSE getWordBit(byte, j)
         /\ setWordBit(byte, i, value) \div 16 = byte \div 16
<1> DEFINE new == setWordBit(byte, i, value)
           bit(x, j) == (x \div 2 ^ j) % 2
<1>1. byte \in 0 .. 255 /\ 2 ^ 0 = 1 /\ 2 ^ 1 = 2 /\ 2 ^ 2 = 4 /\ 2 ^ 3 = 8
  BY DEF Bytes
<1>2. \A j \in 0 .. 3 : bit(byte, j) \in {0, 1}
  BY <1>1
<1>3. new = byte + (IF value THEN 2 ^ i ELSE 0) - (IF bit(byte, i) = 1 THEN 2 ^ i ELSE 0)
  BY DEF setWordBit, getWordBit
<1>4. new = byte + 2 ^ i * ((IF value THEN 1 ELSE 0) - bit(byte, i))
  BY <1>1, <1>2, <1>3
<1> DEFINE b == IF value THEN 1 ELSE 0
<1>5. b \in {0, 1} /\ (b = 1 <=> value) /\ new = byte + 2 ^ i * (b - bit(byte, i))
  BY <1>4
<1> HIDE DEF new, b
<1>6. /\ new \in 0 .. 255 /\ new \div 16 = byte \div 16
      /\ \A j \in 0 .. 3 : bit(new, j) = IF j = i THEN b ELSE bit(byte, j)
  <2>1. CASE i = 0
    <3>1. new \in 0 .. 255 /\ new \div 16 = byte \div 16
      BY <1>1, <1>5, <2>1
    <3>2. new % 2 = b
      BY <1>1, <1>5, <2>1
    <3>3. /\ (new \div 2) % 2 = (byte \div 2) % 2 /\ (new \div 4) % 2 = (byte \div 4) % 2
          /\ (new \div 8) % 2 = (byte \div 8) % 2
      BY <1>1, <1>5, <2>1
    <3> QED
      BY <1>1, <2>1, <3>1, <3>2, <3>3
  <2>2. CASE i = 1
    <3>1. new \in 0 .. 255 /\ new \div 16 = byte \div 16
      BY <1>1, <1>5, <2>2
    <3>2. (new \div 2) % 2 = b
      BY <1>1, <1>5, <2>2
    <3>3. /\ new % 2 = byte % 2 /\ (new \div 4) % 2 = (byte \div 4) % 2
          /\ (new \div 8) % 2 = (byte \div 8) % 2
      BY <1>1, <1>5, <2>2
    <3> QED
      BY <1>1, <2>2, <3>1, <3>2, <3>3
  <2>3. CASE i = 2
    <3>1. new \in 0 .. 255 /\ new \div 16 = byte \div 16
      BY <1>1, <1>5, <2>3
    <3>2. (new \div 4) % 2 = b
      BY <1>1, <1>5, <2>3
    <3>3. /\ new % 2 = byte % 2 /\ (new \div 2) % 2 = (byte \div 2) % 2
          /\ (new \div 8) % 2 = (byte \div 8) % 2
      BY <1>1, <1>5, <2>3
    <3> QED
      BY <1>1, <2>3, <3>1, <3>2, <3>3
  <2>4. CASE i = 3
    <3>1. new \in 0 .. 255 /\ new \div 16 = byte \div 16
      BY <1>1, <1>5, <2>4
    <3>2. (new \div 8) % 2 = b
      BY <1>1, <1>5, <2>4
    <3>3. /\ new % 2 = byte % 2 /\ (new \div 2) % 2 = (byte \div 2) % 2
          /\ (new \div 4) % 2 = (byte \div 4) % 2
      BY <1>1, <1>5, <2>4
    <3> QED
      BY <1>1, <2>4, <3>1, <3>2, <3>3
  <2> QED
    BY <2>1, <2>2, <2>3, <2>4
<1>7. \A j \in 0 .. 3 : getWordBit(new, j) = IF j = i THEN value ELSE getWordBit(byte, j)
  BY <1>5, <1>6 DEF getWordBit
<1> QED
  BY <1>6, <1>7 DEF new, Bytes

LEMMA ModeFacts ==
  ASSUME NEW byte \in Bytes, NEW mode \in 0 .. 15
  PROVE  /\ setTestMode(byte, mode) \in Bytes
         /\ \A j \in 0 .. 3 : getWordBit(setTestMode(byte, mode), j) = getWordBit(byte, j)
         /\ setTestMode(byte, mode) \div 16 = mode
<1> DEFINE new == setTestMode(byte, mode)
<1>1. byte \in 0 .. 255 /\ 2 ^ 0 = 1 /\ 2 ^ 1 = 2 /\ 2 ^ 2 = 4 /\ 2 ^ 3 = 8
  BY DEF Bytes
<1>2. new = (byte % 16) + 16 * mode
  BY DEF setTestMode
<1> HIDE DEF new
<1>3. new \in 0 .. 255 /\ new \div 16 = mode
  BY <1>1, <1>2
<1>4. ASSUME NEW j \in 0 .. 3
      PROVE  (new \div 2 ^ j) % 2 = (byte \div 2 ^ j) % 2
  <2>1. new = byte + 16 * (mode - (byte \div 16))
    BY <1>1, <1>2
  <2> DEFINE c == mode - (byte \div 16)
  <2>2. c \in Int /\ new = byte + 16 * c
    BY <1>1, <2>1
  <2> HIDE DEF c
  <2>3. CASE j = 0
    BY <1>1, <2>2, <2>3
  <2>4. CASE j = 1
    BY <1>1, <2>2, <2>4
  <2>5. CASE j = 2
    BY <1>1, <2>2, <2>5
  <2>6. CASE j = 3
    BY <1>1, <2>2, <2>6
  <2> QED
    BY <2>3, <2>4, <2>5, <2>6
<1> QED
  BY <1>3, <1>4 DEF new, Bytes, getWordBit

-----------------------------------------------------------------------------
(***************************************************************************)
(* The packet and its owner.                                               *)
(***************************************************************************)

Plain == Fields \ {"ControlField"}
FieldsOf(header) == [f \in Plain |-> getHeaderWord(header, f)]
BitsOf(control) == [b \in DOMAIN Bits |-> getWordBit(control, Bits[b])]

LEMMA MeaningIs ==
  ASSUME NEW header, NEW bias
  PROVE  Meaning(header, bias) =
           [field |-> FieldsOf(header), bit |-> BitsOf(Control(header)),
            mode |-> Control(header) \div 16, bias |-> bias]
BY DEF Meaning, FieldsOf, BitsOf, TestMode, Plain

LEMMA BitNumbers ==
  /\ \A b \in DOMAIN Bits : Bits[b] \in 0 .. 3
  /\ \A b, c \in DOMAIN Bits : b # c => Bits[b] # Bits[c]
BY DEF Bits

LEMMA ControlIsByte ==
  ASSUME NEW header \in [HeaderBytes -> Bytes]
  PROVE  Control(header) \in Bytes
<1>1. 104 \in HeaderBytes
  BY DEF HeaderBytes
<1> QED
  BY <1>1, FieldPlaces DEF Control

\* A field that is not the control field is set in the packet and in its meaning.
PlainSet(header, new, f, value) ==
  /\ new \in [HeaderBytes -> Bytes] /\ BiasOf(new) = BiasOf(header)
  /\ Control(new) = Control(header)
  /\ FieldsOf(new) = [FieldsOf(header) EXCEPT ![f] = value]

LEMMA SetFieldMeans ==
  ASSUME NEW header \in [HeaderBytes -> Bytes], NEW f \in Plain,
         NEW value \in [1 .. packetWidth(f) -> Bytes], NEW new, new = setHeaderWord(header, f, value)
  PROVE  PlainSet(header, new, f, value)
<1>1. f \in Fields /\ f # "ControlField"
  BY DEF Plain
<1>2. /\ new \in [HeaderBytes -> Bytes] /\ BiasOf(new) = BiasOf(header)
      /\ Control(new) = Control(header)
      /\ \A g \in Fields : getHeaderWord(new, g) = IF g = f THEN value ELSE getHeaderWord(header, g)
  BY <1>1, SetHeaderFacts DEF FieldSet
<1>3. \A g \in Plain : getHeaderWord(new, g) = IF g = f THEN value ELSE getHeaderWord(header, g)
  BY <1>2 DEF Plain
<1>4. FieldsOf(new) = [FieldsOf(header) EXCEPT ![f] = value]
  BY <1>3 DEF FieldsOf
<1> QED
  BY <1>2, <1>4 DEF PlainSet

\* The control byte is set without the other fields.
LEMMA PutControlMeans ==
  ASSUME MeantIsMeaning, NEW byte \in Bytes, NEW new, new = PutControl(byte)
  PROVE  /\ new \in [HeaderBytes -> Bytes] /\ BiasOf(new) = BiasOf(packet)
         /\ Control(new) = byte /\ FieldsOf(new) = FieldsOf(packet)
<1>1. packet \in [HeaderBytes -> Bytes] /\ new = setHeaderWord(packet, "ControlField", <<byte>>)
  BY DEF MeantIsMeaning, PutControl
<1>2. "ControlField" \in Fields /\ <<byte>> \in [1 .. packetWidth("ControlField") -> Bytes]
  <2>1. packetWidth("ControlField") = 1 /\ "ControlField" \in Fields
    BY FieldPlaces
  <2>2. <<byte>> \in [1 .. 1 -> Bytes]
    OBVIOUS
  <2> QED
    BY <2>1, <2>2
<1>3. /\ new \in [HeaderBytes -> Bytes] /\ BiasOf(new) = BiasOf(packet)
      /\ Control(new) = <<byte>>[1]
      /\ \A g \in Fields : g # "ControlField" => getHeaderWord(new, g) = getHeaderWord(packet, g)
  <2> DEFINE value == <<byte>>
  <2>1. value \in [1 .. packetWidth("ControlField") -> Bytes]
        /\ new = setHeaderWord(packet, "ControlField", value)
    BY <1>1, <1>2
  <2> HIDE DEF value
  <2>2. /\ new \in [HeaderBytes -> Bytes] /\ BiasOf(new) = BiasOf(packet)
        /\ Control(new) = value[1]
        /\ \A g \in Fields : g # "ControlField" => getHeaderWord(new, g) = getHeaderWord(packet, g)
    <3>1. FieldSet(packet, new, "ControlField", value)
      BY <1>1, <1>2, <2>1, SetHeaderFacts
    <3> QED
      BY <3>1 DEF FieldSet
  <2> QED
    BY <2>2 DEF value
<1>4. FieldsOf(new) = FieldsOf(packet)
  BY <1>3 DEF FieldsOf, Plain
<1> QED
  BY <1>3, <1>4

LEMMA MakePacketMeans ==
  ASSUME IInv, MakePacket
  PROVE  MeantIsMeaning'
<1> DEFINE one == setHeaderWord(frame, "UnixTime", tm)
           two == setHeaderWord(one, "NumberChannels", smurfsamples)
<1>1. "UnixTime" \in Plain /\ "NumberChannels" \in Plain
  BY FieldPlaces DEF Plain
<1>2. /\ tm \in [1 .. packetWidth("UnixTime") -> Bytes]
      /\ smurfsamples \in [1 .. packetWidth("NumberChannels") -> Bytes]
  BY Values, FieldPlaces
<1>3. /\ run.at = "average" /\ packet' = two
      /\ meant' = [Meaning(frame, seen) EXCEPT !.field.UnixTime = tm,
                                               !.field.NumberChannels = smurfsamples]
  BY FieldPlaces DEF MakePacket, setHeaderWord, set_num_channels, tm
<1>4. frame \in [HeaderBytes -> Bytes] /\ seen = BiasOf(frame)
  <2>1. frame \in [HeaderBytes -> Bytes] /\ seen \in [Words -> Int]
    BY DEF IInv, RunInv, RunTypes
  <2>2. \A w \in Words : getWord(frame, TESDACOffset, w) = seen[w]
    BY <1>3 DEF IInv, RunInv, BiasWhole
  <2> QED
    BY <2>1, <2>2 DEF BiasOf
<1> HIDE DEF one, two
<1>5. /\ one \in [HeaderBytes -> Bytes] /\ BiasOf(one) = BiasOf(frame)
      /\ Control(one) = Control(frame)
      /\ FieldsOf(one) = [FieldsOf(frame) EXCEPT !["UnixTime"] = tm]
  BY <1>1, <1>2, <1>4, SetFieldMeans DEF one, PlainSet
<1>6. /\ two \in [HeaderBytes -> Bytes] /\ BiasOf(two) = BiasOf(one)
      /\ Control(two) = Control(one)
      /\ FieldsOf(two) = [FieldsOf(one) EXCEPT !["NumberChannels"] = smurfsamples]
  BY <1>1, <1>2, <1>5, SetFieldMeans DEF two, PlainSet
<1>7. Meaning(frame, seen) = [field |-> FieldsOf(frame), bit |-> BitsOf(Control(frame)),
                              mode |-> Control(frame) \div 16, bias |-> seen]
  BY MeaningIs
<1>8. meant' = [field |-> FieldsOf(two), bit |-> BitsOf(Control(two)),
                mode |-> Control(two) \div 16, bias |-> BiasOf(two)]
  <2> DEFINE m == Meaning(frame, seen)
             m1 == [m EXCEPT !.field.UnixTime = tm]
  <2>1. m1 = [field |-> FieldsOf(one), bit |-> BitsOf(Control(frame)),
              mode |-> Control(frame) \div 16, bias |-> seen]
    BY <1>5, <1>7
  <2>2. meant' = [m1 EXCEPT !.field.NumberChannels = smurfsamples]
    BY <1>3
  <2> HIDE DEF m1
  <2>3. meant' = [field |-> FieldsOf(two), bit |-> BitsOf(Control(frame)),
                  mode |-> Control(frame) \div 16, bias |-> seen]
    BY <1>6, <2>1, <2>2
  <2> QED
    BY <1>4, <1>5, <1>6, <2>3
<1>9. meant' = Meaning(packet', BiasOf(packet'))
  BY <1>3, <1>8, MeaningIs
<1> QED
  BY <1>3, <1>6, <1>9 DEF MeantIsMeaning

LEMMA SetFieldInv ==
  ASSUME MeantIsMeaning, SetField
  PROVE  MeantIsMeaning'
<1>1. PICK f \in Plain, b \in {0, 170} :
        LET value == [k \in 1 .. packetWidth(f) |-> b]
        IN /\ packet' = setHeaderWord(packet, f, value)
           /\ meant' = [meant EXCEPT !.field[f] = value]
  BY DEF SetField, Plain
<1> DEFINE value == [k \in 1 .. packetWidth(f) |-> b]
<1>2. value \in [1 .. packetWidth(f) -> Bytes]
  BY <1>1 DEF Bytes
<1>3. packet' = setHeaderWord(packet, f, value) /\ meant' = [meant EXCEPT !.field[f] = value]
  BY <1>1
<1> HIDE DEF value
<1>4. packet \in [HeaderBytes -> Bytes]
  BY DEF MeantIsMeaning
<1>5. /\ packet' \in [HeaderBytes -> Bytes] /\ BiasOf(packet') = BiasOf(packet)
      /\ Control(packet') = Control(packet)
      /\ FieldsOf(packet') = [FieldsOf(packet) EXCEPT ![f] = value]
  <2>1. PlainSet(packet, packet', f, value)
    BY <1>2, <1>3, <1>4, SetFieldMeans
  <2> QED
    BY <2>1 DEF PlainSet
<1>6. meant = [field |-> FieldsOf(packet), bit |-> BitsOf(Control(packet)),
               mode |-> Control(packet) \div 16, bias |-> BiasOf(packet)]
  BY MeaningIs DEF MeantIsMeaning
<1>7. meant' = [field |-> FieldsOf(packet'), bit |-> BitsOf(Control(packet')),
                mode |-> Control(packet') \div 16, bias |-> BiasOf(packet')]
  BY <1>3, <1>5, <1>6
<1> QED
  BY <1>5, <1>7, MeaningIs DEF MeantIsMeaning

LEMMA SetBitInv ==
  ASSUME MeantIsMeaning, SetBit
  PROVE  MeantIsMeaning'
<1>1. PICK b \in DOMAIN Bits, value \in BOOLEAN :
        /\ packet' = PutControl(setWordBit(Control(packet), Bits[b], value))
        /\ meant' = [meant EXCEPT !.bit[b] = value]
  BY DEF SetBit
<1> DEFINE old == Control(packet)
           byte == setWordBit(old, Bits[b], value)
<1>2. old \in Bytes /\ Bits[b] \in 0 .. 3
  BY ControlIsByte, BitNumbers DEF MeantIsMeaning
<1>3. /\ byte \in Bytes /\ byte \div 16 = old \div 16
      /\ \A j \in 0 .. 3 : getWordBit(byte, j) = IF j = Bits[b] THEN value ELSE getWordBit(old, j)
  <2> HIDE DEF old
  <2> QED
    BY <1>2, BitFacts
<1> HIDE DEF byte
<1>4. /\ packet' \in [HeaderBytes -> Bytes] /\ BiasOf(packet') = BiasOf(packet)
      /\ Control(packet') = byte /\ FieldsOf(packet') = FieldsOf(packet)
  BY <1>1, <1>3, PutControlMeans DEF byte
<1> HIDE DEF old
<1>5. BitsOf(byte) = [BitsOf(old) EXCEPT ![b] = value]
  <2>1. \A c \in DOMAIN Bits : getWordBit(byte, Bits[c]) = IF c = b THEN value ELSE getWordBit(old, Bits[c])
    BY <1>3, BitNumbers
  <2> QED
    BY <2>1 DEF BitsOf
<1>6. meant = [field |-> FieldsOf(packet), bit |-> BitsOf(old), mode |-> old \div 16, bias |-> BiasOf(packet)]
  BY MeaningIs DEF MeantIsMeaning, old
<1>7. meant' = [field |-> FieldsOf(packet'), bit |-> BitsOf(byte), mode |-> byte \div 16,
                bias |-> BiasOf(packet')]
  BY <1>1, <1>3, <1>4, <1>5, <1>6
<1> QED
  BY <1>4, <1>7, MeaningIs DEF MeantIsMeaning

LEMMA SetModeInv ==
  ASSUME MeantIsMeaning, SetMode
  PROVE  MeantIsMeaning'
<1>1. PICK mode \in 0 .. 15 :
        /\ packet' = PutControl(setTestMode(Control(packet), mode))
        /\ meant' = [meant EXCEPT !.mode = mode]
  BY DEF SetMode
<1> DEFINE old == Control(packet)
           byte == setTestMode(old, mode)
<1>2. old \in Bytes
  BY ControlIsByte DEF MeantIsMeaning
<1>3. /\ byte \in Bytes /\ byte \div 16 = mode
      /\ \A j \in 0 .. 3 : getWordBit(byte, j) = getWordBit(old, j)
  <2> HIDE DEF old
  <2> QED
    BY <1>2, ModeFacts
<1> HIDE DEF byte
<1>4. /\ packet' \in [HeaderBytes -> Bytes] /\ BiasOf(packet') = BiasOf(packet)
      /\ Control(packet') = byte /\ FieldsOf(packet') = FieldsOf(packet)
  BY <1>1, <1>3, PutControlMeans DEF byte
<1> HIDE DEF old
<1>5. BitsOf(byte) = BitsOf(old)
  BY <1>3, BitNumbers DEF BitsOf
<1>6. meant = [field |-> FieldsOf(packet), bit |-> BitsOf(old), mode |-> old \div 16, bias |-> BiasOf(packet)]
  BY MeaningIs DEF MeantIsMeaning, old
<1>7. meant' = [field |-> FieldsOf(packet'), bit |-> BitsOf(byte), mode |-> byte \div 16,
                bias |-> BiasOf(packet')]
  BY <1>1, <1>3, <1>4, <1>5, <1>6
<1> QED
  BY <1>4, <1>7, MeaningIs DEF MeantIsMeaning

LEMMA SetControlInv ==
  ASSUME MeantIsMeaning, SetControl
  PROVE  MeantIsMeaning'
<1>1. PICK byte \in {0, 165} :
        /\ packet' = PutControl(byte)
        /\ meant' = [meant EXCEPT !.bit = [b \in DOMAIN Bits |-> getWordBit(byte, Bits[b])],
                                 !.mode = byte \div 16]
  BY DEF SetControl
<1>2. byte \in Bytes /\ meant' = [meant EXCEPT !.bit = BitsOf(byte), !.mode = byte \div 16]
  BY <1>1 DEF Bytes, BitsOf
<1>3. /\ packet' \in [HeaderBytes -> Bytes] /\ BiasOf(packet') = BiasOf(packet)
      /\ Control(packet') = byte /\ FieldsOf(packet') = FieldsOf(packet)
  BY <1>1, <1>2, PutControlMeans
<1>4. meant = [field |-> FieldsOf(packet), bit |-> BitsOf(Control(packet)),
               mode |-> Control(packet) \div 16, bias |-> BiasOf(packet)]
  BY MeaningIs DEF MeantIsMeaning
<1>5. meant' = [field |-> FieldsOf(packet'), bit |-> BitsOf(byte), mode |-> byte \div 16,
                bias |-> BiasOf(packet')]
  BY <1>2, <1>3, <1>4
<1> QED
  BY <1>3, <1>5, MeaningIs DEF MeantIsMeaning

LEMMA SetTESBiasInv ==
  ASSUME IInv, SetTESBias
  PROVE  MeantIsMeaning'
<1>1. PICK w \in EditWords, value \in Biases :
        LET old == [k \in DOMAIN tesBias |-> packet[TESDACOffset + k]]
            new == setWord(old, w, value)
        IN /\ packet' = [k \in HeaderBytes |-> IF k - TESDACOffset \in DOMAIN new
                                               THEN new[k - TESDACOffset] ELSE packet[k]]
           /\ meant' = [meant EXCEPT !.bias[w] = Low20(value)]
  BY DEF SetTESBias
<1>2. w \in Words /\ value \in Int
  BY <1>1, EditWordsAssumption, ValuesAssumption
<1>3. MeantIsMeaning /\ packet \in [HeaderBytes -> Bytes]
  BY DEF IInv, MeantIsMeaning
<1>4. Arrays = [0 .. 39 -> Bytes]
  <2>1. TesBiasBufferSize - 1 = 39
    BY Places
  <2> QED
    BY <2>1 DEF Arrays
<1>5. DOMAIN tesBias = 0 .. 39
  <2>1. tesBias \in Arrays
    BY DEF IInv, ListenerInv, BiasTypes
  <2> QED
    BY <1>4, <2>1
<1> DEFINE old == [k \in 0 .. 39 |-> packet[TESDACOffset + k]]
           new == setWord(old, w, value)
<1>6. /\ packet' = [k \in HeaderBytes |-> IF k - TESDACOffset \in DOMAIN new
                                          THEN new[k - TESDACOffset] ELSE packet[k]]
      /\ meant' = [meant EXCEPT !.bias[w] = Low20(value)]
  BY <1>1, <1>5
<1>7. old \in Arrays /\ \A k \in 0 .. 39 : packet[TESDACOffset + k] = old[k]
  BY <1>3, <1>4 DEF TESDACOffset, HeaderBytes
<1> HIDE DEF old
<1>8. new \in Arrays /\ \A x \in Words : BiasAt(new, x) = IF x = w THEN Low20(value) ELSE BiasAt(old, x)
  <2>1. OneWordSet(old, new, w, value)
    BY <1>2, <1>7, SetWordFacts
  <2> QED
    BY <2>1 DEF OneWordSet
<1> HIDE DEF new
<1>9. \A k \in HeaderBytes : packet'[k] = IF k \in 8 .. 47 THEN new[k - 8] ELSE packet[k]
  <2>1. DOMAIN new = 0 .. 39
    BY <1>4, <1>8
  <2>2. \A k \in HeaderBytes : k - 8 \in 0 .. 39 <=> k \in 8 .. 47
    BY DEF HeaderBytes
  <2> QED
    BY <1>6, <2>1, <2>2 DEF TESDACOffset
<1>10. packet' \in [HeaderBytes -> Bytes]
  <2>1. ASSUME NEW k \in HeaderBytes
        PROVE  packet'[k] \in Bytes
    <3>1. CASE k \in 8 .. 47
      <4>1. k - 8 \in 0 .. 39
        BY <3>1
      <4>2. new[k - 8] \in Bytes
        BY <1>4, <1>8, <4>1
      <4> QED
        BY <1>9, <3>1, <4>2
    <3>2. CASE k \notin 8 .. 47
      BY <1>3, <1>9, <3>2
    <3> QED
      BY <3>1, <3>2
  <2>2. packet' = [k \in HeaderBytes |-> packet'[k]]
    BY <1>6
  <2> QED
    BY <2>1, <2>2
<1>11. BiasOf(packet') = [BiasOf(packet) EXCEPT ![w] = Low20(value)]
  <2>1. \A k \in 0 .. 39 : packet'[TESDACOffset + k] = new[k]
    <3>1. ASSUME NEW k \in 0 .. 39
          PROVE  8 + k \in HeaderBytes /\ 8 + k \in 8 .. 47 /\ (8 + k) - 8 = k
      BY DEF HeaderBytes
    <3> QED
      BY <1>9, <3>1 DEF TESDACOffset
  <2>2. ASSUME NEW x \in Words
        PROVE  getWord(packet', TESDACOffset, x)
                 = IF x = w THEN Low20(value) ELSE getWord(packet, TESDACOffset, x)
    <3>1. getWord(packet', TESDACOffset, x) = BiasAt(new, x)
      BY <1>8, <1>10, <2>1, CopyIsWhole
    <3>2. getWord(packet, TESDACOffset, x) = BiasAt(old, x)
      BY <1>3, <1>7, CopyIsWhole
    <3> QED
      BY <1>8, <3>1, <3>2
  <2> QED
    BY <2>2 DEF BiasOf
<1>12. FieldsOf(packet') = FieldsOf(packet) /\ Control(packet') = Control(packet)
  <2>1. ASSUME NEW f \in Fields
        PROVE  getHeaderWord(packet', f) = getHeaderWord(packet, f)
    <3> DEFINE q == packetOffset[f]
               m == packetWidth(f)
    <3>1. q \in Nat /\ m \in 1 .. 8 /\ q + m <= 128 /\ (q + m <= 8 \/ q >= 48)
      BY FieldPlaces
    <3>2. /\ getHeaderWord(packet', f) = [k \in 1 .. m |-> packet'[q + k - 1]]
          /\ getHeaderWord(packet, f) = [k \in 1 .. m |-> packet[q + k - 1]]
      BY DEF getHeaderWord, pull_bit_field
    <3> HIDE DEF q, m
    <3>3. ASSUME NEW k \in 1 .. m
          PROVE  packet'[q + k - 1] = packet[q + k - 1]
      <4>1. q + k - 1 \in HeaderBytes
        BY <3>1 DEF HeaderBytes
      <4>2. q + k - 1 < 8 \/ q + k - 1 > 47
        BY <3>1
      <4>3. q + k - 1 \notin 8 .. 47
        BY <3>1, <4>2
      <4> QED
        BY <1>9, <4>1, <4>3
    <3> QED
      BY <3>2, <3>3
  <2>2. 104 \in HeaderBytes /\ 104 \notin 8 .. 47
    BY DEF HeaderBytes
  <2>3. Control(packet') = Control(packet)
    BY <1>9, <2>2, FieldPlaces DEF Control
  <2> QED
    BY <2>1, <2>3 DEF FieldsOf, Plain
<1>13. meant = [field |-> FieldsOf(packet), bit |-> BitsOf(Control(packet)),
                mode |-> Control(packet) \div 16, bias |-> BiasOf(packet)]
  BY <1>3, MeaningIs DEF MeantIsMeaning
<1>14. meant' = [field |-> FieldsOf(packet'), bit |-> BitsOf(Control(packet')),
                 mode |-> Control(packet') \div 16, bias |-> BiasOf(packet')]
  BY <1>6, <1>11, <1>12, <1>13
<1> QED
  BY <1>10, <1>14, MeaningIs DEF MeantIsMeaning

-----------------------------------------------------------------------------
(***************************************************************************)
(* The invariant, and what follows.                                        *)
(***************************************************************************)

LEMMA InvInit == Init => IInv
<1> SUFFICES ASSUME Init
             PROVE  IInv
  OBVIOUS
<1>1. 0 \in Bytes /\ 0 \in Words /\ Low20(0) = 0 /\ TesBiasBufferSize = 40 /\ 2 * TesBiasCount - 1 = 31
  BY Places DEF Bytes, Low20, TesBiasCount
<1>2. /\ TesBiasValue = [r \in 0 .. 31 |-> 0] /\ listener = Idle
      /\ tesBias = [k \in 0 .. TesBiasBufferSize - 1 |-> 0]
      /\ mutex = "free" /\ frame = Blank /\ run = At("idle") /\ packet = Blank
      /\ words = [w \in Words |-> 0] /\ seen = words /\ meant = Meaning(Blank, words)
  BY <1>1 DEF Init
<1>3. tesBias \in Arrays /\ Blank \in [HeaderBytes -> Bytes]
  BY <1>1, <1>2 DEF Arrays, Blank
<1>4. ASSUME NEW w \in Words
      PROVE  WordBits(w, 0, 0, 0) = 0
  <2>1. 0 + 2 ^ 8 * 0 + 2 ^ 16 * (0 % 16) = 0 /\ (0 \div 16) + 2 ^ 4 * 0 + 2 ^ 12 * 0 = 0
    OBVIOUS
  <2> QED
    BY <1>1, <2>1 DEF WordBits
<1>5. ASSUME NEW w \in Words
      PROVE  BiasAt(tesBias, w) = 0 /\ getWord(Blank, TESDACOffset, w) = 0
  <2>1. Stored(w, 0) \in 0 .. 37
    BY Places
  <2> DEFINE p == Stored(w, 0)
             h == TESDACOffset + p
  <2>2. BiasAt(tesBias, w) = WordBits(w, tesBias[p], tesBias[p + 1], tesBias[p + 2])
        /\ getWord(Blank, TESDACOffset, w) = WordBits(w, Blank[h], Blank[h + 1], Blank[h + 2])
    BY <1>3, WordIn
  <2>3. h \in 8 .. 45
    BY <2>1 DEF TESDACOffset
  <2> HIDE DEF p, h
  <2>4. tesBias[p] = 0 /\ tesBias[p + 1] = 0 /\ tesBias[p + 2] = 0
    BY <1>1, <1>2, <2>1 DEF p
  <2>5. Blank[h] = 0 /\ Blank[h + 1] = 0 /\ Blank[h + 2] = 0
    BY <2>3 DEF Blank, HeaderBytes
  <2> QED
    BY <1>4, <2>2, <2>4, <2>5
<1>6. Idle \in [at : {"idle", "lock", "store"}, word : Words, value : Int, byte : 0 .. 2]
      /\ Idle.at = "idle" /\ At("idle").at = "idle"
      /\ At("idle") \in [at : {"idle", "lock", "copy", "average"}, byte : 0 .. 39]
  BY <1>1 DEF Idle, At
<1>7. BiasTypes
  <2>1. 0 \in -(2 ^ 19) .. 2 ^ 19 - 1
    OBVIOUS
  <2> QED
    BY <1>2, <1>3, <1>6, <2>1 DEF BiasTypes
<1>8. WordsSet /\ SetInProgress
  BY <1>2, <1>5, <1>6 DEF WordsSet, SetInProgress
<1>9. WordsFollow
  <2>1. ASSUME NEW w \in Words
        PROVE  Difference(w) = 0
    BY <1>2, RegisterFacts DEF Difference
  <2> QED
    BY <1>1, <1>2, <1>6, <2>1 DEF WordsFollow
<1>10. RunInv
  <2>1. RunTypes
    BY <1>2, <1>3, <1>6 DEF RunTypes
  <2> QED
    BY <1>2, <1>6, <2>1 DEF RunInv, MutexHeld, CopiedSoFar, BiasWhole
<1>11. MeantIsMeaning
  <2>1. words = BiasOf(Blank)
    BY <1>2, <1>5 DEF BiasOf
  <2> QED
    BY <1>2, <1>3, <2>1 DEF MeantIsMeaning
<1> QED
  BY <1>7, <1>8, <1>9, <1>10, <1>11 DEF IInv, ListenerInv

\* Steps that leave the packet.
LEMMA PacketKept ==
  ASSUME MeantIsMeaning, UNCHANGED <<packet, meant>>
  PROVE  MeantIsMeaning'
BY DEF MeantIsMeaning, Meaning, BiasOf

\* Steps that leave all but the packet.
LEMMA RestKept ==
  ASSUME ListenerInv, RunInv, UNCHANGED <<biasVars, runVars, mutex>>
  PROVE  ListenerInv' /\ RunInv'
<1>1. UNCHANGED <<TesBiasValue, listener, tesBias, words, frame, run, seen, mutex>>
  BY DEF biasVars, runVars
<1>2. ListenerInv'
  BY <1>1 DEF ListenerInv, BiasTypes, WordsSet, SetInProgress, WordsFollow, Difference
<1>3. RunInv'
  BY <1>1 DEF RunInv, RunTypes, MutexHeld, CopiedSoFar, BiasWhole
<1> QED
  BY <1>2, <1>3

LEMMA InvNext == IInv /\ [Next]_vars => IInv'
<1> SUFFICES ASSUME IInv, [Next]_vars
             PROVE  IInv'
  OBVIOUS
<1>1. CASE Listener
  <2>1. UNCHANGED <<packet, meant>>
    BY <1>1 DEF Listener, send_test_bias, LockToSet, StoreByte, packetVars
  <2> QED
    BY <1>1, <2>1, ListenerKeepsRun, PacketKept DEF IInv
<1>2. CASE RunThread
  <2>1. ListenerInv' /\ RunInv'
    BY <1>2, RunThreadInv
  <2>2. MakePacket \/ UNCHANGED <<packet, meant>>
    BY <1>2 DEF RunThread, Receive, LockToCopy, CopyByte, GoOnAveraging, packetVars
  <2> QED
    BY <2>1, <2>2, MakePacketMeans, PacketKept DEF IInv
<1>3. CASE Owner
  <2>1. UNCHANGED <<biasVars, runVars, mutex>>
    BY <1>3 DEF Owner, SetField, SetControl, SetBit, SetMode, SetTESBias, Editing
  <2>2. MeantIsMeaning'
    BY <1>3, SetFieldInv, SetControlInv, SetBitInv, SetModeInv, SetTESBiasInv DEF Owner, IInv
  <2> QED
    BY <2>1, <2>2, RestKept DEF IInv
<1>4. CASE UNCHANGED vars
  BY <1>4, RestKept, PacketKept DEF IInv, vars, packetVars
<1> QED
  BY <1>1, <1>2, <1>3, <1>4 DEF Next

LEMMA Invariant == Spec => []IInv
BY InvInit, InvNext, PTL DEF Spec

(***************************************************************************)
(* The two sets of accessors.  They read the same bytes: what is left is   *)
(* that a shorter read is the front of a longer one, that two reads side   *)
(* by side are one, and that the byte above the control byte stays out of  *)
(* its bits.                                                               *)
(***************************************************************************)

SeqOf(s, S, n) == s \in Seq(S) /\ Len(s) = n

LEMMA SequenceIs ==
  ASSUME NEW S, NEW n \in Nat, NEW s \in [1 .. n -> S]
  PROVE  SeqOf(s, S, n)
<1>1. s \in Seq(S)
  BY SeqDef
<1>2. 1 .. Len(s) = 1 .. n /\ Len(s) \in Nat
  BY <1>1, LenProperties
<1> QED
  BY <1>1, <1>2 DEF SeqOf

Front(h, o, n, m) == SubSeq(pull_bit_field(h, o, n), 1, m) = pull_bit_field(h, o, m)

LEMMA PullFront ==
  ASSUME NEW h, NEW o \in Nat, NEW n \in Nat, NEW m \in 1 .. n
  PROVE  Front(h, o, n, m)
<1> DEFINE S == {h[o + k - 1] : k \in 1 .. n}
           s == pull_bit_field(h, o, n)
           t == SubSeq(s, 1, m)
<1>1. \A k \in 1 .. n : s[k] = h[o + k - 1] /\ s[k] \in S
  BY DEF pull_bit_field
<1> HIDE DEF s, S
<1>2. \A k \in 1 .. m : s[k] \in S
  BY <1>1
<1>3. t \in Seq(S) /\ Len(t) = m /\ \A k \in 1 .. m : t[k] = s[k]
  <2>1. m \in Int /\ 1 \in Int /\ 1 <= m /\ m - 1 + 1 = m /\ \A k \in 1 .. m : 1 + k - 1 = k
    OBVIOUS
  <2> QED
    BY <1>2, <2>1, SubSeqProperties
<1> HIDE DEF t
<1>4. t = [k \in 1 .. m |-> t[k]]
  <2>1. t \in [1 .. m -> S]
    BY <1>3, LenProperties
  <2> QED
    BY <2>1
<1>5. \A k \in 1 .. m : t[k] = h[o + k - 1]
  BY <1>1, <1>3
<1>6. t = [k \in 1 .. m |-> h[o + k - 1]]
  BY <1>4, <1>5
<1> QED
  BY <1>6 DEF Front, pull_bit_field, s, t

LEMMA PullBoth ==
  ASSUME NEW h, NEW o \in Nat
  PROVE  pull_bit_field(h, o, 4) \o pull_bit_field(h, o + 4, 4) = pull_bit_field(h, o, 8)
<1> DEFINE S == {h[o + k - 1] : k \in 1 .. 8}
           low == pull_bit_field(h, o, 4)
           high == pull_bit_field(h, o + 4, 4)
           both == low \o high
<1>1. low \in [1 .. 4 -> S] /\ \A k \in 1 .. 4 : low[k] = h[o + k - 1]
  BY DEF pull_bit_field
<1>2. high \in [1 .. 4 -> S] /\ \A k \in 1 .. 4 : high[k] = h[o + (k + 4) - 1]
  <2>1. \A k \in 1 .. 4 : o + 4 + k - 1 = o + (k + 4) - 1 /\ k + 4 \in 1 .. 8
    OBVIOUS
  <2> QED
    BY <2>1 DEF pull_bit_field
<1> HIDE DEF low, high, S
<1>3. low \in Seq(S) /\ Len(low) = 4 /\ high \in Seq(S) /\ Len(high) = 4
  <2>1. 4 \in Nat
    OBVIOUS
  <2>2. SeqOf(low, S, 4)
    BY <1>1, <2>1, SequenceIs
  <2>3. SeqOf(high, S, 4)
    BY <1>2, <2>1, SequenceIs
  <2> QED
    BY <2>2, <2>3 DEF SeqOf
<1>4. /\ both \in Seq(S) /\ Len(both) = 8
      /\ \A k \in 1 .. 8 : both[k] = IF k <= 4 THEN low[k] ELSE high[k - 4]
  <2>1. /\ both \in Seq(S) /\ Len(both) = Len(low) + Len(high)
        /\ \A k \in 1 .. Len(low) + Len(high) :
             both[k] = IF k <= Len(low) THEN low[k] ELSE high[k - Len(low)]
    BY <1>3, ConcatProperties, Zenon
  <2> QED
    BY <1>3, <2>1
<1> HIDE DEF both
<1>5. \A k \in 1 .. 8 : both[k] = h[o + k - 1]
  <2>1. ASSUME NEW k \in 1 .. 8, k <= 4
        PROVE  both[k] = h[o + k - 1]
    <3>1. k \in 1 .. 4
      BY <2>1
    <3>2. both[k] = low[k]
      BY <1>4, <2>1
    <3> QED
      BY <1>1, <3>1, <3>2
  <2>2. ASSUME NEW k \in 1 .. 8, ~(k <= 4)
        PROVE  both[k] = h[o + k - 1]
    <3>1. k - 4 \in 1 .. 4 /\ (k - 4) + 4 = k
      BY <2>2
    <3>2. high[k - 4] = h[o + ((k - 4) + 4) - 1]
      BY <1>2, <3>1
    <3> QED
      BY <1>4, <2>2, <3>1, <3>2
  <2> QED
    BY <2>1, <2>2
<1>6. both = [k \in 1 .. 8 |-> both[k]]
  <2>1. both \in [1 .. 8 -> S]
    BY <1>4, LenProperties
  <2> QED
    BY <2>1
<1>7. both = [k \in 1 .. 8 |-> h[o + k - 1]]
  BY <1>5, <1>6
<1> QED
  BY <1>7 DEF pull_bit_field, low, high, both

\* Every field of runThread's is the front of the bytes it reads.
LEMMA GetIs ==
  ASSUME NEW h, NEW g \in DOMAIN headerField
  PROVE  get(h, g) = pull_bit_field(h, headerField[g][1], headerField[g][3])
<1> DEFINE t == headerField[g]
<1>1. t[1] \in Nat /\ t[2] \in Nat /\ t[3] \in 1 .. t[2]
  BY DEF headerField
<1> HIDE DEF t
<1>2. Front(h, t[1], t[2], t[3])
  BY <1>1, PullFront
<1> QED
  BY <1>2 DEF Front, get, t

\* What a read of user0a_ctrl is.
LEMMA User0aIs ==
  ASSUME NEW h \in [HeaderBytes -> Bytes]
  PROVE  /\ user0a(h) = h[104] + 256 * h[105]
         /\ h[104] \in 0 .. 255 /\ h[105] \in 0 .. 255 /\ Control(h) = h[104]
<1>1. get(h, "user0a_ctrl") = pull_bit_field(h, 104, 2)
  <2>1. "user0a_ctrl" \in DOMAIN headerField /\ headerField["user0a_ctrl"] = <<104, 2, 2>>
    BY DEF headerField
  <2> QED
    BY <2>1, GetIs
<1>2. pull_bit_field(h, 104, 2)[1] = h[104] /\ pull_bit_field(h, 104, 2)[2] = h[105]
  <2>1. \A k \in 1 .. 2 : pull_bit_field(h, 104, 2)[k] = h[104 + k - 1]
    BY DEF pull_bit_field
  <2>2. 104 + 1 - 1 = 104
    OBVIOUS
  <2>3. 104 + 2 - 1 = 105
    OBVIOUS
  <2>4. 1 \in 1 .. 2 /\ 2 \in 1 .. 2
    OBVIOUS
  <2> QED
    BY <2>1, <2>2, <2>3, <2>4
<1>3. h[104] \in 0 .. 255 /\ h[105] \in 0 .. 255
  <2>1. 104 \in HeaderBytes /\ 105 \in HeaderBytes
    BY DEF HeaderBytes
  <2>2. h[104] \in Bytes /\ h[105] \in Bytes
    BY <2>1
  <2> QED
    BY <2>2 DEF Bytes
<1> QED
  BY <1>1, <1>2, <1>3 DEF user0a, Control, packetOffset

\* The byte above does not get into the bits or the mode of the byte below.
SameControl(x, c) ==
  /\ \A j \in 0 .. 3 : getWordBit(x, j) = getWordBit(c, j)
  /\ (x \div 16) % 16 = c \div 16

LEMMA ByteAbove ==
  ASSUME NEW c \in 0 .. 255, NEW d \in 0 .. 255, NEW x, x = c + 256 * d
  PROVE  SameControl(x, c)
<1>1. 2 ^ 0 = 1 /\ 2 ^ 1 = 2 /\ 2 ^ 2 = 4 /\ 2 ^ 3 = 8
  OBVIOUS
<1>2. ((c + 256 * d) \div 1) % 2 = (c \div 1) % 2
  OBVIOUS
<1>3. ((c + 256 * d) \div 2) % 2 = (c \div 2) % 2
  OBVIOUS
<1>4. ((c + 256 * d) \div 4) % 2 = (c \div 4) % 2
  OBVIOUS
<1>5. ((c + 256 * d) \div 8) % 2 = (c \div 8) % 2
  OBVIOUS
<1>6. ((c + 256 * d) \div 16) % 16 = c \div 16
  OBVIOUS
<1>7. ASSUME NEW j \in 0 .. 3
      PROVE  getWordBit(x, j) = getWordBit(c, j)
  <2>1. ((c + 256 * d) \div 2 ^ j) % 2 = (c \div 2 ^ j) % 2
    <3>1. CASE j = 0
      BY <1>1, <1>2, <3>1
    <3>2. CASE j = 1
      BY <1>1, <1>3, <3>2
    <3>3. CASE j = 2
      BY <1>1, <1>4, <3>3
    <3>4. CASE j = 3
      BY <1>1, <1>5, <3>4
    <3>5. j = 0 \/ j = 1 \/ j = 2 \/ j = 3
      OBVIOUS
    <3> QED
      BY <3>1, <3>2, <3>3, <3>4, <3>5
  <2> QED
    BY <2>1 DEF getWordBit
<1> QED
  BY <1>6, <1>7 DEF SameControl

LEMMA SameViews ==
  ASSUME packet \in [HeaderBytes -> Bytes]
  PROVE  ViewsAgree
<1>1. ASSUME NEW p \in {<<"version", "Version">>, <<"num_channels", "NumberChannels">>,
                       <<"hz_counter", "Counter0">>, <<"ext_counter", "Counter1">>,
                       <<"frame_counter", "FrameCounter">>, <<"test_parameter", "TestParameters">>,
                       <<"num_rows", "NumberRows">>, <<"num_rows_reported", "NumberRowsReported">>,
                       <<"row_len", "RowLength">>, <<"data_rate", "DataRate">>}
      PROVE  get(packet, p[1]) = getHeaderWord(packet, p[2])
  <2>1. /\ p[1] \in DOMAIN headerField
        /\ headerField[p[1]][1] = packetOffset[p[2]]
        /\ headerField[p[1]][3] = packetWidth(p[2])
    BY <1>1 DEF headerField, packetOffset, packetWidth
  <2>2. get(packet, p[1]) = pull_bit_field(packet, headerField[p[1]][1], headerField[p[1]][3])
    BY <2>1, GetIs
  <2> QED
    BY <2>1, <2>2 DEF getHeaderWord
<1>2. get(packet, "epics_nanoseconds") \o get(packet, "epics_seconds") = getHeaderWord(packet, "Counter2")
  <2>1. get(packet, "epics_nanoseconds") = pull_bit_field(packet, 72, 4)
    <3>1. "epics_nanoseconds" \in DOMAIN headerField /\ headerField["epics_nanoseconds"] = <<72, 4, 4>>
      BY DEF headerField
    <3> QED
      BY <3>1, GetIs
  <2>2. get(packet, "epics_seconds") = pull_bit_field(packet, 72 + 4, 4)
    <3>1. "epics_seconds" \in DOMAIN headerField /\ headerField["epics_seconds"] = <<76, 4, 4>> /\ 72 + 4 = 76
      BY DEF headerField
    <3> QED
      BY <3>1, GetIs
  <2>3. getHeaderWord(packet, "Counter2") = pull_bit_field(packet, 72, 8)
    BY DEF getHeaderWord, packetOffset, packetWidth
  <2> QED
    BY <2>1, <2>2, <2>3, PullBoth
<1>3. get(packet, "syncword") = SubSeq(getHeaderWord(packet, "ExternalTimeClock"), 1, 4)
  <2>1. get(packet, "syncword") = pull_bit_field(packet, 96, 4)
    <3>1. "syncword" \in DOMAIN headerField /\ headerField["syncword"] = <<96, 5, 4>>
      BY DEF headerField
    <3> QED
      BY <3>1, GetIs
  <2>2. getHeaderWord(packet, "ExternalTimeClock") = pull_bit_field(packet, 96, 8)
    BY DEF getHeaderWord, packetOffset, packetWidth
  <2>3. Front(packet, 96, 8, 4)
    <3>1. 96 \in Nat /\ 8 \in Nat /\ 4 \in 1 .. 8
      OBVIOUS
    <3> QED
      BY ONLY <3>1, PullFront, Zenon
  <2> QED
    BY <2>1, <2>2, <2>3 DEF Front
<1>4. SameControl(user0a(packet), Control(packet))
  <2>1. /\ user0a(packet) = packet[104] + 256 * packet[105]
        /\ packet[104] \in 0 .. 255 /\ packet[105] \in 0 .. 255 /\ Control(packet) = packet[104]
    BY User0aIs
  <2> DEFINE c == packet[104]
             d == packet[105]
             x == user0a(packet)
  <2>2. x = c + 256 * d
    BY <2>1
  <2>3. c \in 0 .. 255 /\ d \in 0 .. 255 /\ Control(packet) = c
    BY <2>1
  <2> HIDE DEF c, d, x
  <2>4. SameControl(x, c)
    BY ONLY <2>2, <2>3, ByteAbove, Zenon
  <2> QED
    BY <2>3, <2>4 DEF x
<1>5. \A b \in DOMAIN Bits : get_ctrl_bit(packet, Bits[b]) = getWordBit(Control(packet), Bits[b])
  <2> SUFFICES ASSUME NEW b \in DOMAIN Bits
               PROVE  getWordBit(user0a(packet), Bits[b]) = getWordBit(Control(packet), Bits[b])
    BY DEF get_ctrl_bit
  <2>1. Bits[b] \in 0 .. 3
    BY BitNumbers
  <2> QED
    BY <1>4, <2>1 DEF SameControl
<1>6. get_test_mode(packet) = TestMode(packet)
  BY <1>4 DEF SameControl, get_test_mode, TestMode
<1>7. ASSUME NEW p \in {<<"num_rows", "NumberRows">>, <<"num_rows_reported", "NumberRowsReported">>,
                        <<"row_len", "RowLength">>, <<"data_rate", "DataRate">>},
             getHeaderWord(packet, p[2]) # <<0, 0>>
      PROVE  get_or_default(packet, p[1]) = getHeaderWord(packet, p[2])
  <2>1. get(packet, p[1]) = getHeaderWord(packet, p[2])
    BY <1>1, <1>7
  <2> QED
    BY <1>7, <2>1 DEF get_or_default
<1>8. \A p \in {<<"num_rows", "NumberRows">>, <<"num_rows_reported", "NumberRowsReported">>,
                <<"row_len", "RowLength">>, <<"data_rate", "DataRate">>} :
        getHeaderWord(packet, p[2]) # <<0, 0>> =>
          get_or_default(packet, p[1]) = getHeaderWord(packet, p[2])
  BY <1>7
<1> QED
  BY <1>1, <1>2, <1>3, <1>5, <1>6, <1>8 DEF ViewsAgree

\* Bytes stay bytes, and words are of 20 bits, through every conversion.
THEOREM TypeCorrect == Spec => []TypeOK
<1>1. IInv => TypeOK
  BY DEF IInv, ListenerInv, BiasTypes, RunInv, RunTypes, MutexHeld, MeantIsMeaning, TypeOK, Arrays
<1> QED
  BY <1>1, Invariant, PTL

\* Between calls of the listener every word of the array is the difference of its
\* registers, cut to 20 bits.
THEOREM WordsFollowRegisters == Spec => []BiasFollows
<1>1. IInv => BiasFollows
  <2> SUFFICES ASSUME IInv, listener.at = "idle", NEW w \in Words
               PROVE  BiasAt(tesBias, w) = Low20(Difference(w))
    BY DEF BiasFollows, BiasAt, Difference
  <2> QED
    BY DEF IInv, ListenerInv, WordsSet, WordsFollow
<1> QED
  BY <1>1, Invariant, PTL

\* The words in a frame's header are all of the moment its copy began.
THEOREM CopiesAreWhole == Spec => []BiasWhole
<1>1. IInv => BiasWhole
  BY DEF IInv, RunInv
<1> QED
  BY <1>1, Invariant, PTL

\* What was set in a packet is what its accessors give back, a number of rows of
\* zero apart.
THEOREM SettersAreApart == Spec => []PacketMeans
<1>1. IInv => PacketMeans
  <2> SUFFICES ASSUME IInv
               PROVE  PacketMeans
    OBVIOUS
  <2>1. meant = [field |-> FieldsOf(packet), bit |-> BitsOf(Control(packet)),
                 mode |-> Control(packet) \div 16, bias |-> BiasOf(packet)]
    BY MeaningIs DEF IInv, MeantIsMeaning
  <2>2. \A f \in Plain : getHeaderWord(packet, f) = meant.field[f]
    BY <2>1 DEF FieldsOf
  <2>3. \A b \in DOMAIN Bits : getWordBit(Control(packet), Bits[b]) = meant.bit[b]
    BY <2>1 DEF BitsOf
  <2>4. TestMode(packet) = meant.mode
    BY <2>1 DEF TestMode
  <2>5. \A w \in Words : getWord(packet, TESDACOffset, w) = meant.bias[w]
    BY <2>1 DEF BiasOf
  <2> QED
    BY <2>2, <2>3, <2>4, <2>5 DEF PacketMeans, Plain
<1> QED
  BY <1>1, Invariant, PTL

\* runThread's accessors and the readers' see the same in every packet, but for the
\* four fields that only runThread has defaults for, when they are zero.
THEOREM AccessorsAgree == Spec => []ViewsAgree
<1>1. IInv => ViewsAgree
  BY SameViews DEF IInv, MeantIsMeaning
<1> QED
  BY <1>1, Invariant, PTL

=============================================================================
