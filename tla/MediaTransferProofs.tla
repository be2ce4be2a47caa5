------------------------- MODULE MediaTransferProofs -------------------------
(***************************************************************************)
(* Theorems about the operations that send.  MediaTransfer: what an upload *)
(* stores is what it was given, for every block size, every number of      *)
(* uploads and data of every length, if no other slice may grow into it;   *)
(* its sizes are the announced ones even then.  MessageService with        *)
(* ErrorModel, for any number of goroutines and sessions: tokens of two    *)
(* sessions do not mix, the guard stops requests, success is complete and  *)
(* errors keep what they say.                                              *)
(***************************************************************************)
EXTENDS MediaTransfer, MessageService, SequenceTheorems, TLAPS

-----------------------------------------------------------------------------
(* Padding                                                                 *)

\* Padding adds at least one byte and at most a block.
LEMMA PadLengthInBlock ==
    ASSUME NEW n \in Nat
    PROVE  PadLength(n) \in 1..Block
BY CipherAssumption DEF PadLength

\* A multiple of the block size that is smaller than a block is none.
LEMMA SmallMultiple ==
    ASSUME NEW b \in Nat \ {0}, NEW d \in Int, b * d < b, -b < b * d
    PROVE  d = 0
<1>1. CASE d >= 1
  <2>1. b * d >= b * 1
    BY <1>1
  <2> QED
    BY <2>1
<1>2. CASE d <= -1
  <2>1. b * d <= b * (-1)
    BY <1>2
  <2> QED
    BY <2>1
<1> QED
  BY <1>1, <1>2

\* A block more is a block more.
LEMMA NextMultiple ==
    ASSUME NEW n \in Nat
    PROVE  (n + Block) \div Block = (n \div Block) + 1
<1> DEFINE q == n \div Block  r == n % Block
           s == (n + Block) \div Block  t == (n + Block) % Block
<1>1. /\ q \in Int /\ r \in 0..(Block - 1) /\ n = Block * q + r
      /\ s \in Int /\ t \in 0..(Block - 1) /\ n + Block = Block * s + t
  BY CipherAssumption
<1> HIDE DEF q, r, s, t
<1>2. Block * (s - q - 1) = r - t
  BY <1>1, CipherAssumption
<1>3. s - q - 1 = 0
  BY <1>1, <1>2, SmallMultiple, CipherAssumption
<1> QED
  BY <1>1, <1>3 DEF s, q

\* The size that is announced is the size after padding.
LEMMA PaddedSizeIsSize ==
    ASSUME NEW n \in Nat
    PROVE  PaddedSize(n) = n + PadLength(n)
<1> DEFINE q == n \div Block  r == n % Block
<1>1. q \in Int /\ r \in 0..(Block - 1) /\ n = Block * q + r
  BY CipherAssumption
<1>2. PaddedSize(n) = (q + 1) * Block
  BY NextMultiple DEF PaddedSize
<1>3. PadLength(n) = Block - r
  BY DEF PadLength
<1> HIDE DEF q, r
<1> QED
  BY <1>1, <1>2, <1>3, CipherAssumption

\* The size after padding is one of whole blocks.
LEMMA WholeBlocks ==
    ASSUME NEW n \in Nat
    PROVE  PaddedSize(n) % Block = 0
<1> DEFINE q == (n + Block) \div Block  x == q * Block  s == x \div Block  t == x % Block
<1>1. q \in Int /\ Block \in Nat \ {0}
  BY CipherAssumption
<1> HIDE DEF q
<1>2. x \in Int
  BY <1>1
<1> HIDE DEF x
<1>3. s \in Int /\ t \in 0..(Block - 1) /\ x = Block * s + t
  BY <1>1, <1>2
<1> HIDE DEF s, t
<1>4. Block * (q - s) = t
  BY <1>1, <1>3 DEF x
<1>5. q - s = 0
  BY <1>1, <1>3, <1>4, SmallMultiple
<1>6. t = 0
  BY <1>1, <1>3, <1>4, <1>5
<1> QED
  BY <1>6 DEF PaddedSize, q, x, t

\* What is padded is the data and then the padding.
LEMMA PadBytes ==
    ASSUME NEW data \in Seq(Byte)
    PROVE  /\ Pad(data) \in Seq(Byte)
           /\ Len(Pad(data)) = Len(data) + PadLength(Len(data))
           /\ \A i \in 1..Len(data) : Pad(data)[i] = data[i]
           /\ \A i \in (Len(data) + 1)..(Len(data) + PadLength(Len(data))) :
                 Pad(data)[i] = PadLength(Len(data))
<1> DEFINE n == Len(data)  pad == PadLength(n)  tail == [i \in 1..pad |-> pad]
<1>0. n \in Nat
  OBVIOUS
<1>1. n \in Nat /\ pad \in 1..Block /\ pad \in Byte
  <2>1. pad \in 1..Block
    BY <1>0, PadLengthInBlock
  <2> QED
    BY <1>0, <2>1, CipherAssumption DEF Byte
<1>2. tail \in Seq(Byte) /\ Len(tail) = pad
  BY <1>1
<1>3. Pad(data) = data \o tail
  BY DEF Pad
<1> HIDE DEF pad
<1>4. /\ Pad(data) \in Seq(Byte)
      /\ Len(Pad(data)) = n + pad
      /\ \A i \in 1..n : Pad(data)[i] = data[i]
      /\ \A i \in (n + 1)..(n + pad) : Pad(data)[i] = pad
  BY <1>1, <1>2, <1>3
<1> QED
  BY <1>4 DEF pad

\* It ends in its padding, and loses just that.
LEMMA UnpadPad ==
    ASSUME NEW data \in Seq(Byte)
    PROVE  Unpad(Pad(data)) = data
<1> DEFINE n == Len(data)  pad == PadLength(n)
<1>1. n \in Nat /\ pad \in 1..Block
  <2>1. n \in Nat
    OBVIOUS
  <2> QED
    BY <2>1, PadLengthInBlock
<1> HIDE DEF pad
<1>2. /\ Pad(data) \in Seq(Byte)
      /\ Len(Pad(data)) = n + pad
      /\ \A i \in 1..n : Pad(data)[i] = data[i]
      /\ \A i \in (n + 1)..(n + pad) : Pad(data)[i] = pad
  BY PadBytes DEF pad
<1>3. EndsInPadding(Pad(data))
  BY <1>1, <1>2, CipherAssumption DEF EndsInPadding
<1>4. Unpad(Pad(data)) = SubSeq(Pad(data), 1, n)
  BY <1>1, <1>2, <1>3 DEF Unpad
<1>5. SubSeq(Pad(data), 1, n) = data
  BY <1>1, <1>2
<1> QED
  BY <1>4, <1>5
-----------------------------------------------------------------------------
(* The invariant                                                           *)

\* The variables are functions of the uploads.
Shape ==
    /\ buffer \in [1..Buffer -> Byte]
    /\ part \in [Uploads -> Parts]
    /\ capacity \in [Uploads -> 0..Buffer]
    /\ \A u \in Uploads : part[u][2] <= capacity[u]
    /\ pc \in [Uploads -> {"idle", "announced", "padded", "stored", "failed"}]
    /\ given \in [Uploads -> Seq(Byte)]
    /\ announced \in [Uploads -> [raw : Nat, file : Nat]]
    /\ DOMAIN padded = Uploads /\ DOMAIN stored = Uploads /\ DOMAIN fetched = Uploads

\* What a download may return of data: an error, or a first part of them, which
\* is all of them if they and their padding are within the limit.
MayFetch(data) ==
    {r \in {Error} \cup {SubSeq(data, 1, n) : n \in 0..Len(data)} :
        r # Error /\ PaddedSize(Len(data)) <= MaxDownload => r = data}

\* An upload that has begun was given as much as its part holds, and what is
\* still there if no other slice grows into it; it announced the sizes ...
Begun(u) ==
    pc[u] # "idle" =>
       /\ given[u] # <<>> /\ Len(given[u]) = Len(Data(u))
       /\ Spared(u) => given[u] = Data(u)
       /\ announced[u] = [raw |-> Len(given[u]), file |-> PaddedSize(Len(given[u]))]

\* ... and what it has padded, stored and fetched has these, and is made of it.
Carried(u) ==
    /\ pc[u] \in {"idle", "announced"} => padded[u] = None
    /\ padded[u] # None => Len(padded[u]) = PaddedSize(Len(Data(u)))
    /\ pc[u] = "padded" =>
          /\ Spared(u) => Padded(u) = Pad(given[u])
          /\ padded[u] = None => part[u][2] + PadLength(Len(Data(u))) <= capacity[u]
    /\ stored[u] # None => pc[u] = "stored"
    /\ pc[u] = "stored" =>
          /\ Len(stored[u].bytes) = PaddedSize(Len(given[u]))
          /\ Spared(u) => stored[u] = Encrypt(Pad(given[u]), u)
    /\ pc[u] # "stored" => fetched[u] = None
    /\ Spared(u) /\ fetched[u] # None => fetched[u] \in MayFetch(given[u])

Inv == Shape /\ \A u \in Uploads : Begun(u) /\ Carried(u)

\* A part of the buffer as a function.
LEMMA PartOf ==
    ASSUME NEW b \in [1..Buffer -> Byte], NEW m \in 1..Buffer, NEW n \in 0..Buffer,
           m <= n + 1
    PROVE  /\ SubSeq(b, m, n) = [i \in 1..(n - m + 1) |-> b[m + i - 1]]
           /\ SubSeq(b, m, n) \in Seq(Byte)
           /\ Len(SubSeq(b, m, n)) = n - m + 1
           /\ n - m + 1 \in 0..Buffer
<1> DEFINE k == n - m + 1  f == [i \in 1..k |-> b[m + i - 1]]
<1>1. Buffer \in Nat
  BY TransferAssumption
<1>2. SubSeq(b, m, n) = f
  BY <1>1
<1>3. k \in 0..Buffer
  BY <1>1
<1>4. \A i \in 1..k : m + i - 1 \in 1..Buffer
  BY <1>1, <1>3
<1>5. f \in [1..k -> Byte]
  BY <1>4
<1>6. f \in Seq(Byte) /\ Len(f) = k
  <2>1. k \in Nat
    BY <1>1, <1>3
  <2> HIDE DEF k
  <2>2. f \in [1..k -> Byte] /\ DOMAIN f = 1..k
    BY <1>5
  <2> HIDE DEF f
  <2> QED
    BY <2>1, <2>2
<1> QED
  BY <1>2, <1>3, <1>6

\* What an upload is given is a sequence of bytes, not longer than the buffer.
LEMMA DataIsBytes ==
    ASSUME Shape, NEW u \in Uploads
    PROVE  /\ Data(u) \in Seq(Byte)
           /\ Len(Data(u)) \in 0..Buffer
           /\ Len(Data(u)) = part[u][2] - part[u][1] + 1
<1>1. /\ part[u][1] \in 1..Buffer /\ part[u][2] \in 0..Buffer /\ part[u][1] <= part[u][2] + 1
      /\ buffer \in [1..Buffer -> Byte]
  BY DEF Shape, Parts
<1> QED
  BY <1>1, PartOf DEF Data

\* Of two multiples of the block size the larger is larger by a block.
LEMMA BlocksApart ==
    ASSUME NEW m \in Nat, NEW n \in Nat, m % Block = 0, n % Block = 0, m < n
    PROVE  m + Block <= n
<1> DEFINE p == m \div Block  q == n \div Block
<1>1. /\ Block \in Nat \ {0} /\ p \in Int /\ q \in Int
      /\ m = Block * p /\ n = Block * q
  BY CipherAssumption
<1> HIDE DEF p, q
<1>2. q - p >= 1
  <2>1. CASE q - p <= 0
    <3>1. Block * (q - p) <= 0
      BY <1>1, <2>1
    <3> QED
      BY <1>1, <3>1
  <2> QED
    BY <1>1, <2>1
<1>3. Block * (q - p) >= Block
  BY <1>1, <1>2
<1> QED
  BY <1>1, <1>3

\* A first part without what passes for its padding is a first part.
LEMMA UnpadShortens ==
    ASSUME NEW data \in Seq(Byte), NEW m \in 1..Len(data)
    PROVE  \/ Unpad(SubSeq(data, 1, m)) = Error
           \/ \E n \in 0..Len(data) : Unpad(SubSeq(data, 1, m)) = SubSeq(data, 1, n)
<1> DEFINE cut == SubSeq(data, 1, m)  pad == cut[Len(cut)]
<1>1. cut \in Seq(Byte) /\ Len(cut) = m /\ \A i \in 1..m : cut[i] = data[i]
  OBVIOUS
<1>2. pad \in Nat
  BY <1>1 DEF Byte
<1> HIDE DEF cut
<1>3. CASE EndsInPadding(cut)
  <2>1. pad <= m /\ m - pad \in 0..Len(data)
    BY <1>1, <1>2, <1>3 DEF EndsInPadding
  <2>2. Unpad(cut) = SubSeq(cut, 1, m - pad)
    BY <1>1, <1>3 DEF Unpad
  <2> HIDE DEF pad
  <2>3. SubSeq(cut, 1, m - pad) = SubSeq(data, 1, m - pad)
    BY <1>1, <1>2, <2>1
  <2> QED
    BY <2>1, <2>2, <2>3 DEF cut
<1>4. CASE ~EndsInPadding(cut)
  BY <1>4 DEF Unpad, cut
<1> QED
  BY <1>3, <1>4

\* What is stored deciphers.
LEMMA Deciphers ==
    ASSUME NEW data \in Seq(Byte), NEW u
    PROVE  Decrypt(Encrypt(Pad(data), u)) = data
<1> DEFINE n == Len(data)
<1>0. n \in Nat
  OBVIOUS
<1>1. /\ Pad(data) \in Seq(Byte) /\ Unpad(Pad(data)) = data
      /\ Len(Pad(data)) = PaddedSize(n) /\ Len(Pad(data)) = n + PadLength(n)
  BY <1>0, PadBytes, UnpadPad, PaddedSizeIsSize
<1>2. PaddedSize(n) % Block = 0
  BY <1>0, WholeBlocks
<1>3. Len(Pad(data)) % Block = 0 /\ Pad(data) # <<>>
  BY <1>0, <1>1, <1>2, PadLengthInBlock
<1> QED
  BY <1>1, <1>3 DEF Decrypt, Encrypt

\* A cipher within the limit is fetched whole.  A longer one is cut by whole
\* blocks, so that nothing of the padding is left.
LEMMA FetchedInPart ==
    ASSUME NEW data \in Seq(Byte), NEW u
    PROVE  Decrypt(Limited(Encrypt(Pad(data), u))) \in MayFetch(data)
<1> DEFINE n == Len(data)  cipher == Encrypt(Pad(data), u)
<1>1. /\ n \in Nat /\ MaxDownload \in Nat /\ MaxDownload % Block = 0 /\ Block \in Nat \ {0}
      /\ data = SubSeq(data, 1, n)
  BY CipherAssumption, TransferAssumption
<1>2. /\ Pad(data) \in Seq(Byte) /\ PadLength(n) \in 1..Block
      /\ Len(Pad(data)) = n + PadLength(n) /\ Len(Pad(data)) = PaddedSize(n)
      /\ Len(Pad(data)) % Block = 0
      /\ \A i \in 1..n : Pad(data)[i] = data[i]
  <2>1. /\ Pad(data) \in Seq(Byte) /\ Len(Pad(data)) = n + PadLength(n)
        /\ \A i \in 1..n : Pad(data)[i] = data[i]
    BY PadBytes
  <2>2. PadLength(n) \in 1..Block /\ PaddedSize(n) = n + PadLength(n) /\ PaddedSize(n) % Block = 0
    BY <1>1, PadLengthInBlock, PaddedSizeIsSize, WholeBlocks
  <2> QED
    BY <2>1, <2>2
<1>3. CASE Len(Pad(data)) <= MaxDownload
  <2>1. Limited(cipher).bytes = SubSeq(Pad(data), 1, Len(Pad(data)))
    BY <1>1, <1>2, <1>3 DEF Limited, Encrypt
  <2>2. Limited(cipher).bytes = Pad(data)
    BY <1>2, <2>1
  <2>3. Decrypt(Limited(cipher)) = Decrypt(cipher)
    BY <2>2 DEF Decrypt, Encrypt
  <2> QED
    BY <1>1, <2>3, Deciphers DEF MayFetch
<1>4. CASE MaxDownload < Len(Pad(data))
  <2>1. MaxDownload <= n
    BY <1>1, <1>2, <1>4, BlocksApart
  <2>2. Limited(cipher).bytes = SubSeq(data, 1, MaxDownload)
    <3>1. Limited(cipher).bytes = SubSeq(Pad(data), 1, MaxDownload)
      BY <1>1, <1>2, <1>4 DEF Limited, Encrypt
    <3> QED
      BY <1>1, <1>2, <2>1, <3>1
  <2>3. \/ Decrypt(Limited(cipher)) = Error
        \/ \E k \in 0..n : Decrypt(Limited(cipher)) = SubSeq(data, 1, k)
    <3>1. CASE MaxDownload = 0
      <4>1. Limited(cipher).bytes = <<>>
        BY <2>2, <3>1
      <4> QED
        BY <4>1 DEF Decrypt
    <3>2. CASE MaxDownload # 0
      <4>1. MaxDownload \in 1..Len(data)
        BY <1>1, <2>1, <3>2
      <4>2. \/ Decrypt(Limited(cipher)) = Error
            \/ Decrypt(Limited(cipher)) = Unpad(SubSeq(data, 1, MaxDownload))
        BY <2>2 DEF Decrypt
      <4> QED
        BY <4>1, <4>2, UnpadShortens
    <3> QED
      BY <3>1, <3>2
  <2>4. ~(PaddedSize(n) <= MaxDownload)
    BY <1>1, <1>2, <1>4
  <2> QED
    BY <2>3, <2>4 DEF MayFetch
<1> QED
  BY <1>1, <1>2, <1>3, <1>4
-----------------------------------------------------------------------------
(* The proof                                                               *)

LEMMA InitInv ==
    ASSUME Init
    PROVE  Inv
<1>1. Shape
  BY DEF Init, Shape
<1>2. ASSUME NEW u \in Uploads PROVE Begun(u) /\ Carried(u)
  BY <1>2 DEF Init, Begun, Carried
<1> QED
  BY <1>1, <1>2 DEF Inv

\* What two buffers have in common they have in common.
LEMMA SameBytes ==
    ASSUME NEW b \in [1..Buffer -> Byte], NEW c \in [1..Buffer -> Byte],
           NEW m \in 1..Buffer, NEW n \in 0..Buffer, m <= n + 1,
           \A i \in m..n : b[i] = c[i]
    PROVE  SubSeq(b, m, n) = SubSeq(c, m, n)
<1>1. Buffer \in Nat
  BY TransferAssumption
<1>2. /\ SubSeq(b, m, n) = [i \in 1..(n - m + 1) |-> b[m + i - 1]]
      /\ SubSeq(c, m, n) = [i \in 1..(n - m + 1) |-> c[m + i - 1]]
  BY PartOf
<1>3. \A i \in 1..(n - m + 1) : b[m + i - 1] = c[m + i - 1]
  BY <1>1
<1> QED
  BY <1>2, <1>3

\* Who grows into whom does not change.
LEMMA SparedStays ==
    ASSUME part' = part, capacity' = capacity, NEW u \in Uploads
    PROVE  Spared(u)' = Spared(u)
BY DEF Spared, Room, Reach

\* How much an upload holds does not change.
LEMMA LengthStays ==
    ASSUME Shape, Shape', part' = part, NEW u \in Uploads
    PROVE  Len(Data(u))' = Len(Data(u))
<1>1. Len(Data(u)) = part[u][2] - part[u][1] + 1
  BY DataIsBytes
<1>2. Len(Data(u))' = part'[u][2] - part'[u][1] + 1
  <2>1. /\ part'[u][1] \in 1..Buffer /\ part'[u][2] \in 0..Buffer
        /\ part'[u][1] <= part'[u][2] + 1 /\ buffer' \in [1..Buffer -> Byte]
    BY DEF Shape, Parts
  <2> QED
    BY <2>1, PartOf DEF Data
<1> QED
  BY <1>1, <1>2

\* A step of one upload that writes only where its slice may grow leaves the
\* others as they are, but for the bytes of those it may grow into.
LEMMA OthersKeep ==
    ASSUME Inv, Shape', NEW v \in Uploads, NEW u \in Uploads, u # v,
           \A i \in 1..Buffer : i \notin Room(u) => buffer'[i] = buffer[i],
           part' = part, capacity' = capacity,
           pc'[v] = pc[v], given'[v] = given[v], announced'[v] = announced[v],
           padded'[v] = padded[v], stored'[v] = stored[v], fetched'[v] = fetched[v]
    PROVE  Begun(v)' /\ Carried(v)'
<1> USE DEF Inv
<1>1. /\ Buffer \in Nat
      /\ part[v][1] \in 1..Buffer /\ part[v][2] \in 0..Buffer
      /\ part[v][1] <= part[v][2] + 1
      /\ capacity[v] \in 0..Buffer /\ part[v][2] <= capacity[v]
      /\ buffer \in [1..Buffer -> Byte] /\ buffer' \in [1..Buffer -> Byte]
  BY TransferAssumption DEF Shape, Parts
<1>2. ASSUME Spared(v), NEW n \in 0..Buffer, n <= capacity[v], part[v][1] <= n + 1
      PROVE  SubSeq(buffer', part[v][1], n) = SubSeq(buffer, part[v][1], n)
  <2>1. \A i \in part[v][1]..n : i \in 1..Buffer /\ i \in Reach(v)
    BY <1>1, <1>2 DEF Reach
  <2>2. \A i \in part[v][1]..n : buffer'[i] = buffer[i]
    BY <1>2, <2>1 DEF Spared
  <2> QED
    BY <1>1, <1>2, <2>2, SameBytes
<1>3. Len(Data(v))' = Len(Data(v)) /\ Spared(v)' = Spared(v)
  BY LengthStays, SparedStays
<1>4. Spared(v) => Data(v)' = Data(v)
  BY <1>1, <1>2 DEF Data
<1>5. ASSUME pc[v] = "padded", Spared(v)
      PROVE  Padded(v)' = Padded(v)
  <2>1. CASE padded[v] # None
    BY <2>1 DEF Padded
  <2>2. CASE padded[v] = None
    <3> DEFINE pad == PadLength(Len(Data(v)))  end == part[v][2] + pad
    <3>1. pad \in Nat /\ end <= capacity[v]
      <4>1. Len(Data(v)) \in Nat
        BY DataIsBytes
      <4> QED
        BY <1>5, <2>2, <4>1, PadLengthInBlock, CipherAssumption DEF Carried
    <3> HIDE DEF pad
    <3>2. end \in 0..Buffer /\ part[v][1] <= end + 1
      <4>1. part[v][1] \in Nat /\ part[v][2] \in Nat /\ part[v][1] <= part[v][2] + 1
            /\ capacity[v] \in Nat /\ capacity[v] <= Buffer /\ Buffer \in Nat
        BY <1>1
      <4> QED
        BY <3>1, <4>1
    <3> HIDE DEF end
    <3>3. SubSeq(buffer', part[v][1], end) = SubSeq(buffer, part[v][1], end)
      BY <1>2, <1>5, <3>1, <3>2
    <3> QED
      BY <1>3, <2>2, <3>3 DEF Padded, end, pad
  <2> QED
    BY <2>1, <2>2
<1> QED
  BY <1>3, <1>4, <1>5 DEF Begun, Carried

LEMMA BeginInv ==
    ASSUME Inv, NEW u \in Uploads, Begin(u)
    PROVE  Inv'
<1> USE DEF Inv
<1>1. Data(u) \in Seq(Byte) /\ Len(Data(u)) \in Nat /\ Data(u) # <<>>
  BY DataIsBytes DEF Begin
<1>2. PaddedSize(Len(Data(u))) \in Nat
  <2> DEFINE n == Len(Data(u))
  <2>1. n \in Nat
    BY <1>1
  <2> HIDE DEF n
  <2>2. PaddedSize(n) = n + PadLength(n) /\ PadLength(n) \in 1..Block
    BY <2>1, PaddedSizeIsSize, PadLengthInBlock
  <2>3. PaddedSize(n) \in Nat
    BY <2>1, <2>2, CipherAssumption
  <2> QED
    BY <2>3 DEF n
<1>3. Shape'
  BY <1>1, <1>2 DEF Begin, Announce, Goto, Shape
<1>4. Begun(u)' /\ Carried(u)'
  <2>1. Data(u)' = Data(u)
    BY DEF Begin, Announce, Data
  <2>2. /\ pc[u] = "idle" /\ pc'[u] = "announced" /\ given'[u] = Data(u)
        /\ announced'[u] = [raw |-> Len(Data(u)), file |-> PaddedSize(Len(Data(u)))]
        /\ stored' = stored /\ fetched' = fetched
    BY DEF Begin, Announce, Goto, Shape
  <2>3. padded'[u] = None /\ fetched[u] = None /\ stored[u] = None
    BY <2>2 DEF Begin, Announce, Carried
  <2> QED
    BY <1>1, <2>1, <2>2, <2>3 DEF Begun, Carried
<1>5. ASSUME NEW v \in Uploads, v # u PROVE Begun(v)' /\ Carried(v)'
  BY <1>3, <1>5, OthersKeep DEF Begin, Announce, Goto, Shape
<1> QED
  BY <1>3, <1>4, <1>5

LEMMA UploadFailsInv ==
    ASSUME Inv, NEW u \in Uploads, UploadFails(u)
    PROVE  Inv'
<1> USE DEF Inv
<1>1. Shape'
  BY DEF UploadFails, uploadVars, Goto, Shape
<1>2. Begun(u)' /\ Carried(u)'
  <2>1. Spared(u)' = Spared(u) /\ Data(u)' = Data(u)
    BY SparedStays DEF UploadFails, uploadVars, Data
  <2>2. pc[u] \in {"announced", "padded"} /\ pc'[u] = "failed" /\ stored[u] = None /\ fetched[u] = None
    BY DEF UploadFails, Goto, Shape, Carried
  <2> QED
    BY <2>1, <2>2 DEF UploadFails, uploadVars, Begun, Carried
<1>3. ASSUME NEW v \in Uploads, v # u PROVE Begun(v)' /\ Carried(v)'
  BY <1>3, OthersKeep DEF UploadFails, uploadVars, Goto, Shape
<1> QED
  BY <1>1, <1>2, <1>3

LEMMA PadInPlaceInv ==
    ASSUME Inv, NEW u \in Uploads, PadInPlace(u)
    PROVE  Inv'
<1> USE DEF Inv
<1> DEFINE first == part[u][1]  last == part[u][2]  pad == PadLength(Len(Data(u)))
<1>1. /\ Buffer \in Nat /\ first \in 1..Buffer /\ last \in 0..Buffer /\ first <= last + 1
      /\ capacity[u] \in 0..Buffer
  BY TransferAssumption DEF Shape, Parts
<1>2. pad \in 1..Block /\ pad \in Byte
  <2>1. pad \in 1..Block
    BY DataIsBytes, PadLengthInBlock
  <2> QED
    BY <2>1, CipherAssumption DEF Byte
<1> HIDE DEF first, last, pad
<1>3. /\ pc[u] = "announced" /\ pc' = [pc EXCEPT ![u] = "padded"] /\ last + pad <= capacity[u]
      /\ buffer' = [i \in 1..Buffer |-> IF i \in (last + 1)..(last + pad) THEN pad ELSE buffer[i]]
      /\ UNCHANGED <<part, capacity, given, announced, padded, stored, fetched>>
  BY DEF PadInPlace, HasRoom, Goto, uploadVars, last, pad
<1>4. buffer' \in [1..Buffer -> Byte]
  BY <1>2, <1>3 DEF Shape
<1>5. Shape'
  BY <1>3, <1>4 DEF Shape
<1>6. Data(u)' = Data(u)
  <2>1. \A i \in first..last : buffer'[i] = buffer[i]
    BY <1>1, <1>2, <1>3
  <2>2. SubSeq(buffer', first, last) = SubSeq(buffer, first, last)
    BY <1>1, <1>4, <2>1, SameBytes DEF Shape
  <2> QED
    BY <1>3, <2>2 DEF Data, first, last
<1>7. SubSeq(buffer', first, last + pad) = Pad(Data(u))
  <2> DEFINE n == last - first + 1  written == SubSeq(buffer', first, last + pad)
  <2>1. /\ Data(u) = [i \in 1..n |-> buffer[first + i - 1]]
        /\ Data(u) \in Seq(Byte) /\ Len(Data(u)) = n /\ n \in Nat
    <3>1. Data(u) = SubSeq(buffer, first, last)
      BY DEF Data, first, last
    <3> QED
      BY <1>1, <3>1, PartOf DEF Shape
  <2>2. /\ Pad(Data(u)) \in Seq(Byte) /\ Len(Pad(Data(u))) = n + pad
        /\ \A i \in 1..n : Pad(Data(u))[i] = Data(u)[i]
        /\ \A i \in (n + 1)..(n + pad) : Pad(Data(u))[i] = pad
    BY <2>1, PadBytes DEF pad
  <2>3. /\ written = [i \in 1..(n + pad) |-> buffer'[first + i - 1]]
        /\ written \in Seq(Byte) /\ Len(written) = n + pad
    <3> DEFINE end == last + pad
    <3>1. end \in 0..Buffer /\ first <= end + 1 /\ end - first + 1 = n + pad
      BY <1>1, <1>2, <1>3, CipherAssumption
    <3> HIDE DEF end
    <3>2. /\ SubSeq(buffer', first, end) = [i \in 1..(end - first + 1) |-> buffer'[first + i - 1]]
          /\ SubSeq(buffer', first, end) \in Seq(Byte)
          /\ Len(SubSeq(buffer', first, end)) = end - first + 1
      BY <1>1, <1>4, <3>1, PartOf
    <3> QED
      BY <3>1, <3>2 DEF end
  <2> HIDE DEF written
  <2>4. ASSUME NEW i \in 1..(n + pad)
        PROVE  written[i] = Pad(Data(u))[i]
    <3>0. written[i] = buffer'[first + i - 1]
      BY <2>3
    <3>1. CASE i <= n
      <4>1. /\ first + i - 1 \in 1..Buffer /\ first + i - 1 \notin (last + 1)..(last + pad)
            /\ i \in 1..n
        BY <1>1, <1>2, <3>1
      <4> QED
        BY <1>3, <2>1, <2>2, <3>0, <4>1
    <3>2. CASE ~(i <= n)
      <4>1. /\ first + i - 1 \in 1..Buffer /\ first + i - 1 \in (last + 1)..(last + pad)
            /\ i \in (n + 1)..(n + pad)
        BY <1>1, <1>2, <1>3, <3>2
      <4> QED
        BY <1>3, <2>2, <3>0, <4>1
    <3> QED
      BY <3>1, <3>2
  <2>5. written = Pad(Data(u))
    <3>1. ASSUME NEW s \in Seq(Byte), NEW t \in Seq(Byte), Len(s) = Len(t),
                 \A i \in 1..Len(s) : s[i] = t[i]
          PROVE  s = t
      BY <3>1
    <3> QED
      BY <2>2, <2>3, <2>4, <3>1
  <2> QED
    BY <2>5 DEF written
<1>8. Begun(u)' /\ Carried(u)'
  <2>1. /\ padded[u] = None /\ stored[u] = None /\ fetched[u] = None
        /\ Spared(u) => given[u] = Data(u)
        /\ Spared(u)' = Spared(u)
    BY <1>3, SparedStays DEF Begun, Carried
  <2>2. Spared(u) => Padded(u)' = Pad(given[u])
    <3>1. Padded(u)' = SubSeq(buffer', part[u][1], part[u][2] + PadLength(Len(Data(u)')))
      BY <1>3, <2>1 DEF Padded
    <3> QED
      BY <1>6, <1>7, <2>1, <3>1 DEF first, last, pad
  <2>3. pc'[u] = "padded" /\ part[u][2] + PadLength(Len(Data(u))) <= capacity[u]
    BY <1>3 DEF Shape, last, pad
  <2> QED
    BY <1>3, <1>6, <2>1, <2>2, <2>3 DEF Begun, Carried
<1>9. ASSUME NEW v \in Uploads, v # u PROVE Begun(v)' /\ Carried(v)'
  <2>1. \A i \in 1..Buffer : i \notin Room(u) => buffer'[i] = buffer[i]
    BY <1>1, <1>2, <1>3 DEF Room, last
  <2>2. pc'[v] = pc[v]
    BY <1>3, <1>9
  <2> QED
    BY <1>3, <1>5, <1>9, <2>1, <2>2, OthersKeep
<1> QED
  BY <1>5, <1>8, <1>9

LEMMA PadCopyInv ==
    ASSUME Inv, NEW u \in Uploads, PadCopy(u)
    PROVE  Inv'
<1> USE DEF Inv
<1>1. Shape'
  BY DEF PadCopy, uploadVars, Goto, Shape
<1>2. Begun(u)' /\ Carried(u)'
  <2>1. /\ pc[u] = "announced" /\ pc'[u] = "padded" /\ padded'[u] = Pad(Data(u))
        /\ Data(u)' = Data(u)
        /\ UNCHANGED <<part, capacity, given, announced, stored, fetched>>
    BY DEF PadCopy, uploadVars, Goto, Shape, Data
  <2>2. /\ stored[u] = None /\ fetched[u] = None
        /\ Spared(u) => given[u] = Data(u)
        /\ Spared(u)' = Spared(u)
    BY <2>1, SparedStays DEF Begun, Carried
  <2>3. padded'[u] # None /\ Len(padded'[u]) = PaddedSize(Len(Data(u)))
    <3>1. Data(u) \in Seq(Byte) /\ Len(Data(u)) \in Nat
      BY DataIsBytes
    <3>2. Pad(Data(u)) \in Seq(Byte) /\ Len(Pad(Data(u))) = Len(Data(u)) + PadLength(Len(Data(u)))
      BY <3>1, PadBytes
    <3> QED
      BY <2>1, <3>1, <3>2, PaddedSizeIsSize, TransferAssumption
  <2>4. Spared(u) => Padded(u)' = Pad(given[u])
    BY <2>1, <2>2, <2>3 DEF Padded
  <2> QED
    BY <2>1, <2>2, <2>3, <2>4 DEF Begun, Carried
<1>3. ASSUME NEW v \in Uploads, v # u PROVE Begun(v)' /\ Carried(v)'
  BY <1>3, OthersKeep DEF PadCopy, uploadVars, Goto, Shape
<1> QED
  BY <1>1, <1>2, <1>3

LEMMA StoreInv ==
    ASSUME Inv, NEW u \in Uploads, Store(u)
    PROVE  Inv'
<1> USE DEF Inv
<1>1. Shape'
  BY DEF Store, uploadVars, Goto, Shape
<1>2. Begun(u)' /\ Carried(u)'
  <2>1. /\ pc[u] = "padded" /\ pc'[u] = "stored" /\ stored'[u] = Encrypt(Padded(u), u)
        /\ UNCHANGED <<buffer, part, capacity, given, announced, padded, fetched>>
    BY DEF Store, Goto, uploadVars, Shape
  <2>2. Spared(u)' = Spared(u) /\ Data(u)' = Data(u)
    BY <2>1, SparedStays DEF Data
  <2>3. Len(Padded(u)) = PaddedSize(Len(Data(u)))
    <3>1. CASE padded[u] # None
      BY <3>1 DEF Padded, Carried
    <3>2. CASE padded[u] = None
      <4> DEFINE n == Len(Data(u))  m == part[u][1]  pad == PadLength(n)  end == part[u][2] + pad
      <4>1. /\ Buffer \in Nat /\ buffer \in [1..Buffer -> Byte]
            /\ m \in 1..Buffer /\ part[u][2] \in 0..Buffer
            /\ m <= part[u][2] + 1 /\ capacity[u] \in 0..Buffer
            /\ n = part[u][2] - m + 1 /\ n \in Nat
        <5>1. Buffer \in Nat
          BY TransferAssumption
        <5>2. part[u] \in Parts /\ capacity[u] \in 0..Buffer /\ buffer \in [1..Buffer -> Byte]
          BY DEF Shape
        <5>3. m \in 1..Buffer /\ part[u][2] \in 0..Buffer /\ m <= part[u][2] + 1
          BY <5>2 DEF Parts
        <5>4. n = part[u][2] - m + 1 /\ n \in Nat
          BY DataIsBytes
        <5> QED
          BY <5>1, <5>2, <5>3, <5>4
      <4>2. end <= capacity[u] /\ Padded(u) = SubSeq(buffer, m, end)
        BY <2>1, <3>2 DEF Carried, Padded
      <4> HIDE DEF n, m
      <4>3. pad \in Nat /\ PaddedSize(n) = n + pad
        <5>1. n \in Nat
          BY <4>1
        <5>2. pad \in 1..Block /\ PaddedSize(n) = n + pad
          BY <5>1, PadLengthInBlock, PaddedSizeIsSize
        <5> QED
          BY <5>2, CipherAssumption
      <4> HIDE DEF pad
      <4>4. end \in 0..Buffer /\ m <= end + 1 /\ end - m + 1 = n + pad
        <5> DEFINE last == part[u][2]  most == capacity[u]
        <5>1. /\ Buffer \in Nat /\ m \in 1..Buffer /\ last \in 0..Buffer /\ m <= last + 1
              /\ most \in 0..Buffer /\ n = last - m + 1 /\ end <= most /\ end = last + pad
          BY <4>1, <4>2
        <5> HIDE DEF last, most, end
        <5> QED
          BY <4>3, <5>1
      <4> HIDE DEF end
      <4>5. Len(SubSeq(buffer, m, end)) = end - m + 1
        BY <4>1, <4>4, PartOf
      <4> QED
        BY <4>2, <4>3, <4>4, <4>5 DEF n
    <3> QED
      BY <3>1, <3>2
  <2>4. /\ Len(given[u]) = Len(Data(u)) /\ fetched[u] = None
        /\ Spared(u) => Padded(u) = Pad(given[u])
        /\ stored'[u].bytes = Padded(u)
    <3>1. Encrypt(Padded(u), u).bytes = Padded(u)
      BY DEF Encrypt
    <3> QED
      BY <2>1, <3>1 DEF Begun, Carried
  <2> QED
    BY <2>1, <2>2, <2>3, <2>4 DEF Begun, Carried
<1>3. ASSUME NEW v \in Uploads, v # u PROVE Begun(v)' /\ Carried(v)'
  BY <1>3, OthersKeep DEF Store, uploadVars, Goto, Shape
<1> QED
  BY <1>1, <1>2, <1>3

LEMMA FetchInv ==
    ASSUME Inv, NEW u \in Uploads, Fetch(u)
    PROVE  Inv'
<1> USE DEF Inv
<1>1. Shape'
  BY DEF Fetch, uploadVars, Shape
<1>2. Begun(u)' /\ Carried(u)'
  <2>1. given[u] \in Seq(Byte) /\ Len(given[u]) <= Buffer /\ pc[u] = "stored"
    BY DataIsBytes DEF Fetch, Begun, Shape
  <2>2. Spared(u) => stored[u] = Encrypt(Pad(given[u]), u)
    BY <2>1 DEF Carried
  <2>3. Spared(u) => fetched'[u] \in MayFetch(given[u])
    <3>1. fetched'[u] \in {Decrypt(Limited(stored[u])), Error}
      BY DEF Fetch, Shape
    <3>2. Error \in MayFetch(given[u])
      BY DEF MayFetch
    <3> QED
      BY <2>1, <2>2, <3>1, <3>2, FetchedInPart
  <2>4. Spared(u)' = Spared(u) /\ Data(u)' = Data(u) /\ Padded(u)' = Padded(u)
    BY SparedStays DEF Fetch, uploadVars, Data, Padded
  <2> QED
    BY <2>1, <2>3, <2>4 DEF Fetch, uploadVars, Begun, Carried
<1>3. ASSUME NEW v \in Uploads, v # u PROVE Begun(v)' /\ Carried(v)'
  BY <1>3, OthersKeep DEF Fetch, uploadVars, Shape
<1> QED
  BY <1>1, <1>2, <1>3

\* Every step keeps the invariant.
LEMMA NextInv ==
    ASSUME Inv, [Next]_vars
    PROVE  Inv'
<1>1. CASE UNCHANGED vars
  BY <1>1, SparedStays DEF Inv, vars, uploadVars, Shape, Begun, Carried, Data, Padded
<1>2. CASE Next
  <2> PICK u \in Uploads :
        \/ Begin(u) \/ UploadFails(u) \/ PadInPlace(u) \/ PadCopy(u) \/ Store(u) \/ Fetch(u)
    BY <1>2 DEF Next
  <2> QED
    BY BeginInv, UploadFailsInv, PadInPlaceInv, PadCopyInv, StoreInv, FetchInv
<1> QED
  BY <1>1, <1>2

LEMMA InvGivesAll ==
    ASSUME Inv
    PROVE  TypeOK /\ StoredIsGiven /\ SizesAreTrue /\ FetchedIsGiven
<1> USE DEF Inv
<1>1. ASSUME NEW u \in Uploads, pc[u] # "idle"
      PROVE  announced[u].raw \in 1..Buffer /\ announced[u].file \in Nat
  <2>1. Data(u) \in Seq(Byte) /\ Len(Data(u)) <= Buffer
    BY DataIsBytes
  <2>2. Len(given[u]) # 0 /\ Len(given[u]) = Len(Data(u))
    <3>1. given[u] # <<>> /\ given[u] \in Seq(Byte) /\ Len(given[u]) = Len(Data(u))
      BY <1>1 DEF Begun, Shape
    <3> QED
      BY <3>1
  <2> QED
    BY <1>1, <2>1, <2>2, TransferAssumption DEF Begun, Shape
<1>2. ASSUME NEW u \in Uploads, stored[u] # None
      PROVE  /\ Spared(u) => Decrypt(stored[u]) = given[u]
             /\ announced[u].raw = Len(given[u])
             /\ announced[u].file = Len(stored[u].bytes)
  <2>1. /\ given[u] \in Seq(Byte) /\ pc[u] = "stored"
        /\ Len(stored[u].bytes) = PaddedSize(Len(given[u]))
        /\ Spared(u) => stored[u] = Encrypt(Pad(given[u]), u)
    BY <1>2 DEF Carried, Shape
  <2>2. announced[u] = [raw |-> Len(given[u]), file |-> PaddedSize(Len(given[u]))]
    BY <2>1 DEF Begun
  <2> QED
    BY <2>1, <2>2, Deciphers
<1>3. ASSUME NEW u \in Uploads, Spared(u), fetched[u] \notin {None, Error}
      PROVE  /\ \E n \in 0..Len(given[u]) : fetched[u] = SubSeq(given[u], 1, n)
             /\ announced[u].file <= MaxDownload => fetched[u] = given[u]
  <2>1. pc[u] = "stored" /\ fetched[u] \in MayFetch(given[u])
    BY <1>3 DEF Carried
  <2>2. announced[u] = [raw |-> Len(given[u]), file |-> PaddedSize(Len(given[u]))]
    BY <2>1 DEF Begun
  <2> QED
    BY <1>3, <2>1, <2>2 DEF MayFetch
<1> QED
  BY <1>1, <1>2, <1>3 DEF TypeOK, Shape, StoredIsGiven, SizesAreTrue, FetchedIsGiven
-----------------------------------------------------------------------------
(* Theorems                                                                *)

LEMMA Invariance == Spec => []Inv
<1>1. Init => Inv
  BY InitInv
<1>2. Inv /\ [Next]_vars => Inv'
  BY NextInv
<1> QED
  BY <1>1, <1>2, PTL DEF Spec

\* The variables keep their types, and nothing empty is announced.
THEOREM TypeCorrect == Spec => []TypeOK
<1>1. Inv => TypeOK
  BY InvGivesAll
<1> QED
  BY <1>1, Invariance, PTL

\* What the CDN has stored deciphers to what Upload was given, for any number
\* of goroutines, as long as no other slice may grow into this one.
THEOREM StoresWhatItWasGiven == Spec => []StoredIsGiven
<1>1. Inv => StoredIsGiven
  BY InvGivesAll
<1> QED
  BY <1>1, Invariance, PTL

\* The server is told the sizes of what it gets, whatever the block size and
\* whoever writes over the data.
THEOREM AnnouncesTrueSizes == Spec => []SizesAreTrue
<1>1. Inv => SizesAreTrue
  BY InvGivesAll
<1> QED
  BY <1>1, Invariance, PTL

\* Media that are within the limit with their padding are fetched whole or not
\* at all, and of larger ones a download returns a first part or nothing.
THEOREM FetchesAllOrNothing == Spec => []FetchedIsGiven
<1>1. Inv => FetchedIsGiven
  BY InvGivesAll
<1> QED
  BY <1>1, Invariance, PTL

-----------------------------------------------------------------------------
(* MessageService: the operations of a client                              *)

\* The errors that reach a caller
Errors == [base : Bases, layers : Seq(Layers)]

-----------------------------------------------------------------------------
(* What a layer changes                                                    *)

\* At most one layer is the SDK's.
Single(e) == \A i, j \in SdkLayers(e) : i = j

LEMMA LayerKinds ==
    /\ Text \in Layers /\ Text.of = "text"
    /\ \A k \in Kinds, t \in BOOLEAN, c \in Int :
          Wrapped(k, t, c) \in Layers /\ Wrapped(k, t, c).of = "sdk"
BY DEF Layers, Text, Wrapped

\* Around keeps what is inside.
LEMMA AroundIs ==
    ASSUME NEW e \in Errors, NEW layer \in Layers
    PROVE  /\ Around(e, layer) \in Errors /\ Around(e, layer).base = e.base
           /\ Len(e.layers) \in Nat
           /\ Len(Around(e, layer).layers) = Len(e.layers) + 1
           /\ \A i \in 1..Len(e.layers) : Around(e, layer).layers[i] = e.layers[i]
           /\ Around(e, layer).layers[Len(e.layers) + 1] = layer
<1>1. e.layers \in Seq(Layers) /\ e.base \in Bases /\ Len(e.layers) \in Nat
  BY LenProperties DEF Errors
<1>2. Around(e, layer) = [base |-> e.base, layers |-> Append(e.layers, layer)]
  BY DEF Around, Errors
<1>3. Append(e.layers, layer) \in Seq(Layers)
  BY <1>1
<1> QED
  BY <1>1, <1>2, <1>3 DEF Errors

\* An error is none without an error.
LEMMA ErrorIsSome == NoError \notin Errors
BY DEF Errors, NoError, Bases, Context, Statuses

\* What fmt.Errorf adds is not of the SDK.
LEMMA TextLayers ==
    ASSUME NEW e \in Errors
    PROVE  SdkLayers(Around(e, Text)) = SdkLayers(e)
<1> DEFINE f == Around(e, Text)
           n == Len(e.layers)
<1>1. /\ n \in Nat /\ Len(f.layers) = n + 1 /\ f.layers[n + 1].of = "text"
      /\ \A i \in 1..n : f.layers[i] = e.layers[i]
  BY AroundIs, LayerKinds
<1> HIDE DEF f, n
<1>2. \A i \in 1..n : f.layers[i].of = "sdk" <=> e.layers[i].of = "sdk"
  BY <1>1
<1>3. 1..(n + 1) = 1..n \cup {n + 1}
  BY <1>1
<1>4. {i \in 1..(n + 1) : f.layers[i].of = "sdk"} = {i \in 1..n : e.layers[i].of = "sdk"}
  BY <1>1, <1>2, <1>3
<1> QED
  BY <1>1, <1>4 DEF SdkLayers, f, n

\* The first layer of the SDK is the only one.
LEMMA FirstLayer ==
    ASSUME NEW e \in Errors, NEW layer \in Layers, ~HasSdk(e), layer.of = "sdk"
    PROVE  /\ SdkLayers(Around(e, layer)) = {Len(e.layers) + 1}
           /\ Sdk(Around(e, layer)) = layer
<1> DEFINE f == Around(e, layer)
           n == Len(e.layers)
<1>1. /\ n \in Nat /\ Len(f.layers) = n + 1 /\ f.layers[n + 1] = layer
      /\ \A i \in 1..n : f.layers[i] = e.layers[i]
  BY AroundIs
<1>2. \A i \in 1..n : e.layers[i].of # "sdk"
  BY DEF HasSdk, SdkLayers
<1> HIDE DEF f, n
<1>3. {i \in 1..(n + 1) : f.layers[i].of = "sdk"} = {n + 1}
  BY <1>1, <1>2
<1>4. SdkLayers(f) = {n + 1}
  BY <1>1, <1>3 DEF SdkLayers
<1>5. (CHOOSE i \in SdkLayers(f) : \A j \in SdkLayers(f) : j <= i) = n + 1
  BY <1>1, <1>4
<1>6. Sdk(f) = layer
  BY <1>1, <1>5 DEF Sdk
<1> QED
  BY <1>4, <1>6 DEF f, n

\* What an error is classified as is a layer of the SDK.  It does not depend on
\* the fallback, but for its kind.
LEMMA ClassifyIs ==
    ASSUME NEW e \in Errors, NEW fallback \in Kinds
    PROVE  /\ Classify(e, fallback) \in Layers /\ Classify(e, fallback).of = "sdk"
           /\ Classify(e, fallback).temporary = Classify(e, "none").temporary
           /\ Classify(e, fallback).code = Classify(e, "none").code
<1> DEFINE Good == /\ Classify(e, fallback) \in Layers /\ Classify(e, fallback).of = "sdk"
                   /\ Classify(e, fallback).temporary = Classify(e, "none").temporary
                   /\ Classify(e, fallback).code = Classify(e, "none").code
           Status == Statuses[e.base]
<1>1. ASSUME NEW k, NEW l, NEW t, NEW c, Wrapped(k, t, c) \in Layers,
             Classify(e, fallback) = Wrapped(k, t, c), Classify(e, "none") = Wrapped(l, t, c)
      PROVE  Good
  BY <1>1 DEF Wrapped
<1>2. ASSUME NEW k \in Kinds, NEW c \in Int PROVE Wrapped(k, FALSE, c) \in Layers
  BY DEF Wrapped, Layers
<1> SUFFICES Good
  OBVIOUS
<1> HIDE DEF Good, Status
<1>3. CASE e.base \in Sentinels
  <2>1. Classify(e, fallback) = Wrapped(e.base, FALSE, 0)
        /\ Classify(e, "none") = Wrapped(e.base, FALSE, 0)
    BY <1>3 DEF Classify, Sentinels
  <2>2. e.base \in Kinds
    BY <1>3 DEF Kinds
  <2>3. Wrapped(e.base, FALSE, 0) \in Layers
    BY <2>2 DEF Wrapped, Layers
  <2> QED
    BY <1>1, <2>1, <2>3
<1>4. CASE e.base \notin Sentinels /\ e.base = "expired"
  <2>1. Classify(e, fallback) = Wrapped("session expired", FALSE, -14)
        /\ Classify(e, "none") = Wrapped("session expired", FALSE, -14)
    BY <1>4 DEF Classify
  <2>2. Wrapped("session expired", FALSE, -14) \in Layers
    <3>1. "session expired" \in Kinds
      BY DEF Kinds, Sentinels
    <3>2. -14 \in Int
      OBVIOUS
    <3> QED
      BY <1>2, <3>1, <3>2
  <2> QED
    BY <1>1, <2>1, <2>2
<1>5. CASE e.base \notin Sentinels /\ e.base = "unauthorized"
  <2>1. Classify(e, fallback) = Wrapped("authentication failed", FALSE, 401)
        /\ Classify(e, "none") = Wrapped("authentication failed", FALSE, 401)
    BY <1>5 DEF Classify
  <2>2. Wrapped("authentication failed", FALSE, 401) \in Layers
    <3>1. "authentication failed" \in Kinds
      BY DEF Kinds, Sentinels
    <3>2. 401 \in Int
      OBVIOUS
    <3> QED
      BY <1>2, <3>1, <3>2
  <2> QED
    BY <1>1, <2>1, <2>2
<1>6. CASE e.base \notin Sentinels /\ e.base \in {"refused", "broken", "cdnRefused", "cdnBroken"}
  <2>1. Status \in Int /\ (Status >= 500) \in BOOLEAN
    BY <1>6 DEF Statuses, Status
  <2>2. Classify(e, fallback) = Wrapped(fallback, Status >= 500, Status)
        /\ Classify(e, "none") = Wrapped("none", Status >= 500, Status)
    BY <1>6 DEF Classify, Status
  <2>3. Wrapped(fallback, Status >= 500, Status) \in Layers
    BY <2>1 DEF Wrapped, Layers
  <2> QED
    BY <1>1, <2>2, <2>3
<1>7. CASE e.base \notin Sentinels \cup {"expired", "unauthorized", "refused", "broken",
                                         "cdnRefused", "cdnBroken"}
  <2>1. Classify(e, fallback) = Wrapped(fallback, FALSE, 0)
        /\ Classify(e, "none") = Wrapped("none", FALSE, 0)
    BY <1>7 DEF Classify
  <2>2. Wrapped(fallback, FALSE, 0) \in Layers
    BY DEF Wrapped, Layers
  <2> QED
    BY <1>1, <2>1, <2>2
<1> QED
  BY <1>3, <1>4, <1>5, <1>6, <1>7

-----------------------------------------------------------------------------
(* What an error keeps                                                     *)

LEMMA TextKeeps ==
    ASSUME NEW e \in Errors, Single(e)
    PROVE  Keeps(e, Around(e, Text)) /\ Single(Around(e, Text))
<1> DEFINE f == Around(e, Text)
<1>1. SdkLayers(f) = SdkLayers(e) /\ f.base = e.base
  BY TextLayers, AroundIs, LayerKinds
<1>2. \A i \in SdkLayers(e) : f.layers[i] = e.layers[i]
  BY AroundIs, LayerKinds DEF SdkLayers
<1> HIDE DEF f
<1>3. \A k : Sentinel(e, k) <=> Sentinel(f, k)
  BY <1>1, <1>2 DEF Sentinel
<1>4. HasSdk(f) <=> HasSdk(e)
  BY <1>1 DEF HasSdk
<1>5. ASSUME HasSdk(e) PROVE Sdk(f) = Sdk(e)
  <2>1. PICK i \in SdkLayers(e) : SdkLayers(e) = {i} /\ i \in Int
    BY <1>5 DEF HasSdk, Single, SdkLayers
  <2>2. (CHOOSE j \in SdkLayers(e) : \A l \in SdkLayers(e) : l <= j) = i
    BY <2>1
  <2> QED
    BY <1>1, <1>2, <2>1, <2>2 DEF Sdk
<1>6. Classify(f, "none") = Classify(e, "none")
  BY <1>1 DEF Classify
<1>7. Verdict(f) = Verdict(e)
  BY <1>4, <1>5, <1>6 DEF Verdict
<1>8. Keeps(e, f)
  BY <1>3, <1>7 DEF Keeps, IsAuthenticationError, IsTemporary, ErrorCode
<1> QED
  BY <1>1, <1>8 DEF Single, f

LEMMA WrapKeeps ==
    ASSUME NEW e \in Errors, Single(e), NEW fallback \in Kinds
    PROVE  Keeps(e, Wrap(e, fallback)) /\ Single(Wrap(e, fallback))
           /\ Wrap(e, fallback) \in Errors
<1>1. CASE e.base \in Context \/ HasSdk(e)
  BY <1>1 DEF Wrap, Keeps
<1>2. CASE ~(e.base \in Context \/ HasSdk(e))
  <2> DEFINE layer == Classify(e, fallback)
             f == Around(e, layer)
  <2>2. layer \in Layers /\ layer.of = "sdk"
    BY ClassifyIs
  <2>3. layer.temporary = Classify(e, "none").temporary /\ layer.code = Classify(e, "none").code
    BY ClassifyIs
  <2> HIDE DEF layer
  <2>1. SdkLayers(f) = {Len(e.layers) + 1} /\ Sdk(f) = layer
    BY <1>2, <2>2, FirstLayer
  <2>4. f.base = e.base /\ Sdk(f) = layer /\ HasSdk(f) /\ Single(f) /\ f \in Errors
    BY <2>1, <2>2, AroundIs DEF HasSdk, Single
  <2>5. \A s : Sentinel(e, s) => Sentinel(f, s)
    BY <1>2, <2>4 DEF Sentinel, HasSdk
  <2>6. Verdict(f) = layer /\ Verdict(e) = Classify(e, "none")
    BY <1>2, <2>4 DEF Verdict
  <2>7. Keeps(e, f)
    BY <2>3, <2>5, <2>6 DEF Keeps, IsAuthenticationError, IsTemporary, ErrorCode
  <2>8. Wrap(e, fallback) = f
    BY <1>2 DEF Wrap, layer
  <2> QED
    BY <2>4, <2>7, <2>8
<1> QED
  BY <1>1, <1>2

LEMMA KeepsInTurn ==
    ASSUME NEW e, NEW f, NEW g, Keeps(e, f), Keeps(f, g)
    PROVE  Keeps(e, g)
BY DEF Keeps

-----------------------------------------------------------------------------
(* The stages                                                              *)

\* Where the stages that matter are.
StageFact(o, i) ==
    /\ Stages[o][i] \in Requests \cup {"open", "context"}
    /\ Stages[o][i] = "context" => i = 2
    /\ Stages[o][i] = "message" => o \in {"text", "media"} /\ i > 2
    /\ Stages[o][i] = "updates" => o = "updates"
    /\ o \in {"text", "media"} /\ i = 2 => Stages[o][i] = "context"

LEMMA StageFacts ==
    /\ \A o \in DOMAIN Stages :
          /\ Len(Stages[o]) \in Nat /\ 1 \in 1..Len(Stages[o])
          /\ \A i \in 1..Len(Stages[o]) : StageFact(o, i)
    /\ {"text", "updates"} \subseteq DOMAIN Stages
    /\ \A p \in Procs : Operations(p) \subseteq DOMAIN Stages /\ Idle(p) \in Operations(p)
<1> USE DEF Stages
<1>1. DOMAIN Stages = {"text", "media", "typing", "upload", "download", "updates", "login"}
  OBVIOUS
<1>2. ASSUME NEW o \in DOMAIN Stages
      PROVE  /\ Len(Stages[o]) \in Nat /\ 1 \in 1..Len(Stages[o])
             /\ \A i \in 1..Len(Stages[o]) : StageFact(o, i)
  <2> USE DEF StageFact, Requests, Posts
  <2>1. CASE o = "text"
    <3>1. Stages[o] = <<"open", "context", "message">>
      BY <2>1
    <3> QED
      BY <2>1, <3>1
  <2>2. CASE o = "media"
    <3>1. Stages[o] = <<"open", "context", "url", "upload", "message">>
      BY <2>2
    <3> QED
      BY <2>2, <3>1
  <2>3. CASE o = "typing"
    <3>1. Stages[o] = <<"open", "config", "typing">>
      BY <2>3
    <3> QED
      BY <2>3, <3>1
  <2>4. CASE o = "upload"
    <3>1. Stages[o] = <<"open", "url", "upload">>
      BY <2>4
    <3> QED
      BY <2>4, <3>1
  <2>5. CASE o = "download"
    <3>1. Stages[o] = <<"open", "download">>
      BY <2>5
    <3> QED
      BY <2>5, <3>1
  <2>6. CASE o = "updates"
    <3>1. Stages[o] = <<"updates">>
      BY <2>6
    <3> QED
      BY <2>6, <3>1
  <2>7. CASE o = "login"
    <3>1. Stages[o] = <<"open", "code", "scan">>
      BY <2>7
    <3> QED
      BY <2>7, <3>1
  <2> QED
    BY <1>1, <2>1, <2>2, <2>3, <2>4, <2>5, <2>6, <2>7
<1>3. \A p \in Procs : Operations(p) \subseteq DOMAIN Stages /\ Idle(p) \in Operations(p)
  BY <1>1 DEF Operations, Idle
<1> QED
  BY <1>1, <1>2, <1>3

-----------------------------------------------------------------------------
(* The invariant                                                           *)

\* The requests before stage n of the operation of p
Before(p, n) == {Stages[op[p]][i] : i \in 1..(n - 1)} \cap Requests

\* The types of what a call keeps, and of the rest.
CallType ==
    /\ op \in [Procs -> DOMAIN Stages]
    /\ stage \in [Procs -> Nat]
    /\ \A p \in Procs : op[p] \in Operations(p) /\ stage[p] \in 1..Len(Stages[op[p]])
    /\ doing \in [Procs -> {"idle", "working", "leaving", "polling", "failed", "returned",
                            "run"}]
    /\ err \in [Procs -> {NoError} \cup Errors]
    /\ served \in [Procs -> SUBSET Requests]

SessionType ==
    /\ {token, context} \subseteq 0..sessions /\ sessions \in 0..MaxSessions + 1
    /\ {ending, paused, stale} \subseteq BOOLEAN
    /\ carried \in [Procs -> 0..sessions]
    /\ moved \in [Procs -> BOOLEAN]
    /\ slipped \in [Procs -> Nat]

\* An operation under way has no error, and a good answer to each request before
\* its stage; one that has returned without an error has them all.
CallInv ==
    \A p \in Procs :
       /\ doing[p] = "idle" => stage[p] = 1 /\ err[p] = NoError /\ served[p] = {}
       /\ doing[p] \in {"working", "leaving", "polling"} =>
             err[p] = NoError /\ served[p] = Before(p, stage[p])
       /\ doing[p] = "leaving" => Now(p) \in Requests
       /\ doing[p] = "polling" => Now(p) = "updates"
       /\ doing[p] \in {"failed", "run"} => err[p] # NoError
       /\ doing[p] = "returned" =>
             err[p] # NoError \/ served[p] = Before(p, Len(Stages[op[p]]) + 1)
       /\ err[p] # NoError => Single(err[p])

\* The context token in memory is of the session, or stale.  A call that
\* has read it has the session's, or the session has moved.
SessionInv ==
    /\ ~stale /\ context # NoSession => context = token /\ ~ending
    /\ \A p \in Procs :
          op[p] \in {"text", "media"} /\ stage[p] > 2 /\ ~moved[p] =>
             carried[p] = token /\ token # NoSession /\ ~ending

\* A request that has passed the guard has not left yet, and it is the last.
GuardInv ==
    \A p \in Procs :
       /\ slipped[p] <= 1
       /\ ~paused => slipped[p] = 0
       /\ doing[p] = "leaving" /\ Now(p) \in Posts => slipped[p] = 0

MessageInv == CallType /\ SessionType /\ CallInv /\ SessionInv /\ GuardInv

-----------------------------------------------------------------------------
(* How a call moves                                                        *)

\* A stage that is no request is over.
Proceeds(p) ==
    doing[p] = "working" /\ Now(p) \in {"open", "context"} /\ Advance(p) /\ UNCHANGED served

\* A request is answered well.
Succeeds(p) ==
    doing[p] \in {"leaving", "polling"} /\ Now(p) \in Requests /\ Served(p) /\ Advance(p)

\* A stage fails.
Errs(p) ==
    /\ doing[p] \in {"working", "leaving", "polling"}
    /\ \E e \in Errors : Single(e) /\ FailWith(p, e)
    /\ UNCHANGED served

\* A request is under way.
Departs(p) ==
    /\ \/ doing[p] = "working" /\ Now(p) \in Requests /\ doing' = [doing EXCEPT ![p] = "leaving"]
       \/ doing[p] = "leaving" /\ Now(p) = "updates" /\ doing' = [doing EXCEPT ![p] = "polling"]
    /\ UNCHANGED <<op, stage, err, served>>

\* The operation returns its error, wrapped.
Wraps(p) ==
    /\ \/ doing[p] = "failed" /\ doing' = [doing EXCEPT ![p] = "returned"]
       \/ doing[p] = "returned" /\ doing' = [doing EXCEPT ![p] = "run"]
    /\ err[p] # NoError
    /\ \E e \in Errors : Single(e) /\ Keeps(err[p], e) /\ err' = [err EXCEPT ![p] = e]
    /\ UNCHANGED <<op, stage, served>>

Rests == UNCHANGED <<callVars, served>>

Step(p) == Call(p) \/ Proceeds(p) \/ Succeeds(p) \/ Errs(p) \/ Departs(p) \/ Wraps(p) \/ Seen(p)

LEMMA PlainErrors ==
    ASSUME NEW base \in Bases
    PROVE  /\ Plain(base) \in Errors /\ Single(Plain(base)) /\ ~HasSdk(Plain(base))
           /\ Annotated(base) \in Errors /\ Single(Annotated(base))
<1>1. <<>> \in Seq(Layers) /\ Len(<<>>) = 0
  BY EmptySeq
<1>2. Plain(base) \in Errors /\ SdkLayers(Plain(base)) = {}
  BY <1>1 DEF Plain, Errors, SdkLayers
<1>3. Single(Plain(base)) /\ ~HasSdk(Plain(base))
  BY <1>2 DEF Single, HasSdk
<1>4. Annotated(base) \in Errors /\ Single(Annotated(base))
  BY <1>2, <1>3, TextKeeps, AroundIs, LayerKinds DEF Annotated
<1> QED
  BY <1>2, <1>3, <1>4

\* What a stage may fail with
LEMMA BasesOfStages ==
    /\ \A s : Fails(s) \subseteq Bases
    /\ {"closed", "no context token", "paused", "unusable"} \subseteq Bases
    /\ \A o : Fallback(o) \in Kinds
<1>1. {"closed", "no context token", "paused", "unusable", "network", "QR code expired",
       "login canceled"} \subseteq Bases
  BY DEF Bases
<1>2. {"refused", "unauthorized", "broken", "cdnRefused", "cdnBroken", "expired"} \subseteq Bases
  BY DEF Bases, Statuses
<1>3. Context \subseteq Bases
  BY DEF Bases
<1>4. \A s : Fails(s) \subseteq Bases
  BY <1>1, <1>2, <1>3 DEF Fails
<1>5. \A o : Fallback(o) \in Kinds
  BY DEF Fallback, Kinds
<1> QED
  BY <1>1, <1>4, <1>5

\* A closed client makes an Error of its own.
LEMMA ClosedError ==
    LET e == Around(Plain("closed"), Wrapped("closed", FALSE, 0)) IN e \in Errors /\ Single(e)
<1> DEFINE layer == Wrapped("closed", FALSE, 0)
<1>1. Plain("closed") \in Errors /\ ~HasSdk(Plain("closed"))
  BY PlainErrors, BasesOfStages
<1>2. "closed" \in Kinds
  BY DEF Kinds, Sentinels
<1>3. layer \in Layers /\ layer.of = "sdk"
  BY <1>2 DEF Wrapped, Layers
<1> HIDE DEF layer
<1>4. Around(Plain("closed"), layer) \in Errors
      /\ SdkLayers(Around(Plain("closed"), layer)) = {Len(Plain("closed").layers) + 1}
  BY <1>1, <1>3, AroundIs, FirstLayer
<1> QED
  BY <1>4 DEF Single, layer

\* Each action of a goroutine is such a step of its call.
LEMMA ActionsAreSteps ==
    ASSUME MessageInv, NEW p \in Procs
    PROVE  /\ Open(p) \/ ReadContext(p) => Proceeds(p) \/ Errs(p)
           /\ AskGuard(p) => Departs(p) \/ Errs(p)
           /\ Accepted(p) \/ Scanned(p) \/ PollAnswered(p) => Succeeds(p)
           /\ Refused(p) \/ Unusable(p) => Errs(p)
           /\ PollLeaves(p) => Departs(p)
           /\ Return(p) \/ RunReturns(p) => Wraps(p)
<1>0. doing[p] = "leaving" => Now(p) \in Requests
  BY DEF MessageInv, CallInv
<1>1. ASSUME Open(p) PROVE Proceeds(p) \/ Errs(p)
  BY <1>1, ClosedError DEF Open, Proceeds, Errs
<1>2. ASSUME ReadContext(p) PROVE Proceeds(p) \/ Errs(p)
  <2>1. Plain("no context token") \in Errors /\ Single(Plain("no context token"))
    BY PlainErrors, BasesOfStages
  <2> QED
    BY <1>2, <2>1 DEF ReadContext, Proceeds, Errs
<1>3. ASSUME AskGuard(p) PROVE Departs(p) \/ Errs(p)
  <2>1. Annotated("paused") \in Errors /\ Single(Annotated("paused"))
    BY PlainErrors, BasesOfStages
  <2> QED
    BY <1>3, <2>1 DEF AskGuard, Departs, Errs
<1>4. ASSUME Accepted(p) \/ Scanned(p) \/ PollAnswered(p) PROVE Succeeds(p)
  <2>1. doing[p] = "polling" => Now(p) \in Requests
    BY DEF MessageInv, CallInv, Requests, Posts
  <2> QED
    BY <1>0, <1>4, <2>1 DEF Accepted, Scanned, PollAnswered, Leaves, Succeeds
<1>5. ASSUME Refused(p) PROVE Errs(p)
  <2>1. PICK base \in Fails(Now(p)) : FailWith(p, Annotated(base))
    BY <1>5 DEF Refused
  <2>2. Annotated(base) \in Errors /\ Single(Annotated(base))
    BY PlainErrors, BasesOfStages
  <2> QED
    BY <1>5, <2>1, <2>2 DEF Refused, Leaves, Errs
<1>6. ASSUME Unusable(p) PROVE Errs(p)
  <2>1. Annotated("unusable") \in Errors /\ Single(Annotated("unusable"))
    BY PlainErrors, BasesOfStages
  <2> QED
    BY <1>6, <2>1 DEF Unusable, Leaves, Errs
<1>7. ASSUME PollLeaves(p) PROVE Departs(p)
  BY <1>7 DEF PollLeaves, Leaves, Departs
<1>8. ASSUME Return(p) PROVE Wraps(p)
  <2>1. err[p] # NoError /\ err[p] \in Errors /\ Single(err[p])
    BY <1>8 DEF Return, MessageInv, CallInv, CallType
  <2> DEFINE e == Wrap(err[p], Fallback(op[p]))
  <2>2. Keeps(err[p], e) /\ Single(e) /\ e \in Errors
    BY <2>1, WrapKeeps, BasesOfStages
  <2>3. err' = [err EXCEPT ![p] = e]
    BY <1>8 DEF Return
  <2> HIDE DEF e
  <2> QED
    BY <1>8, <2>1, <2>2, <2>3 DEF Return, Wraps
<1>9. ASSUME RunReturns(p) PROVE Wraps(p)
  <2>1. err[p] # NoError /\ err[p] \in Errors /\ Single(err[p])
    BY <1>9 DEF RunReturns, MessageInv, CallInv, CallType
  <2> DEFINE f == Around(err[p], Text)
             e == Wrap(f, "none")
  <2>2. Keeps(err[p], f) /\ Single(f) /\ f \in Errors
    BY <2>1, TextKeeps, AroundIs, LayerKinds
  <2>3. Keeps(f, e) /\ Single(e) /\ e \in Errors
    <3>1. "none" \in Kinds
      BY DEF Kinds
    <3> HIDE DEF f
    <3> QED
      BY <2>2, <3>1, WrapKeeps
  <2>4. err' = [err EXCEPT ![p] = e]
    BY <1>9 DEF RunReturns
  <2> HIDE DEF e, f
  <2>5. Keeps(err[p], e)
    BY <2>2, <2>3, KeepsInTurn
  <2> QED
    BY <1>9, <2>1, <2>3, <2>4, <2>5 DEF RunReturns, Wraps
<1> QED
  BY <1>1, <1>2, <1>3, <1>4, <1>5, <1>6, <1>7, <1>8, <1>9

LEMMA NextIsSteps ==
    ASSUME MessageInv, MessageNext
    PROVE  (\E p \in Procs : Step(p)) \/ Rests
<1>1. ASSUME ForgetContexts \/ DropToken \/ Restored \/ GuardFalls PROVE Rests
  BY <1>1 DEF ForgetContexts, Ends, DropToken, Restored, GuardFalls, Rests
<1> QED
  BY <1>1, ActionsAreSteps DEF MessageNext, Step

-----------------------------------------------------------------------------
(* Steps keep the invariant of calls                                       *)

\* What Advance does to the stage.
LEMMA Advancing ==
    ASSUME CallType, NEW p \in Procs, Advance(p)
    PROVE  /\ UNCHANGED <<op, err>>
           /\ \A q \in Procs : q # p => stage'[q] = stage[q] /\ doing'[q] = doing[q]
           /\ stage' \in [Procs -> Nat] /\ stage'[p] \in 1..Len(Stages[op[p]])
           /\ \/ doing' = [doing EXCEPT ![p] = "working"] /\ stage'[p] = stage[p] + 1
              \/ /\ doing' = [doing EXCEPT ![p] = "returned"]
                 /\ stage'[p] = stage[p] /\ stage[p] = Len(Stages[op[p]])
<1>1. /\ stage \in [Procs -> Nat] /\ doing = [q \in Procs |-> doing[q]]
      /\ op[p] \in DOMAIN Stages /\ stage[p] \in 1..Len(Stages[op[p]])
      /\ Len(Stages[op[p]]) \in Nat
  BY StageFacts DEF CallType
<1>2. CASE stage[p] < Len(Stages[op[p]])
  <2>1. stage' = [stage EXCEPT ![p] = stage[p] + 1] /\ doing' = [doing EXCEPT ![p] = "working"]
    BY <1>2 DEF Advance
  <2>2. stage[p] + 1 \in 1..Len(Stages[op[p]]) /\ stage[p] + 1 \in Nat
    BY <1>1, <1>2
  <2> QED
    BY <1>1, <2>1, <2>2 DEF Advance
<1>3. CASE ~(stage[p] < Len(Stages[op[p]]))
  BY <1>1, <1>3 DEF Advance
<1> QED
  BY <1>2, <1>3

\* One more stage is one more request, or none.
LEMMA BeforeNext ==
    ASSUME CallType, NEW p \in Procs
    PROVE  Before(p, stage[p] + 1) = Before(p, stage[p]) \cup ({Now(p)} \cap Requests)
<1>1. stage[p] \in Nat /\ 1 <= stage[p]
  BY StageFacts DEF CallType
<1>2. 1..((stage[p] + 1) - 1) = 1..(stage[p] - 1) \cup {stage[p]}
  BY <1>1
<1> QED
  BY <1>2 DEF Before, Now

LEMMA StepCallType ==
    ASSUME MessageInv, NEW p \in Procs, Step(p)
    PROVE  CallType'
<1>1. CallType /\ \A q \in Procs : op[q] \in DOMAIN Stages
  BY DEF MessageInv, CallType
<1>2. op[p] \in DOMAIN Stages /\ Now(p) \in Requests \cup {"open", "context"}
  BY <1>1, StageFacts DEF CallType, Now, StageFact
<1>3. CASE Call(p)
  <2>1. PICK o \in Operations(p) : op' = [op EXCEPT ![p] = o]
    BY <1>3 DEF Call
  <2>2. o \in DOMAIN Stages /\ stage[p] = 1 /\ 1 \in 1..Len(Stages[o])
    BY <1>3, <2>1, StageFacts DEF Call, MessageInv, CallInv
  <2> QED
    BY <1>1, <1>3, <2>1, <2>2 DEF Call, CallType
<1>4. CASE Proceeds(p) \/ Succeeds(p)
  <2>1. served' \in [Procs -> SUBSET Requests]
    <3>1. CASE Proceeds(p)
      BY <1>1, <3>1 DEF Proceeds, CallType
    <3>2. CASE Succeeds(p)
      <4>1. served[p] \cup {Now(p)} \in SUBSET Requests
        BY <1>1, <3>2 DEF Succeeds, CallType
      <4> QED
        BY <1>1, <3>2, <4>1 DEF Succeeds, Served, CallType
    <3> QED
      BY <1>4, <3>1, <3>2
  <2>2. Advance(p)
    BY <1>4 DEF Proceeds, Succeeds
  <2> QED
    BY <1>1, <2>1, <2>2, Advancing DEF CallType
<1>5. CASE Errs(p)
  BY <1>1, <1>5 DEF Errs, FailWith, CallType
<1>6. CASE Departs(p)
  BY <1>1, <1>6 DEF Departs, CallType
<1>7. CASE Wraps(p)
  BY <1>1, <1>7 DEF Wraps, CallType
<1>8. CASE Seen(p)
  <2>1. Idle(p) \in Operations(p) /\ Idle(p) \in DOMAIN Stages /\ 1 \in 1..Len(Stages[Idle(p)])
    BY StageFacts
  <2> QED
    BY <1>1, <1>8, <2>1 DEF Seen, CallType
<1> QED
  BY <1>3, <1>4, <1>5, <1>6, <1>7, <1>8 DEF Step

LEMMA StepCall ==
    ASSUME MessageInv, NEW p \in Procs, Step(p)
    PROVE  CallInv'
<1>1. CallType /\ CallInv
  BY DEF MessageInv
<1> DEFINE Good(q) ==
       /\ doing[q] = "idle" => stage[q] = 1 /\ err[q] = NoError /\ served[q] = {}
       /\ doing[q] \in {"working", "leaving", "polling"} =>
             err[q] = NoError /\ served[q] = Before(q, stage[q])
       /\ doing[q] = "leaving" => Now(q) \in Requests
       /\ doing[q] = "polling" => Now(q) = "updates"
       /\ doing[q] \in {"failed", "run"} => err[q] # NoError
       /\ doing[q] = "returned" =>
             err[q] # NoError \/ served[q] = Before(q, Len(Stages[op[q]]) + 1)
       /\ err[q] # NoError => Single(err[q])
<1>2. Good(p)
  BY <1>1 DEF CallInv
<1>3. ASSUME NEW q \in Procs, q # p PROVE Good(q)'
  <2>1. Good(q)
    BY <1>1 DEF CallInv
  <2>2. /\ op'[q] = op[q] /\ stage'[q] = stage[q] /\ doing'[q] = doing[q]
        /\ err'[q] = err[q] /\ served'[q] = served[q]
    <3>1. CASE Proceeds(p) \/ Succeeds(p)
      <4>1. Advance(p)
        BY <3>1 DEF Proceeds, Succeeds
      <4>2. UNCHANGED <<op, err>> /\ stage'[q] = stage[q] /\ doing'[q] = doing[q]
        BY <1>1, <1>3, <4>1, Advancing
      <4> QED
        BY <1>1, <1>3, <3>1, <4>2 DEF Proceeds, Succeeds, Served, CallType
    <3>2. CASE Call(p) \/ Seen(p)
      BY <1>1, <1>3, <3>2 DEF Call, Seen, CallType
    <3>3. CASE Errs(p) \/ Departs(p) \/ Wraps(p)
      BY <1>1, <1>3, <3>3 DEF Errs, FailWith, Departs, Wraps, CallType
    <3> QED
      BY <3>1, <3>2, <3>3 DEF Step
  <2> QED
    BY <2>1, <2>2 DEF Before, Now
<1>4. Good(p)'
  <2>1. CASE Call(p)
    <3>1. stage[p] = 1 /\ err[p] = NoError /\ served[p] = {} /\ doing'[p] = "working"
          /\ UNCHANGED <<stage, err, served>>
      BY <1>1, <1>2, <2>1 DEF Call, CallType
    <3>2. 1..(1 - 1) = {}
      OBVIOUS
    <3>3. Before(p, stage[p])' = {}
      BY <3>1, <3>2 DEF Before
    <3> QED
      BY <3>1, <3>3
  <2>2. CASE Proceeds(p) \/ Succeeds(p)
    <3>1. Advance(p) /\ doing[p] \in {"working", "leaving", "polling"}
      BY <2>2 DEF Proceeds, Succeeds
    <3>2. served'[p] = served[p] \cup ({Now(p)} \cap Requests)
      <4>1. CASE Proceeds(p)
        <5>1. Now(p) \notin Requests
          BY <4>1 DEF Proceeds, Requests, Posts
        <5> QED
          BY <4>1, <5>1 DEF Proceeds
      <4>2. CASE Succeeds(p)
        BY <1>1, <4>2 DEF Succeeds, Served, CallType
      <4> QED
        BY <2>2, <4>1, <4>2
    <3>3. served'[p] = Before(p, stage[p] + 1) /\ err[p] = NoError
      BY <1>1, <1>2, <3>1, <3>2, BeforeNext
    <3>4. UNCHANGED <<op, err>> /\ p \in DOMAIN doing
      BY <1>1, <3>1, Advancing DEF CallType
    <3>5. \/ doing'[p] = "working" /\ stage'[p] = stage[p] + 1
          \/ doing'[p] = "returned" /\ stage[p] = Len(Stages[op[p]])
      BY <1>1, <3>1, <3>4, Advancing
    <3> QED
      BY <3>3, <3>4, <3>5 DEF Before
  <2>3. CASE Errs(p)
    <3>1. PICK e \in Errors : Single(e) /\ FailWith(p, e)
      BY <2>3 DEF Errs
    <3>2. doing'[p] = "failed" /\ err'[p] = e /\ e # NoError
      BY <1>1, <3>1, ErrorIsSome DEF FailWith, CallType
    <3> QED
      BY <3>1, <3>2
  <2>4. CASE Departs(p)
    <3>1. \/ doing'[p] = "leaving" /\ Now(p) \in Requests /\ doing[p] = "working"
          \/ doing'[p] = "polling" /\ Now(p) = "updates" /\ doing[p] = "leaving"
      BY <1>1, <2>4 DEF Departs, CallType
    <3> QED
      BY <1>2, <2>4, <3>1 DEF Departs, Before, Now
  <2>5. CASE Wraps(p)
    <3>1. PICK e \in Errors : Single(e) /\ err' = [err EXCEPT ![p] = e]
      BY <2>5 DEF Wraps
    <3>2. doing'[p] \in {"returned", "run"} /\ err'[p] = e /\ e # NoError
      BY <1>1, <2>5, <3>1, ErrorIsSome DEF Wraps, CallType
    <3> QED
      BY <3>1, <3>2
  <2>6. CASE Seen(p)
    <3>1. doing'[p] = "idle" /\ stage'[p] = 1 /\ err'[p] = NoError /\ served'[p] = {}
      BY <1>1, <2>6 DEF Seen, CallType
    <3> QED
      BY <3>1
  <2> QED
    BY <2>1, <2>2, <2>3, <2>4, <2>5, <2>6 DEF Step
<1>5. \A q \in Procs : Good(q)'
  BY <1>3, <1>4
<1> QED
  BY <1>5 DEF CallInv

LEMMA RestsKeep == MessageInv /\ Rests => CallType' /\ CallInv'
BY DEF MessageInv, Rests, callVars, CallType, CallInv, Before, Now

-----------------------------------------------------------------------------
(* Steps keep the invariants of the session and of the guard               *)

LEMMA StepSessionType ==
    ASSUME MessageInv, MessageNext
    PROVE  SessionType'
<1> USE DEF sessionVars, callVars
<1>1. /\ token \in 0..sessions /\ context \in 0..sessions /\ sessions \in 0..MaxSessions + 1
      /\ ending \in BOOLEAN /\ paused \in BOOLEAN /\ stale \in BOOLEAN
      /\ carried \in [Procs -> 0..sessions] /\ moved \in [Procs -> BOOLEAN]
      /\ slipped \in [Procs -> Nat]
  BY DEF MessageInv, SessionType
<1>2. MaxSessions \in Nat /\ sessions \in Nat /\ token \in Nat /\ context \in Nat
  BY <1>1, MessageAssumption
<1>3. ASSUME NewSession \/ (UNCHANGED sessions /\ \E t \in 1..sessions : SetToken(t)),
             UNCHANGED <<carried>>, slipped' \in [Procs -> Nat]
      PROVE  SessionType'
  <2>1. PICK t \in 1..sessions' : SetToken(t)
    BY <1>2, <1>3 DEF NewSession
  <2>2. sessions' \in 0..MaxSessions + 1 /\ 0..sessions \subseteq 0..sessions'
        /\ 1..sessions' \subseteq 0..sessions'
    BY <1>1, <1>2, <1>3 DEF NewSession
  <2>3. token' = t /\ UNCHANGED <<context, ending, paused>>
        /\ stale' \in BOOLEAN /\ moved' \in [Procs -> BOOLEAN]
    BY <1>1, <2>1 DEF SetToken
  <2>4. carried' \in [Procs -> 0..sessions']
    BY <1>1, <1>3, <2>2
  <2> QED
    BY <1>1, <1>3, <2>2, <2>3, <2>4 DEF SessionType
<1>4. ASSUME NEW p \in Procs, Leaves(p) PROVE slipped' \in [Procs -> Nat]
  BY <1>1, <1>4 DEF Leaves
<1>5. ASSUME NEW p \in Procs, Call(p) \/ Open(p) \/ AskGuard(p) \/ Return(p) \/ RunReturns(p)
      PROVE  SessionType'
  BY <1>1, <1>5 DEF Call, Open, AskGuard, Return, RunReturns, SessionType
<1>6. ASSUME NEW p \in Procs, ReadContext(p) PROVE SessionType'
  <2>1. carried' \in [Procs -> 0..sessions] /\ moved' \in [Procs -> BOOLEAN]
    BY <1>1, <1>2, <1>6 DEF ReadContext
  <2> QED
    BY <1>1, <1>6, <2>1 DEF ReadContext, SessionType
<1>7. ASSUME NEW p \in Procs, Accepted(p) \/ Unusable(p) PROVE SessionType'
  <2>1. slipped' \in [Procs -> Nat]
    BY <1>4, <1>7 DEF Accepted, Unusable
  <2> QED
    BY <1>1, <1>7, <2>1 DEF Accepted, Unusable, SessionType
<1>8. ASSUME NEW p \in Procs, Refused(p) PROVE SessionType'
  <2>1. slipped' \in [Procs -> Nat] /\ paused' \in BOOLEAN
    BY <1>1, <1>4, <1>8 DEF Refused
  <2> QED
    BY <1>1, <1>8, <2>1 DEF Refused, SessionType
<1>9. ASSUME NEW p \in Procs, PollLeaves(p) PROVE SessionType'
  <2>1. slipped' \in [Procs -> Nat] /\ carried' \in [Procs -> 0..sessions] /\ UNCHANGED moved
    BY <1>1, <1>2, <1>4, <1>9 DEF PollLeaves
  <2> QED
    BY <1>1, <1>9, <2>1 DEF PollLeaves, SessionType
<1>10. ASSUME NEW p \in Procs, PollAnswered(p) PROVE SessionType'
  <2>1. context' \in 0..sessions /\ stale' \in BOOLEAN
    BY <1>1, <1>10 DEF PollAnswered
  <2> QED
    BY <1>1, <1>10, <2>1 DEF PollAnswered, SessionType
<1>11. ASSUME NEW p \in Procs, Scanned(p) PROVE SessionType'
  <2>1. slipped' \in [Procs -> Nat]
    BY <1>4, <1>11 DEF Scanned
  <2> QED
    BY <1>3, <1>11, <2>1 DEF Scanned
<1>12. ASSUME NEW p \in Procs, Seen(p) PROVE SessionType'
  <2>1. NoSession \in 0..sessions
    BY <1>2 DEF NoSession
  <2>2. carried' \in [Procs -> 0..sessions] /\ moved' \in [Procs -> BOOLEAN]
    BY <1>1, <1>12, <2>1 DEF Seen
  <2> QED
    BY <1>1, <1>12, <2>2 DEF Seen, SessionType
<1>13. CASE ForgetContexts
  <2>1. NoSession \in 0..sessions
    BY <1>2 DEF NoSession
  <2>2. moved' \in [Procs -> BOOLEAN]
    BY <1>13 DEF ForgetContexts, Ends
  <2> QED
    BY <1>1, <1>13, <2>1, <2>2 DEF ForgetContexts, Ends, SessionType
<1>14. CASE DropToken
  <2>1. NoSession \in 0..sessions
    BY <1>2 DEF NoSession
  <2> QED
    BY <1>1, <1>14, <2>1 DEF DropToken, SessionType
<1>15. CASE Restored
  BY <1>1, <1>3, <1>15 DEF Restored
<1>16. CASE GuardFalls
  <2>1. slipped' \in [Procs -> Nat]
    BY <1>16 DEF GuardFalls
  <2> QED
    BY <1>1, <1>16, <2>1 DEF GuardFalls, SessionType
<1> QED
  BY <1>5, <1>6, <1>7, <1>8, <1>9, <1>10, <1>11, <1>12, <1>13, <1>14, <1>15, <1>16
  DEF MessageNext

\* A message that is past its context token was so before the step, unless the step
\* has read that token.
PastContext(p) == op[p] \in {"text", "media"} /\ stage[p] > 2

LEMMA StaysPast ==
    ASSUME MessageInv, NEW p \in Procs, Step(p), Now(p) # "context" \/ ~Proceeds(p),
           NEW q \in Procs, PastContext(q)'
    PROVE  PastContext(q)
<1>1. CallType /\ CallInv /\ op[q] \in DOMAIN Stages /\ stage[q] \in 1..Len(Stages[op[q]])
      /\ Len(Stages[op[q]]) \in Nat
  BY StageFacts DEF MessageInv, CallType
<1>2. StageFact(op[q], stage[q])
  BY <1>1, StageFacts
<1> USE DEF PastContext
<1>3. CASE Proceeds(p) \/ Succeeds(p)
  <2>1. Advance(p) /\ Now(p) # "context"
    BY <1>3 DEF Proceeds, Succeeds, Requests, Posts
  <2>2. op' = op /\ (q # p => stage'[q] = stage[q])
        /\ (q = p => stage'[q] = stage[q] \/ stage'[q] = stage[q] + 1)
    BY <1>1, <2>1, Advancing
  <2>3. CASE stage'[q] = stage[q]
    BY <2>2, <2>3
  <2>4. CASE q = p /\ stage'[q] = stage[q] + 1
    <3>1. stage[q] >= 2 /\ op[q] \in {"text", "media"}
      BY <1>1, <2>2, <2>4
    <3>2. stage[q] # 2
      BY <1>2, <2>1, <2>4, <3>1 DEF StageFact, Now
    <3> QED
      BY <1>1, <3>1, <3>2
  <2> QED
    BY <2>2, <2>3, <2>4
<1>4. CASE Call(p)
  <2>1. UNCHANGED stage /\ stage[p] = 1 /\ (q # p => op'[q] = op[q])
    BY <1>1, <1>4 DEF Call, CallType, CallInv
  <2> QED
    BY <2>1
<1>5. CASE Errs(p) \/ Departs(p) \/ Wraps(p)
  BY <1>5 DEF Errs, FailWith, Departs, Wraps
<1>6. CASE Seen(p)
  <2>1. stage'[p] = 1 /\ (q # p => op'[q] = op[q] /\ stage'[q] = stage[q])
    BY <1>1, <1>6 DEF Seen, CallType
  <2> QED
    BY <2>1
<1> QED
  BY <1>3, <1>4, <1>5, <1>6 DEF Step

LEMMA StepSession ==
    ASSUME MessageInv, MessageNext
    PROVE  SessionInv'
<1> USE DEF sessionVars, callVars
<1> DEFINE Kept(q) == PastContext(q) /\ ~moved[q] =>
                         carried[q] = token /\ token # NoSession /\ ~ending
           Fresh == ~stale /\ context # NoSession => context = token /\ ~ending
<1>1. /\ Fresh /\ \A q \in Procs : Kept(q)
      /\ carried \in [Procs -> 0..sessions] /\ moved \in [Procs -> BOOLEAN] /\ stale \in BOOLEAN
      /\ ending \in BOOLEAN
  BY DEF MessageInv, SessionInv, SessionType, PastContext
<1>2. SUFFICES Fresh' /\ \A q \in Procs : Kept(q)'
  BY DEF SessionInv, PastContext
<1>3. ASSUME NEW p \in Procs, Step(p), Now(p) # "context" \/ ~Proceeds(p),
             UNCHANGED <<token, context, ending, stale, carried, moved>>
      PROVE  Fresh' /\ \A q \in Procs : Kept(q)'
  BY <1>1, <1>3, StaysPast
<1>4. ASSUME NEW p \in Procs, Call(p) PROVE Fresh' /\ \A q \in Procs : Kept(q)'
  <2>1. ~Proceeds(p)
    BY <1>4 DEF Call, Proceeds
  <2> QED
    BY <1>3, <1>4, <2>1 DEF Call, Step
<1>5. ASSUME NEW p \in Procs, Open(p) PROVE Fresh' /\ \A q \in Procs : Kept(q)'
  <2>1. Step(p) /\ Now(p) # "context"
    BY <1>5, ActionsAreSteps DEF Open, Step
  <2> QED
    BY <1>3, <1>5, <2>1 DEF Open
<1>6. ASSUME NEW p \in Procs, ReadContext(p) PROVE Fresh' /\ \A q \in Procs : Kept(q)'
  <2>1. /\ Fresh' /\ \A q \in Procs \ {p} : carried'[q] = carried[q] /\ moved'[q] = moved[q]
        /\ carried'[p] = context /\ moved'[p] = stale
        /\ UNCHANGED <<token, ending>>
    BY <1>1, <1>6 DEF ReadContext
  <2>2. CASE context = NoSession
    <3>1. UNCHANGED <<op, stage>>
      BY <1>6, <2>2 DEF ReadContext, FailWith
    <3>2. ~PastContext(p)
      <4>1. op[p] \in DOMAIN Stages /\ stage[p] \in 1..Len(Stages[op[p]])
        BY StageFacts DEF MessageInv, CallType
      <4>2. stage[p] = 2
        BY <1>6, <4>1, StageFacts DEF ReadContext, Now, StageFact
      <4> QED
        BY <4>2 DEF PastContext
    <3> QED
      BY <1>1, <2>1, <3>1, <3>2 DEF PastContext
  <2>3. CASE context # NoSession
    <3>1. Advance(p) /\ CallType
      BY <1>6, <2>3 DEF ReadContext, MessageInv
    <3>2. UNCHANGED op /\ \A q \in Procs \ {p} : stage'[q] = stage[q]
      BY <3>1, Advancing
    <3>3. Kept(p)'
      BY <1>1, <2>1, <2>3
    <3>4. ASSUME NEW q \in Procs \ {p} PROVE Kept(q)'
      BY <1>1, <2>1, <3>2, <3>4 DEF PastContext
    <3> QED
      BY <2>1, <3>3, <3>4
  <2> QED
    BY <2>2, <2>3
<1>7. ASSUME NEW p \in Procs, AskGuard(p) PROVE Fresh' /\ \A q \in Procs : Kept(q)'
  <2>1. Step(p) /\ Now(p) # "context"
    BY <1>7, ActionsAreSteps DEF AskGuard, Step, Requests, Posts
  <2> QED
    BY <1>3, <1>7, <2>1 DEF AskGuard
<1>8. ASSUME NEW p \in Procs, Accepted(p) PROVE Fresh' /\ \A q \in Procs : Kept(q)'
  <2>1. Step(p) /\ ~Proceeds(p)
    BY <1>8, ActionsAreSteps DEF Accepted, Leaves, Step, Proceeds
  <2> QED
    BY <1>3, <1>8, <2>1 DEF Accepted
<1>9. ASSUME NEW p \in Procs, Refused(p) \/ Unusable(p)
      PROVE  Fresh' /\ \A q \in Procs : Kept(q)'
  <2>1. Step(p) /\ ~Proceeds(p)
    BY <1>9, ActionsAreSteps DEF Refused, Unusable, Leaves, Step, Proceeds
  <2> QED
    BY <1>3, <1>9, <2>1 DEF Refused, Unusable
<1>10. ASSUME NEW p \in Procs, PollLeaves(p) PROVE Fresh' /\ \A q \in Procs : Kept(q)'
  <2>1. Fresh' /\ UNCHANGED <<token, ending, op, stage, moved>>
        /\ \A q \in Procs \ {p} : carried'[q] = carried[q]
    BY <1>1, <1>10 DEF PollLeaves
  <2>2. op[p] = "updates"
    <3>1. op[p] \in DOMAIN Stages /\ stage[p] \in 1..Len(Stages[op[p]])
      BY StageFacts DEF MessageInv, CallType
    <3> QED
      BY <1>10, <3>1, StageFacts DEF PollLeaves, Now, StageFact
  <2> QED
    BY <1>1, <2>1, <2>2 DEF PastContext
<1>11. ASSUME NEW p \in Procs, PollAnswered(p) PROVE Fresh' /\ \A q \in Procs : Kept(q)'
  <2>1. Step(p) /\ ~Proceeds(p)
    BY <1>11, ActionsAreSteps DEF PollAnswered, Step, Proceeds
  <2>2. Fresh' /\ UNCHANGED <<token, ending, carried, moved>>
    BY <1>11 DEF PollAnswered
  <2> QED
    BY <1>1, <2>1, <2>2, StaysPast
<1>12. ASSUME NEW t, t # NoSession, SetToken(t), UNCHANGED carried,
              \A q \in Procs : PastContext(q)' => PastContext(q)
       PROVE  Fresh' /\ \A q \in Procs : Kept(q)'
  <2>1. token' = t /\ UNCHANGED <<context, ending>>
        /\ stale' = (stale \/ (token \notin {NoSession, t} /\ context # NoSession))
        /\ \A q \in Procs : moved'[q] = (moved[q] \/ (token \notin {NoSession, t} /\ Holds(q)))
    BY <1>12 DEF SetToken
  <2>2. Fresh'
    BY <1>1, <2>1
  <2>3. ASSUME NEW q \in Procs, PastContext(q)', ~moved'[q] PROVE Kept(q)'
    <3>1. carried[q] = token /\ token # NoSession /\ ~ending /\ PastContext(q)
      BY <1>1, <1>12, <2>1, <2>3
    <3>2. token = t
      BY <2>1, <2>3, <3>1 DEF Holds, PastContext
    <3> QED
      BY <1>12, <2>1, <3>1, <3>2
  <2> QED
    BY <2>2, <2>3
<1>13. ASSUME NEW p \in Procs, Scanned(p) PROVE Fresh' /\ \A q \in Procs : Kept(q)'
  <2>1. Step(p) /\ ~Proceeds(p)
    BY <1>13, ActionsAreSteps DEF Scanned, Leaves, Step, Proceeds
  <2>2. PICK t : t = sessions + 1 /\ SetToken(t)
    BY <1>13 DEF Scanned, NewSession
  <2>3. t # NoSession
    BY <2>2, MessageAssumption DEF NoSession, MessageInv, SessionType
  <2> QED
    BY <1>12, <1>13, <2>1, <2>2, <2>3, StaysPast DEF Scanned
<1>14. ASSUME NEW p \in Procs, Return(p) \/ RunReturns(p)
       PROVE  Fresh' /\ \A q \in Procs : Kept(q)'
  <2>1. Step(p) /\ ~Proceeds(p)
    BY <1>14, ActionsAreSteps DEF Return, RunReturns, Step, Proceeds
  <2> QED
    BY <1>3, <1>14, <2>1 DEF Return, RunReturns
<1>15. ASSUME NEW p \in Procs, Seen(p) PROVE Fresh' /\ \A q \in Procs : Kept(q)'
  <2>1. Fresh' /\ UNCHANGED <<token, ending>>
    BY <1>1, <1>15 DEF Seen
  <2>2. stage'[p] = 1
    BY <1>15 DEF Seen, MessageInv, CallType
  <2>3. ASSUME NEW q \in Procs \ {p} PROVE Kept(q)'
    <3>1. op'[q] = op[q] /\ stage'[q] = stage[q] /\ carried'[q] = carried[q]
          /\ moved'[q] = moved[q]
      BY <1>1, <1>15, <2>3 DEF Seen, MessageInv, CallType
    <3> QED
      BY <1>1, <2>1, <3>1 DEF PastContext
  <2> QED
    BY <2>1, <2>2, <2>3 DEF PastContext
<1>16. CASE ForgetContexts
  <2>1. context' = NoSession /\ UNCHANGED <<op, stage, carried>>
        /\ \A q \in Procs : moved'[q] = (moved[q] \/ (token # NoSession /\ Holds(q)))
    BY <1>16 DEF ForgetContexts, Ends
  <2> QED
    BY <1>1, <2>1 DEF PastContext, Holds
<1>17. CASE DropToken
  <2>1. ending /\ UNCHANGED <<context, stale, op, stage, carried, moved>>
    BY <1>17 DEF DropToken
  <2> QED
    BY <1>1, <2>1 DEF PastContext
<1>18. CASE Restored
  <2>1. UNCHANGED <<carried, op, stage>>
    BY <1>18 DEF Restored
  <2>2. PICK t : t # NoSession /\ SetToken(t)
    <3>1. sessions \in Nat
      BY MessageAssumption DEF MessageInv, SessionType
    <3> QED
      BY <1>18, <3>1 DEF Restored, NewSession, NoSession
  <2> QED
    BY <1>12, <2>1, <2>2 DEF PastContext
<1>19. CASE GuardFalls
  BY <1>1, <1>19 DEF GuardFalls, PastContext
<1> QED
  BY <1>4, <1>5, <1>6, <1>7, <1>8, <1>9, <1>10, <1>11, <1>13, <1>14, <1>15, <1>16, <1>17,
     <1>18, <1>19 DEF MessageNext

LEMMA StepGuard ==
    ASSUME MessageInv, MessageNext
    PROVE  GuardInv'
<1> USE DEF sessionVars, callVars
<1> DEFINE Let(q) ==
              /\ slipped[q] <= 1
              /\ ~paused => slipped[q] = 0
              /\ doing[q] = "leaving" /\ Now(q) \in Posts => slipped[q] = 0
           Leaving(q) == doing[q] = "leaving" /\ Now(q) \in Posts
<1>1. /\ \A q \in Procs : Let(q)
      /\ CallType /\ slipped \in [Procs -> Nat] /\ paused \in BOOLEAN
  BY DEF MessageInv, GuardInv, SessionType
<1>2. SUFFICES \A q \in Procs : Let(q)'
  BY DEF GuardInv
\* A step that lets nothing leave, and lets no post pass the guard
<1>3. ASSUME UNCHANGED slipped, paused => paused',
             \A q \in Procs : Leaving(q)' => Leaving(q) \/ ~paused
      PROVE  \A q \in Procs : Let(q)'
  BY <1>1, <1>3
\* A request leaves: it has not slipped before, and no other is to leave for p.
<1>4. ASSUME NEW p \in Procs, Leaves(p), doing'[p] # "leaving", paused => paused',
             \A q \in Procs \ {p} : Leaving(q)' => Leaving(q)
      PROVE  \A q \in Procs : Let(q)'
  <2>1. doing[p] = "leaving"
        /\ slipped' = [slipped EXCEPT ![p] = IF paused /\ Now(p) \in Posts
                                             THEN slipped[p] + 1 ELSE slipped[p]]
    BY <1>4 DEF Leaves
  <2>2. slipped'[p] = IF paused /\ Now(p) \in Posts THEN slipped[p] + 1 ELSE slipped[p]
    BY <1>1, <2>1
  <2>3. Let(p)'
    BY <1>1, <1>4, <2>1, <2>2
  <2>4. ASSUME NEW q \in Procs \ {p} PROVE Let(q)'
    BY <1>1, <1>4, <2>1, <2>4
  <2> QED
    BY <2>3, <2>4
\* Of a call only what it does itself changes.
<1>5. ASSUME NEW p \in Procs, Step(p), NEW q \in Procs \ {p}
      PROVE  Leaving(q)' <=> Leaving(q)
  <2>1. op'[q] = op[q] /\ stage'[q] = stage[q] /\ doing'[q] = doing[q]
    <3>1. CASE Proceeds(p) \/ Succeeds(p)
      <4>1. Advance(p)
        BY <3>1 DEF Proceeds, Succeeds
      <4> QED
        BY <1>1, <4>1, Advancing
    <3>2. CASE Call(p) \/ Seen(p)
      BY <1>1, <3>2 DEF Call, Seen, CallType
    <3>3. CASE Errs(p) \/ Departs(p) \/ Wraps(p)
      BY <1>1, <3>3 DEF Errs, FailWith, Departs, Wraps, CallType
    <3> QED
      BY <1>5, <3>1, <3>2, <3>3 DEF Step
  <2> QED
    BY <2>1 DEF Now
<1>6. ASSUME NEW p \in Procs, Advance(p) PROVE doing'[p] # "leaving"
  <2>1. doing' \in {[doing EXCEPT ![p] = "working"], [doing EXCEPT ![p] = "returned"]}
    BY <1>6 DEF Advance
  <2> QED
    BY <1>1, <2>1 DEF CallType
<1>7. ASSUME NEW p \in Procs, NEW e, FailWith(p, e) PROVE doing'[p] # "leaving"
  BY <1>1, <1>7 DEF FailWith, CallType
<1>8. ASSUME NEW p \in Procs, Call(p) \/ Return(p) \/ RunReturns(p) \/ Seen(p)
      PROVE  \A q \in Procs : Let(q)'
  <2>1. doing'[p] # "leaving" /\ UNCHANGED <<slipped, paused>>
    BY <1>1, <1>8 DEF Call, Return, RunReturns, Seen, CallType
  <2>2. Step(p)
    BY <1>8, ActionsAreSteps DEF Step
  <2> QED
    BY <1>3, <1>5, <2>1, <2>2
<1>9. ASSUME NEW p \in Procs, Open(p) \/ ReadContext(p) PROVE \A q \in Procs : Let(q)'
  <2>1. UNCHANGED <<slipped, paused>>
    BY <1>9 DEF Open, ReadContext
  <2>2. doing'[p] # "leaving"
    BY <1>6, <1>7, <1>9 DEF Open, ReadContext
  <2>3. Step(p)
    BY <1>9, ActionsAreSteps DEF Step
  <2> QED
    BY <1>3, <1>5, <2>1, <2>2, <2>3
<1>10. ASSUME NEW p \in Procs, AskGuard(p) PROVE \A q \in Procs : Let(q)'
  <2>1. UNCHANGED <<slipped, paused>>
    BY <1>10 DEF AskGuard
  <2>2. CASE paused /\ Now(p) \in Posts
    <3>1. FailWith(p, Annotated("paused"))
      BY <1>10, <2>2 DEF AskGuard
    <3>2. doing'[p] # "leaving"
      BY <1>7, <3>1
    <3>3. Step(p)
      BY <1>10, ActionsAreSteps DEF Step
    <3> QED
      BY <1>3, <1>5, <2>1, <3>2, <3>3
  <2>3. CASE ~(paused /\ Now(p) \in Posts)
    <3>1. UNCHANGED <<op, stage>>
      BY <1>10, <2>3 DEF AskGuard
    <3>2. Leaving(p)' => ~paused
      BY <2>3, <3>1 DEF Now
    <3>3. Step(p)
      BY <1>10, ActionsAreSteps DEF Step
    <3> QED
      BY <1>3, <1>5, <2>1, <3>2, <3>3
  <2> QED
    BY <2>2, <2>3
<1>11. ASSUME NEW p \in Procs, Accepted(p) \/ Unusable(p) \/ PollLeaves(p) \/ Scanned(p)
       PROVE  \A q \in Procs : Let(q)'
  <2>1. Leaves(p) /\ UNCHANGED paused
    BY <1>11 DEF Accepted, Unusable, PollLeaves, Scanned, NewSession, SetToken
  <2>2. doing'[p] # "leaving"
    <3>1. CASE PollLeaves(p)
      BY <1>1, <3>1 DEF PollLeaves, CallType
    <3>2. CASE Accepted(p) \/ Unusable(p) \/ Scanned(p)
      BY <1>6, <1>7, <3>2 DEF Accepted, Unusable, Scanned
    <3> QED
      BY <1>11, <3>1, <3>2
  <2>3. Step(p)
    BY <1>11, ActionsAreSteps DEF Step
  <2> QED
    BY <1>4, <1>5, <2>1, <2>2, <2>3
<1>12. ASSUME NEW p \in Procs, Refused(p) PROVE \A q \in Procs : Let(q)'
  <2>1. (paused => paused') /\ (Leaves(p) \/ UNCHANGED slipped)
    BY <1>12 DEF Refused
  <2>2. doing'[p] # "leaving"
    BY <1>7, <1>12 DEF Refused
  <2>3. Step(p)
    BY <1>12, ActionsAreSteps DEF Step
  <2> QED
    BY <1>3, <1>4, <1>5, <2>1, <2>2, <2>3
<1>13. ASSUME NEW p \in Procs, PollAnswered(p) PROVE \A q \in Procs : Let(q)'
  <2>1. UNCHANGED <<slipped, paused>> /\ doing'[p] # "leaving"
    BY <1>6, <1>13 DEF PollAnswered
  <2>2. Step(p)
    BY <1>13, ActionsAreSteps DEF Step
  <2> QED
    BY <1>3, <1>5, <2>1, <2>2
<1>14. CASE ForgetContexts \/ DropToken \/ Restored
  <2>1. UNCHANGED <<slipped, op, stage, doing>> /\ paused' \in {paused, TRUE}
    BY <1>14 DEF ForgetContexts, Ends, DropToken, Restored, NewSession, SetToken
  <2> QED
    BY <1>3, <2>1 DEF Now
<1>15. CASE GuardFalls
  BY <1>15 DEF GuardFalls
<1> QED
  BY <1>8, <1>9, <1>10, <1>11, <1>12, <1>13, <1>14, <1>15 DEF MessageNext

-----------------------------------------------------------------------------
(* The invariant holds                                                     *)

LEMMA InitMessage == MessageInit => MessageInv
<1> SUFFICES ASSUME MessageInit PROVE MessageInv
  OBVIOUS
<1>1. \A p \in Procs : /\ Idle(p) \in Operations(p) /\ Idle(p) \in DOMAIN Stages
                       /\ 1 \in 1..Len(Stages[Idle(p)])
  BY StageFacts
<1>2. CallType
  BY <1>1 DEF MessageInit, CallType
<1>3. SessionType
  <2>1. MaxSessions \in Nat /\ NoSession = 0
    BY MessageAssumption DEF NoSession
  <2>2. sessions = 1 /\ token \in 0..1 /\ context \in 0..1 /\ 1 \in 0..MaxSessions + 1
    BY <2>1 DEF MessageInit
  <2>3. carried \in [Procs -> 0..1] /\ moved \in [Procs -> BOOLEAN] /\ slipped \in [Procs -> Nat]
    BY <2>1 DEF MessageInit
  <2> QED
    BY <2>2, <2>3 DEF MessageInit, SessionType
<1>4. CallInv /\ GuardInv
  BY DEF MessageInit, CallInv, GuardInv
<1>5. SessionInv
  BY DEF MessageInit, SessionInv
<1> QED
  BY <1>2, <1>3, <1>4, <1>5 DEF MessageInv

LEMMA MessageInvariant == MessageSpec => []MessageInv
<1>1. ASSUME MessageInv, MessageNext PROVE MessageInv'
  <2>1. SessionType' /\ SessionInv' /\ GuardInv'
    BY <1>1, StepSessionType, StepSession, StepGuard
  <2>2. CallType' /\ CallInv'
    BY <1>1, NextIsSteps, StepCallType, StepCall, RestsKeep
  <2> QED
    BY <2>1, <2>2 DEF MessageInv
<1>2. MessageInv /\ UNCHANGED messageVars => MessageInv'
  <2> SUFFICES ASSUME MessageInv, UNCHANGED messageVars PROVE MessageInv'
    OBVIOUS
  <2> USE DEF messageVars, sessionVars, callVars
  <2>1. CallType' /\ CallInv'
    BY RestsKeep DEF Rests
  <2>2. SessionType'
    BY DEF MessageInv, SessionType
  <2>3. SessionInv' /\ GuardInv'
    BY DEF MessageInv, SessionInv, GuardInv, Now
  <2> QED
    BY <2>1, <2>2, <2>3 DEF MessageInv
<1>3. MessageInv /\ [MessageNext]_messageVars => MessageInv'
  BY <1>1, <1>2
<1> QED
  BY <1>3, InitMessage, PTL DEF MessageSpec

-----------------------------------------------------------------------------
(* The theorems                                                            *)

\* The variables keep their types, and an operation is at one of its stages.
THEOREM MessageTypeCorrect == MessageSpec => []MessageTypeOK
<1>1. MessageInv => MessageTypeOK
  BY DEF MessageInv, CallType, SessionType, MessageTypeOK, Errors
<1> QED
  BY <1>1, MessageInvariant, PTL

\* For any number of goroutines and sessions, a message leaves with the token of
\* another session than its context token's only if the session has ended or its
\* token been replaced since the call read the context token, or that was stale.
THEOREM MixesNoSessions == MessageSpec => []SessionsAreNotMixed
<1>1. ASSUME MessageInv PROVE SessionsAreNotMixed
  <2> SUFFICES ASSUME NEW p \in Procs, Now(p) = "message", token # carried[p]
               PROVE  moved[p]
    BY DEF SessionsAreNotMixed
  <2>1. op[p] \in DOMAIN Stages /\ stage[p] \in 1..Len(Stages[op[p]])
    BY <1>1, StageFacts DEF MessageInv, CallType
  <2>2. op[p] \in {"text", "media"} /\ stage[p] > 2
    BY <2>1, StageFacts DEF StageFact, Now
  <2> QED
    BY <1>1, <2>2 DEF MessageInv, SessionInv
<1> QED
  BY <1>1, MessageInvariant, PTL

\* For any number of goroutines, each lets at most one request leave while the
\* guard is up: the one whose check came before.
THEOREM GuardHolds == MessageSpec => []GuardStopsRequests
<1>1. MessageInv => GuardStopsRequests
  BY DEF MessageInv, GuardInv, GuardStopsRequests
<1> QED
  BY <1>1, MessageInvariant, PTL

\* An operation that returns no error has had a good answer to each of its requests.
THEOREM CompletesOrFails == MessageSpec => []SuccessIsComplete
<1>1. ASSUME MessageInv PROVE SuccessIsComplete
  <2> SUFFICES ASSUME NEW p \in Procs, doing[p] = "returned", err[p] = NoError
               PROVE  served[p] = {Stages[op[p]][i] : i \in 1..Len(Stages[op[p]])} \cap Requests
    BY DEF SuccessIsComplete
  <2>1. served[p] = Before(p, Len(Stages[op[p]]) + 1)
    BY <1>1 DEF MessageInv, CallInv
  <2>2. Len(Stages[op[p]]) \in Nat
    BY <1>1, StageFacts DEF MessageInv, CallType
  <2>3. (Len(Stages[op[p]]) + 1) - 1 = Len(Stages[op[p]])
    BY <2>2
  <2> QED
    BY <2>1, <2>3 DEF Before
<1> QED
  BY <1>1, MessageInvariant, PTL

\* An error is given its operation and kind at most once.
THEOREM ClassifiesOnce == MessageSpec => []ClassifiedOnce
<1>1. SdkLayers(NoError) = {}
  BY EmptySeq DEF SdkLayers, NoError
<1>2. MessageInv => ClassifiedOnce
  BY <1>1 DEF MessageInv, CallInv, ClassifiedOnce, Single
<1> QED
  BY <1>2, MessageInvariant, PTL

\* On its way to the caller an error keeps the sentinels it matches, whether it is
\* temporary, and its code.
THEOREM LosesNothing == MessageSpec => NothingIsLost
<1> DEFINE Kept == \A p \in Procs :
                      err[p] # NoError /\ err'[p] # NoError => Keeps(err[p], err'[p])
<1>1. \A e : Keeps(e, e)
  BY DEF Keeps
<1>2. ASSUME MessageInv, MessageNext PROVE Kept
  <2>1. CASE Rests
    BY <1>1, <2>1 DEF Rests, callVars
  <2>2. ASSUME NEW p \in Procs, Step(p) PROVE Kept
    <3>1. CallType /\ CallInv
      BY <1>2 DEF MessageInv
    <3>2. CASE Call(p) \/ Departs(p)
      BY <1>1, <3>2 DEF Call, Departs
    <3>3. CASE Proceeds(p) \/ Succeeds(p)
      BY <1>1, <3>3 DEF Proceeds, Succeeds, Advance
    <3>4. CASE Errs(p)
      <4>1. err[p] = NoError /\ \A q \in Procs \ {p} : err'[q] = err[q]
        BY <3>1, <3>4 DEF Errs, FailWith, CallInv, CallType
      <4> QED
        BY <1>1, <4>1
    <3>5. CASE Wraps(p)
      <4>1. PICK e \in Errors : Keeps(err[p], e) /\ err' = [err EXCEPT ![p] = e]
        BY <3>5 DEF Wraps
      <4>2. err'[p] = e /\ \A q \in Procs \ {p} : err'[q] = err[q]
        BY <3>1, <4>1 DEF CallType
      <4> QED
        BY <1>1, <4>1, <4>2
    <3>6. CASE Seen(p)
      <4>1. err'[p] = NoError /\ \A q \in Procs \ {p} : err'[q] = err[q]
        BY <3>1, <3>6 DEF Seen, CallType
      <4> QED
        BY <1>1, <4>1
    <3> QED
      BY <2>2, <3>2, <3>3, <3>4, <3>5, <3>6 DEF Step
  <2> QED
    BY <1>2, <2>1, <2>2, NextIsSteps
<1>3. MessageInv /\ [MessageNext]_messageVars => [Kept]_messageVars
  BY <1>2
<1> HIDE DEF Kept
<1>4. MessageSpec => [][Kept]_messageVars
  BY <1>3, MessageInvariant, PTL DEF MessageSpec
<1> QED
  BY <1>4 DEF NothingIsLost, Kept
=============================================================================
