---------------------------- MODULE MediaTransfer ----------------------------
(***************************************************************************)
(* Media on their way to a user and back: Upload and Download of           *)
(* src/media, as SendImage and its siblings and the program call them, and *)
(* the CDN in between.                                                     *)
(*                                                                         *)
(* The program hands Upload a part of a buffer of its own, a Go slice,     *)
(* whose capacity may reach behind its end.  pkcs7Pad appends to it: if    *)
(* there is room, append writes there, into what the program has in its    *)
(* buffer; if not, it copies.  Goroutines upload different parts of the    *)
(* same buffer, and the room behind one may be the part of another.        *)
(***************************************************************************)
EXTENDS MediaCipher

CONSTANTS Uploads,       \* goroutines, each with a part of the buffer
          Buffer,        \* the length of the buffer
          MaxDownload,   \* MaxDownloadSize
          None

ASSUME TransferAssumption ==
    /\ Buffer \in Nat
    /\ MaxDownload \in Nat /\ MaxDownload % Block = 0
    /\ None \notin Seq(Byte)

VARIABLES
    buffer,     \* the bytes of the program
    part,       \* [Uploads -> the first and the last byte of its part]
    capacity,   \* [Uploads -> the last byte that the slice may grow to]
    pc,         \* [Uploads -> where its upload is]
    given,      \* [Uploads -> the data when Upload was called, whose MD5 is announced]
    announced,  \* [Uploads -> rawsize and filesize as announced in GetUploadURL]
    padded,     \* [Uploads -> a copy of the data with its padding; or None: in the buffer]
    stored,     \* [Uploads -> what the CDN keeps for it]
    fetched     \* [Uploads -> what a Download of it has returned]

uploadVars == <<part, capacity, given, announced>>
vars == <<buffer, uploadVars, pc, padded, stored, fetched>>

Parts == {p \in (1..Buffer) \X (0..Buffer) : p[1] <= p[2] + 1}

\* A part, what its slice may grow over, and both
Part(u) == part[u][1]..part[u][2]
Room(u) == (part[u][2] + 1)..capacity[u]
Reach(u) == part[u][1]..capacity[u]

Init ==
    /\ part \in [Uploads -> Parts]
    /\ capacity \in [Uploads -> 0..Buffer]
    /\ \A u \in Uploads : part[u][2] <= capacity[u]
    /\ \A u, v \in Uploads : u # v => Part(u) \cap Part(v) = {}
    /\ buffer \in [1..Buffer -> Byte]
    /\ pc = [u \in Uploads |-> "idle"]
    /\ given = [u \in Uploads |-> <<>>]
    /\ announced = [u \in Uploads |-> [raw |-> 0, file |-> 0]]
    /\ padded = [u \in Uploads |-> None]
    /\ stored = [u \in Uploads |-> None]
    /\ fetched = [u \in Uploads |-> None]

Data(u) == SubSeq(buffer, part[u][1], part[u][2])

Goto(u, from, to) ==
    /\ pc[u] = from
    /\ pc' = [pc EXCEPT ![u] = to]

-----------------------------------------------------------------------------
(* Upload                                                                  *)

\* An upload that begins, of any data
Announce(u) ==
    /\ Goto(u, "idle", "announced")
    /\ given' = [given EXCEPT ![u] = Data(u)]
    /\ announced' = [announced EXCEPT ![u] = [raw |-> Len(Data(u)),
                                              file |-> PaddedSize(Len(Data(u)))]]
    /\ UNCHANGED <<buffer, part, capacity, padded, stored, fetched>>

\* "no data to upload"
Begin(u) == Data(u) # <<>> /\ Announce(u)

\* GetUploadURL fails or has no parameter, the connection to the CDN does, or
\* its answer is 4xx, 5xx or has no x-encrypted-param.  The CDN may have stored
\* the data all the same, and nobody knows where.
UploadFails(u) ==
    /\ \/ Goto(u, "announced", "failed")
       \/ Goto(u, "padded", "failed")
    /\ UNCHANGED <<buffer, uploadVars, padded, stored, fetched>>

\* The capacity of the slice behind its end takes the padding.
HasRoom(u) == part[u][2] + PadLength(Len(Data(u))) <= capacity[u]

\* append
PadInPlace(u) ==
    /\ Goto(u, "announced", "padded")
    /\ HasRoom(u)
    /\ LET pad == PadLength(Len(Data(u)))
       IN  buffer' = [i \in 1..Buffer |->
                         IF i \in (part[u][2] + 1)..(part[u][2] + pad) THEN pad ELSE buffer[i]]
    /\ UNCHANGED <<uploadVars, padded, stored, fetched>>

PadCopy(u) ==
    /\ Goto(u, "announced", "padded")
    /\ ~HasRoom(u)
    /\ padded' = [padded EXCEPT ![u] = Pad(Data(u))]
    /\ UNCHANGED <<buffer, uploadVars, stored, fetched>>

Padded(u) ==
    IF padded[u] # None THEN padded[u]
    ELSE SubSeq(buffer, part[u][1], part[u][2] + PadLength(Len(Data(u))))

\* The data are enciphered, sent and accepted.
Store(u) ==
    /\ Goto(u, "padded", "stored")
    /\ stored' = [stored EXCEPT ![u] = Encrypt(Padded(u), u)]
    /\ UNCHANGED <<buffer, uploadVars, padded, fetched>>

-----------------------------------------------------------------------------
(* Download, by whoever got the message                                    *)

\* io.LimitReader: what is longer is cut, without an error.
Limited(cipher) ==
    [cipher EXCEPT !.bytes = SubSeq(@, 1, IF Len(@) < MaxDownload THEN Len(@) ELSE MaxDownload)]

\* A body that breaks off, taken for the whole
FetchPartly(u) ==
    /\ pc[u] = "stored" /\ fetched[u] = None
    /\ \E n \in 0..Len(stored[u].bytes) :
          fetched' = [fetched EXCEPT ![u] =
                         Decrypt([stored[u] EXCEPT !.bytes = SubSeq(@, 1, n)])]
    /\ UNCHANGED <<buffer, uploadVars, pc, padded, stored>>

\* Any failure on the way is an error.
Fetch(u) ==
    /\ pc[u] = "stored" /\ fetched[u] = None
    /\ \E result \in {Decrypt(Limited(stored[u])), Error} :
          fetched' = [fetched EXCEPT ![u] = result]
    /\ UNCHANGED <<buffer, uploadVars, pc, padded, stored>>

Next == \E u \in Uploads :
           \/ Begin(u) \/ UploadFails(u) \/ PadInPlace(u) \/ PadCopy(u) \/ Store(u)
           \/ Fetch(u)

Spec == Init /\ [][Next]_vars

-----------------------------------------------------------------------------
(* Properties                                                              *)

\* The variables keep their types; nothing empty is announced.
TypeOK ==
    /\ buffer \in [1..Buffer -> Byte]
    /\ part \in [Uploads -> Parts]
    /\ pc \in [Uploads -> {"idle", "announced", "padded", "stored", "failed"}]
    /\ \A u \in Uploads :
          pc[u] # "idle" => announced[u].raw \in 1..Buffer /\ announced[u].file \in Nat

\* No other slice may grow into what this one has or may grow over.
Spared(u) == \A v \in Uploads : v # u => Room(v) \cap Reach(u) = {}

\* What the CDN has stored for an upload deciphers to the data that Upload was
\* given, byte for byte, if no slice that another goroutine uploads at the same
\* time may grow into it (append in pkcs7Pad, crypto.go:95).
StoredIsGiven ==
    \A u \in Uploads : Spared(u) /\ stored[u] # None => Decrypt(stored[u]) = given[u]

\* The sizes the server was told are those of what is stored, even if padding
\* was written over the data in between
\* (docs/protocol.md:974: filesize = ceil((rawsize + 1) / 16) * 16).
SizesAreTrue ==
    \A u \in Uploads : stored[u] # None =>
       /\ announced[u].raw = Len(given[u])
       /\ announced[u].file = Len(stored[u].bytes)

\* A download of media whose announced size, with padding, is within the limit
\* is these media or an error.  Of what is larger, and cut by the limit without
\* an error (download.go:57), it is a first part at most: no byte is wrong, and
\* none is padding.
FetchedIsGiven ==
    \A u \in Uploads : Spared(u) /\ fetched[u] \notin {None, Error} =>
       /\ \E n \in 0..Len(given[u]) : fetched[u] = SubSeq(given[u], 1, n)
       /\ announced[u].file <= MaxDownload => fetched[u] = given[u]

\* A download is the media or an error, of whatever size they are: "Download
\* downloads and decrypts a media file from CDN" (download.go:25).
FetchedIsWhole ==
    \A u \in Uploads : Spared(u) => fetched[u] \in {None, Error, given[u]}

\* The same of media that may be written over
StoredIsAlwaysGiven ==
    \A u \in Uploads : stored[u] # None => Decrypt(stored[u]) = given[u]

\* Upload reads the data of the program and leaves its buffer as it is.
BufferIsKept == [][buffer' = buffer]_vars

\* A download is only accepted if it ends in padding that is there: "PKCS7
\* padding always adds at least 1 byte" (crypto.go:82).
AcceptedIsPadded ==
    \A u \in Uploads : fetched[u] \notin {None, Error} =>
       Len(fetched[u]) < Len(Limited(stored[u]).bytes)
=============================================================================
