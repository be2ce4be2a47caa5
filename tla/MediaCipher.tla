----------------------------- MODULE MediaCipher -----------------------------
(***************************************************************************)
(* How media are padded and enciphered (src/media/crypto.go).  AES-128-ECB *)
(* takes blocks to blocks, one to one for a key and one by one, so that a  *)
(* ciphertext is taken for its key and the padded bytes it stands for.     *)
(***************************************************************************)
EXTENDS Integers, Sequences

CONSTANTS Block,     \* aesBlockSize: 16
          MaxByte,   \* 255
          Error      \* what a function that fails returns

Byte == 0..MaxByte

ASSUME CipherAssumption ==
    /\ Block \in Nat \ {0} /\ MaxByte \in Nat
    /\ Block <= MaxByte   \* byte(pad) is pad
    /\ Error \notin Seq(Byte)

-----------------------------------------------------------------------------
(* Padding                                                                 *)

\* How many bytes are added to n; and the mistake at whole blocks.
PadLengthNone(n) == (Block - (n % Block)) % Block
PadLength(n) == Block - (n % Block)

Pad(data) ==
    LET pad == PadLength(Len(data))
    IN  data \o [i \in 1..pad |-> pad]

\* The sizes announced to the server: AESECBPaddedSize, and without the byte
\* that padding always adds.
PaddedSizeTight(n) == ((n + Block - 1) \div Block) * Block
PaddedSize(n) == ((n + Block) \div Block) * Block

\* What the last byte says of the padding is true of the bytes before it.
EndsInPadding(data) ==
    /\ data # <<>>
    /\ LET pad == data[Len(data)]
       IN  /\ pad <= Block /\ pad <= Len(data)
           /\ \A i \in (Len(data) - pad + 1)..Len(data) : data[i] = pad

\* The data without what passes for padding.
Unpad(data) ==
    IF EndsInPadding(data)
    THEN SubSeq(data, 1, Len(data) - data[Len(data)])
    ELSE Error

-----------------------------------------------------------------------------
(* Encryption                                                              *)

Encrypt(padded, key) == [key |-> key, bytes |-> padded]

\* With the key it was enciphered with.
Decrypt(cipher) ==
    IF cipher.bytes = <<>> \/ Len(cipher.bytes) % Block # 0
    THEN Error
    ELSE Unpad(cipher.bytes)
=============================================================================
