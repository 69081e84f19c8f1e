-------------------------------- MODULE Cbc --------------------------------
(***************************************************************************)
(* aes_cbc_encrypt and aes_cbc_decrypt of ratchet.rs: the padding, and the  *)
(* chaining of the blocks.  A byte has Byte values and a block Block bytes; *)
(* the exclusive or is the sum of a group.                                  *)
(***************************************************************************)
EXTENDS Integers, Sequences

CONSTANTS
  Block,            \* bytes of a block: 16
  Byte,             \* values of a byte: 256
  EncryptBlock(_),  \* the block cipher of the aes crate under one key,
  DecryptBlock(_)   \* and its inverse

Bytes == Seq(0..(Byte - 1))
Blocks == [1..Block -> 0..(Byte - 1)]

ASSUME CbcAssumption == Block \in Nat \ {0} /\ Byte \in Nat /\ Block < Byte

ASSUME PermutationAssumption ==
  \A b \in Blocks : /\ EncryptBlock(b) \in Blocks /\ DecryptBlock(EncryptBlock(b)) = b
                    /\ DecryptBlock(b) \in Blocks /\ EncryptBlock(DecryptBlock(b)) = b

CbcError == <<-1>>

Plus(a, b) == [i \in 1..Block |-> (a[i] + b[i]) % Byte]
Minus(a, b) == [i \in 1..Block |-> (a[i] - b[i] + Byte) % Byte]

BlockAt(bytes, i) == [j \in 1..Block |-> bytes[Block * (i - 1) + j]]

\* Some blocks, one after the other.
Joined(count, block) ==
  [j \in 1..(Block * count) |-> block[((j - 1) \div Block) + 1][((j - 1) % Block) + 1]]

Pad(text) == LET n == Block - (Len(text) % Block) IN text \o [i \in 1..n |-> n]

CbcEncrypt(iv, text) ==
  LET padded == Pad(text)
      count == Len(padded) \div Block
      out[i \in 0..count] ==
        IF i = 0 THEN iv ELSE EncryptBlock(Plus(BlockAt(padded, i), out[i - 1]))
  IN  Joined(count, out)

\* Mutation: only the last byte is read.
PaddingLastByte(out) == out[Len(out)] \in 1..Block

\* Every byte of the padding says how long it is.
PaddingSound(out) ==
  LET n == out[Len(out)]
  IN  n \in 1..Block /\ \A i \in (Len(out) - n + 1)..Len(out) : out[i] = n

CbcDecrypt(iv, bytes) ==
  LET count == Len(bytes) \div Block
      out == Joined(count, [i \in 1..count |->
               Minus(DecryptBlock(BlockAt(bytes, i)), IF i = 1 THEN iv ELSE BlockAt(bytes, i - 1))])
  IN  IF bytes # <<>> /\ Len(bytes) % Block = 0 /\ PaddingSound(out)
      THEN SubSeq(out, 1, Len(out) - out[Len(out)])
      ELSE CbcError
=============================================================================
