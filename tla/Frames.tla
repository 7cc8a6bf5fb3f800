------------------------------- MODULE Frames -------------------------------
(***************************************************************************)
(* internal/frame/frame.go: transactions and lane batches as bytes, little *)
(* endian and of fixed width.  Byte is how many values a byte has, so that *)
(* a small one makes the widths overflow within reach.                     *)
(***************************************************************************)
EXTENDS Integers, Sequences, SequencesExt

CONSTANT Byte      \* 256

ASSUME ByteAssumption == Byte \in Nat \ {0, 1}

BatchMagic == 1111896369 % Byte^4
VersionV1  == 1

FrameError == <<>>

\* binary.LittleEndian.PutUintXX and UintXX for a width in bytes.
PutUint(width, n) == [i \in 1..width |-> (n \div Byte^(i - 1)) % Byte]
Uint(bytes)       == FoldLeftDomain(LAMBDA sum, i : sum + bytes[i] * Byte^(i - 1), 0, bytes)

\* The bytes first..last - 1, counted from 0 like a slice.
Slice(bytes, first, last) == SubSeq(bytes, first + 1, last)

MarshalTx12(tx) == PutUint(4, tx.sender) \o PutUint(4, tx.receiver) \o PutUint(4, tx.amount)

UnmarshalTx12(bytes) ==
    IF Len(bytes) # 12 THEN FrameError
    ELSE [sender   |-> Uint(Slice(bytes, 0, 4)),
          receiver |-> Uint(Slice(bytes, 4, 8)),
          amount   |-> Uint(Slice(bytes, 8, 12))]

EncodeTxSlice(txs) == FoldLeft(LAMBDA out, tx : out \o MarshalTx12(tx), <<>>, txs)

\* What DecodeTxSlice and UnmarshalBinary read, n transactions of them.
TxsAt(bytes, offset, n) ==
    [i \in 1..n |-> UnmarshalTx12(Slice(bytes, offset + 12 * (i - 1), offset + 12 * i))]

DecodeTxSliceOK(bytes) == Len(bytes) % 12 = 0
DecodeTxSlice(bytes)   == TxsAt(bytes, 0, Len(bytes) \div 12)

\* BatchFrameV1
MarshalBinary(b) ==
    PutUint(4, BatchMagic) \o PutUint(2, VersionV1) \o PutUint(2, b.flags) \o PutUint(4, b.blockIndex)
    \o PutUint(2, b.laneId) \o PutUint(2, 0) \o PutUint(4, Len(b.payload)) \o EncodeTxSlice(b.payload)

UnmarshalBinary(bytes) ==
    IF \/ Len(bytes) < 20
       \/ Uint(Slice(bytes, 0, 4)) # BatchMagic
       \/ Uint(Slice(bytes, 4, 6)) # VersionV1
       \/ Len(bytes) # 20 + 12 * Uint(Slice(bytes, 16, 20))
    THEN FrameError
    ELSE [flags      |-> Uint(Slice(bytes, 6, 8)),
          blockIndex |-> Uint(Slice(bytes, 8, 12)),
          laneId     |-> Uint(Slice(bytes, 12, 14)),
          payload    |-> TxsAt(bytes, 20, Uint(Slice(bytes, 16, 20)))]
=============================================================================
