----------------------------- MODULE ByteCodec ------------------------------
(* Integers as big-endian bytes, for the formats that carry lengths.  A     *)
(* byte is a digit below Radix (256 in the code).                           *)
EXTENDS Integers, SequencesExt

CONSTANT Radix

ASSUME RadixAssumption == Radix \in Nat \ {0, 1}

Byte == 0 .. Radix - 1

\* Sequences of at most k members of S.
UpTo(S, k) == UNION {[1 .. j -> S] : j \in 0 .. k}

\* to_be_bytes of an integer cast to k bytes: higher digits are cut off.
ToBe(i, k) == [j \in 1 .. k |-> (i \div Radix ^ (k - j)) % Radix]

\* from_be_bytes.
FromBe(s) == FoldLeft(LAMBDA acc, b : acc * Radix + b, 0, s)
=============================================================================
