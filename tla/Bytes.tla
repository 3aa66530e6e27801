------------------------------- MODULE Bytes --------------------------------
(***************************************************************************)
(* Byte strings as the encoders of the repository write them: sequences of *)
(* digits of base Radix, 256 in the code, least significant first, in the  *)
(* widths of the code (u8 1, u16 2, u32 4, u64 8, a public key 32).        *)
(***************************************************************************)
EXTENDS Integers, Sequences, SequencesExt

CONSTANT Radix

ASSUME RadixAssumption == Radix \in Nat \ {0, 1}

Byte == 0..Radix - 1

\* writeUIntLE: the width lowest digits of a value
Le(value, width) ==
    LET shifted[k \in 0..width] == IF k = 0 THEN value ELSE shifted[k - 1] \div Radix
    IN  [i \in 1..width |-> shifted[i - 1] % Radix]

\* readUIntLE
LeValue(bytes) ==
    LET value[i \in 0..Len(bytes)] ==
            IF i = 0 THEN 0 ELSE bytes[Len(bytes) - i + 1] + Radix * value[i - 1]
    IN  value[Len(bytes)]

\* Whether a value fits a width.
Fits(value, width) ==
    LET shifted[k \in 0..width] == IF k = 0 THEN value ELSE shifted[k - 1] \div Radix
    IN  value >= 0 /\ shifted[width] = 0

U16(value) == Le(value, 2)
U32(value) == Le(value, 4)
U64(value) == Le(value, 8)

\* A vector: its length, then its bytes.
Vector(bytes) == U32(Len(bytes)) \o bytes
=============================================================================
