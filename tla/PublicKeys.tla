----------------------------- MODULE PublicKeys -----------------------------
(***************************************************************************)
(* The arithmetic under addresses, written by hand in the TypeScript       *)
(* adapter and in its generators: base58 (resolution.ts, liquidation.ts,   *)
(* envelope.ts) and the test whether a digest is the y of a point of       *)
(* Ed25519 (resolution.ts), which a program-derived address must not be.   *)
(*                                                                         *)
(* The sizes are parameters: Bits for the 256 values of a byte, Digits for *)
(* the 58 of a character, and for 2^255 - 19 any prime p that is 5 modulo  *)
(* 8, which is what the square root needs.  A string is its digits.        *)
(***************************************************************************)
EXTENDS Integers, Sequences, SequencesExt, FiniteSets

CONSTANTS Bits, Digits

ASSUME SizeAssumption == Bits \in Nat \ {0, 1} /\ Digits \in Nat \ {0, 1}

\* The digits of a carry, least significant first; none for zero.
CarryDigits(carry, base, most) ==
    LET digits[n \in 0..most] ==
            IF n = 0 THEN <<>> ELSE <<n % base>> \o digits[n \div base]
    IN  digits[carry]

\* Every digit times a factor, plus a carry, in a base.
MulAdd(digits, factor, carry, base) ==
    LET carried[i \in 0..Len(digits)] ==
            IF i = 0 THEN carry ELSE (digits[i] * factor + carried[i - 1]) \div base
    IN  [i \in DOMAIN digits |-> (digits[i] * factor + carried[i - 1]) % base]
        \o CarryDigits(carried[Len(digits)], base, Bits + Digits)

\* A number in another base: its digits most significant first, and in the
\* other base least significant first, starting from some.
Converted(digits, base, other, start) ==
    LET upTo[n \in 0..Len(digits)] ==
            IF n = 0 THEN start ELSE MulAdd(upTo[n - 1], base, digits[n], other)
    IN  upTo[Len(digits)]

\* How many zeros a sequence begins with.
Leading(s) == Cardinality({i \in DOMAIN s : \A j \in 1..i : s[j] = 0})

Zeros(n) == [i \in 1..n |-> 0]

\* Mutant: leading zeros are not written.
Base58EncodeShort(bytes) == Reverse(Converted(bytes, Bits, Digits, <<0>>))

\* base58Encode of resolution.ts: it starts from one zero digit, so the last
\* byte is not counted as a leading zero.
Base58Encode(bytes) ==
    Zeros(Leading(SubSeq(bytes, 1, Len(bytes) - 1)))
    \o Reverse(Converted(bytes, Bits, Digits, <<0>>))

\* base58 of liquidation.ts: it divides the whole number.
Base58OfNumber(bytes) ==
    LET number[n \in 0..Len(bytes)] == IF n = 0 THEN 0 ELSE number[n - 1] * Bits + bytes[n]
        all == number[Len(bytes)]
    IN  Zeros(Leading(bytes)) \o Reverse(CarryDigits(all, Digits, all))

\* decodePubkey, before it looks at the length.
Base58Decode(string) ==
    LET zeros == Leading(string)
    IN  Zeros(zeros)
        \o Reverse(Converted(SubSeq(string, zeros + 1, Len(string)), Digits, Bits, <<>>))

-----------------------------------------------------------------------------
\* The field

\* modPow: square and multiply over the bits of the exponent.
ModPow(base, exponent, p) ==
    LET power[e \in 0..exponent] ==
            IF e = 0 THEN 1
            ELSE LET half == power[e \div 2]
                 IN  (half * half * (IF e % 2 = 1 THEN base % p ELSE 1)) % p
    IN  power[exponent]

ModInverse(value, p) == ModPow(value, p - 2, p)

\* Mutant: a root of the other quarter of the squares is not tried.
IsPointOneRoot(y, d, p) ==
    LET numerator == (y * y - 1) % p
        denominator == (d * ((y * y) % p) + 1) % p
        ratio == (numerator * ModInverse(denominator, p)) % p
        root == ModPow(ratio, (p + 3) \div 8, p)
    IN  IF denominator = 0 THEN numerator = 0 ELSE (root * root) % p = ratio

\* isEd25519Point, for the y that the bytes without their top bit are.
IsEd25519Point(y, d, p) ==
    LET numerator == (y * y - 1) % p
        denominator == (d * ((y * y) % p) + 1) % p
        ratio == (numerator * ModInverse(denominator, p)) % p
        first == ModPow(ratio, (p + 3) \div 8, p)
        root == IF (first * first) % p = ratio THEN first
                ELSE (first * ModPow(2, (p - 1) \div 4, p)) % p
    IN  IF denominator = 0 THEN numerator = 0 ELSE (root * root) % p = ratio

-----------------------------------------------------------------------------
\* The reference: some x is on the curve -x^2 + y^2 = 1 + d x^2 y^2 with y.
HasPoint(y, d, p) ==
    \E x \in 0..p - 1 : (y * y - x * x) % p = (1 + d * ((x * x) % p) * ((y * y) % p)) % p

\* The curve is that of a d which is not a square.
NonSquares(p) == {d \in 1..p - 1 : \A x \in 1..p - 1 : (x * x) % p # d}
=============================================================================
