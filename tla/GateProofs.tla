------------------------------ MODULE GateProofs ------------------------------
(***************************************************************************)
(* Proofs about Gate, for every set of locks, IDLs and changes and every   *)
(* width of a byte: the validator accepts exactly the envelopes that the   *)
(* contract pins, and what is signed is pinned.  The argument is about the *)
(* functions of the validator, from the inside out: lists and numbers, the *)
(* walk over the accounts, one instruction, the payload of a delegated     *)
(* close, an envelope.  They are right about envelopes of a certain shape; *)
(* that every envelope that is built, and every change of one, has that    *)
(* shape is the inductive invariant.                                       *)
(***************************************************************************)
EXTENDS Gate, FiniteSetTheorems, SequenceTheorems, WellFoundedInduction, TLAPS

-----------------------------------------------------------------------------
\* Lists and recursive functions

\* A set of natural numbers that is not empty has a smallest member.
LEMMA Smallest ==
    ASSUME NEW T \in SUBSET Nat, T # {}
    PROVE  \E m \in T : \A k \in T : m <= k
<1>1. PICK m \in T : \A k \in T : <<k, m>> \notin OpToRel(<, Nat)
  BY NatLessThanWellFounded, WFMin
<1>2. ASSUME NEW k \in T, k < m PROVE <<k, m>> \in OpToRel(<, Nat)
  <2>1. k \in Nat /\ m \in Nat
    OBVIOUS
  <2>2. <<k, m>> \in {ss \in Nat \X Nat : ss[1] < ss[2]}
    BY <1>2, <2>1
  <2>3. QED
    BY <2>2 DEF OpToRel
<1>3. \A k \in T : k \in Nat /\ m \in Nat
  OBVIOUS
<1>4. \A k \in T : ~(k < m)
  BY <1>1, <1>2
<1>5. QED
  BY <1>3, <1>4

\* What holds at 0 and is handed on from each number to the next holds up to n.
LEMMA Upwards ==
    ASSUME NEW n \in Nat, NEW T, 0 \in T, \A i \in 1..n : i - 1 \in T => i \in T
    PROVE  \A i \in 0..n : i \in T
<1> DEFINE Bad == {i \in 0..n : i \notin T}
<1>1. SUFFICES ASSUME Bad # {} PROVE FALSE
  OBVIOUS
<1>2. PICK m \in Bad : \A k \in Bad : m <= k
  <2>1. Bad \in SUBSET Nat
    OBVIOUS
  <2> HIDE DEF Bad
  <2>2. QED
    BY <1>1, <2>1, Smallest
<1>3. m \in 1..n /\ m \notin T /\ m - 1 \in 0..n
  BY <1>2
<1>4. m - 1 \notin Bad
  BY <1>2, <1>3
<1>5. QED
  BY <1>3, <1>4

\* The data of a function that is defined by recursion over 0..n, and the function.
Steps(n, S, b, step) == n \in Nat /\ b \in S /\ step \in [(1..n) \X S -> S]
Unrolls(f, n, S, b, step) ==
    f \in [0..n -> S] /\ f[0] = b /\ \A i \in 1..n : f[i] = step[<<i, f[i - 1]>>]

\* Such a function exists.
LEMMA Recursion ==
    ASSUME NEW n, NEW S, NEW b, NEW step, Steps(n, S, b, step)
    PROVE  \E f : Unrolls(f, n, S, b, step)
<1> USE DEF Steps, Unrolls
<1> DEFINE Is(f, m) == f[0] = b /\ \A i \in 1..m : f[i] = step[<<i, f[i - 1]>>]
           T == {m \in 0..n : \E f \in [0..m -> S] : Is(f, m)}
<1>1. 0 \in T
  <2> DEFINE g == [i \in 0..0 |-> b]
  <2>1. g \in [0..0 -> S] /\ Is(g, 0)
    OBVIOUS
  <2> HIDE DEF Is, g
  <2>2. QED
    BY <2>1
<1>2. ASSUME NEW m \in 1..n, m - 1 \in T PROVE m \in T
  <2>1. PICK f \in [0..m - 1 -> S] : Is(f, m - 1)
    BY <1>2
  <2> DEFINE g == [i \in 0..m |-> IF i = m THEN step[<<m, f[m - 1]>>] ELSE f[i]]
  <2>2. f[m - 1] \in S
    OBVIOUS
  <2>3. step[<<m, f[m - 1]>>] \in S
    BY <2>2
  <2>4. ASSUME NEW i \in 0..m PROVE g[i] \in S
    <3>1. CASE i = m
      BY <2>3, <3>1
    <3>2. CASE i # m
      BY <3>2
    <3>3. QED
      BY <3>1, <3>2
  <2>5. ASSUME NEW i \in 1..m PROVE g[i] = step[<<i, g[i - 1]>>]
    <3>1. g[i - 1] = f[i - 1]
      OBVIOUS
    <3>2. CASE i = m
      <4>1. g[m] = step[<<m, f[m - 1]>>]
        OBVIOUS
      <4> HIDE DEF g
      <4>2. QED
        BY <3>1, <3>2, <4>1
    <3>3. CASE i # m
      <4>1. i \in 1..m - 1 /\ g[i] = f[i]
        BY <3>3
      <4>2. QED
        BY <2>1, <3>1, <4>1
    <3>4. QED
      BY <3>2, <3>3
  <2>6. g \in [0..m -> S] /\ g[0] = b
    BY <2>1, <2>4
  <2>7. QED
    <3>1. Is(g, m)
      BY <2>5, <2>6
    <3> HIDE DEF Is, g
    <3>2. QED
      BY <2>6, <3>1
<1>3. \A m \in 0..n : m \in T
  <2> HIDE DEF T
  <2>1. QED
    BY <1>1, <1>2, Upwards
<1>4. n \in T
  BY <1>3
<1>5. QED
  BY <1>4

\* A sequence, whatever it is of.
List(s) == s \in Seq(ToSet(s))

\* Every sequence is a list.
LEMMA InSeq ==
    ASSUME NEW S, NEW s \in Seq(S)
    PROVE  List(s)
<1>1. Len(s) \in Nat /\ s \in [1..Len(s) -> S]
  BY LenProperties
<1>2. s \in [1..Len(s) -> ToSet(s)]
  BY <1>1 DEF ToSet
<1>3. QED
  BY <1>1, <1>2, SeqDef DEF List

\* What is known of a list.
LEMMA ListIs ==
    ASSUME NEW s, List(s)
    PROVE  /\ Len(s) \in Nat /\ DOMAIN s = 1..Len(s)
           /\ s = [i \in 1..Len(s) |-> s[i]]
           /\ ToSet(s) = {s[i] : i \in 1..Len(s)}
BY LenProperties DEF List, ToSet

\* A function on 1..n is a list.
LEMMA FunctionIsList ==
    ASSUME NEW n \in Nat, NEW f, f = [i \in 1..n |-> f[i]]
    PROVE  List(f) /\ Len(f) = n
<1>1. f \in [1..n -> ToSet(f)]
  BY DEF ToSet
<1>2. f \in Seq(ToSet(f))
  BY <1>1, SeqDef
<1>3. Len(f) = n
  BY <1>1, <1>2, LenProperties
<1>4. QED
  BY <1>2, <1>3 DEF List

\* Lists with the same entries are one list.
LEMMA ListsEqual ==
    ASSUME NEW s, NEW t, List(s), List(t), Len(s) = Len(t), \A i \in 1..Len(s) : s[i] = t[i]
    PROVE  s = t
BY ListIs

\* The entries of a concatenation.
LEMMA Concat ==
    ASSUME NEW s, NEW t, List(s), List(t)
    PROVE  /\ List(s \o t)
           /\ Len(s \o t) = Len(s) + Len(t)
           /\ \A i \in 1..Len(s) + Len(t) :
                (s \o t)[i] = IF i <= Len(s) THEN s[i] ELSE t[i - Len(s)]
<1> DEFINE S == ToSet(s) \cup ToSet(t)
<1>1. s \in Seq(S) /\ t \in Seq(S)
  <2>1. ToSet(s) \subseteq S /\ ToSet(t) \subseteq S
    OBVIOUS
  <2> HIDE DEF S
  <2>2. QED
    BY <2>1, SeqMonotonic DEF List
<1> HIDE DEF S
<1>2. QED
  BY <1>1, ConcatProperties, InSeq

\* The entries of a part of a list.
LEMMA Slice ==
    ASSUME NEW s, NEW m \in Int, NEW n \in Int
    PROVE  /\ List(SubSeq(s, m, n))
           /\ Len(SubSeq(s, m, n)) = IF m <= n THEN n - m + 1 ELSE 0
           /\ \A i \in 1..n - m + 1 : SubSeq(s, m, n)[i] = s[m + i - 1]
<1> DEFINE S == {s[i] : i \in m..n}
<1>1. \A i \in m..n : s[i] \in S
  OBVIOUS
<1> HIDE DEF S
<1>2. /\ SubSeq(s, m, n) \in Seq(S)
      /\ Len(SubSeq(s, m, n)) = IF m <= n THEN n - m + 1 ELSE 0
      /\ \A i \in 1..n - m + 1 : SubSeq(s, m, n)[i] = s[m + i - 1]
  BY <1>1, SubSeqProperties
<1>3. QED
  BY <1>2, InSeq

\* Appending to a list.
LEMMA Appended ==
    ASSUME NEW s, NEW x, List(s)
    PROVE  List(Append(s, x)) /\ Len(Append(s, x)) = Len(s) + 1
<1> DEFINE S == ToSet(s) \cup {x}
<1>1. s \in Seq(S) /\ x \in S
  <2>1. ToSet(s) \subseteq S /\ x \in S
    OBVIOUS
  <2> HIDE DEF S
  <2>2. QED
    BY <2>1, SeqMonotonic DEF List
<1> HIDE DEF S
<1>2. QED
  BY <1>1, AppendProperties, InSeq

\* The lists that are written out.
LEMMA Shorts ==
    /\ List(<<>>) /\ Len(<<>>) = 0
    /\ \A a : List(<<a>>) /\ Len(<<a>>) = 1
    /\ \A a, b : List(<<a, b>>) /\ Len(<<a, b>>) = 2
<1>1. <<>> \in Seq({})
  BY EmptySeq
<1>2. ASSUME NEW a PROVE <<a>> \in Seq({a})
  OBVIOUS
<1>3. ASSUME NEW a, NEW b PROVE <<a, b>> \in Seq({a, b})
  OBVIOUS
<1>4. QED
  BY <1>1, <1>2, <1>3, InSeq

-----------------------------------------------------------------------------
\* Little-endian numbers, written and read

\* Division with remainder.
LEMMA DivMod ==
    ASSUME NEW v \in Nat, NEW b \in Nat \ {0}
    PROVE  v \div b \in Nat /\ v % b \in 0..b - 1 /\ v = (v % b) + b * (v \div b)
OBVIOUS

\* A number put together from digits comes apart into them.
LEMMA DivModIs ==
    ASSUME NEW b \in Nat \ {0}, NEW r \in 0..b - 1, NEW q \in Nat
    PROVE  (r + b * q) \div b = q /\ (r + b * q) % b = r
OBVIOUS

\* Division makes a bound smaller.
LEMMA Smaller ==
    ASSUME NEW v \in Nat, NEW b \in Nat \ {0}, NEW c \in Nat, v < b * c
    PROVE  v \div b < c
OBVIOUS

\* What the functions in Le and LeValue are.
Writes(f, v, width) ==
    /\ f \in [0..width -> Nat] /\ f[0] = v /\ \A i \in 1..width : f[i] = f[i - 1] \div Radix
    /\ Le(v, width) = [i \in 1..width |-> f[i - 1] % Radix]

Reads(f, bytes) ==
    /\ f \in [0..Len(bytes) -> Nat] /\ f[0] = 0 /\ LeValue(bytes) = f[Len(bytes)]
    /\ \A i \in 1..Len(bytes) : f[i] = bytes[Len(bytes) - i + 1] + Radix * f[i - 1]

\* The function in Le exists.
LEMMA LeIs ==
    ASSUME NEW v \in Nat, NEW width \in Nat
    PROVE  \E f : Writes(f, v, width)
<1> DEFINE step == [x \in (1..width) \X Nat |-> x[2] \div Radix]
           Shifted(f) == f = [k \in 0..width |-> IF k = 0 THEN v ELSE f[k - 1] \div Radix]
           shifted == CHOOSE f : Shifted(f)
<1>1. Radix \in Nat \ {0}
  BY RadixAssumption
<1>2. step \in [(1..width) \X Nat -> Nat]
  BY <1>1, DivMod
<1>3. PICK g : Unrolls(g, width, Nat, v, step)
  <2> HIDE DEF step
  <2>1. Steps(width, Nat, v, step)
    BY <1>2 DEF Steps
  <2>2. QED
    BY <2>1, Recursion
<1>4. /\ g \in [0..width -> Nat]
      /\ g[0] = v /\ \A i \in 1..width : g[i] = step[<<i, g[i - 1]>>]
  BY <1>3 DEF Unrolls
<1>5. Shifted(g)
  <2>1. ASSUME NEW i \in 0..width PROVE g[i] = IF i = 0 THEN v ELSE g[i - 1] \div Radix
    <3>1. CASE i = 0
      BY <1>4, <3>1
    <3>2. CASE i # 0
      <4>1. i - 1 \in 0..width /\ i \in 1..width
        BY <3>2
      <4>2. g[i - 1] \in Nat
        BY <4>1, <1>4
      <4>3. step[<<i, g[i - 1]>>] = g[i - 1] \div Radix
        BY <4>1, <4>2
      <4> HIDE DEF step
      <4>4. QED
        BY <1>4, <3>2, <4>3
    <3>3. QED
      BY <3>1, <3>2
  <2>2. g = [i \in 0..width |-> g[i]]
    <3> HIDE DEF step
    <3>1. QED
      BY <1>4
  <2>3. QED
    BY <2>1, <2>2
<1>6. Shifted(shifted)
  <2> HIDE DEF Shifted
  <2>1. QED
    BY <1>5
<1>7. shifted[0] = v /\ \A i \in 1..width : shifted[i] = shifted[i - 1] \div Radix
  <2> HIDE DEF shifted
  <2>1. QED
    BY <1>6
<1>8. shifted \in [0..width -> Nat]
  <2> HIDE DEF shifted
  <2> DEFINE T == {i \in 0..width : shifted[i] \in Nat}
  <2>1. 0 \in T
    BY <1>7
  <2>2. ASSUME NEW i \in 1..width, i - 1 \in T PROVE i \in T
    <3>1. shifted[i - 1] \in Nat /\ i \in 0..width
      BY <2>2
    <3>2. shifted[i - 1] \div Radix \in Nat
      BY <1>1, <3>1, DivMod
    <3>3. QED
      BY <1>7, <3>1, <3>2
  <2>3. \A i \in 0..width : i \in T
    <3> HIDE DEF T
    <3>1. QED
      BY <2>1, <2>2, Upwards
  <2>4. QED
    BY <1>6, <2>3
<1>9. Le(v, width) = [i \in 1..width |-> shifted[i - 1] % Radix]
  BY DEF Le
<1> HIDE DEF shifted
<1>10. QED
  BY <1>7, <1>8, <1>9 DEF Writes

\* A number below the base is its own remainder.
LEMMA SmallMod ==
    ASSUME NEW b \in Nat \ {0}, NEW v \in Nat, v < b
    PROVE  v % b = v
OBVIOUS

\* The function in LeValue exists.
LEMMA LeValueIs ==
    ASSUME NEW bytes, List(bytes), \A i \in 1..Len(bytes) : bytes[i] \in Nat
    PROVE  \E f : Reads(f, bytes)
<1> DEFINE n == Len(bytes)
           step == [x \in (1..n) \X Nat |-> bytes[n - x[1] + 1] + Radix * x[2]]
           Value(f) == f = [i \in 0..Len(bytes) |-> IF i = 0 THEN 0
                                    ELSE bytes[Len(bytes) - i + 1] + Radix * f[i - 1]]
           value == CHOOSE f : Value(f)
<1>1. Radix \in Nat /\ n \in Nat
  BY RadixAssumption, ListIs
<1>2. \A i \in 1..n, v \in Nat : bytes[n - i + 1] + Radix * v \in Nat
  BY <1>1
<1>3. step \in [(1..n) \X Nat -> Nat]
  BY <1>2
<1>4. PICK g : Unrolls(g, n, Nat, 0, step)
  <2> HIDE DEF step, n
  <2>1. Steps(n, Nat, 0, step)
    BY <1>1, <1>3 DEF Steps
  <2>2. QED
    BY <2>1, Recursion
<1>5. /\ g \in [0..n -> Nat]
      /\ g[0] = 0 /\ \A i \in 1..n : g[i] = step[<<i, g[i - 1]>>]
  BY <1>4 DEF Unrolls
<1>6. Value(g)
  <2>1. ASSUME NEW i \in 0..n, i # 0 PROVE g[i] = bytes[n - i + 1] + Radix * g[i - 1]
    <3>1. i - 1 \in 0..n /\ i \in 1..n
      BY <1>1, <2>1
    <3>2. g[i - 1] \in Nat
      BY <3>1, <1>5
    <3>3. step[<<i, g[i - 1]>>] = bytes[n - i + 1] + Radix * g[i - 1]
      BY <3>1, <3>2
    <3> HIDE DEF step
    <3>4. QED
      BY <1>5, <3>1, <3>3
  <2>2. g = [i \in 0..n |-> g[i]]
    <3> HIDE DEF step
    <3>1. QED
      BY <1>5
  <2>3. QED
    BY <1>5, <2>1, <2>2
<1>7. Value(value)
  <2> HIDE DEF Value
  <2>1. QED
    BY <1>6
<1>8. value[0] = 0 /\ \A i \in 1..n : value[i] = bytes[n - i + 1] + Radix * value[i - 1]
  <2> HIDE DEF value
  <2>1. QED
    BY <1>1, <1>7
<1>9. value \in [0..n -> Nat]
  <2> HIDE DEF value
  <2> DEFINE T == {i \in 0..n : value[i] \in Nat}
  <2>1. 0 \in T
    BY <1>1, <1>8
  <2>2. ASSUME NEW i \in 1..n, i - 1 \in T PROVE i \in T
    <3>1. value[i - 1] \in Nat /\ i \in 0..n
      BY <1>1, <2>2
    <3>2. bytes[n - i + 1] + Radix * value[i - 1] \in Nat
      BY <1>2, <3>1
    <3>3. QED
      BY <1>8, <3>1, <3>2
  <2>3. \A i \in 0..n : i \in T
    <3> HIDE DEF T
    <3>1. QED
      BY <1>1, <2>1, <2>2, Upwards
  <2>4. QED
    BY <1>7, <2>3
<1>10. LeValue(bytes) = value[n]
  BY DEF LeValue
<1> HIDE DEF value
<1>11. QED
  BY <1>8, <1>9, <1>10 DEF Reads

\* What is written has its width.
LEMMA LeList ==
    ASSUME NEW v, NEW width \in Nat
    PROVE  List(Le(v, width)) /\ Len(Le(v, width)) = width
<1>1. Le(v, width) = [i \in 1..width |-> Le(v, width)[i]]
  BY DEF Le
<1>2. QED
  BY <1>1, FunctionIsList

\* Reading what was written, and writing what was read.
LEMMA ReadsU16 ==
    ASSUME NEW v \in Nat, v < Radix * Radix
    PROVE  LeValue(U16(v)) = v
<1>1. Radix \in Nat \ {0}
  BY RadixAssumption
<1>2. PICK f : Writes(f, v, 2)
  BY LeIs
<1> DEFINE s == Le(v, 2)
<1>3. List(s) /\ Len(s) = 2
  BY LeList
<1>4. /\ f[0] = v /\ f[1] = v \div Radix
      /\ s[1] = f[0] % Radix /\ s[2] = f[1] % Radix
  BY <1>2 DEF Writes
<1>5. f[1] \in Nat /\ f[1] < Radix /\ s[1] \in Nat /\ s[2] = f[1]
  <2>1. f[1] \in Nat /\ f[1] < Radix
    BY <1>1, <1>4, Smaller, DivMod
  <2>2. s[1] \in Nat
    BY <1>1, <1>4, DivMod
  <2>3. s[2] = f[1]
    BY <1>1, <1>4, <2>1, SmallMod
  <2>4. QED
    BY <2>1, <2>2, <2>3
<1> HIDE DEF s
<1>6. PICK g : Reads(g, s)
  <2>1. \A i \in 1..Len(s) : s[i] \in Nat
    BY <1>3, <1>5
  <2>2. QED
    BY <1>3, <2>1, LeValueIs
<1>7. g[1] = s[2] /\ g[2] = s[1] + Radix * g[1] /\ LeValue(s) = g[2]
  BY <1>1, <1>3, <1>5, <1>6 DEF Reads
<1>8. LeValue(s) = (v % Radix) + Radix * (v \div Radix)
  BY <1>4, <1>5, <1>7
<1>9. QED
  BY <1>1, <1>8, DivMod DEF U16, s

\* The same for four bytes.
LEMMA ReadsU32 ==
    ASSUME NEW v \in Nat, v < Radix * (Radix * (Radix * Radix))
    PROVE  LeValue(U32(v)) = v
<1>1. Radix \in Nat \ {0}
  BY RadixAssumption
<1>2. PICK f : Writes(f, v, 4)
  BY LeIs
<1> DEFINE s == Le(v, 4)
<1>3. List(s) /\ Len(s) = 4
  BY LeList
<1>4. /\ f[0] = v /\ f[1] = f[0] \div Radix /\ f[2] = f[1] \div Radix /\ f[3] = f[2] \div Radix
      /\ s[1] = f[0] % Radix /\ s[2] = f[1] % Radix /\ s[3] = f[2] % Radix /\ s[4] = f[3] % Radix
      /\ f[1] \in Nat /\ f[2] \in Nat /\ f[3] \in Nat
  BY <1>2 DEF Writes
<1> HIDE DEF s
<1>5. f[3] < Radix
  <2>1. Radix * Radix \in Nat /\ Radix * (Radix * Radix) \in Nat
    BY <1>1
  <2>2. f[1] < Radix * (Radix * Radix)
    BY <1>1, <1>4, <2>1, Smaller
  <2>3. f[2] < Radix * Radix
    BY <1>1, <1>4, <2>1, <2>2, Smaller
  <2>4. QED
    BY <1>1, <1>4, <2>3, Smaller
<1>6. /\ s[1] \in Nat /\ s[2] \in Nat /\ s[3] \in Nat /\ s[4] \in Nat
      /\ v = s[1] + Radix * f[1] /\ f[1] = s[2] + Radix * f[2] /\ f[2] = s[3] + Radix * f[3]
      /\ s[4] = f[3]
  <2>1. \A q \in Nat : q % Radix \in Nat /\ q = (q % Radix) + Radix * (q \div Radix)
    BY <1>1, DivMod
  <2>2. s[1] \in Nat /\ v = s[1] + Radix * f[1]
    BY <1>4, <2>1
  <2>3. s[2] \in Nat /\ f[1] = s[2] + Radix * f[2]
    BY <1>4, <2>1
  <2>4. s[3] \in Nat /\ f[2] = s[3] + Radix * f[3]
    BY <1>4, <2>1
  <2>5. s[4] = f[3]
    BY <1>1, <1>4, <1>5, SmallMod
  <2>6. QED
    BY <1>4, <2>2, <2>3, <2>4, <2>5
<1>7. PICK g : Reads(g, s)
  <2>1. \A i \in 1..Len(s) : s[i] \in Nat
    BY <1>3, <1>6
  <2>2. QED
    BY <1>3, <2>1, LeValueIs
<1>8. LeValue(s) = s[1] + Radix * (s[2] + Radix * (s[3] + Radix * s[4]))
  <2>1. /\ g[0] = 0 /\ g[1] = s[4] + Radix * g[0] /\ g[2] = s[3] + Radix * g[1]
        /\ g[3] = s[2] + Radix * g[2] /\ g[4] = s[1] + Radix * g[3] /\ LeValue(s) = g[4]
    BY <1>3, <1>7 DEF Reads
  <2>2. g[1] = s[4]
    BY <1>1, <1>6, <2>1
  <2>3. QED
    BY <2>1, <2>2
<1>9. LeValue(s) = v
  BY <1>6, <1>8
<1>10. QED
  BY <1>9 DEF U32, s

\* Two bytes are what writing the number that they hold gives.
LEMMA WritesU16 ==
    ASSUME NEW s, List(s), Len(s) = 2, \A i \in 1..2 : s[i] \in Byte
    PROVE  LeValue(s) \in Nat /\ U16(LeValue(s)) = s
<1>1. Radix \in Nat \ {0}
  BY RadixAssumption
<1>2. s[1] \in 0..Radix - 1 /\ s[2] \in 0..Radix - 1
  BY DEF Byte
<1>3. PICK g : Reads(g, s)
  <2>1. \A i \in 1..Len(s) : s[i] \in Nat
    BY <1>1 DEF Byte
  <2>2. QED
    BY <2>1, LeValueIs
<1> DEFINE v == LeValue(s)
<1>4. v = s[1] + Radix * s[2] /\ v \in Nat
  <2>1. g[0] = 0 /\ g[1] = s[2] + Radix * g[0] /\ g[2] = s[1] + Radix * g[1] /\ LeValue(s) = g[2]
    BY <1>3 DEF Reads
  <2>2. g[1] = s[2]
    BY <1>1, <1>2, <2>1
  <2>3. QED
    BY <1>1, <1>2, <2>1, <2>2
<1> HIDE DEF v
<1>5. v % Radix = s[1] /\ v \div Radix = s[2] /\ s[2] % Radix = s[2]
  <2>1. \A r \in 0..Radix - 1, q \in Nat : (r + Radix * q) \div Radix = q /\ (r + Radix * q) % Radix = r
    BY <1>1, DivModIs
  <2>2. s[2] % Radix = s[2]
    BY <1>1, <1>2, SmallMod
  <2>3. s[2] \in Nat
    BY <1>1, <1>2
  <2>4. QED
    BY <1>2, <1>4, <2>1, <2>2, <2>3
<1>6. PICK f : Writes(f, v, 2)
  BY <1>4, LeIs
<1>7. Le(v, 2)[1] = f[0] % Radix /\ Le(v, 2)[2] = f[1] % Radix /\ f[0] = v /\ f[1] = f[0] \div Radix
  BY <1>6 DEF Writes
<1>8. List(Le(v, 2)) /\ Len(Le(v, 2)) = 2
  BY LeList
<1>9. Le(v, 2) = s
  BY <1>5, <1>7, <1>8, ListsEqual
<1>10. QED
  BY <1>4, <1>9 DEF U16, v

\* Four bytes are, too.
LEMMA WritesU32 ==
    ASSUME NEW s, List(s), Len(s) = 4, \A i \in 1..4 : s[i] \in Byte
    PROVE  LeValue(s) \in Nat /\ U32(LeValue(s)) = s
<1>1. Radix \in Nat \ {0}
  BY RadixAssumption
<1>2. s[1] \in 0..Radix - 1 /\ s[2] \in 0..Radix - 1 /\ s[3] \in 0..Radix - 1 /\ s[4] \in 0..Radix - 1
  BY DEF Byte
<1>3. PICK g : Reads(g, s)
  <2>1. \A i \in 1..Len(s) : s[i] \in Nat
    BY <1>1 DEF Byte
  <2>2. QED
    BY <2>1, LeValueIs
<1> DEFINE v == LeValue(s)
           q3 == s[4]
           q2 == s[3] + Radix * q3
           q1 == s[2] + Radix * q2
<1>4. q3 \in Nat /\ q2 \in Nat /\ q1 \in Nat /\ s[1] + Radix * q1 \in Nat
  BY <1>1, <1>2
<1>5. v = s[1] + Radix * q1
  <2>1. /\ g[0] = 0 /\ g[1] = s[4] + Radix * g[0] /\ g[2] = s[3] + Radix * g[1]
        /\ g[3] = s[2] + Radix * g[2] /\ g[4] = s[1] + Radix * g[3] /\ LeValue(s) = g[4]
    BY <1>3 DEF Reads
  <2>2. g[1] = s[4]
    BY <1>1, <1>2, <2>1
  <2>3. QED
    BY <2>1, <2>2
<1> HIDE DEF v
<1>6. /\ v % Radix = s[1] /\ v \div Radix = q1
      /\ q1 % Radix = s[2] /\ q1 \div Radix = q2
      /\ q2 % Radix = s[3] /\ q2 \div Radix = q3
      /\ q3 % Radix = s[4]
  <2>1. v % Radix = s[1] /\ v \div Radix = q1
    <3> HIDE DEF q1
    <3>1. QED
      BY <1>1, <1>2, <1>4, <1>5, DivModIs
  <2>2. q1 % Radix = s[2] /\ q1 \div Radix = q2
    <3> HIDE DEF q2
    <3>1. QED
      BY <1>1, <1>2, <1>4, DivModIs
  <2>3. q2 % Radix = s[3] /\ q2 \div Radix = q3
    BY <1>1, <1>2, <1>4, DivModIs
  <2>4. q3 % Radix = s[4]
    BY <1>1, <1>2, SmallMod
  <2>5. QED
    BY <2>1, <2>2, <2>3, <2>4
<1>7. v \in Nat
  BY <1>4, <1>5
<1> HIDE DEF q1, q2, q3
<1>8. PICK f : Writes(f, v, 4)
  BY <1>7, LeIs
<1>9. /\ Le(v, 4)[1] = f[0] % Radix /\ Le(v, 4)[2] = f[1] % Radix
      /\ Le(v, 4)[3] = f[2] % Radix /\ Le(v, 4)[4] = f[3] % Radix
      /\ f[0] = v /\ f[1] = f[0] \div Radix /\ f[2] = f[1] \div Radix /\ f[3] = f[2] \div Radix
  BY <1>8 DEF Writes
<1>10. List(Le(v, 4)) /\ Len(Le(v, 4)) = 4
  BY LeList
<1>11. \A i \in 1..4 : Le(v, 4)[i] = s[i]
  <2>1. /\ Le(v, 4)[1] = s[1] /\ Le(v, 4)[2] = s[2]
        /\ Le(v, 4)[3] = s[3] /\ Le(v, 4)[4] = s[4]
    BY <1>6, <1>9
  <2>2. QED
    BY <2>1
<1>12. Le(v, 4) = s
  BY <1>10, <1>11, ListsEqual
<1>13. QED
  BY <1>7, <1>12 DEF U32, v

-----------------------------------------------------------------------------
\* The walk over the accounts

\* A verdict is ok if and only if every check of it is passed.
LEMMA Both ==
    ASSUME NEW a, NEW b
    PROVE  (a ++ b = "ok") <=> (a = "ok" /\ b = "ok")
BY DEF ++

\* The place in the actual accounts of the i-th expected one.
Place(absent, i) == Cardinality((1..i) \ absent)

\* A place is a number.
LEMMA PlaceIsNat ==
    ASSUME NEW absent, NEW i \in Nat
    PROVE  Place(absent, i) \in Nat
<1>1. IsFiniteSet(1..i)
  BY FS_Interval
<1>2. (1..i) \ absent \in SUBSET (1..i)
  OBVIOUS
<1>3. IsFiniteSet((1..i) \ absent)
  BY <1>1, <1>2, FS_Subset
<1>4. QED
  BY <1>3, FS_CardinalityType DEF Place

\* No account has been placed at the start.
LEMMA PlaceStart ==
    ASSUME NEW absent
    PROVE  Place(absent, 0) = 0
<1>1. (1..0) \ absent = {}
  OBVIOUS
<1>2. QED
  BY <1>1, FS_EmptySet DEF Place

\* A place follows the one before if the account is present.
LEMMA PlaceStep ==
    ASSUME NEW absent, NEW i \in Nat \ {0}
    PROVE  /\ Place(absent, i - 1) \in Nat
           /\ i \in absent => Place(absent, i) = Place(absent, i - 1)
           /\ i \notin absent => Place(absent, i) = Place(absent, i - 1) + 1
<1>1. Place(absent, i - 1) \in Nat
  BY PlaceIsNat
<1>2. CASE i \in absent
  <2>1. (1..i) \ absent = (1..i - 1) \ absent
    BY <1>2
  <2>2. QED
    BY <1>1, <1>2, <2>1 DEF Place
<1>3. CASE i \notin absent
  <2>1. (1..i) \ absent = ((1..i - 1) \ absent) \cup {i} /\ i \notin (1..i - 1) \ absent
    BY <1>3
  <2>2. IsFiniteSet((1..i - 1) \ absent)
    <3>1. IsFiniteSet(1..i - 1)
      BY FS_Interval
    <3>2. (1..i - 1) \ absent \in SUBSET (1..i - 1)
      OBVIOUS
    <3>3. QED
      BY <3>1, <3>2, FS_Subset
  <2>3. QED
    BY <1>1, <1>3, <2>1, <2>2, FS_AddElement DEF Place
<1>4. QED
  BY <1>2, <1>3

\* Places grow.
LEMMA PlaceGrows ==
    ASSUME NEW absent, NEW i \in Nat, NEW j \in 0..i
    PROVE  Place(absent, j) <= Place(absent, i)
<1>1. IsFiniteSet(1..i)
  BY FS_Interval
<1>2. (1..i) \ absent \in SUBSET (1..i) /\ (1..j) \ absent \in SUBSET ((1..i) \ absent)
  OBVIOUS
<1>3. QED
  BY <1>1, <1>2, FS_Subset DEF Place

\* Every place is that of an account that is present.
LEMMA PlaceReached ==
    ASSUME NEW absent, NEW n \in Nat, NEW k \in 1..Place(absent, n)
    PROVE  \E i \in (1..n) \ absent : Place(absent, i) = k
<1> DEFINE T == {i \in 0..n : Place(absent, i) >= k}
<1>1. PICK i \in T : \A j \in T : i <= j
  <2>1. Place(absent, n) \in Nat
    BY PlaceIsNat
  <2>2. T \in SUBSET Nat /\ n \in T
    BY <2>1
  <2> HIDE DEF T
  <2>3. QED
    BY <2>2, Smallest
<1>2. i \in 0..n /\ Place(absent, i) >= k
  OBVIOUS
<1>3. i # 0 /\ k \in Nat
  BY <1>2, PlaceStart, PlaceIsNat
<1>4. i - 1 \in 0..n /\ i - 1 \notin T
  BY <1>1, <1>2, <1>3
<1>5. /\ Place(absent, i - 1) \in Nat
      /\ i \in absent => Place(absent, i) = Place(absent, i - 1)
      /\ i \notin absent => Place(absent, i) = Place(absent, i - 1) + 1
  BY <1>2, <1>3, PlaceStep
<1>6. Place(absent, i - 1) < k
  BY <1>3, <1>4, <1>5
<1> HIDE DEF T
<1>7. i \notin absent /\ Place(absent, i) = k
  BY <1>2, <1>3, <1>5, <1>6
<1>8. QED
  BY <1>2, <1>3, <1>7

-----------------------------------------------------------------------------
\* The walk over the accounts.

\* The check of one account passes exactly what is pinned.
LEMMA CheckIs ==
    ASSUME NEW spec, NEW expected, NEW actual
    PROVE  (actual.name = expected.name /\ CheckAccount(spec, expected, actual) = "ok")
           <=> AccountIsPinned(spec, expected, actual)
<1>1. (CheckAccount(spec, expected, actual) = "ok") <=>
        /\ IsPubkey(actual.address)
        /\ actual.writable = expected.writable /\ actual.signer = expected.signer
        /\ Prescribed(spec, expected) \in {<<>>, actual.address}
  BY Both DEF CheckAccount, Refuse
<1>2. QED
  BY <1>1 DEF AccountIsPinned

\* Whether the next actual account has the expected name.
Named(accounts, at, expected) == at <= Len(accounts) /\ accounts[at].name = expected.name

\* One step of the walk: stay, pass over an optional account, or check one.
LEMMA WalkStep ==
    ASSUME NEW accounts, NEW spec, NEW walk, NEW expected
    PROVE  LET next == Walk(accounts, spec, walk, expected)
               named == Named(accounts, walk.at, expected)
           IN  /\ walk.code # "ok" => next = walk
               /\ walk.code = "ok" /\ expected.optional /\ ~named => next = walk
               /\ walk.code = "ok" /\ ~(expected.optional /\ ~named) =>
                    /\ next = [at |-> walk.at + 1, code |-> next.code]
                    /\ (next.code = "ok") <=>
                         named /\ AccountIsPinned(spec, expected, accounts[walk.at])
<1> DEFINE next == Walk(accounts, spec, walk, expected)
           named == Named(accounts, walk.at, expected)
           present == walk.at <= Len(accounts)
           later == \E i \in walk.at + 1..Len(accounts) : accounts[i].name = expected.name
           code == Refuse(~present, "missing_required_account")
                   ++ Refuse(~named, IF later THEN "account_order_mismatch"
                                     ELSE "missing_required_account")
                   ++ CheckAccount(spec, expected, accounts[walk.at])
<1>1. next = IF walk.code # "ok" \/ (expected.optional /\ ~named) THEN walk
             ELSE [at |-> walk.at + 1, code |-> code]
  BY DEF Walk, Named
<1>2. (code = "ok") <=> named /\ CheckAccount(spec, expected, accounts[walk.at]) = "ok"
  BY Both DEF Refuse, Named
<1>3. (code = "ok") <=> named /\ AccountIsPinned(spec, expected, accounts[walk.at])
  BY <1>2, CheckIs DEF Named
<1> HIDE DEF next, named, code
<1>4. QED
  BY <1>1, <1>3 DEF next, named

\* The verdicts of a walk.
Codes == {"ok", "missing_required_account", "account_order_mismatch", "invalid_pubkey",
          "account_flags_mismatch", "fixed_address_mismatch"}

\* What the function in ValidateAccounts is.
Walked(w, ix, spec) ==
    /\ w[0] = [at |-> 1, code |-> "ok"]
    /\ \A i \in 1..Len(spec.accounts) : w[i] = Walk(ix.accounts, spec, w[i - 1], spec.accounts[i])
    /\ \A i \in 0..Len(spec.accounts) : w[i] \in [at : Nat, code : Codes]
    /\ ValidateAccounts(ix, spec) =
         w[Len(spec.accounts)].code
         ++ Refuse(w[Len(spec.accounts)].at # Len(ix.accounts) + 1, "account_order_mismatch")

\* A walk has a place and a verdict.
LEMMA WalkType ==
    ASSUME NEW accounts, NEW spec, NEW walk \in [at : Nat, code : Codes], NEW expected
    PROVE  Walk(accounts, spec, walk, expected) \in [at : Nat, code : Codes]
<1>1. \A bad, code : code \in Codes => Refuse(bad, code) \in Codes
  BY DEF Refuse, Codes
<1>2. \A a, b : a \in Codes /\ b \in Codes => a ++ b \in Codes
  BY DEF ++
<1>3. \A actual : CheckAccount(spec, expected, actual) \in Codes
  BY <1>1, <1>2 DEF CheckAccount, Codes
<1> DEFINE present == walk.at <= Len(accounts)
           named == present /\ accounts[walk.at].name = expected.name
           later == \E i \in walk.at + 1..Len(accounts) : accounts[i].name = expected.name
           code == Refuse(~present, "missing_required_account")
                   ++ Refuse(~named, IF later THEN "account_order_mismatch"
                                     ELSE "missing_required_account")
                   ++ CheckAccount(spec, expected, accounts[walk.at])
<1>4. Walk(accounts, spec, walk, expected) =
        IF walk.code # "ok" \/ (expected.optional /\ ~named) THEN walk
        ELSE [at |-> walk.at + 1, code |-> code]
  BY DEF Walk
<1>5. code \in Codes
  <2>1. /\ (IF later THEN "account_order_mismatch" ELSE "missing_required_account") \in Codes
        /\ "missing_required_account" \in Codes
    BY DEF Codes
  <2> HIDE DEF present, named, later
  <2>2. QED
    BY <1>1, <1>2, <1>3, <2>1
<1> HIDE DEF code, named
<1>6. QED
  BY <1>4, <1>5

\* The function in ValidateAccounts exists.
LEMMA WalkIs ==
    ASSUME NEW ix, NEW spec, List(spec.accounts)
    PROVE  \E w : Walked(w, ix, spec)
<1> DEFINE S == [at : Nat, code : Codes]
           n == Len(spec.accounts)
           start == [at |-> 1, code |-> "ok"]
           step == [x \in (1..n) \X S |-> Walk(ix.accounts, spec, x[2], spec.accounts[x[1]])]
           Is(f) == f = [i \in 0..Len(spec.accounts) |->
                            IF i = 0 THEN [at |-> 1, code |-> "ok"]
                            ELSE Walk(ix.accounts, spec, f[i - 1], spec.accounts[i])]
           w == CHOOSE f : Is(f)
<1>1. n \in Nat
  BY ListIs
<1>2. \A walk \in S : \A expected : Walk(ix.accounts, spec, walk, expected) \in S
  BY WalkType
<1>3. start \in S
  BY DEF Codes
<1> HIDE DEF S, n, start
<1>4. PICK g : Unrolls(g, n, S, start, step)
  <2>1. step \in [(1..n) \X S -> S]
    BY <1>2
  <2> HIDE DEF step
  <2>2. Steps(n, S, start, step)
    BY <1>1, <1>3, <2>1 DEF Steps
  <2>3. QED
    BY <2>2, Recursion
<1>5. g \in [0..n -> S] /\ g[0] = start /\ \A i \in 1..n : g[i] = step[<<i, g[i - 1]>>]
  <2> HIDE DEF step
  <2>1. QED
    BY <1>4 DEF Unrolls
<1>6. Is(g)
  <2>1. ASSUME NEW i \in 0..n, i # 0
        PROVE  g[i] = Walk(ix.accounts, spec, g[i - 1], spec.accounts[i])
    <3>1. i - 1 \in 0..n /\ i \in 1..n
      BY <1>1, <2>1
    <3>2. g[i - 1] \in S
      BY <3>1, <1>5
    <3>3. step[<<i, g[i - 1]>>] = Walk(ix.accounts, spec, g[i - 1], spec.accounts[i])
      BY <3>1, <3>2
    <3> HIDE DEF step
    <3>4. QED
      BY <1>5, <3>1, <3>3
  <2>2. g = [i \in 0..n |-> g[i]]
    <3> HIDE DEF step
    <3>1. QED
      BY <1>5
  <2>3. g[0] = start
    <3> HIDE DEF step
    <3>1. QED
      BY <1>5
  <2>4. QED
    BY <2>1, <2>2, <2>3 DEF n, start
<1>7. Is(w)
  <2> HIDE DEF Is
  <2>1. QED
    BY <1>6
<1>8. /\ w[0] = start
      /\ \A i \in 1..n : w[i] = Walk(ix.accounts, spec, w[i - 1], spec.accounts[i])
  <2> HIDE DEF w
  <2>1. w = [i \in 0..n |-> IF i = 0 THEN start
                            ELSE Walk(ix.accounts, spec, w[i - 1], spec.accounts[i])]
    BY <1>7 DEF n, start
  <2>2. 0 \in 0..n /\ \A i \in 1..n : i \in 0..n /\ i # 0
    BY <1>1
  <2> HIDE DEF Is, step
  <2>3. QED
    BY <2>1, <2>2
<1>9. \A i \in 0..n : w[i] \in S
  <2> HIDE DEF w
  <2> DEFINE T == {i \in 0..n : w[i] \in S}
  <2>1. 0 \in T
    BY <1>1, <1>3, <1>8
  <2>2. ASSUME NEW i \in 1..n, i - 1 \in T PROVE i \in T
    BY <1>1, <1>2, <1>8, <2>2
  <2>3. \A i \in 0..n : i \in T
    <3> HIDE DEF T
    <3>1. QED
      BY <1>1, <2>1, <2>2, Upwards
  <2>4. QED
    BY <2>3
<1>10. ValidateAccounts(ix, spec) =
         w[n].code ++ Refuse(w[n].at # Len(ix.accounts) + 1, "account_order_mismatch")
  BY DEF ValidateAccounts, n
<1> HIDE DEF w
<1>11. QED
  BY <1>8, <1>9, <1>10 DEF Walked, n, start, S

\* The verdict is ok up to an account only when it was ok before.
LEMMA WalkStaysOk ==
    ASSUME NEW ix, NEW spec, List(spec.accounts), NEW w, Walked(w, ix, spec),
           w[Len(spec.accounts)].code = "ok"
    PROVE  \A i \in 0..Len(spec.accounts) : w[i].code = "ok"
<1> DEFINE n == Len(spec.accounts)
           T == {i \in 0..n : w[i].code = "ok" => \A j \in 0..i : w[j].code = "ok"}
<1>1. n \in Nat
  BY ListIs
<1>2. \A i \in 1..n : w[i] = Walk(ix.accounts, spec, w[i - 1], spec.accounts[i])
  BY DEF Walked
<1>3. 0 \in T
  BY <1>1
<1>4. ASSUME NEW i \in 1..n, i - 1 \in T PROVE i \in T
  <2>1. w[i - 1].code # "ok" => w[i] = w[i - 1]
    BY <1>2, WalkStep
  <2>2. CASE w[i].code = "ok"
    <3>1. w[i - 1].code = "ok"
      BY <2>1, <2>2
    <3>2. \A j \in 0..i - 1 : w[j].code = "ok"
      BY <1>4, <3>1
    <3>3. \A j \in 0..i : j \in 0..i - 1 \/ j = i
      BY <1>1
    <3>4. QED
      BY <1>1, <2>2, <3>2, <3>3
  <2>3. QED
    BY <1>1, <2>2
<1>5. \A i \in 0..n : i \in T
  <2> HIDE DEF T
  <2>1. QED
    BY <1>1, <1>3, <1>4, Upwards
<1>6. n \in T
  BY <1>1, <1>5
<1>7. QED
  BY <1>6

\* Accounts that are accepted are pinned: the optional accounts over which the walk
\* passed are those that are absent (envelope.ts 346-389).
LEMMA AcceptedArePinned ==
    ASSUME NEW ix, NEW spec, List(ix.accounts), List(spec.accounts),
           ValidateAccounts(ix, spec) = "ok"
    PROVE  AccountsArePinned(spec, ix.accounts)
<1> DEFINE n == Len(spec.accounts)
<1>1. PICK w : Walked(w, ix, spec)
  BY WalkIs
<1> DEFINE absent == {i \in 1..n : w[i].at = w[i - 1].at}
<1>2. n \in Nat /\ DOMAIN spec.accounts = 1..n /\ Len(ix.accounts) \in Nat
  BY ListIs
<1>3. w[n].code = "ok" /\ w[n].at = Len(ix.accounts) + 1
  BY <1>1, Both DEF Walked, Refuse
<1>4. \A i \in 0..n : w[i].code = "ok" /\ w[i].at \in Nat
  BY <1>1, <1>3, WalkStaysOk DEF Walked
<1>5. ASSUME NEW i \in 1..n
      PROVE  LET named == Named(ix.accounts, w[i - 1].at, spec.accounts[i]) IN
             \/ spec.accounts[i].optional /\ w[i].at = w[i - 1].at
             \/ /\ w[i].at = w[i - 1].at + 1
                /\ AccountIsPinned(spec, spec.accounts[i], ix.accounts[w[i - 1].at])
  <2>1. w[i - 1].code = "ok" /\ w[i].code = "ok"
    BY <1>2, <1>4
  <2>2. w[i] = Walk(ix.accounts, spec, w[i - 1], spec.accounts[i])
    BY <1>1 DEF Walked
  <2>3. QED
    BY <2>1, <2>2, WalkStep
<1>6. absent \in SUBSET {i \in DOMAIN spec.accounts : spec.accounts[i].optional}
  BY <1>2, <1>4, <1>5
<1>7. \A i \in (1..n) \ absent :
        /\ w[i].at = w[i - 1].at + 1
        /\ AccountIsPinned(spec, spec.accounts[i], ix.accounts[w[i - 1].at])
  BY <1>5
<1>8. \A i \in (1..n) \cap absent : w[i].at = w[i - 1].at
  OBVIOUS
<1> HIDE DEF absent
<1> DEFINE T == {i \in 0..n : w[i].at = Place(absent, i) + 1}
<1>9. 0 \in T
  BY <1>1, <1>2, PlaceStart DEF Walked
<1>10. ASSUME NEW i \in 1..n, i - 1 \in T PROVE i \in T
  <2>1. /\ Place(absent, i - 1) \in Nat
        /\ i \in absent => Place(absent, i) = Place(absent, i - 1)
        /\ i \notin absent => Place(absent, i) = Place(absent, i - 1) + 1
    BY <1>2, PlaceStep
  <2>2. QED
    BY <1>2, <1>7, <1>8, <1>10, <2>1
<1>11. \A i \in 0..n : i \in T
  <2> HIDE DEF T
  <2>1. QED
    BY <1>2, <1>9, <1>10, Upwards
<1>12. \A i \in 0..n : w[i].at = Place(absent, i) + 1 /\ Place(absent, i) \in Nat
  BY <1>2, <1>11, PlaceIsNat
<1>13. Len(ix.accounts) = Place(absent, n)
  <2>1. w[n].at = Place(absent, n) + 1 /\ Place(absent, n) \in Nat
    BY <1>2, <1>12
  <2>2. QED
    BY <1>2, <1>3, <2>1
<1>14. \A i \in (1..n) \ absent : Place(absent, i) = w[i - 1].at
  BY SMTT(30), <1>2, <1>7, <1>12
<1>15. \A i \in DOMAIN spec.accounts \ absent :
        AccountIsPinned(spec, spec.accounts[i], ix.accounts[Place(absent, i)])
  BY <1>2, <1>7, <1>14
<1>16. QED
  BY <1>6, <1>13, <1>15 DEF AccountsArePinned, Place

\* Pinned accounts are accepted, since the names of a specification differ: the walk
\* cannot take an account for an optional one that is absent (envelope.ts 346-389).
LEMMA PinnedAreAccepted ==
    ASSUME NEW ix, NEW spec, List(ix.accounts), List(spec.accounts),
           \A i, j \in DOMAIN spec.accounts :
              spec.accounts[i].name = spec.accounts[j].name => i = j,
           AccountsArePinned(spec, ix.accounts)
    PROVE  ValidateAccounts(ix, spec) = "ok"
<1> DEFINE n == Len(spec.accounts)
<1>1. PICK w : Walked(w, ix, spec)
  BY WalkIs
<1>2. n \in Nat /\ DOMAIN spec.accounts = 1..n /\ Len(ix.accounts) \in Nat
  BY ListIs
<1>3. PICK absent \in SUBSET {i \in DOMAIN spec.accounts : spec.accounts[i].optional} :
        /\ Len(ix.accounts) = Place(absent, n)
        /\ \A i \in DOMAIN spec.accounts \ absent :
             AccountIsPinned(spec, spec.accounts[i], ix.accounts[Place(absent, i)])
  BY DEF AccountsArePinned, Place
<1> DEFINE T == {i \in 0..n : w[i] = [at |-> Place(absent, i) + 1, code |-> "ok"]}
<1>4. 0 \in T
  BY <1>1, <1>2, PlaceStart DEF Walked
<1>5. ASSUME NEW i \in 1..n, i - 1 \in T PROVE i \in T
  <2> DEFINE at == Place(absent, i - 1) + 1
             expected == spec.accounts[i]
             named == Named(ix.accounts, at, expected)
  <2>1. /\ Place(absent, i - 1) \in Nat
        /\ i \in absent => Place(absent, i) = Place(absent, i - 1)
        /\ i \notin absent => Place(absent, i) = Place(absent, i - 1) + 1
    BY <1>2, PlaceStep
  <2>2. i - 1 \in 0..n /\ i \in 0..n
    BY <1>2
  <2>3. w[i - 1].code = "ok" /\ w[i - 1].at = at /\ w[i - 1] = [at |-> at, code |-> "ok"]
    BY <1>5
  <2>4. w[i] = Walk(ix.accounts, spec, w[i - 1], spec.accounts[i])
    BY <1>1 DEF Walked
  <2>5. CASE i \in absent
    <3>1. expected.optional
      BY <1>3, <2>5
    <3>2. ~named
      <4>1. SUFFICES ASSUME at <= Len(ix.accounts), ix.accounts[at].name = expected.name
                     PROVE  FALSE
        BY DEF Named
      <4>2. at \in 1..Place(absent, n)
        BY <1>3, <2>1, <4>1
      <4>3. PICK j \in (1..n) \ absent : Place(absent, j) = at
        BY <1>2, <4>2, PlaceReached
      <4>4. ix.accounts[at].name = spec.accounts[j].name
        BY <1>2, <1>3, <4>3 DEF AccountIsPinned
      <4>5. i = j
        BY <1>2, <4>1, <4>4
      <4>6. QED
        BY <2>5, <4>3, <4>5
    <3>3. w[i] = w[i - 1]
      BY <2>3, <2>4, <3>1, <3>2, WalkStep
    <3>4. QED
      BY <1>2, <2>1, <2>2, <2>3, <2>5, <3>3
  <2>6. CASE i \notin absent
    <3>1. Place(absent, i) = at
      BY <2>1, <2>6
    <3>2. AccountIsPinned(spec, expected, ix.accounts[at])
      BY <1>2, <1>3, <2>6, <3>1
    <3>3. at <= Len(ix.accounts)
      BY <1>2, <1>3, <3>1, PlaceGrows
    <3>4. named
      BY <3>2, <3>3 DEF Named, AccountIsPinned
    <3>5. w[i] = [at |-> at + 1, code |-> w[i].code] /\ w[i].code = "ok"
      BY <2>3, <2>4, <3>2, <3>4, WalkStep
    <3>6. QED
      BY <1>2, <3>1, <3>5
  <2>7. QED
    BY <2>5, <2>6
<1>6. \A i \in 0..n : i \in T
  <2> HIDE DEF T
  <2>1. QED
    BY <1>2, <1>4, <1>5, Upwards
<1>7. w[n] = [at |-> Len(ix.accounts) + 1, code |-> "ok"]
  BY <1>2, <1>3, <1>6
<1>8. QED
  BY <1>1, <1>7, Both DEF Walked, Refuse

-----------------------------------------------------------------------------
\* Actions, contracts and specifications

\* The names of pinned accounts differ.
LEMMA PinnedNamesDiffer ==
    ASSUME NEW spec, NEW accounts, List(accounts), List(spec.accounts),
           \A i, j \in DOMAIN spec.accounts :
              spec.accounts[i].name = spec.accounts[j].name => i = j,
           AccountsArePinned(spec, accounts)
    PROVE  \A i, j \in 1..Len(accounts) : accounts[i].name = accounts[j].name => i = j
<1> DEFINE n == Len(spec.accounts)
<1>1. n \in Nat /\ DOMAIN spec.accounts = 1..n
  BY ListIs
<1>2. PICK absent \in SUBSET {i \in DOMAIN spec.accounts : spec.accounts[i].optional} :
        /\ Len(accounts) = Place(absent, n)
        /\ \A i \in DOMAIN spec.accounts \ absent :
             AccountIsPinned(spec, spec.accounts[i], accounts[Place(absent, i)])
  BY DEF AccountsArePinned, Place
<1>3. ASSUME NEW k \in 1..Len(accounts)
      PROVE  \E i \in 1..n : Place(absent, i) = k /\ accounts[k].name = spec.accounts[i].name
  <2>1. PICK i \in (1..n) \ absent : Place(absent, i) = k
    BY <1>1, <1>2, PlaceReached
  <2>2. QED
    BY <1>1, <1>2, <2>1 DEF AccountIsPinned
<1>4. QED
  BY SMTT(30), <1>1, <1>3

\* Every action has no hooks or two, and only those with hooks are closed by a delegate.
LEMMA ActionFacts ==
    ASSUME NEW a \in Actions
    PROVE  LET job == ActionDefinitions[a] IN
           /\ job.cpi = <<>> \/ \E b, c : job.cpi = <<b, c>>
           /\ job.primary[2] = "delegated_close_leverage" => Len(job.cpi) = 2
           /\ job.primary \in InstructionKeys
           /\ \A i \in DOMAIN job.cpi : job.cpi[i] \in InstructionKeys
           /\ \A i \in DOMAIN job.cpi :
                job.cpi[i][2] \in {"before_take_profit", "before_stop_loss", "after_close_order"}
<1>1. LET job == ActionDefinitions[a] IN
      /\ job.cpi = <<>> \/ \E b, c : job.cpi = <<b, c>>
      /\ job.primary[2] = "delegated_close_leverage" => Len(job.cpi) = 2
  BY SMTT(60) DEF Actions, ActionDefinitions, Job, DelegatedClose
<1>2. LET job == ActionDefinitions[a] IN
      \A i \in DOMAIN job.cpi :
         job.cpi[i][2] \in {"before_take_profit", "before_stop_loss", "after_close_order"}
  BY SMTT(60) DEF Actions, ActionDefinitions, Job, DelegatedClose
<1>3. QED
  BY <1>1, <1>2 DEF InstructionKeys, ToSet

\* The list of the entries of lists.
LEMMA FlattenIsList ==
    ASSUME NEW seqs, List(seqs), \A i \in 1..Len(seqs) : List(seqs[i])
    PROVE  List(FlattenSeq(seqs))
<1> DEFINE n == Len(seqs)
           S == UNION {ToSet(seqs[i]) : i \in 1..n}
           Is(f) == f = [i \in 1..Len(seqs) |-> IF i = 1 THEN seqs[i] ELSE f[i - 1] \o seqs[i]]
           flatten == CHOOSE f : Is(f)
           step == [x \in (1..n - 1) \X Seq(S) |-> x[2] \o seqs[x[1] + 1]]
<1>1. n \in Nat
  BY ListIs
<1>2. CASE n = 0
  BY <1>2 DEF FlattenSeq
<1>3. CASE n # 0
  <2>1. n \in Nat \ {0} /\ n - 1 \in Nat
    BY <1>1, <1>3
  <2>2. \A i \in 1..n : seqs[i] \in Seq(S)
    <3>1. ASSUME NEW i \in 1..n PROVE seqs[i] \in Seq(S)
      <4>1. ToSet(seqs[i]) \subseteq S /\ seqs[i] \in Seq(ToSet(seqs[i]))
        BY DEF List
      <4> HIDE DEF S
      <4>2. QED
        BY <4>1, SeqMonotonic
    <3>2. QED
      BY <3>1
  <2> HIDE DEF S
  <2>3. \A s, t \in Seq(S) : s \o t \in Seq(S)
    BY ConcatProperties
  <2>4. PICK f : Unrolls(f, n - 1, Seq(S), seqs[1], step)
    <3>1. step \in [(1..n - 1) \X Seq(S) -> Seq(S)]
      <4>1. ASSUME NEW x \in (1..n - 1) \X Seq(S) PROVE x[2] \o seqs[x[1] + 1] \in Seq(S)
        <5>1. x[2] \in Seq(S) /\ x[1] + 1 \in 1..n
          BY <2>1
        <5>2. QED
          BY <2>2, <2>3, <5>1
      <4>2. QED
        BY <4>1
    <3> HIDE DEF step
    <3>2. Steps(n - 1, Seq(S), seqs[1], step)
      BY <2>1, <2>2, <3>1 DEF Steps
    <3>3. QED
      BY <3>2, Recursion
  <2>5. /\ f \in [0..n - 1 -> Seq(S)] /\ f[0] = seqs[1]
        /\ \A i \in 1..n - 1 : f[i] = step[<<i, f[i - 1]>>]
    <3> HIDE DEF step
    <3>1. QED
      BY <2>4 DEF Unrolls
  <2> DEFINE g == [i \in 1..n |-> f[i - 1]]
  <2>6. Is(g)
    <3>1. ASSUME NEW i \in 1..n, i # 1 PROVE g[i] = g[i - 1] \o seqs[i]
      <4>1. /\ i - 1 \in 1..n - 1 /\ i - 1 \in 0..n - 1 /\ i - 1 - 1 \in 0..n - 1
            /\ i - 1 \in 1..n /\ i - 1 + 1 = i
        BY <2>1, <3>1
      <4>2. f[i - 1 - 1] \in Seq(S)
        BY <2>5, <4>1
      <4>3. step[<<i - 1, f[i - 1 - 1]>>] = f[i - 1 - 1] \o seqs[i]
        BY <4>1, <4>2
      <4> HIDE DEF step
      <4>4. f[i - 1] = f[i - 1 - 1] \o seqs[i]
        BY <2>5, <4>1, <4>3
      <4>5. g[i] = f[i - 1] /\ g[i - 1] = f[i - 1 - 1]
        BY <4>1
      <4>6. QED
        BY <4>4, <4>5
    <3>2. g[1] = seqs[1]
      <4> HIDE DEF step
      <4>1. QED
        BY <2>1, <2>5
    <3>3. g = [i \in 1..n |-> g[i]]
      OBVIOUS
    <3> HIDE DEF g
    <3>4. QED
      BY <3>1, <3>2, <3>3
  <2>7. Is(flatten)
    <3> HIDE DEF Is
    <3>1. QED
      BY <2>6
  <2> HIDE DEF flatten
  <2>8. /\ flatten[1] = seqs[1]
        /\ \A i \in 1..n : i # 1 => flatten[i] = flatten[i - 1] \o seqs[i]
    <3>1. \A i \in 1..n : flatten[i] = IF i = 1 THEN seqs[i] ELSE flatten[i - 1] \o seqs[i]
      BY <2>7
    <3>2. 1 \in 1..n
      BY <2>1
    <3>3. flatten[1] = seqs[1]
      BY <3>1, <3>2
    <3>4. QED
      BY <3>1, <3>3
  <2> DEFINE T == {i \in 0..n - 1 : flatten[i + 1] \in Seq(S)}
  <2>9. \A i \in 0..n - 1 : i \in T
    <3>1. 0 \in T
      BY <2>1, <2>2, <2>8
    <3>2. ASSUME NEW i \in 1..n - 1, i - 1 \in T PROVE i \in T
      <4>1. flatten[i] \in Seq(S)
        BY <3>2, <2>1
      <4>2. i + 1 \in 1..n /\ i + 1 # 1 /\ i + 1 - 1 = i /\ i \in 0..n - 1
        BY <2>1
      <4> HIDE DEF T
      <4>3. \A j \in 1..n : j = i + 1 => flatten[j] = flatten[i] \o seqs[j]
        <5>1. ASSUME NEW j \in 1..n, j = i + 1 PROVE flatten[j] = flatten[i] \o seqs[j]
          <6>1. j # 1 /\ j - 1 = i
            BY <4>2, <5>1
          <6>2. QED
            BY <2>8, <6>1
        <5>2. QED
          BY <5>1
      <4>4. flatten[i + 1] \in Seq(S)
        BY <2>2, <2>3, <4>1, <4>2, <4>3
      <4>5. QED
        BY <4>2, <4>4 DEF T
    <3> HIDE DEF T
    <3>3. QED
      BY <2>1, <3>1, <3>2, Upwards
  <2>10. flatten[n] \in Seq(S)
    <3>1. n - 1 \in 0..n - 1 /\ n - 1 + 1 = n
      BY <2>1
    <3>2. flatten[n - 1 + 1] \in Seq(S)
      BY <2>9, <3>1
    <3>3. QED
      BY <3>1, <3>2
  <2>11. FlattenSeq(seqs) = flatten[n]
    BY <1>3 DEF FlattenSeq, flatten
  <2>12. QED
    BY <2>10, <2>11, InSeq
<1>4. QED
  BY <1>2, <1>3

\* The accounts of an instruction of the IDLs, groups opened.
Flat(l, k) == FlattenAccounts(IdlsOf[l][k[1]].instructions[k[2]].accounts)

\* They are a list, short enough to be counted.
LEMMA FlatIsList ==
    ASSUME NEW l \in Made, NEW k \in InstructionKeys
    PROVE  List(Flat(l, k)) /\ Len(Flat(l, k)) \in Nat /\ Len(Flat(l, k)) < Radix * Radix
<1> DEFINE accounts == IdlsOf[l][k[1]].instructions[k[2]].accounts
           seqs == [i \in DOMAIN accounts |->
                       IF accounts[i].accounts = <<>> THEN <<accounts[i]>> ELSE accounts[i].accounts]
<1>1. /\ List(accounts) /\ \A a \in ToSet(accounts) : List(a.accounts)
      /\ Len(FlattenAccounts(accounts)) < Radix * Radix
  BY IdlAssumption DEF List
<1> HIDE DEF accounts
<1>2. List(seqs) /\ DOMAIN accounts = 1..Len(accounts) /\ Len(seqs) = Len(accounts)
  <2>1. DOMAIN accounts = 1..Len(accounts) /\ Len(accounts) \in Nat
    BY <1>1, ListIs
  <2>2. seqs = [i \in 1..Len(accounts) |-> seqs[i]]
    BY <2>1
  <2> HIDE DEF seqs
  <2>3. QED
    BY <2>1, <2>2, FunctionIsList
<1>3. \A i \in 1..Len(seqs) : List(seqs[i])
  <2>1. ASSUME NEW i \in 1..Len(accounts) PROVE List(seqs[i])
    <3>1. List(<<accounts[i]>>)
      BY Shorts
    <3>2. List(accounts[i].accounts)
      BY <1>1, <1>2 DEF ToSet
    <3>3. QED
      BY <1>2, <3>1, <3>2
  <2> HIDE DEF seqs
  <2>2. QED
    BY <1>2, <2>1
<1>4. List(FlattenAccounts(accounts))
  <2>1. FlattenAccounts(accounts) = FlattenSeq(seqs)
    BY DEF FlattenAccounts
  <2> HIDE DEF seqs
  <2>2. QED
    BY <1>2, <1>3, <2>1, FlattenIsList
<1>5. QED
  BY <1>1, <1>4, ListIs DEF Flat, accounts

\* What a contract that was made holds.
LEMMA ContractIs ==
    ASSUME NEW l \in Made
    PROVE  LET c == Contracts[l] IN
           /\ c.revision = Locks[l].revision /\ c.actions = ActionDefinitions
           /\ c.programs = [i \in DOMAIN Locks[l].programs |->
                [name |-> Locks[l].programs[i].name, id |-> Locks[l].programs[i].id,
                 idl |-> Locks[l].programs[i].idl]]
           /\ DOMAIN c.instructions = InstructionKeys
           /\ \A k \in InstructionKeys :
                LET spec == c.instructions[k]
                    flat == Flat(l, k)
                IN  /\ spec.name = k[2] /\ spec.discriminator = AnchorHash[k[2]]
                    /\ spec.accounts = [i \in DOMAIN flat |-> AccountSpecification(flat[i])]
                    /\ Cardinality({flat[i].name : i \in DOMAIN flat}) = Len(flat)
<1> DEFINE lock == Locks[l]
           idls == IdlsOf[l]
           pinned(p) == CHOOSE q \in ToSet(lock.programs) : q.name = p
           flat(k) == FlattenAccounts(idls[k[1]].instructions[k[2]].accounts)
           sound(k) == /\ k[2] \in DOMAIN idls[k[1]].instructions
                       /\ idls[k[1]].instructions[k[2]].discriminator = AnchorHash[k[2]]
                       /\ Cardinality({flat(k)[i].name : i \in DOMAIN flat(k)}) = Len(flat(k))
           checked == /\ \A q \in ToSet(lock.programs) : idls[q.name].address = q.id
                      /\ \A k \in InstructionKeys :
                          (\E q \in ToSet(lock.programs) : q.name = k[1]) /\ sound(k)
           programs == [i \in DOMAIN lock.programs |->
                   [name |-> lock.programs[i].name, id |-> lock.programs[i].id,
                    idl |-> lock.programs[i].idl]]
           instructions == [k \in InstructionKeys |->
                   [program |-> k[1], id |-> pinned(k[1]).id, name |-> k[2],
                    discriminator |-> idls[k[1]].instructions[k[2]].discriminator,
                    accounts |-> [i \in DOMAIN flat(k) |-> AccountSpecification(flat(k)[i])]]]
           made == [schema |-> 1, revision |-> lock.revision, programs |-> programs,
                    actions |-> ActionDefinitions, instructions |-> instructions]
<1>1. BuildContract(lock, idls) = IF checked THEN {made} ELSE {}
  BY DEF BuildContract
<1>2. BuildContract(lock, idls) # {}
  BY GateAssumption
<1>3. \A k \in InstructionKeys :
        /\ idls[k[1]].instructions[k[2]].discriminator = AnchorHash[k[2]]
        /\ Cardinality({flat(k)[i].name : i \in DOMAIN flat(k)}) = Len(flat(k))
  <2>1. checked
    <3> HIDE DEF checked, made
    <3>1. QED
      BY <1>1, <1>2
  <2>2. QED
    BY <2>1
<1>4. Contracts[l] = made
  <2>1. Contracts[l] = CHOOSE c \in BuildContract(lock, idls) : TRUE
    BY DEF Contracts
  <2> HIDE DEF checked, made, lock, idls
  <2>2. QED
    BY <1>1, <1>2, <2>1
<1>5. /\ made.revision = lock.revision /\ made.actions = ActionDefinitions
      /\ made.programs = programs /\ made.instructions = instructions
  OBVIOUS
<1>6. \A k \in InstructionKeys :
        /\ instructions[k].name = k[2]
        /\ instructions[k].discriminator = idls[k[1]].instructions[k[2]].discriminator
        /\ instructions[k].accounts = [i \in DOMAIN flat(k) |-> AccountSpecification(flat(k)[i])]
  OBVIOUS
<1>7. DOMAIN instructions = InstructionKeys
  OBVIOUS
<1> HIDE DEF made, instructions
<1>8. QED
  BY ZenonT(30), <1>3, <1>4, <1>5, <1>6, <1>7 DEF Flat

\* A list whose values are as many as its entries has each of them once.
LEMMA AllDiffer ==
    ASSUME NEW n \in Nat, NEW f, NEW T, f \in [1..n -> T],
           \A t \in T : \E i \in 1..n : f[i] = t, Cardinality(T) = n
    PROVE  \A i, j \in 1..n : f[i] = f[j] => i = j
<1>1. f \in Surjection(1..n, T)
  BY DEF Surjection
<1>2. IsFiniteSet(1..n) /\ Cardinality(1..n) = n
  BY FS_Interval
<1>3. f \in Injection(1..n, T)
  BY <1>1, <1>2, FS_Surjection
<1>4. QED
  BY <1>3 DEF Injection, IsInjective

\* What the specification of an instruction in a contract holds.
LEMMA SpecificationIs ==
    ASSUME NEW l \in Made, NEW k \in InstructionKeys
    PROVE  LET spec == Contracts[l].instructions[k] IN
           /\ List(spec.accounts) /\ Len(spec.accounts) < Radix * Radix
           /\ \A i, j \in DOMAIN spec.accounts :
                spec.accounts[i].name = spec.accounts[j].name => i = j
           /\ List(spec.discriminator) /\ Len(spec.discriminator) = 8
           /\ spec.name = k[2]
<1> DEFINE spec == Contracts[l].instructions[k]
           flat == Flat(l, k)
           n == Len(flat)
<1>1. /\ spec.accounts = [i \in DOMAIN flat |-> AccountSpecification(flat[i])]
      /\ Cardinality({flat[i].name : i \in DOMAIN flat}) = Len(flat)
      /\ spec.discriminator = AnchorHash[k[2]] /\ spec.name = k[2]
  BY ContractIs
<1>2. List(flat) /\ Len(flat) \in Nat /\ Len(flat) < Radix * Radix /\ DOMAIN flat = 1..n
  BY FlatIsList, ListIs
<1> HIDE DEF spec, flat
<1>3. List(spec.accounts) /\ Len(spec.accounts) = n
  <2>1. spec.accounts = [i \in 1..n |-> spec.accounts[i]]
    BY <1>1, <1>2
  <2>2. QED
    BY <1>2, <2>1, FunctionIsList
<1>4. ASSUME NEW i \in 1..n, NEW j \in 1..n, spec.accounts[i].name = spec.accounts[j].name
      PROVE  i = j
  <2> DEFINE f == [m \in 1..n |-> flat[m].name]
             T == {flat[m].name : m \in DOMAIN flat}
  <2>1. f \in [1..n -> T] /\ \A t \in T : \E m \in 1..n : f[m] = t
    BY <1>2
  <2>2. f[i] = spec.accounts[i].name /\ f[j] = spec.accounts[j].name
    <3>1. \A a : AccountSpecification(a).name = a.name
      BY DEF AccountSpecification
    <3>2. /\ spec.accounts[i] = AccountSpecification(flat[i])
          /\ spec.accounts[j] = AccountSpecification(flat[j])
      BY <1>1, <1>2
    <3>3. f[i] = flat[i].name /\ f[j] = flat[j].name
      OBVIOUS
    <3>4. QED
      BY <3>1, <3>2, <3>3
  <2>3. Cardinality(T) = n
    BY <1>1
  <2> HIDE DEF f, T, n
  <2>4. n \in Nat
    BY <1>2 DEF n
  <2>5. QED
    BY <1>4, <2>1, <2>2, <2>3, <2>4, AllDiffer
<1>5. AnchorHash[k[2]] \in [1..8 -> Byte]
  BY HashAssumption
<1>6. AnchorHash[k[2]] = [i \in 1..8 |-> AnchorHash[k[2]][i]]
  BY <1>5
<1>7. List(spec.discriminator) /\ Len(spec.discriminator) = 8
  BY <1>1, <1>6, FunctionIsList
<1>8. DOMAIN spec.accounts = 1..n
  BY <1>3, ListIs
<1>9. QED
  BY <1>1, <1>2, <1>3, <1>4, <1>7, <1>8 DEF spec

-----------------------------------------------------------------------------
\* The verdict on one instruction

\* Data starts with a discriminator if its first eight bytes are the discriminator.
LEMMA PrefixIs ==
    ASSUME NEW s, NEW t, List(s), List(t), Len(s) = 8, Len(t) >= 8
    PROVE  IsPrefix(s, t) <=> SubSeq(t, 1, 8) = s
<1>1. SubSeq(s, 1, 8) = s
  <2>1. /\ List(SubSeq(s, 1, 8)) /\ Len(SubSeq(s, 1, 8)) = 8
        /\ \A i \in 1..8 : SubSeq(s, 1, 8)[i] = s[i]
    BY Slice
  <2>2. QED
    BY <2>1, ListsEqual
<1>2. Len(t) \in Nat
  BY ListIs
<1>3. QED
  BY <1>1, <1>2 DEF IsPrefix

\* The verdict on one instruction is ok exactly for the one that the contract pins.
LEMMA InstructionVerdict ==
    ASSUME NEW l \in Made, NEW k \in InstructionKeys, NEW ix, List(ix.accounts), List(ix.data)
    PROVE  (ValidateExpectedInstruction(Contracts[l], ix, k) = "ok")
           <=> InstructionIsPinned(Contracts[l], ix, k)
<1> DEFINE c == Contracts[l]
           spec == c.instructions[k]
<1>1. /\ List(spec.accounts) /\ List(spec.discriminator) /\ Len(spec.discriminator) = 8
      /\ \A i, j \in DOMAIN spec.accounts :
           spec.accounts[i].name = spec.accounts[j].name => i = j
      /\ k \in DOMAIN c.instructions
  BY SpecificationIs, ContractIs
<1> HIDE DEF c
<1>2. (ValidateAccounts(ix, spec) = "ok") <=> AccountsArePinned(spec, ix.accounts)
  <2> HIDE DEF spec
  <2>1. QED
    BY <1>1, AcceptedArePinned, PinnedAreAccepted
<1>3. IsHex(ix.data) => (IsPrefix(spec.discriminator, ix.data) <=> SubSeq(ix.data, 1, 8) = spec.discriminator)
  <2> HIDE DEF spec
  <2>1. QED
    BY <1>1, PrefixIs DEF IsHex
<1>4. (ValidateExpectedInstruction(c, ix, k) = "ok") <=>
        /\ ix.key = k /\ ix.program = spec.program /\ ix.name = spec.name
        /\ ix.id = spec.id /\ IsPubkey(ix.id) /\ IsHex(ix.data)
        /\ IsPrefix(spec.discriminator, ix.data)
        /\ ValidateAccounts(ix, spec) = "ok"
        /\ \A a \in ToSet(ix.remaining) : IsPubkey(a.address)
  <2> DEFINE r1 == Refuse(ix.key # k, "instruction_mismatch")
             r2 == Refuse(k \notin DOMAIN c.instructions, "instruction_mismatch")
             r3 == Refuse(ix.program # spec.program \/ ix.name # spec.name, "instruction_mismatch")
             r4 == Refuse(ix.id # spec.id, "program_id_mismatch")
             r5 == Refuse(~IsPubkey(ix.id), "invalid_pubkey")
             r6 == Refuse(~IsHex(ix.data), "invalid_data_hex")
             r7 == Refuse(~IsPrefix(spec.discriminator, ix.data), "discriminator_mismatch")
             r8 == Refuse(\E a \in ToSet(ix.remaining) : ~IsPubkey(a.address), "invalid_pubkey")
  <2>1. ValidateExpectedInstruction(c, ix, k) =
          r1 ++ r2 ++ r3 ++ r4 ++ r5 ++ r6 ++ r7 ++ ValidateAccounts(ix, spec) ++ r8
    BY DEF ValidateExpectedInstruction
  <2>2. /\ (r1 = "ok") <=> ix.key = k
        /\ r2 = "ok"
        /\ (r3 = "ok") <=> (ix.program = spec.program /\ ix.name = spec.name)
        /\ (r4 = "ok") <=> ix.id = spec.id
        /\ (r5 = "ok") <=> IsPubkey(ix.id)
        /\ (r6 = "ok") <=> IsHex(ix.data)
        /\ (r7 = "ok") <=> IsPrefix(spec.discriminator, ix.data)
        /\ (r8 = "ok") <=> \A a \in ToSet(ix.remaining) : IsPubkey(a.address)
    <3> HIDE DEF spec
    <3>1. QED
      BY <1>1 DEF Refuse
  <2> HIDE DEF r1, r2, r3, r4, r5, r6, r7, r8, spec
  <2>3. QED
    BY <2>1, <2>2, Both
<1>5. InstructionIsPinned(c, ix, k) <=>
        /\ ix.key = k /\ ix.program = spec.program /\ ix.name = spec.name
        /\ ix.id = spec.id /\ IsPubkey(ix.id) /\ IsHex(ix.data)
        /\ SubSeq(ix.data, 1, 8) = spec.discriminator
        /\ AccountsArePinned(spec, ix.accounts)
        /\ \A a \in ToSet(ix.remaining) : IsPubkey(a.address)
  BY DEF InstructionIsPinned
<1>6. QED
  BY <1>2, <1>3, <1>4, <1>5 DEF c

-----------------------------------------------------------------------------
\* Vectors of bytes, written and read

\* Two parts of a list that follow each other are one part.
LEMMA Adjacent ==
    ASSUME NEW s, List(s), NEW m \in Nat \ {0}, NEW k \in Nat, NEW n \in Nat,
           m - 1 <= k, k <= n, n <= Len(s)
    PROVE  SubSeq(s, m, k) \o SubSeq(s, k + 1, n) = SubSeq(s, m, n)
<1>1. Len(s) \in Nat
  BY ListIs
<1>2. m \in 1..Len(s) + 1 /\ k \in m - 1..Len(s) /\ n \in k..Len(s)
  BY <1>1
<1>3. QED
  BY <1>2, ConcatAdjacentSubSeq DEF List

\* A part of a list by its place and length.
LEMMA SliceAt ==
    ASSUME NEW s, NEW at \in Nat, NEW n \in Nat, NEW first, NEW last,
           first = at + 1, last = at + n
    PROVE  /\ List(SubSeq(s, first, last)) /\ Len(SubSeq(s, first, last)) = n
           /\ \A i \in 1..n : SubSeq(s, first, last)[i] = s[at + i]
<1>1. first \in Int /\ last \in Int /\ last - first + 1 = n
  OBVIOUS
<1> DEFINE slice == SubSeq(s, first, last)
<1>2. /\ List(slice) /\ Len(slice) = IF first <= last THEN last - first + 1 ELSE 0
      /\ \A i \in 1..last - first + 1 : slice[i] = s[first + i - 1]
  BY <1>1, Slice
<1>3. \A i \in 1..n : first + i - 1 = at + i
  OBVIOUS
<1> HIDE DEF slice
<1>4. \A i \in 1..n : slice[i] = s[at + i]
  BY <1>1, <1>2, <1>3
<1>5. Len(slice) = n
  BY <1>1, <1>2
<1>6. QED
  BY <1>2, <1>4, <1>5 DEF slice

\* The whole of a list.
LEMMA Whole ==
    ASSUME NEW s, List(s)
    PROVE  SubSeq(s, 1, Len(s)) = s
BY SubSeqFull DEF List

\* A vector has four bytes more than it carries.
LEMMA VectorIs ==
    ASSUME NEW bytes, List(bytes)
    PROVE  List(Vector(bytes)) /\ Len(Vector(bytes)) = 4 + Len(bytes)
BY LeList, Concat DEF Vector, U32

\* A vector that was read is written at its place.
LEMMA VectorRead ==
    ASSUME NEW data, List(data), \A i \in DOMAIN data : data[i] \in Byte, NEW at \in Nat,
           NEW v \in ReadVector(data, at)
    PROVE  /\ List(v.bytes) /\ v.next \in Nat /\ at + 4 <= v.next /\ v.next <= Len(data)
           /\ Vector(v.bytes) = SubSeq(data, at + 1, v.next)
<1> DEFINE size == SubSeq(data, at + 1, at + 4)
           length == LeValue(size)
           bytes == SubSeq(data, at + 5, at + 4 + length)
<1>1. /\ at + 4 <= Len(data) /\ at + 4 + length <= Len(data)
      /\ v = [bytes |-> bytes, next |-> at + 4 + length]
  <2>1. Len(data) \in Nat
    BY ListIs
  <2>2. ~(at + 4 > Len(data)) /\ ~(at + 4 + length > Len(data)) /\ v = [bytes |-> bytes, next |-> at + 4 + length]
    BY DEF ReadVector
  <2>3. List(size) /\ Len(size) = 4 /\ \A i \in 1..4 : size[i] \in Byte
    <3>1. List(size) /\ Len(size) = 4 /\ \A i \in 1..4 : size[i] = data[at + i]
      BY Slice
    <3>2. \A i \in 1..4 : at + i \in DOMAIN data
      BY <2>1, <2>2, ListIs
    <3>3. QED
      BY <3>1, <3>2
  <2> HIDE DEF size
  <2>4. length \in Nat
    BY <2>3, WritesU32
  <2>5. QED
    BY <2>1, <2>2, <2>4
<1>2. Len(data) \in Nat /\ DOMAIN data = 1..Len(data)
  BY ListIs
<1>3. List(size) /\ Len(size) = 4 /\ \A i \in 1..4 : size[i] \in Byte
  <2>1. List(size) /\ Len(size) = 4 /\ \A i \in 1..4 : size[i] = data[at + i]
    BY Slice
  <2>2. \A i \in 1..4 : at + i \in DOMAIN data
    BY <1>1, <1>2
  <2>3. QED
    BY <2>1, <2>2
<1>4. length \in Nat /\ U32(length) = size
  <2> HIDE DEF size
  <2>1. QED
    BY <1>3, WritesU32
<1> HIDE DEF length
<1>5. List(bytes) /\ Len(bytes) = length
  BY <1>4, Slice
<1>6. Vector(bytes) = size \o bytes
  BY <1>4, <1>5 DEF Vector
<1>7. size \o bytes = SubSeq(data, at + 1, at + 4 + length)
  <2>1. at + 4 + 1 = at + 5
    OBVIOUS
  <2>2. SubSeq(data, at + 1, at + 4) \o SubSeq(data, at + 4 + 1, at + 4 + length)
          = SubSeq(data, at + 1, at + 4 + length)
    BY <1>1, <1>2, <1>4, Adjacent
  <2>3. QED
    BY <2>1, <2>2
<1>8. QED
  BY SMTT(30), <1>1, <1>2, <1>4, <1>5, <1>6, <1>7

\* A vector that was written is read at its place.
LEMMA VectorWritten ==
    ASSUME NEW data, List(data), NEW at \in Nat, NEW bytes, List(bytes),
           Len(bytes) < Radix * (Radix * (Radix * Radix)),
           at + 4 + Len(bytes) <= Len(data),
           SubSeq(data, at + 1, at + 4 + Len(bytes)) = Vector(bytes)
    PROVE  ReadVector(data, at) = {[bytes |-> bytes, next |-> at + 4 + Len(bytes)]}
<1> DEFINE n == Len(bytes)
           whole == SubSeq(data, at + 1, at + 4 + n)
<1>1. n \in Nat /\ Len(data) \in Nat
  BY ListIs
<1>2. List(U32(n)) /\ Len(U32(n)) = 4 /\ LeValue(U32(n)) = n
  BY <1>1, LeList, ReadsU32 DEF U32
<1>3. \A i \in 1..4 + n : data[at + i] = (U32(n) \o bytes)[i]
  <2>1. \A i \in 1..4 + n : whole[i] = data[at + i]
    <3>1. 4 + n \in Nat /\ at + 4 + n = at + (4 + n)
      BY <1>1
    <3>2. QED
      BY <3>1, SliceAt
  <2>2. whole = U32(n) \o bytes
    BY DEF Vector
  <2> HIDE DEF whole
  <2>3. QED
    BY <2>1, <2>2
<1>4. \A i \in 1..4 + n : data[at + i] = IF i <= 4 THEN U32(n)[i] ELSE bytes[i - 4]
  <2>1. \A i \in 1..4 + n : (U32(n) \o bytes)[i] = IF i <= 4 THEN U32(n)[i] ELSE bytes[i - 4]
    <3> HIDE DEF n
    <3>1. \A i \in 1..Len(U32(n)) + Len(bytes) :
            (U32(n) \o bytes)[i] = IF i <= Len(U32(n)) THEN U32(n)[i] ELSE bytes[i - Len(U32(n))]
      BY <1>2, Concat
    <3>2. Len(bytes) = n
      BY DEF n
    <3>3. QED
      BY <1>2, <3>1, <3>2
  <2> HIDE DEF n
  <2>2. ASSUME NEW i \in 1..4 + n
        PROVE  data[at + i] = IF i <= 4 THEN U32(n)[i] ELSE bytes[i - 4]
    <3>1. data[at + i] = (U32(n) \o bytes)[i]
      BY <1>3
    <3>2. (U32(n) \o bytes)[i] = IF i <= 4 THEN U32(n)[i] ELSE bytes[i - 4]
      BY <2>1
    <3>3. QED
      BY <3>1, <3>2
  <2>3. QED
    BY <2>2
<1>5. SubSeq(data, at + 1, at + 4) = U32(n)
  <2> DEFINE size == SubSeq(data, at + 1, at + 4)
  <2>1. List(size) /\ Len(size) = 4 /\ \A i \in 1..4 : size[i] = data[at + i]
    BY Slice
  <2>2. \A i \in 1..4 : data[at + i] = U32(n)[i]
    BY <1>1, <1>4
  <2> HIDE DEF size
  <2>3. size = U32(n)
    BY <1>2, <2>1, <2>2, ListsEqual
  <2>4. QED
    BY <2>3 DEF size
<1>6. SubSeq(data, at + 5, at + 4 + n) = bytes
  <2> DEFINE rest == SubSeq(data, at + 5, at + 4 + n)
  <2>1. List(rest) /\ Len(rest) = n /\ \A i \in 1..n : rest[i] = data[at + (4 + i)]
    <3> DEFINE size == (at + 4 + n) - (at + 5) + 1
    <3>1. /\ List(rest)
          /\ Len(rest) = IF at + 5 <= at + 4 + n THEN size ELSE 0
          /\ \A i \in 1..size : rest[i] = data[at + 5 + i - 1]
      BY <1>1, Slice
    <3>2. size = n /\ (~(at + 5 <= at + 4 + n) => n = 0)
      BY <1>1
    <3>3. \A i \in 1..n : at + 5 + i - 1 = at + (4 + i)
      BY <1>1
    <3> HIDE DEF rest, size, n
    <3>4. Len(rest) = n
      BY <3>1, <3>2
    <3>5. QED
      BY <3>1, <3>2, <3>3, <3>4
  <2>2. \A i \in 1..n : 4 + i \in 1..4 + n /\ ~(4 + i <= 4) /\ (4 + i) - 4 = i
    BY <1>1
  <2>3. \A i \in 1..n : data[at + (4 + i)] = bytes[i]
    BY <1>4, <2>2
  <2> HIDE DEF rest
  <2>4. rest = bytes
    BY <2>1, <2>3, ListsEqual
  <2>5. QED
    BY <2>4 DEF rest
<1>7. ~(at + 4 > Len(data)) /\ ~(at + 4 + n > Len(data))
  BY <1>1
<1>8. QED
  BY <1>2, <1>5, <1>6, <1>7 DEF ReadVector

-----------------------------------------------------------------------------
\* The payload of a delegated close

\* A part of a concatenation is found at its place.
LEMMA Piece ==
    ASSUME NEW p, NEW q, NEW r, List(p), List(q), List(r)
    PROVE  SubSeq((p \o q) \o r, Len(p) + 1, Len(p) + Len(q)) = q
<1> DEFINE s == (p \o q) \o r
           m == Len(p)
           n == Len(q)
           slice == SubSeq(s, m + 1, m + n)
<1>1. m \in Nat /\ n \in Nat /\ Len(r) \in Nat
  BY ListIs
<1>2. /\ List(p \o q) /\ Len(p \o q) = m + n
      /\ \A i \in 1..m + n : (p \o q)[i] = IF i <= m THEN p[i] ELSE q[i - m]
  BY Concat
<1>3. \A i \in 1..m + n + Len(r) : s[i] = IF i <= m + n THEN (p \o q)[i] ELSE r[i - (m + n)]
  BY <1>2, Concat
<1> HIDE DEF s
<1>4. /\ List(slice)
      /\ Len(slice) = IF m + 1 <= m + n THEN (m + n) - (m + 1) + 1 ELSE 0
      /\ \A i \in 1..(m + n) - (m + 1) + 1 : slice[i] = s[(m + 1) + i - 1]
  BY <1>1, Slice
<1> HIDE DEF slice
<1>5. Len(slice) = n
  BY <1>1, <1>4
<1>6. ASSUME NEW i \in 1..n PROVE slice[i] = q[i]
  <2>1. slice[i] = s[m + i]
    <3>1. i \in 1..(m + n) - (m + 1) + 1 /\ (m + 1) + i - 1 = m + i
      BY <1>1
    <3> HIDE DEF m, n
    <3>2. slice[i] = s[(m + 1) + i - 1]
      BY <1>4, <3>1
    <3>3. QED
      BY <3>1, <3>2
  <2>2. s[m + i] = (p \o q)[m + i]
    <3>1. m + i \in 1..m + n + Len(r) /\ m + i <= m + n
      BY <1>1
    <3>2. QED
      BY <1>3, <3>1
  <2>3. (p \o q)[m + i] = q[i]
    <3>1. m + i \in 1..m + n /\ ~(m + i <= m) /\ (m + i) - m = i
      BY <1>1
    <3>2. (p \o q)[m + i] = q[(m + i) - m]
      BY <1>2, <3>1
    <3>3. QED
      BY <3>1, <3>2
  <2>4. QED
    BY <2>1, <2>2, <2>3
<1>7. slice = q
  BY <1>4, <1>5, <1>6, ListsEqual
<1>8. QED
  BY <1>7 DEF slice, s

\* Concatenation is associative.
LEMMA Associate ==
    ASSUME NEW p, NEW q, NEW r, List(p), List(q), List(r)
    PROVE  (p \o q) \o r = p \o (q \o r)
<1> DEFINE S == ToSet(p) \cup ToSet(q) \cup ToSet(r)
<1>1. p \in Seq(S) /\ q \in Seq(S) /\ r \in Seq(S)
  <2>1. ToSet(p) \subseteq S /\ ToSet(q) \subseteq S /\ ToSet(r) \subseteq S
    OBVIOUS
  <2> HIDE DEF S
  <2>2. QED
    BY <2>1, SeqMonotonic DEF List
<1> HIDE DEF S
<1>2. QED
  BY <1>1, ConcatAssociative

\* A start and the part after it are a longer start.
LEMMA Join ==
    ASSUME NEW s, List(s), NEW k \in Nat, NEW n \in Nat, k <= n, n <= Len(s), NEW j \in Nat, j = k + 1
    PROVE  SubSeq(s, 1, k) \o SubSeq(s, j, n) = SubSeq(s, 1, n)
BY Adjacent

\* The parts of a concatenation of four.
Laid(s, h, p, q, r) ==
    LET x == Len(h) + Len(p)
        y == x + Len(q)
    IN  /\ Len(s) = y + Len(r)
        /\ SubSeq(s, Len(h) + 1, x) = p
        /\ SubSeq(s, x + 1, y) = q
        /\ SubSeq(s, y + 1, y + Len(r)) = r

\* They are found at their places.
LEMMA Layout ==
    ASSUME NEW h, NEW p, NEW q, NEW r, List(h), List(p), List(q), List(r)
    PROVE  Laid(((h \o p) \o q) \o r, h, p, q, r)
<1> DEFINE hp == h \o p
           hpq == hp \o q
           qr == q \o r
           s == hpq \o r
           none == <<>>
<1>1. List(hp) /\ Len(hp) = Len(h) + Len(p)
  BY Concat
<1>2. List(qr)
  BY Concat
<1>3. s = hp \o qr
  <2>1. List(hp)
    BY <1>1
  <2> HIDE DEF hp
  <2>2. (hp \o q) \o r = hp \o (q \o r)
    BY SMTT(30), <2>1, Associate
  <2>3. QED
    BY <2>2
<1>4. SubSeq(hp \o qr, Len(h) + 1, Len(h) + Len(p)) = p
  <2> HIDE DEF qr
  <2>1. QED
    BY <1>2, Piece
<1> HIDE DEF hp
<1>5. List(hpq) /\ Len(hpq) = Len(hp) + Len(q)
  BY <1>1, Concat
<1>6. SubSeq(s, Len(hp) + 1, Len(hp) + Len(q)) = q
  BY <1>1, Piece
<1> HIDE DEF hpq
<1>7. List(s) /\ Len(s) = Len(hpq) + Len(r)
  BY <1>5, Concat
<1>8. SubSeq(s \o none, Len(hpq) + 1, Len(hpq) + Len(r)) = r
  <2>1. List(none)
    BY Shorts
  <2> HIDE DEF none
  <2>2. QED
    BY <1>5, <2>1, Piece
<1>9. s \o none = s
  <2>1. s \in Seq(ToSet(s))
    BY <1>7 DEF List
  <2> HIDE DEF s
  <2>2. QED
    BY <2>1, ConcatEmptySeq
<1> HIDE DEF qr, s
<1>10. QED
  BY <1>1, <1>3, <1>4, <1>5, <1>6, <1>7, <1>8, <1>9 DEF hp, hpq, s, Laid

\* The payload that the data of a delegated close carries.
Carried(b, a, c) == [before |-> b, after |-> a, count |-> c]

\* What is decoded was written.
LEMMA DecodedIsWritten ==
    ASSUME NEW data, List(data), \A i \in DOMAIN data : data[i] \in Byte,
           NEW p \in DecodeDelegated(data)
    PROVE  data = SubSeq(data, 1, 19) \o Vector(p.before) \o Vector(p.after) \o U16(p.count)
<1>1. Len(data) \in Nat /\ DOMAIN data = 1..Len(data)
  BY ListIs
<1>2. PICK before \in ReadVector(data, 19) :
        \E after \in {v \in ReadVector(data, before.next) : v.next + 2 = Len(data)} :
           p = [before |-> before.bytes, after |-> after.bytes,
                count |-> LeValue(SubSeq(data, after.next + 1, after.next + 2))]
  BY DEF DecodeDelegated
<1>2a. PICK after \in {v \in ReadVector(data, before.next) : v.next + 2 = Len(data)} :
        p = [before |-> before.bytes, after |-> after.bytes,
             count |-> LeValue(SubSeq(data, after.next + 1, after.next + 2))]
  BY <1>2
<1>3. /\ before.next \in Nat /\ 19 + 4 <= before.next /\ before.next <= Len(data)
      /\ Vector(before.bytes) = SubSeq(data, 19 + 1, before.next)
  BY VectorRead
<1>4. /\ after.next \in Nat /\ before.next + 4 <= after.next /\ after.next <= Len(data)
      /\ Vector(after.bytes) = SubSeq(data, before.next + 1, after.next)
  BY <1>3, VectorRead
<1>5. PICK k \in Nat : k = before.next
  BY <1>3
<1>6. PICK m \in Nat : m = after.next
  BY <1>4
<1>7. /\ 19 <= k /\ k <= m /\ m + 2 = Len(data)
      /\ Vector(before.bytes) = SubSeq(data, 19 + 1, k)
      /\ Vector(after.bytes) = SubSeq(data, k + 1, m)
      /\ p = Carried(before.bytes, after.bytes, LeValue(SubSeq(data, m + 1, m + 2)))
  BY SMTT(30), <1>2a, <1>3, <1>4, <1>5, <1>6 DEF Carried
<1>8. data = SubSeq(data, 1, 19) \o SubSeq(data, 19 + 1, k) \o SubSeq(data, k + 1, m)
             \o SubSeq(data, m + 1, m + 2)
  <2>1. SubSeq(data, 1, 19) \o SubSeq(data, 19 + 1, k) = SubSeq(data, 1, k)
    BY <1>1, <1>7, Join
  <2>2. SubSeq(data, 1, k) \o SubSeq(data, k + 1, m) = SubSeq(data, 1, m)
    <3>1. PICK j \in Nat : j = k + 1
      OBVIOUS
    <3>2. k <= m /\ m <= Len(data)
      BY <1>1, <1>7
    <3>3. SubSeq(data, 1, k) \o SubSeq(data, j, m) = SubSeq(data, 1, m)
      BY <3>1, <3>2, Join
    <3>4. QED
      BY <3>1, <3>3
  <2>3. SubSeq(data, 1, m) \o SubSeq(data, m + 1, m + 2) = SubSeq(data, 1, m + 2)
    <3>1. PICK j \in Nat, n \in Nat : j = m + 1 /\ n = m + 2
      OBVIOUS
    <3>2. m <= n /\ n <= Len(data)
      BY <1>1, <1>7, <3>1
    <3>3. SubSeq(data, 1, m) \o SubSeq(data, j, n) = SubSeq(data, 1, n)
      BY <3>1, <3>2, Join
    <3>4. QED
      BY <3>1, <3>3
  <2>4. SubSeq(data, 1, m + 2) = data
    BY <1>7, Whole
  <2>5. QED
    BY <2>1, <2>2, <2>3, <2>4
<1> DEFINE rest == SubSeq(data, m + 1, m + 2)
<1>9. U16(LeValue(rest)) = rest
  <2>1. List(rest) /\ Len(rest) = 2 /\ \A i \in 1..2 : rest[i] = data[m + i]
    BY SliceAt
  <2>2. \A i \in 1..2 : m + i \in DOMAIN data
    BY <1>1, <1>7
  <2>3. \A i \in 1..2 : rest[i] \in Byte
    BY <2>1, <2>2
  <2> HIDE DEF rest
  <2>4. QED
    BY <2>1, <2>3, WritesU16
<1> HIDE DEF rest
<1>10. p.before = before.bytes /\ p.after = after.bytes /\ p.count = LeValue(rest)
  BY <1>7 DEF Carried, rest
<1>11. QED
  BY <1>7, <1>8, <1>9, <1>10 DEF rest

\* What is written is decoded.
LEMMA WrittenIsDecoded ==
    ASSUME NEW data, List(data), NEW b, List(b), NEW a, List(a), NEW c \in Nat,
           Len(b) < Radix * (Radix * (Radix * Radix)),
           Len(a) < Radix * (Radix * (Radix * Radix)), c < Radix * Radix,
           data = SubSeq(data, 1, 19) \o Vector(b) \o Vector(a) \o U16(c)
    PROVE  DecodeDelegated(data) = {Carried(b, a, c)}
<1> DEFINE head == SubSeq(data, 1, 19)
           x == 19 + 4 + Len(b)
           y == x + 4 + Len(a)
<1>1. Len(a) \in Nat /\ Len(b) \in Nat
  BY ListIs
<1>2. List(head) /\ Len(head) = 19
  BY Slice
<1>3. data = ((head \o Vector(b)) \o Vector(a)) \o U16(c)
  OBVIOUS
<1> HIDE DEF head
<1>4. /\ List(Vector(b)) /\ Len(Vector(b)) = 4 + Len(b)
      /\ List(Vector(a)) /\ Len(Vector(a)) = 4 + Len(a)
  BY VectorIs
<1>4a. List(U16(c)) /\ Len(U16(c)) = 2
  BY LeList DEF U16
<1>5. LET m == Len(head) + Len(Vector(b))
          k == m + Len(Vector(a))
      IN  /\ Len(data) = k + Len(U16(c))
          /\ SubSeq(data, Len(head) + 1, m) = Vector(b)
          /\ SubSeq(data, m + 1, k) = Vector(a)
          /\ SubSeq(data, k + 1, k + Len(U16(c))) = U16(c)
  <2>1. Laid(data, head, Vector(b), Vector(a), U16(c))
    BY <1>2, <1>3, <1>4, <1>4a, Layout
  <2>2. QED
    BY <2>1 DEF Laid
<1>6. Len(head) + Len(Vector(b)) = x /\ x + Len(Vector(a)) = y
  BY <1>1, <1>2, <1>4
<1>7. /\ Len(data) = y + 2
      /\ SubSeq(data, 19 + 1, 19 + 4 + Len(b)) = Vector(b)
      /\ SubSeq(data, x + 1, x + 4 + Len(a)) = Vector(a)
      /\ SubSeq(data, y + 1, y + 2) = U16(c)
  <2>1. /\ Len(data) = y + 2
        /\ SubSeq(data, 19 + 1, x) = Vector(b)
        /\ SubSeq(data, x + 1, y) = Vector(a)
        /\ SubSeq(data, y + 1, y + 2) = U16(c)
    <3> HIDE DEF x, y
    <3>1. QED
      BY <1>2, <1>4a, <1>5, <1>6
  <2>2. QED
    BY <2>1
<1>8. x \in Nat /\ y \in Nat /\ ~(Len(data) < 29)
      /\ x <= Len(data) /\ y <= Len(data)
  BY <1>1, <1>7
<1>9. ReadVector(data, 19) = {[bytes |-> b, next |-> x]}
  BY <1>7, <1>8, VectorWritten
<1>10. ReadVector(data, x) = {[bytes |-> a, next |-> y]}
  <2>1. /\ x + 4 + Len(a) = y /\ x \in Nat /\ x + 4 + Len(a) <= Len(data)
        /\ SubSeq(data, x + 1, x + 4 + Len(a)) = Vector(a)
    BY <1>7, <1>8
  <2> HIDE DEF x, y
  <2>2. ReadVector(data, x) = {[bytes |-> a, next |-> x + 4 + Len(a)]}
    BY <2>1, VectorWritten
  <2>3. QED
    BY <2>1, <2>2
<1>11. LeValue(SubSeq(data, y + 1, y + 2)) = c
  BY <1>7, ReadsU16
<1> HIDE DEF x, y
<1>12. DecodeDelegated(data) =
         UNION {{[before |-> before.bytes, after |-> after.bytes,
                  count |-> LeValue(SubSeq(data, after.next + 1, after.next + 2))] :
                     after \in {v \in ReadVector(data, before.next) : v.next + 2 = Len(data)}} :
                before \in ReadVector(data, 19)}
  BY <1>8 DEF DecodeDelegated
<1> DEFINE one == [bytes |-> b, next |-> x]
           two == [bytes |-> a, next |-> y]
           whole(before, after) ==
              [before |-> before.bytes, after |-> after.bytes,
               count |-> LeValue(SubSeq(data, after.next + 1, after.next + 2))]
           last(before) == {v \in ReadVector(data, before.next) : v.next + 2 = Len(data)}
<1>13. last(one) = {two}
  BY <1>7, <1>10
<1>14. whole(one, two) = Carried(b, a, c)
  BY <1>11 DEF Carried
<1>15. DecodeDelegated(data) = {whole(one, after) : after \in last(one)}
  <2>1. DecodeDelegated(data) = UNION {{whole(before, after) : after \in last(before)} : before \in {one}}
    BY <1>9, <1>12
  <2> HIDE DEF one, whole, last
  <2>2. QED
    BY <2>1
<1> HIDE DEF one, two, whole, last
<1>16. QED
  BY <1>13, <1>14, <1>15

\* Bounds of what the widths in a payload can hold.
Hooked(hook) ==
    /\ List(hook.accounts) /\ List(hook.data)
    /\ Len(hook.data) < Radix * (Radix * (Radix * Radix)) /\ Len(hook.accounts) < Radix * Radix

\* The data of a delegated close carries a payload if and only if it decodes to it.
Carries(data, before, after) ==
    LET payload == DecodeDelegated(data)
        p == CHOOSE q \in payload : TRUE
    IN  (/\ payload # {} /\ p.before = before.data /\ p.after = after.data
         /\ p.count = Len(before.accounts))
        <=> data = SubSeq(data, 1, 19) \o Vector(before.data) \o Vector(after.data)
                   \o U16(Len(before.accounts))

\* The payload decides it (envelope.ts 475-504).
LEMMA PayloadIs ==
    ASSUME NEW data, List(data), \A i \in DOMAIN data : data[i] \in Byte,
           NEW before, NEW after, Hooked(before), Hooked(after)
    PROVE  Carries(data, before, after)
<1> DEFINE payload == DecodeDelegated(data)
           p == CHOOSE q \in payload : TRUE
           b == before.data
           a == after.data
           c == Len(before.accounts)
<1>1. ASSUME payload # {}, p.before = b, p.after = a, p.count = c
      PROVE  data = SubSeq(data, 1, 19) \o Vector(b) \o Vector(a) \o U16(c)
  <2>1. p \in payload
    BY <1>1
  <2>2. data = SubSeq(data, 1, 19) \o Vector(p.before) \o Vector(p.after) \o U16(p.count)
    <3> HIDE DEF p
    <3>1. QED
      BY <2>1, DecodedIsWritten
  <2>3. QED
    BY <1>1, <2>2
<1>2. ASSUME data = SubSeq(data, 1, 19) \o Vector(b) \o Vector(a) \o U16(c)
      PROVE  payload # {} /\ p.before = b /\ p.after = a /\ p.count = c
  <2>1. /\ List(b) /\ List(a) /\ c \in Nat /\ c < Radix * Radix
        /\ Len(b) < Radix * (Radix * (Radix * Radix))
        /\ Len(a) < Radix * (Radix * (Radix * Radix))
    BY ListIs DEF Hooked
  <2>2. payload = {Carried(b, a, c)}
    <3> HIDE DEF a, b, c
    <3>1. QED
      BY <1>2, <2>1, WrittenIsDecoded
  <2>3. p = Carried(b, a, c)
    <3> HIDE DEF payload
    <3>1. QED
      BY <2>2
  <2>4. p.before = b /\ p.after = a /\ p.count = c
    <3> HIDE DEF p
    <3>1. QED
      BY <2>3 DEF Carried
  <2>5. QED
    BY <2>2, <2>4
<1> HIDE DEF payload, p
<1>3. (payload # {} /\ p.before = b /\ p.after = a /\ p.count = c)
      <=> data = SubSeq(data, 1, 19) \o Vector(b) \o Vector(a) \o U16(c)
  BY <1>1, <1>2
<1>4. QED
  BY <1>3 DEF payload, p, Carries

\* The verdict on the composition is ok exactly when the primary carries the hooks.
LEMMA CompositionVerdict ==
    ASSUME NEW e, Len(e.hooks) = 2, Hooked(e.hooks[1]), Hooked(e.hooks[2]),
           List(e.primary.data), \A i \in DOMAIN e.primary.data : e.primary.data[i] \in Byte,
           List(e.primary.accounts),
           \A i, j \in 1..Len(e.primary.accounts) :
              e.primary.accounts[i].name = e.primary.accounts[j].name => i = j
    PROVE  (ValidateDelegatedComposition(e) = "ok")
           <=> CarriesHooks(e.primary, e.hooks[1], e.hooks[2])
<1> DEFINE payload == DecodeDelegated(e.primary.data)
           embedded == CHOOSE p \in payload : TRUE
           accounts == e.primary.accounts
           before == e.hooks[1]
           after == e.hooks[2]
           delegated == {i \in DOMAIN accounts : accounts[i].name = "delegated_program"}
           first == \E i \in delegated : /\ \A j \in delegated : i <= j
                                         /\ accounts[i].address = before.id
           named == \E a \in ToSet(accounts) : a.name = "delegated_program" /\ a.address = before.id
           written == e.primary.data = SubSeq(e.primary.data, 1, 19) \o Vector(before.data)
                                       \o Vector(after.data) \o U16(Len(before.accounts))
           listed == e.primary.remaining = before.accounts \o after.accounts
<1>1. (payload # {} /\ embedded.before = before.data /\ embedded.after = after.data
       /\ embedded.count = Len(before.accounts)) <=> written
  <2> HIDE DEF before, after
  <2>1. Hooked(before) /\ Hooked(after)
    BY DEF before, after
  <2> DEFINE data == e.primary.data
  <2>2. List(data) /\ \A i \in DOMAIN data : data[i] \in Byte
    OBVIOUS
  <2> HIDE DEF data
  <2>3. Carries(data, before, after)
    BY <2>1, <2>2, PayloadIs
  <2>4. QED
    BY <2>3 DEF data, Carries
<1>2. first <=> named
  <2>1. DOMAIN accounts = 1..Len(accounts) /\ ToSet(accounts) = {accounts[i] : i \in 1..Len(accounts)}
        /\ Len(accounts) \in Nat
    BY ListIs
  <2> HIDE DEF accounts, before
  <2>2. \A i, j \in delegated : i = j
    BY <2>1 DEF accounts
  <2>3. ASSUME named PROVE first
    <3>1. PICK i \in 1..Len(accounts) :
            accounts[i].name = "delegated_program" /\ accounts[i].address = before.id
      BY <2>1, <2>3
    <3>2. i \in delegated
      BY <2>1, <3>1
    <3>3. \A j \in delegated : i <= j
      BY <2>1, <2>2, <3>2
    <3>4. QED
      BY <3>1, <3>2, <3>3
  <2>4. ASSUME first PROVE named
    BY <2>1, <2>4
  <2>5. QED
    BY <2>3, <2>4
<1> DEFINE r1 == Refuse(Len(e.hooks) # 2, "cpi_hook_mismatch")
           r2 == Refuse(payload = {}, "delegated_hook_data_mismatch")
           r3 == Refuse(embedded.before # before.data \/ embedded.after # after.data,
                        "delegated_hook_data_mismatch")
           r4 == Refuse(embedded.count # Len(before.accounts), "remaining_accounts_mismatch")
           r5 == Refuse(e.primary.remaining # before.accounts \o after.accounts,
                        "remaining_accounts_mismatch")
           r6 == Refuse(~first, "fixed_address_mismatch")
<1>3. ValidateDelegatedComposition(e) = r1 ++ r2 ++ r3 ++ r4 ++ r5 ++ r6
  BY DEF ValidateDelegatedComposition
<1>4. /\ r1 = "ok" /\ ((r2 = "ok") <=> payload # {})
      /\ (r3 = "ok") <=> (embedded.before = before.data /\ embedded.after = after.data)
      /\ (r4 = "ok") <=> embedded.count = Len(before.accounts)
      /\ (r5 = "ok") <=> listed
      /\ (r6 = "ok") <=> first
  <2> HIDE DEF payload, embedded, before, after, first
  <2>1. QED
    BY DEF Refuse
<1>5. CarriesHooks(e.primary, before, after) <=> (written /\ listed /\ named)
  BY DEF CarriesHooks
<1> HIDE DEF r1, r2, r3, r4, r5, r6, payload, embedded, before, after, first, named, written, listed
<1>6. QED
  <2>1. (ValidateDelegatedComposition(e) = "ok") <=> CarriesHooks(e.primary, before, after)
    BY <1>1, <1>2, <1>3, <1>4, <1>5, Both
  <2>2. QED
    BY <2>1 DEF before, after

-----------------------------------------------------------------------------
\* Envelopes of the right shape

\* The shape that every change of an envelope keeps.
Framed(ix) == {"data", "accounts"} \subseteq DOMAIN ix /\ List(ix.data) /\ List(ix.accounts)

HookFramed(hook) == Framed(hook) /\ Len(hook.data) = 16 /\ Len(hook.accounts) < Radix * Radix

WellFormed(e) ==
    /\ {"primary", "hooks"} \subseteq DOMAIN e
    /\ Framed(e.primary)
    /\ List(e.hooks) /\ Len(e.hooks) \in {0, 2}
    /\ \A i \in 1..Len(e.hooks) : HookFramed(e.hooks[i])

\* A hook of the right shape fits the widths in a payload.
LEMMA FramedIsHooked ==
    ASSUME NEW hook, HookFramed(hook)
    PROVE  Hooked(hook)
<1>1. Radix \in Nat /\ Radix > 2
  BY RadixAssumption, IdlAssumption
<1>2. Radix * Radix \in Nat /\ Radix * Radix >= 9
  BY <1>1
<1>3. Radix * (Radix * Radix) \in Nat /\ Radix * (Radix * Radix) >= 9
  <2>1. \A m \in Nat : m >= 9 => Radix * m \in Nat /\ Radix * m >= 3 * m
    BY <1>1
  <2>2. QED
    BY <1>2, <2>1
<1>4. Radix * (Radix * (Radix * Radix)) >= 27
  <2>1. \A m \in Nat : m >= 9 => Radix * m \in Nat /\ Radix * m >= 3 * m
    BY <1>1
  <2>2. QED
    BY <1>3, <2>1
<1>5. Radix * (Radix * (Radix * Radix)) \in Nat
  BY <1>1
<1> DEFINE most == Radix * (Radix * (Radix * Radix))
<1>6. 16 < most
  <2> HIDE DEF most
  <2>1. most \in Nat /\ most >= 27
    BY <1>4, <1>5 DEF most
  <2>2. QED
    BY <2>1
<1> HIDE DEF most
<1>7. QED
  BY <1>6 DEF HookFramed, Framed, Hooked, most

\* Every action has no hooks or two.
NoneOrTwo(hooks) == Len(hooks) \in {0, 2}

\* What the function over the hooks in Validate is.
HookVerdicts(f, c, hooks) ==
    f = [i \in 0..Len(hooks) |-> IF i = 0 THEN "ok"
                                 ELSE f[i - 1] ++ ValidateHook(c, hooks[i], hooks[i].key)]

\* The function over the hooks in Validate exists.
LEMMA HookVerdictsExist ==
    ASSUME NEW c, NEW hooks, NoneOrTwo(hooks)
    PROVE  \E f : HookVerdicts(f, c, hooks)
<1> DEFINE v(i) == ValidateHook(c, hooks[i], hooks[i].key)
           first == "ok" ++ v(1)
           f == [i \in 0..Len(hooks) |-> IF i = 0 THEN "ok" ELSE IF i = 1 THEN first ELSE first ++ v(2)]
<1>1. CASE Len(hooks) = 0
  <2> DEFINE g == [i \in 0..0 |-> "ok"]
  <2>1. g = [i \in 0..0 |-> IF i = 0 THEN "ok" ELSE g[i - 1] ++ v(i)]
    OBVIOUS
  <2> HIDE DEF g
  <2>2. HookVerdicts(g, c, hooks)
    BY <1>1, <2>1 DEF HookVerdicts
  <2>3. QED
    BY <2>2
<1>2. CASE Len(hooks) = 2
  <2> HIDE DEF v
  <2>1. f[0] = "ok" /\ f[1] = first /\ f[2] = first ++ v(2)
    BY <1>2
  <2>2. f = [i \in 0..2 |-> f[i]]
    BY <1>2
  <2> HIDE DEF f
  <2>3. ASSUME NEW i \in 0..2 PROVE f[i] = IF i = 0 THEN "ok" ELSE f[i - 1] ++ v(i)
    <3>1. CASE i = 0
      BY <2>1, <3>1
    <3>2. CASE i = 1
      <4>1. f[1] = f[0] ++ v(1)
        BY <2>1
      <4>2. QED
        BY <3>2, <4>1
    <3>3. CASE i = 2
      <4>1. f[2] = f[1] ++ v(2)
        BY <2>1
      <4>2. QED
        BY <3>3, <4>1
    <3>4. QED
      BY <3>1, <3>2, <3>3
  <2>4. f = [i \in 0..2 |-> IF i = 0 THEN "ok" ELSE f[i - 1] ++ v(i)]
    BY <2>2, <2>3
  <2>5. HookVerdicts(f, c, hooks)
    BY <1>2, <2>4 DEF HookVerdicts, v
  <2>6. QED
    BY <2>5
<1>3. QED
  BY <1>1, <1>2 DEF NoneOrTwo

\* Its verdict is ok exactly when that on each hook is.
LEMMA HookVerdictsAre ==
    ASSUME NEW c, NEW hooks, NoneOrTwo(hooks), NEW f, HookVerdicts(f, c, hooks)
    PROVE  (f[Len(hooks)] = "ok")
           <=> \A i \in 1..Len(hooks) : ValidateHook(c, hooks[i], hooks[i].key) = "ok"
<1> DEFINE v(i) == ValidateHook(c, hooks[i], hooks[i].key)
<1> HIDE DEF v
<1>1. \A i \in 0..Len(hooks) : f[i] = IF i = 0 THEN "ok" ELSE f[i - 1] ++ v(i)
  BY DEF HookVerdicts, v
<1>2. f[0] = "ok"
  BY <1>1 DEF NoneOrTwo
<1>3. CASE Len(hooks) = 0
  BY <1>2, <1>3
<1>4. CASE Len(hooks) = 2
  <2>1. f[1] = f[0] ++ v(1) /\ f[2] = f[1] ++ v(2)
    BY <1>1, <1>4
  <2>2. (f[2] = "ok") <=> v(1) = "ok" /\ v(2) = "ok"
    BY <1>2, <2>1, Both
  <2>3. (f[2] = "ok") <=> \A i \in 1..2 : v(i) = "ok"
    <3>1. \A i \in 1..2 : i = 1 \/ i = 2
      OBVIOUS
    <3>2. 1 \in 1..2 /\ 2 \in 1..2
      OBVIOUS
    <3>3. QED
      BY <2>2, <3>1, <3>2
  <2>4. QED
    BY <1>4, <2>3 DEF v
<1>5. QED
  BY <1>3, <1>4 DEF NoneOrTwo

\* The keys of the hooks are those of the action.
KeysOf(hooks) == [i \in DOMAIN hooks |-> hooks[i].key]

\* They are, exactly when each hook has its key.
LEMMA KeysAre ==
    ASSUME NEW hooks, List(hooks), NEW cpi, List(cpi)
    PROVE  (KeysOf(hooks) = cpi)
           <=> (Len(hooks) = Len(cpi) /\ \A i \in 1..Len(hooks) : hooks[i].key = cpi[i])
<1> DEFINE keys == KeysOf(hooks)
<1>1. DOMAIN hooks = 1..Len(hooks) /\ Len(hooks) \in Nat
  BY ListIs
<1>2. keys = [i \in 1..Len(hooks) |-> keys[i]] /\ \A i \in 1..Len(hooks) : keys[i] = hooks[i].key
  BY <1>1 DEF KeysOf
<1> HIDE DEF keys
<1>3. List(keys) /\ Len(keys) = Len(hooks)
  BY <1>1, <1>2, FunctionIsList
<1>4. (keys = cpi) <=> (Len(keys) = Len(cpi) /\ \A i \in 1..Len(keys) : keys[i] = cpi[i])
  BY <1>3, ListsEqual
<1>5. QED
  BY <1>2, <1>3, <1>4 DEF keys

-----------------------------------------------------------------------------
\* The verdict on an envelope

\* The keys of the hooks of an action.
LEMMA CpiIs ==
    ASSUME NEW a \in Actions
    PROVE  LET cpi == ActionDefinitions[a].cpi IN
           /\ List(cpi) /\ Len(cpi) \in {0, 2} /\ (cpi = <<>>) = (Len(cpi) = 0)
           /\ \A i \in 1..Len(cpi) : cpi[i] \in InstructionKeys
<1> DEFINE cpi == ActionDefinitions[a].cpi
<1>1. cpi = <<>> \/ \E b, c : cpi = <<b, c>>
  BY ActionFacts
<1>2. \A i \in DOMAIN cpi : cpi[i] \in InstructionKeys
  BY ActionFacts
<1> HIDE DEF cpi
<1>3. List(cpi) /\ Len(cpi) \in {0, 2}
  BY <1>1, Shorts
<1>4. DOMAIN cpi = 1..Len(cpi)
  BY <1>3, ListIs
<1>5. (cpi = <<>>) = (Len(cpi) = 0)
  BY <1>3, EmptySeq DEF List
<1>6. QED
  BY <1>2, <1>3, <1>4, <1>5 DEF cpi

\* A hook whose key is the action's passes exactly when it is the one pinned.
LEMMA HookVerdict ==
    ASSUME NEW l \in Made, NEW k \in InstructionKeys, NEW hook, Framed(hook), hook.key = k
    PROVE  (ValidateHook(Contracts[l], hook, hook.key) = "ok")
           <=> (InstructionIsPinned(Contracts[l], hook, k) /\ hook.remaining = <<>>)
<1>1. (ValidateExpectedInstruction(Contracts[l], hook, k) = "ok")
      <=> InstructionIsPinned(Contracts[l], hook, k)
  BY InstructionVerdict DEF Framed
<1>2. (Refuse(hook.remaining # <<>>, "cpi_hook_mismatch") = "ok") <=> hook.remaining = <<>>
  BY DEF Refuse
<1>3. QED
  BY <1>1, <1>2, Both DEF ValidateHook

\* What the composition needs of a pinned primary.
LEMMA PinnedPrimary ==
    ASSUME NEW l \in Made, NEW k \in InstructionKeys, NEW ix, Framed(ix),
           InstructionIsPinned(Contracts[l], ix, k)
    PROVE  /\ \A i \in DOMAIN ix.data : ix.data[i] \in Byte
           /\ \A i, j \in 1..Len(ix.accounts) :
                ix.accounts[i].name = ix.accounts[j].name => i = j
<1> DEFINE spec == Contracts[l].instructions[k]
<1>1. IsHex(ix.data) /\ AccountsArePinned(spec, ix.accounts)
  BY DEF InstructionIsPinned
<1>2. /\ List(spec.accounts)
      /\ \A i, j \in DOMAIN spec.accounts :
           spec.accounts[i].name = spec.accounts[j].name => i = j
  BY SpecificationIs
<1> HIDE DEF spec
<1>3. \A i, j \in 1..Len(ix.accounts) : ix.accounts[i].name = ix.accounts[j].name => i = j
  BY <1>1, <1>2, PinnedNamesDiffer DEF Framed
<1>4. QED
  BY <1>1, <1>3 DEF IsHex

\* The validator accepts an envelope exactly when it is pinned (envelope.ts 212-461).
LEMMA Verdict ==
    ASSUME NEW l \in Made, NEW lock, lock.revision = Contracts[l].revision, NEW e, WellFormed(e)
    PROVE  (Validate(lock, Contracts[l], e) = "ok") <=> EnvelopeIsPinned(Contracts[l], e)
<1> DEFINE c == Contracts[l]
           a == e.intent.action
           action == c.actions[a]
           job == ActionDefinitions[a]
           keys == KeysOf(e.hooks)
           hooks == CHOOSE f : HookVerdicts(f, c, e.hooks)
           r1 == Refuse(e.schema # 1 \/ e.intent.schema # 1, "instruction_mismatch")
           r2 == Refuse(e.intent.revision # lock.revision, "revision_mismatch")
           r3 == Refuse(a \notin DOMAIN c.actions, "instruction_mismatch")
           r4 == Refuse(e.intent.kind # action.kind, "job_kind_mismatch")
           r5 == ValidateExpectedInstruction(c, e.primary, action.primary)
           r6 == Refuse(keys # action.cpi, "cpi_hook_mismatch")
           r7 == hooks[Len(e.hooks)]
           required(j) == \A name \in j.required : \E x \in ToSet(e.primary.accounts) : x.name = name
           r8 == Refuse(\E name \in action.required :
                            \A x \in ToSet(e.primary.accounts) : x.name # name,
                        "required_optional_account_missing")
           r9 == IF action.cpi # <<>> THEN ValidateDelegatedComposition(e) ELSE "ok"
           r10 == Refuse(Parity(e) # e.parity, "parity_mismatch")
<1>1. c.actions = ActionDefinitions /\ DOMAIN c.actions = Actions /\ c.revision = lock.revision
  BY ContractIs DEF Actions
<1>2. Validate(lock, c, e) = r1 ++ r2 ++ r3 ++ r4 ++ r5 ++ r6 ++ r7 ++ r8 ++ r9 ++ r10
  BY DEF Validate, HookVerdicts, KeysOf
<1> HIDE DEF c
<1>3. /\ (r1 = "ok") <=> (e.schema = 1 /\ e.intent.schema = 1)
      /\ (r2 = "ok") <=> e.intent.revision = c.revision
      /\ (r3 = "ok") <=> a \in Actions
      /\ (r4 = "ok") <=> e.intent.kind = action.kind
      /\ (r6 = "ok") <=> keys = action.cpi
      /\ (r8 = "ok") <=> required(action)
      /\ (r10 = "ok") <=> e.parity = Parity(e)
  <2> HIDE DEF a, action, keys
  <2>1. QED
    BY <1>1 DEF Refuse
<1>4. (r1 ++ r2 ++ r3 ++ r4 ++ r5 ++ r6 ++ r7 ++ r8 ++ r9 ++ r10 = "ok") <=>
        /\ r1 = "ok" /\ r2 = "ok" /\ r3 = "ok" /\ r4 = "ok" /\ r5 = "ok" /\ r6 = "ok"
        /\ r7 = "ok" /\ r8 = "ok" /\ r9 = "ok" /\ r10 = "ok"
  <2> HIDE DEF r1, r2, r3, r4, r5, r6, r7, r8, r9, r10
  <2>1. QED
    BY Both
<1> HIDE DEF r1, r2, r3, r4, r6, r8, r10
<1>5. CASE a \notin Actions
  BY <1>2, <1>3, <1>4, <1>5 DEF EnvelopeIsPinned, c
<1>6. CASE a \in Actions
  <2> DEFINE pinned(i) == /\ InstructionIsPinned(c, e.hooks[i], job.cpi[i])
                          /\ e.hooks[i].remaining = <<>>
             carried == e.hooks # <<>> => CarriesHooks(e.primary, e.hooks[1], e.hooks[2])
             primary == InstructionIsPinned(c, e.primary, job.primary)
  <2>1. action = job
    BY <1>1
  <2>2. /\ List(job.cpi) /\ Len(job.cpi) \in {0, 2} /\ (job.cpi = <<>>) = (Len(job.cpi) = 0)
        /\ \A i \in 1..Len(job.cpi) : job.cpi[i] \in InstructionKeys
        /\ job.primary \in InstructionKeys
    BY <1>6, CpiIs, ActionFacts
  <2>3. /\ List(e.hooks) /\ Len(e.hooks) \in {0, 2} /\ DOMAIN e.hooks = 1..Len(e.hooks)
        /\ Framed(e.primary) /\ \A i \in 1..Len(e.hooks) : HookFramed(e.hooks[i])
        /\ (e.hooks = <<>>) = (Len(e.hooks) = 0)
    BY ListIs, EmptySeq DEF WellFormed, List
  <2>4. EnvelopeIsPinned(c, e) <=>
          /\ r1 = "ok" /\ r2 = "ok" /\ r4 = "ok" /\ r8 = "ok" /\ r10 = "ok"
          /\ Len(e.hooks) = Len(job.cpi) /\ primary
          /\ \A i \in 1..Len(e.hooks) : pinned(i)
          /\ carried
    <3> HIDE DEF action
    <3>1. EnvelopeIsPinned(c, e) <=>
            /\ e.schema = 1 /\ e.intent.schema = 1 /\ e.intent.revision = c.revision
            /\ a \in Actions /\ e.parity = Parity(e)
            /\ e.intent.kind = job.kind /\ Len(e.hooks) = Len(job.cpi)
            /\ primary /\ (\A i \in DOMAIN e.hooks : pinned(i)) /\ required(job) /\ carried
      BY DEF EnvelopeIsPinned
    <3> HIDE DEF a, job, primary, pinned, required, carried
    <3>2. QED
      BY <1>3, <1>6, <2>1, <2>3, <3>1
  <2>5. (r5 = "ok") <=> primary
    <3> HIDE DEF job, action
    <3>1. QED
      BY <2>1, <2>2, <2>3, InstructionVerdict DEF Framed, c
  <2>6. (r6 = "ok") <=>
          (Len(e.hooks) = Len(job.cpi) /\ \A i \in 1..Len(e.hooks) : e.hooks[i].key = job.cpi[i])
    <3> HIDE DEF job, action
    <3>1. QED
      BY <1>3, <2>1, <2>2, <2>3, KeysAre
  <2>7. \A i \in 1..Len(e.hooks) : pinned(i) => e.hooks[i].key = job.cpi[i]
    BY DEF InstructionIsPinned
  <2>8. ASSUME r6 = "ok" PROVE (r7 = "ok") <=> \A i \in 1..Len(e.hooks) : pinned(i)
    <3>1. HookVerdicts(hooks, c, e.hooks)
      <4>1. NoneOrTwo(e.hooks)
        BY <2>3 DEF NoneOrTwo
      <4>2. \E f : HookVerdicts(f, c, e.hooks)
        BY <4>1, HookVerdictsExist
      <4>3. QED
        BY <4>2
    <3> HIDE DEF hooks, job
    <3>2. (r7 = "ok") <=>
            \A i \in 1..Len(e.hooks) : ValidateHook(c, e.hooks[i], e.hooks[i].key) = "ok"
      <4>1. NoneOrTwo(e.hooks)
        BY <2>3 DEF NoneOrTwo
      <4>2. (hooks[Len(e.hooks)] = "ok") <=>
              \A i \in 1..Len(e.hooks) : ValidateHook(c, e.hooks[i], e.hooks[i].key) = "ok"
        BY ZenonT(30), <3>1, <4>1, HookVerdictsAre
      <4>3. QED
        BY <4>2
    <3>3. ASSUME NEW i \in 1..Len(e.hooks)
          PROVE  (ValidateHook(c, e.hooks[i], e.hooks[i].key) = "ok") <=> pinned(i)
      <4> DEFINE hook == e.hooks[i]
                 k == job.cpi[i]
      <4>1. k \in InstructionKeys /\ hook.key = k /\ Framed(hook)
        BY <2>2, <2>3, <2>6, <2>8 DEF HookFramed
      <4> HIDE DEF hook, k
      <4>2. (ValidateHook(c, hook, hook.key) = "ok")
            <=> (InstructionIsPinned(c, hook, k) /\ hook.remaining = <<>>)
        BY <4>1, HookVerdict DEF c
      <4>3. QED
        BY <4>2 DEF hook, k
    <3>4. QED
      BY <3>2, <3>3
  <2>9. ASSUME r6 = "ok", primary PROVE (r9 = "ok") <=> carried
    <3>1. CASE Len(e.hooks) = 0
      <4>1. action.cpi = <<>> /\ e.hooks = <<>>
        BY <2>1, <2>2, <2>3, <2>6, <2>9, <3>1
      <4>2. QED
        BY <4>1
    <3>2. CASE Len(e.hooks) = 2
      <4>1. action.cpi # <<>> /\ e.hooks # <<>>
        BY <2>1, <2>2, <2>3, <2>6, <2>9, <3>2
      <4>2. /\ List(e.primary.data) /\ List(e.primary.accounts)
            /\ \A i \in DOMAIN e.primary.data : e.primary.data[i] \in Byte
            /\ \A i, j \in 1..Len(e.primary.accounts) :
                 e.primary.accounts[i].name = e.primary.accounts[j].name => i = j
        <5> HIDE DEF job
        <5>1. QED
          BY <2>2, <2>3, <2>9, PinnedPrimary DEF Framed, c
      <4>3. Hooked(e.hooks[1]) /\ Hooked(e.hooks[2])
        BY <2>3, <3>2, FramedIsHooked
      <4>4. (ValidateDelegatedComposition(e) = "ok")
            <=> CarriesHooks(e.primary, e.hooks[1], e.hooks[2])
        BY <3>2, <4>2, <4>3, CompositionVerdict
      <4>5. QED
        BY <4>1, <4>4
    <3>3. QED
      BY <2>3, <3>1, <3>2
  <2> HIDE DEF r5, r7, r9, primary, pinned, carried, job, action
  <2>10. QED
    BY <1>2, <1>3, <1>4, <1>6, <2>4, <2>5, <2>6, <2>7, <2>8, <2>9 DEF c
<1>7. QED
  BY <1>5, <1>6

-----------------------------------------------------------------------------
\* Changes of an envelope keep its shape

\* A change of the primary that keeps its shape keeps that of the envelope.
LEMMA PrimaryChanged ==
    ASSUME NEW e, WellFormed(e), NEW new, DOMAIN new = DOMAIN e, new.hooks = e.hooks,
           Framed(new.primary)
    PROVE  WellFormed(new)
BY DEF WellFormed

\* A change of the hooks that keeps theirs does as well.
LEMMA HooksChanged ==
    ASSUME NEW e, WellFormed(e), NEW new, DOMAIN new = DOMAIN e, new.primary = e.primary,
           List(new.hooks), Len(new.hooks) = Len(e.hooks),
           \A i \in 1..Len(new.hooks) : HookFramed(new.hooks[i])
    PROVE  WellFormed(new)
BY DEF WellFormed

\* A function on the domain of a list is a list.
LEMMA Replaced ==
    ASSUME NEW s, List(s), NEW t, DOMAIN t = DOMAIN s, t = [i \in DOMAIN s |-> t[i]]
    PROVE  List(t) /\ Len(t) = Len(s)
<1>1. DOMAIN s = 1..Len(s) /\ Len(s) \in Nat
  BY ListIs
<1>2. t = [i \in 1..Len(s) |-> t[i]]
  BY <1>1
<1>3. QED
  BY <1>1, <1>2, FunctionIsList

\* The lists that the changes make.
LEMMA SwappedIsList ==
    ASSUME NEW s, List(s)
    PROVE  List(Swapped(s))
<1>1. Len(s) \in Nat
  BY ListIs
<1>2. List(SubSeq(s, 3, Len(s))) /\ List(<<s[2], s[1]>>)
  BY <1>1, Slice, Shorts
<1>3. QED
  BY <1>2, Concat DEF Swapped

\* Without its second entry.
LEMMA RemovedIsList ==
    ASSUME NEW s, List(s)
    PROVE  List(RemoveAt(s, 2))
<1>1. Len(s) \in Nat
  BY ListIs
<1>2. List(SubSeq(s, 1, 2 - 1)) /\ List(SubSeq(s, 2 + 1, Len(s)))
  BY <1>1, Slice
<1>3. QED
  BY <1>2, Concat DEF RemoveAt

\* With another second entry.
LEMMA InsertedIsList ==
    ASSUME NEW s, NEW x, List(s)
    PROVE  List(InsertAt(s, 2, x))
<1>1. Len(s) \in Nat
  BY ListIs
<1>2. List(SubSeq(s, 1, 2 - 1)) /\ List(SubSeq(s, 2, Len(s))) /\ List(<<x>>)
  BY <1>1, Slice, Shorts
<1>3. List(SubSeq(s, 1, 2 - 1) \o <<x>>)
  BY <1>2, Concat
<1>4. QED
  BY <1>2, <1>3, Concat DEF InsertAt

\* Some entries, in order.
LEMMA SublistIsList ==
    ASSUME NEW s, NEW n \in Nat, NEW indices \in SUBSET (1..n)
    PROVE  List(Sublist(s, indices)) /\ Len(Sublist(s, indices)) <= n
<1>1. Cardinality(indices) \in Nat /\ Cardinality(indices) <= n
  <2>1. IsFiniteSet(1..n) /\ Cardinality(1..n) = n
    BY FS_Interval
  <2>2. IsFiniteSet(indices) /\ Cardinality(indices) <= Cardinality(1..n)
    BY <2>1, FS_Subset
  <2>3. QED
    BY <2>1, <2>2, FS_CardinalityType
<1>2. Sublist(s, indices) = [k \in 1..Cardinality(indices) |-> Sublist(s, indices)[k]]
  BY DEF Sublist
<1>3. List(Sublist(s, indices)) /\ Len(Sublist(s, indices)) = Cardinality(indices)
  BY <1>1, <1>2, FunctionIsList
<1>4. QED
  BY <1>1, <1>3

\* The other way round.
LEMMA ReversedIsList ==
    ASSUME NEW s, List(s)
    PROVE  /\ List(Reverse(s)) /\ Len(Reverse(s)) = Len(s)
           /\ \A i \in 1..Len(s) : \E j \in 1..Len(s) : Reverse(s)[i] = s[j]
<1>1. Len(s) \in Nat
  BY ListIs
<1>2. Reverse(s) = [i \in 1..Len(s) |-> Reverse(s)[i]]
  BY DEF Reverse
<1>3. List(Reverse(s)) /\ Len(Reverse(s)) = Len(s)
  BY <1>1, <1>2, FunctionIsList
<1>4. ASSUME NEW i \in 1..Len(s) PROVE \E j \in 1..Len(s) : Reverse(s)[i] = s[j]
  <2>1. Reverse(s)[i] = s[(Len(s) - i) + 1]
    BY DEF Reverse
  <2>2. (Len(s) - i) + 1 \in 1..Len(s)
    BY <1>1
  <2>3. QED
    BY <2>1, <2>2
<1>5. QED
  BY <1>3, <1>4

\* A new digest keeps the shape.
LEMMA SealedIs ==
    ASSUME NEW e, WellFormed(e), NEW x
    PROVE  WellFormed([e EXCEPT !.parity = x])
BY DEF WellFormed

\* The changes that the fixtures make, by the field that they change.
WithAccounts(e, x) == [e EXCEPT !.primary.accounts = x]
WithData(e, x) == [e EXCEPT !.primary.data = x]
WithHooks(e, x) == [e EXCEPT !.hooks = x]
WithHook(e, i, hook) == [e EXCEPT !.hooks[i] = hook]

\* Each keeps the shape of the envelope.
LEMMA AccountsChanged ==
    ASSUME NEW e, WellFormed(e), NEW x, List(x)
    PROVE  WellFormed(WithAccounts(e, x))
<1> DEFINE new == WithAccounts(e, x)
<1>1. DOMAIN new = DOMAIN e /\ new.hooks = e.hooks /\ Framed(new.primary)
  BY DEF WithAccounts, WellFormed, Framed
<1> HIDE DEF new
<1>2. WellFormed(new)
  BY <1>1, PrimaryChanged
<1>3. QED
  BY <1>2 DEF new

\* Other data.
LEMMA DataChanged ==
    ASSUME NEW e, WellFormed(e), NEW x, List(x)
    PROVE  WellFormed(WithData(e, x))
<1> DEFINE new == WithData(e, x)
<1>1. DOMAIN new = DOMAIN e /\ new.hooks = e.hooks /\ Framed(new.primary)
  BY DEF WithData, WellFormed, Framed
<1> HIDE DEF new
<1>2. WellFormed(new)
  BY <1>1, PrimaryChanged
<1>3. QED
  BY <1>2 DEF new

\* Other hooks, as many.
LEMMA HooksReplaced ==
    ASSUME NEW e, WellFormed(e), NEW x, List(x), Len(x) = Len(e.hooks),
           \A i \in 1..Len(x) : HookFramed(x[i])
    PROVE  WellFormed(WithHooks(e, x))
<1> DEFINE new == WithHooks(e, x)
<1>1. DOMAIN new = DOMAIN e /\ new.primary = e.primary /\ new.hooks = x
  BY DEF WithHooks, WellFormed
<1> HIDE DEF new
<1>2. WellFormed(new)
  BY <1>1, HooksChanged
<1>3. QED
  BY <1>2 DEF new

\* Another hook in the place of one.
LEMMA HookReplaced ==
    ASSUME NEW e, WellFormed(e), NEW i, NEW hook, HookFramed(hook)
    PROVE  WellFormed(WithHook(e, i, hook))
<1> DEFINE new == WithHook(e, i, hook)
           x == [e.hooks EXCEPT ![i] = hook]
<1>1. DOMAIN new = DOMAIN e /\ new.primary = e.primary /\ new.hooks = x
  BY DEF WithHook, WellFormed
<1>2. List(e.hooks) /\ \A j \in 1..Len(e.hooks) : HookFramed(e.hooks[j])
  BY DEF WellFormed
<1>3. DOMAIN x = DOMAIN e.hooks /\ x = [j \in DOMAIN e.hooks |-> x[j]]
  OBVIOUS
<1>4. \A j \in DOMAIN e.hooks : x[j] \in {e.hooks[j], hook}
  OBVIOUS
<1> HIDE DEF x, new
<1>5. List(x) /\ Len(x) = Len(e.hooks)
  BY <1>2, <1>3, Replaced
<1>6. \A j \in 1..Len(x) : HookFramed(x[j])
  BY <1>2, <1>4, <1>5, ListIs
<1>7. WellFormed(new)
  BY <1>1, <1>5, <1>6, HooksChanged
<1>8. QED
  BY <1>7 DEF new

\* A field of an instruction in which nothing is decoded.
LEMMA OtherField ==
    ASSUME NEW e, WellFormed(e), NEW field, field \notin {"data", "accounts"}, NEW x
    PROVE  WellFormed([e EXCEPT !.primary[field] = x])
<1> DEFINE new == [e EXCEPT !.primary[field] = x]
<1>1. DOMAIN new = DOMAIN e /\ new.hooks = e.hooks /\ Framed(new.primary)
  BY DEF WellFormed, Framed
<1> HIDE DEF new
<1>2. WellFormed(new)
  BY <1>1, PrimaryChanged
<1>3. QED
  BY <1>2 DEF new

\* Changing one entry of a list.
LEMMA ListExcept ==
    ASSUME NEW s, List(s), NEW i, NEW x
    PROVE  List([s EXCEPT ![i] = x]) /\ Len([s EXCEPT ![i] = x]) = Len(s)
<1> DEFINE t == [s EXCEPT ![i] = x]
<1>1. DOMAIN t = DOMAIN s /\ t = [j \in DOMAIN s |-> t[j]]
  OBVIOUS
<1> HIDE DEF t
<1>2. List(t) /\ Len(t) = Len(s)
  BY <1>1, Replaced
<1>3. QED
  BY <1>2 DEF t

\* Every invalid fixture keeps the shape (generate-instruction-contract.mjs 532-698).
LEMMA MutatedKeeps ==
    ASSUME NEW case \in DOMAIN InvalidCases, NEW e, WellFormed(e)
    PROVE  WellFormed(Mutated(case, e))
<1> DEFINE new == Mutated(case, e)
           accounts == e.primary.accounts
           data == e.primary.data
<1>1. /\ List(accounts) /\ List(data) /\ List(e.hooks) /\ Len(accounts) \in Nat
      /\ \A i \in 1..Len(e.hooks) : HookFramed(e.hooks[i])
      /\ DOMAIN accounts = 1..Len(accounts)
  BY ListIs DEF WellFormed, Framed
<1>2. case \in {"revision_mismatch", "job_kind_mismatch", "instruction_mismatch",
                "program_id_mismatch", "invalid_pubkey", "discriminator_mismatch",
                "missing_required_account", "account_order_mismatch", "account_flags_mismatch",
                "fixed_address_mismatch", "required_optional_account_missing",
                "cpi_hook_mismatch", "remaining_accounts_mismatch",
                "delegated_hook_data_mismatch", "parity_mismatch"}
  BY DEF InvalidCases
<1>3. CASE case \in {"revision_mismatch", "job_kind_mismatch", "parity_mismatch"}
  <2>1. DOMAIN new = DOMAIN e /\ new.primary = e.primary /\ new.hooks = e.hooks
    BY <1>3 DEF Mutated, WellFormed
  <2> HIDE DEF new
  <2>2. WellFormed(new)
    BY <2>1 DEF WellFormed
  <2>3. QED
    BY <2>2 DEF new
<1>4. CASE case = "instruction_mismatch"
  <2>1. new = [e EXCEPT !.primary["name"] = "execute_operator_change"]
    BY <1>4 DEF Mutated
  <2>2. QED
    BY <2>1, OtherField
<1>5. CASE case = "program_id_mismatch"
  <2>1. new = [e EXCEPT !.primary["id"] = <<"key", "wrong-program">>]
    BY <1>5 DEF Mutated
  <2>2. QED
    BY <2>1, OtherField
<1>6. CASE case = "remaining_accounts_mismatch"
  <2>1. new = [e EXCEPT !.primary["remaining"] = Swapped(e.primary.remaining)]
    BY <1>6 DEF Mutated
  <2>2. QED
    BY <2>1, OtherField
<1>7. CASE case = "invalid_pubkey"
  <2> DEFINE x == [accounts EXCEPT ![1] = [accounts[1] EXCEPT !.address = <<"not a key">>]]
  <2>1. new = WithAccounts(e, x)
    BY <1>7 DEF Mutated, WithAccounts
  <2>2. List(x)
    <3> HIDE DEF accounts
    <3>1. QED
      BY <1>1, ListExcept
  <2> HIDE DEF x
  <2>3. QED
    BY <2>1, <2>2, AccountsChanged
<1>8. CASE case = "account_flags_mismatch"
  <2> DEFINE x == [accounts EXCEPT ![1] = [accounts[1] EXCEPT !.writable = ~accounts[1].writable]]
  <2>1. new = WithAccounts(e, x)
    BY <1>8 DEF Mutated, WithAccounts
  <2>2. List(x)
    <3> HIDE DEF accounts
    <3>1. QED
      BY <1>1, ListExcept
  <2> HIDE DEF x
  <2>3. QED
    BY <2>1, <2>2, AccountsChanged
<1>9. CASE case = "discriminator_mismatch"
  <2> DEFINE x == [data EXCEPT ![1] = IF data[1] = 0 THEN 1 ELSE 0]
  <2>1. new = WithData(e, x)
    BY <1>9 DEF Mutated, WithData
  <2>2. List(x)
    <3> HIDE DEF data
    <3>1. QED
      BY <1>1, ListExcept
  <2> HIDE DEF x
  <2>3. QED
    BY <2>1, <2>2, DataChanged
<1>10. CASE case = "missing_required_account"
  <2> DEFINE x == RemoveAt(accounts, 2)
  <2>1. new = WithAccounts(e, x)
    BY <1>10 DEF Mutated, WithAccounts
  <2>2. List(x)
    BY <1>1, RemovedIsList
  <2> HIDE DEF x
  <2>3. QED
    BY <2>1, <2>2, AccountsChanged
<1>11. CASE case = "account_order_mismatch"
  <2> DEFINE x == Swapped(accounts)
  <2>1. new = WithAccounts(e, x)
    BY <1>11 DEF Mutated, WithAccounts
  <2>2. List(x)
    BY <1>1, SwappedIsList
  <2> HIDE DEF x
  <2>3. QED
    BY <2>1, <2>2, AccountsChanged
<1>12. CASE case = "fixed_address_mismatch"
  <2> DEFINE x == [i \in DOMAIN accounts |->
                      IF accounts[i].name = "token_program"
                      THEN [accounts[i] EXCEPT !.address = <<"key", "wrong-token-program">>]
                      ELSE accounts[i]]
  <2>1. new = WithAccounts(e, x)
    BY <1>12 DEF Mutated, WithAccounts
  <2>2. List(x)
    <3>1. DOMAIN x = DOMAIN accounts /\ x = [i \in DOMAIN accounts |-> x[i]]
      OBVIOUS
    <3> HIDE DEF accounts, x
    <3>2. QED
      BY <1>1, <3>1, Replaced
  <2> HIDE DEF x
  <2>3. QED
    BY <2>1, <2>2, AccountsChanged
<1>13. CASE case = "required_optional_account_missing"
  <2> DEFINE left == {i \in DOMAIN accounts : accounts[i].name # "leverage_delegation"}
             x == Sublist(accounts, left)
  <2>1. new = WithAccounts(e, x)
    BY <1>13 DEF Mutated, WithAccounts
  <2>2. List(x)
    <3>1. left \in SUBSET (1..Len(accounts))
      BY <1>1
    <3> HIDE DEF left, accounts
    <3>2. QED
      BY <1>1, <3>1, SublistIsList
  <2> HIDE DEF x
  <2>3. QED
    BY <2>1, <2>2, AccountsChanged
<1>14. CASE case = "cpi_hook_mismatch"
  <2> DEFINE x == Reverse(e.hooks)
  <2>1. new = WithHooks(e, x)
    BY <1>14 DEF Mutated, WithHooks
  <2>2. /\ List(x) /\ Len(x) = Len(e.hooks)
        /\ \A i \in 1..Len(x) : \E j \in 1..Len(e.hooks) : x[i] = e.hooks[j]
    BY <1>1, ReversedIsList
  <2> HIDE DEF x
  <2>3. \A i \in 1..Len(x) : HookFramed(x[i])
    BY <1>1, <2>2
  <2>4. QED
    BY <2>1, <2>2, <2>3, HooksReplaced
<1>15. CASE case = "delegated_hook_data_mismatch"
  <2> DEFINE hook == e.hooks[1]
             x == [hook.data EXCEPT ![Len(hook.data)] = 1]
             changed == [hook EXCEPT !.data = x]
  <2>1. CASE Len(e.hooks) = 0
    <3>1. DOMAIN new = DOMAIN e /\ new.primary = e.primary /\ DOMAIN new.hooks = DOMAIN e.hooks
          /\ new.hooks = [i \in DOMAIN e.hooks |-> new.hooks[i]]
      BY <1>15 DEF Mutated, WellFormed
    <3> HIDE DEF new
    <3>2. List(new.hooks) /\ Len(new.hooks) = Len(e.hooks)
      BY <1>1, <3>1, Replaced
    <3>3. WellFormed(new)
      BY <2>1, <3>1, <3>2, HooksChanged
    <3>4. QED
      BY <3>3 DEF new
  <2>2. CASE Len(e.hooks) = 2
    <3>1. new = WithHook(e, 1, changed)
      BY <1>15 DEF Mutated, WithHook
    <3>2. HookFramed(hook)
      BY <1>1, <2>2
    <3> HIDE DEF hook
    <3>3. List(x) /\ Len(x) = Len(hook.data)
      BY <3>2, ListExcept DEF HookFramed, Framed
    <3> HIDE DEF x
    <3>4. HookFramed(changed)
      BY <3>2, <3>3 DEF HookFramed, Framed
    <3> HIDE DEF changed
    <3>5. QED
      BY <3>1, <3>4, HookReplaced
  <2>3. QED
    BY <2>1, <2>2 DEF WellFormed
<1> HIDE DEF new
<1>16. QED
  BY <1>2, <1>3, <1>4, <1>5, <1>6, <1>7, <1>8, <1>9, <1>10, <1>11, <1>12, <1>13, <1>14, <1>15 DEF new

\* So does every change of Gate,
LEMMA ChangedKeeps ==
    ASSUME NEW edit \in DOMAIN InvalidCases \cup OtherChanges, NEW e, WellFormed(e)
    PROVE  WellFormed(Changed(edit, e))
<1> DEFINE new == Changed(edit, e)
           accounts == e.primary.accounts
           data == e.primary.data
<1>1. /\ List(accounts) /\ List(data) /\ List(e.hooks) /\ Len(accounts) \in Nat
      /\ \A i \in 1..Len(e.hooks) : HookFramed(e.hooks[i])
  BY ListIs DEF WellFormed, Framed
<1>2. CASE edit \in DOMAIN InvalidCases
  <2>1. new = Mutated(edit, e)
    BY <1>2 DEF Changed, InvalidCases
  <2>2. QED
    BY <1>2, <2>1, MutatedKeeps
<1>3. ASSUME edit \in OtherChanges PROVE edit \notin DOMAIN InvalidCases
  BY <1>3 DEF OtherChanges, InvalidCases
<1>4. CASE edit = "schema"
  <2>1. new = [e EXCEPT !.intent.schema = 2]
    BY <1>3, <1>4 DEF Changed, OtherChanges
  <2>2. DOMAIN new = DOMAIN e /\ new.primary = e.primary /\ new.hooks = e.hooks
    BY <2>1 DEF WellFormed
  <2> HIDE DEF new
  <2>3. WellFormed(new)
    BY <2>2 DEF WellFormed
  <2>4. QED
    BY <2>3 DEF new
<1>5. CASE edit = "extra_account"
  <2> DEFINE x == Append(accounts, [accounts[1] EXCEPT !.name = "extra"])
  <2>1. new = WithAccounts(e, x)
    BY <1>3, <1>5 DEF Changed, WithAccounts, OtherChanges
  <2>2. List(x)
    <3> HIDE DEF accounts
    <3>1. QED
      BY <1>1, Appended
  <2> HIDE DEF x
  <2>3. QED
    BY <2>1, <2>2, AccountsChanged
<1>6. CASE edit = "optional_account"
  <2> DEFINE x == InsertAt(accounts, 2, [accounts[1] EXCEPT !.name = "leverage_position"])
  <2>1. new = WithAccounts(e, x)
    BY <1>3, <1>6 DEF Changed, WithAccounts, OtherChanges
  <2>2. List(x)
    <3> HIDE DEF accounts
    <3>1. QED
      BY <1>1, InsertedIsList
  <2> HIDE DEF x
  <2>3. QED
    BY <2>1, <2>2, AccountsChanged
<1>7. CASE edit = "extra_byte"
  <2> DEFINE x == Append(data, 0)
  <2>1. new = WithData(e, x)
    BY <1>3, <1>7 DEF Changed, WithData, OtherChanges
  <2>2. List(x)
    <3> HIDE DEF data
    <3>1. QED
      BY <1>1, Appended
  <2> HIDE DEF x
  <2>3. QED
    BY <2>1, <2>2, DataChanged
<1>8. CASE edit = "not_hex"
  <2> DEFINE x == [data EXCEPT ![Len(data)] = Radix]
  <2>1. new = WithData(e, x)
    BY <1>3, <1>8 DEF Changed, WithData, OtherChanges
  <2>2. List(x)
    <3> HIDE DEF data
    <3>1. QED
      BY <1>1, ListExcept
  <2> HIDE DEF x
  <2>3. QED
    BY <2>1, <2>2, DataChanged
<1>9. CASE edit = "remaining_account"
  <2> DEFINE x == Append(e.primary.remaining, accounts[1])
  <2>1. new = [e EXCEPT !.primary["remaining"] = x]
    BY <1>3, <1>9 DEF Changed, OtherChanges
  <2> HIDE DEF x
  <2>2. QED
    BY <2>1, OtherField
<1>10. CASE edit \in {"hook_account", "hook_remaining"} /\ Len(e.hooks) = 0
  <2>1. DOMAIN new = DOMAIN e /\ new.primary = e.primary /\ DOMAIN new.hooks = DOMAIN e.hooks
        /\ new.hooks = [i \in DOMAIN e.hooks |-> new.hooks[i]]
    BY <1>3, <1>10 DEF Changed, WellFormed, OtherChanges
  <2> HIDE DEF new
  <2>2. List(new.hooks) /\ Len(new.hooks) = Len(e.hooks)
    BY <1>1, <2>1, Replaced
  <2>3. WellFormed(new)
    BY <1>10, <2>1, <2>2, HooksChanged
  <2>4. QED
    BY <2>3 DEF new
<1>11. CASE edit = "hook_account" /\ Len(e.hooks) = 2
  <2> DEFINE hook == e.hooks[1]
             x == SubSeq(hook.accounts, 1, Len(hook.accounts) - 1)
             changed == [hook EXCEPT !.accounts = x]
  <2>1. new = WithHook(e, 1, changed)
    BY <1>3, <1>11 DEF Changed, WithHook, OtherChanges
  <2>2. HookFramed(hook)
    BY <1>1, <1>11
  <2> HIDE DEF hook
  <2>3. Len(hook.accounts) \in Nat
    BY <2>2, ListIs DEF HookFramed, Framed
  <2>4. List(x) /\ Len(x) <= Len(hook.accounts)
    BY <2>3, Slice
  <2> HIDE DEF x
  <2>5. Radix * Radix \in Nat /\ Len(x) \in Nat
    BY <2>4, RadixAssumption, ListIs
  <2>6. HookFramed(changed)
    BY <2>2, <2>3, <2>4, <2>5 DEF HookFramed, Framed
  <2> HIDE DEF changed
  <2>7. QED
    BY <2>1, <2>6, HookReplaced
<1>12. CASE edit = "hook_remaining" /\ Len(e.hooks) = 2
  <2> DEFINE hook == e.hooks[2]
             changed == [hook EXCEPT !.remaining = hook.accounts]
  <2>1. new = WithHook(e, 2, changed)
    BY <1>3, <1>12 DEF Changed, WithHook, OtherChanges
  <2>2. HookFramed(hook)
    BY <1>1, <1>12
  <2> HIDE DEF hook
  <2>3. HookFramed(changed)
    BY <2>2 DEF HookFramed, Framed
  <2> HIDE DEF changed
  <2>4. QED
    BY <2>1, <2>3, HookReplaced
<1> HIDE DEF new
<1>13. Len(e.hooks) \in {0, 2}
  BY DEF WellFormed
<1>14. QED
  BY <1>2, <1>4, <1>5, <1>6, <1>7, <1>8, <1>9, <1>10, <1>11, <1>12, <1>13 DEF OtherChanges, new

\* with its digest renewed or not.
LEMMA EditedKeeps ==
    ASSUME NEW edit \in Edits, NEW e, WellFormed(e)
    PROVE  WellFormed(Edited(edit, e))
<1>1. WellFormed(Changed(edit, e))
  BY GateAssumption, ChangedKeeps
<1>2. WellFormed(Sealed(Changed(edit, e)))
  BY <1>1, SealedIs DEF Sealed
<1>3. QED
  BY <1>1, <1>2 DEF Edited

-----------------------------------------------------------------------------
\* Envelopes that are built have the shape

\* The accounts of an instruction that is built are a list, short enough to be counted.
LEMMA ResolvedIs ==
    ASSUME NEW l \in Made, NEW action, NEW k \in InstructionKeys
    PROVE  LET accounts == ResolvedAccounts(Contracts[l], action, Contracts[l].instructions[k]) IN
           List(accounts) /\ Len(accounts) < Radix * Radix
<1> DEFINE c == Contracts[l]
           spec == c.instructions[k]
           needed(a) == ~a.optional \/ a.name \in c.actions[action].required
           left == {i \in DOMAIN spec.accounts : needed(spec.accounts[i])}
           listed == Sublist(spec.accounts, left)
           accounts == [i \in DOMAIN listed |-> ResolvedMeta(c, action, spec, listed[i])]
<1>1. List(spec.accounts) /\ Len(spec.accounts) < Radix * Radix
  BY SpecificationIs
<1>2. Len(spec.accounts) \in Nat /\ DOMAIN spec.accounts = 1..Len(spec.accounts)
  BY <1>1, ListIs
<1>3. left \in SUBSET (1..Len(spec.accounts))
  BY <1>2
<1>4. ResolvedAccounts(c, action, spec) = accounts
  BY DEF ResolvedAccounts
<1> HIDE DEF left, spec, c
<1>5. List(listed) /\ Len(listed) <= Len(spec.accounts)
  BY <1>2, <1>3, SublistIsList
<1> HIDE DEF listed
<1>6. DOMAIN accounts = DOMAIN listed /\ accounts = [i \in DOMAIN listed |-> accounts[i]]
  OBVIOUS
<1> HIDE DEF accounts
<1>7. List(accounts) /\ Len(accounts) = Len(listed)
  BY <1>5, <1>6, Replaced
<1>8. Len(accounts) \in Nat /\ Radix * Radix \in Nat
  BY <1>7, ListIs, RadixAssumption
<1>9. Len(accounts) < Radix * Radix
  BY <1>1, <1>2, <1>5, <1>7, <1>8
<1>10. QED
  BY <1>4, <1>7, <1>9 DEF spec, c

\* The width of a u64.
LEMMA U64Is ==
    ASSUME NEW v
    PROVE  List(U64(v)) /\ Len(U64(v)) = 8
BY LeList DEF U64

\* A concatenation is a list.
LEMMA ConcatIsList ==
    ASSUME NEW s, NEW t, List(s), List(t)
    PROVE  List(s \o t)
BY Concat

\* The arguments that are written by hand are lists.
LEMMA ArgumentsAre ==
    /\ \A name \in DOMAIN DirectArguments : List(DirectArguments[name])
    /\ \A name \in {"before_take_profit", "before_stop_loss", "after_close_order"} :
         name \in DOMAIN DirectArguments /\ Len(DirectArguments[name]) = 8
    /\ \A a \in Actions : ActionDefinitions[a].primary[2] # "delegated_close_leverage"
         => ActionDefinitions[a].primary[2] \in DOMAIN DirectArguments
<1>1. \A v : List(U64(v)) /\ List(U16(v)) /\ Len(U64(v)) = 8
  BY U64Is, LeList DEF U16
<1>2. \A s, t : List(s) /\ List(t) => List(s \o t)
  BY ConcatIsList
<1>3. List(<<>>) /\ List(<<0>>) /\ List(<<0, 0>>)
  BY Shorts
<1> DEFINE sevens == [i \in 1..32 |-> 7]
<1>4. List(sevens)
  <2>1. sevens = [i \in 1..32 |-> sevens[i]]
    OBVIOUS
  <2> HIDE DEF sevens
  <2>2. QED
    BY <2>1, FunctionIsList
<1>5. DOMAIN DirectArguments =
        {"settle_flash_liquidation", "initialize_operator_revenue", "execute_operator_change",
         "settle_hlp_flash", "preview_hlp_flash", "preview_liquidation_health",
         "begin_hlp_flash", "close_insolvent_hlp", "preview_flash_liquidation",
         "preview_emergency_liquidation", "begin_flash_liquidation", "emergency_liquidation",
         "settle_protocol_auction", "before_take_profit", "before_stop_loss",
         "after_close_order", "execute_hlp_order", "execute_leverage_entry_order"}
  BY DEF DirectArguments
<1>6. /\ List(DirectArguments.before_take_profit) /\ Len(DirectArguments.before_take_profit) = 8
      /\ List(DirectArguments.before_stop_loss) /\ Len(DirectArguments.before_stop_loss) = 8
      /\ List(DirectArguments.after_close_order) /\ Len(DirectArguments.after_close_order) = 8
  <2>1. /\ DirectArguments.before_take_profit = U64(7)
        /\ DirectArguments.before_stop_loss = U64(7)
        /\ DirectArguments.after_close_order = U64(7)
    BY Zenon DEF DirectArguments
  <2>2. QED
    BY <1>1, <2>1
<1>6a. \A name \in DOMAIN DirectArguments : List(DirectArguments[name])
  <2>1. List(DirectArguments.settle_flash_liquidation)
    <3>1. DirectArguments.settle_flash_liquidation = <<>>
      BY Zenon DEF DirectArguments
    <3>2. QED
      BY <1>1, <1>3, <3>1
  <2>2. List(DirectArguments.initialize_operator_revenue)
    <3>1. DirectArguments.initialize_operator_revenue = <<>>
      BY Zenon DEF DirectArguments
    <3>2. QED
      BY <1>1, <1>3, <3>1
  <2>3. List(DirectArguments.execute_operator_change)
    <3>1. DirectArguments.execute_operator_change = <<>>
      BY Zenon DEF DirectArguments
    <3>2. QED
      BY <1>1, <1>3, <3>1
  <2>4. List(DirectArguments.settle_hlp_flash)
    <3>1. DirectArguments.settle_hlp_flash = <<>>
      BY Zenon DEF DirectArguments
    <3>2. QED
      BY <1>1, <1>3, <3>1
  <2>5. List(DirectArguments.preview_hlp_flash)
    <3>1. DirectArguments.preview_hlp_flash = <<0>>
      BY Zenon DEF DirectArguments
    <3>2. QED
      BY <1>1, <1>3, <3>1
  <2>6. List(DirectArguments.preview_liquidation_health)
    <3>1. DirectArguments.preview_liquidation_health = <<0>>
      BY Zenon DEF DirectArguments
    <3>2. QED
      BY <1>1, <1>3, <3>1
  <2>7. List(DirectArguments.begin_hlp_flash)
    <3>1. DirectArguments.begin_hlp_flash = <<0>> \o U64(1000) \o <<0>> \o U64(500) \o U64(250) \o U64(1100)
                          \o U64(900) \o U16(4)
      BY Zenon DEF DirectArguments
    <3> DEFINE one == <<0>>
               two == <<0, 0>>
    <3>2. DirectArguments.begin_hlp_flash = one \o U64(1000) \o one \o U64(500) \o U64(250) \o U64(1100)
                          \o U64(900) \o U16(4) /\ List(one) /\ List(two)
      BY <1>3, <3>1
    <3> HIDE DEF one, two
    <3>3. QED
      BY <1>1, <1>2, <1>4, <3>2
  <2>8. List(DirectArguments.close_insolvent_hlp)
    <3>1. DirectArguments.close_insolvent_hlp = <<0>> \o U64(500) \o U64(250) \o U64(1)
      BY Zenon DEF DirectArguments
    <3> DEFINE one == <<0>>
               two == <<0, 0>>
    <3>2. DirectArguments.close_insolvent_hlp = one \o U64(500) \o U64(250) \o U64(1) /\ List(one) /\ List(two)
      BY <1>3, <3>1
    <3> HIDE DEF one, two
    <3>3. QED
      BY <1>1, <1>2, <1>4, <3>2
  <2>9. List(DirectArguments.preview_flash_liquidation)
    <3>1. DirectArguments.preview_flash_liquidation = <<0>> \o U64(1000) \o <<0>>
      BY Zenon DEF DirectArguments
    <3> DEFINE one == <<0>>
               two == <<0, 0>>
    <3>2. DirectArguments.preview_flash_liquidation = one \o U64(1000) \o one /\ List(one) /\ List(two)
      BY <1>3, <3>1
    <3> HIDE DEF one, two
    <3>3. QED
      BY <1>1, <1>2, <1>4, <3>2
  <2>10. List(DirectArguments.preview_emergency_liquidation)
    <3>1. DirectArguments.preview_emergency_liquidation = <<0>> \o U64(1000) \o <<0>>
      BY Zenon DEF DirectArguments
    <3> DEFINE one == <<0>>
               two == <<0, 0>>
    <3>2. DirectArguments.preview_emergency_liquidation = one \o U64(1000) \o one /\ List(one) /\ List(two)
      BY <1>3, <3>1
    <3> HIDE DEF one, two
    <3>3. QED
      BY <1>1, <1>2, <1>4, <3>2
  <2>11. List(DirectArguments.begin_flash_liquidation)
    <3>1. DirectArguments.begin_flash_liquidation = sevens \o <<0>> \o U64(1000) \o U64(1100) \o U64(900) \o U64(25) \o <<0>>
                          \o U16(1)
      BY Zenon DEF DirectArguments
    <3> DEFINE one == <<0>>
               two == <<0, 0>>
    <3>2. DirectArguments.begin_flash_liquidation = sevens \o one \o U64(1000) \o U64(1100) \o U64(900) \o U64(25) \o one
                          \o U16(1) /\ List(one) /\ List(two)
      BY <1>3, <3>1
    <3> HIDE DEF one, two, sevens
    <3>3. QED
      BY <1>1, <1>2, <1>4, <3>2
  <2>12. List(DirectArguments.emergency_liquidation)
    <3>1. DirectArguments.emergency_liquidation = <<0>> \o U64(1000) \o <<0>> \o U64(1) \o U64(900)
      BY Zenon DEF DirectArguments
    <3> DEFINE one == <<0>>
               two == <<0, 0>>
    <3>2. DirectArguments.emergency_liquidation = one \o U64(1000) \o one \o U64(1) \o U64(900) /\ List(one) /\ List(two)
      BY <1>3, <3>1
    <3> HIDE DEF one, two
    <3>3. QED
      BY <1>1, <1>2, <1>4, <3>2
  <2>13. List(DirectArguments.settle_protocol_auction)
    <3>1. DirectArguments.settle_protocol_auction = <<0, 0>> \o U64(1000) \o U64(950)
      BY Zenon DEF DirectArguments
    <3> DEFINE one == <<0>>
               two == <<0, 0>>
    <3>2. DirectArguments.settle_protocol_auction = two \o U64(1000) \o U64(950) /\ List(one) /\ List(two)
      BY <1>3, <3>1
    <3> HIDE DEF one, two
    <3>3. QED
      BY <1>1, <1>2, <1>4, <3>2
  <2>14. List(DirectArguments.execute_hlp_order)
    <3>1. DirectArguments.execute_hlp_order = U64(7)
      BY Zenon DEF DirectArguments
    <3>2. QED
      BY <1>1, <1>3, <3>1
  <2>15. List(DirectArguments.execute_leverage_entry_order)
    <3>1. DirectArguments.execute_leverage_entry_order = U64(7) \o U64(0)
      BY Zenon DEF DirectArguments
    <3>2. QED
      BY <1>1, <1>2, <3>1
  <2>16. QED
    BY <1>5, <1>6, <2>1, <2>2, <2>3, <2>4, <2>5, <2>6, <2>7, <2>8, <2>9, <2>10, <2>11, <2>12, <2>13, <2>14, <2>15
<1>7. \A a \in Actions : ActionDefinitions[a].primary[2] # "delegated_close_leverage"
         => ActionDefinitions[a].primary[2] \in DOMAIN DirectArguments
  BY DEF Actions, ActionDefinitions, Job, DelegatedClose, DirectArguments
<1>8. QED
  BY <1>5, <1>6, <1>6a, <1>7

\* An instruction that is built has the shape.
LEMMA InstructionFramed ==
    ASSUME NEW l \in Made, NEW action, NEW k \in InstructionKeys, NEW data, List(data)
    PROVE  LET ix == Instruction(Contracts[l], action, k, data) IN
           Framed(ix) /\ ix.data = data /\ Len(ix.accounts) < Radix * Radix /\ "remaining" \in DOMAIN ix
<1> DEFINE c == Contracts[l]
           accounts == ResolvedAccounts(c, action, c.instructions[k])
           ix == Instruction(c, action, k, data)
<1>1. List(accounts) /\ Len(accounts) < Radix * Radix
  BY ResolvedIs
<1> HIDE DEF accounts
<1>2. /\ {"data", "accounts", "remaining"} \subseteq DOMAIN ix
      /\ ix.data = data /\ ix.accounts = accounts
  BY DEF Instruction, accounts
<1> HIDE DEF ix, c
<1>3. Framed(ix) /\ ix.data = data /\ Len(ix.accounts) < Radix * Radix /\ "remaining" \in DOMAIN ix
  BY <1>1, <1>2 DEF Framed
<1>4. QED
  BY <1>3 DEF ix, c

\* The data of an instruction whose arguments are written by hand.
LEMMA DirectIs ==
    ASSUME NEW l \in Made, NEW k \in InstructionKeys, k[2] \in DOMAIN DirectArguments
    PROVE  LET data == DirectInstructionData(Contracts[l].instructions[k]) IN
           List(data) /\ Len(data) = 8 + Len(DirectArguments[k[2]])
<1> DEFINE spec == Contracts[l].instructions[k]
<1>1. List(spec.discriminator) /\ Len(spec.discriminator) = 8 /\ spec.name = k[2]
  BY SpecificationIs
<1>2. List(DirectArguments[k[2]])
  BY ArgumentsAre
<1> HIDE DEF spec
<1>3. DirectInstructionData(spec) = spec.discriminator \o DirectArguments[k[2]]
  BY <1>1 DEF DirectInstructionData
<1> DEFINE d == spec.discriminator
           a == DirectArguments[k[2]]
<1> HIDE DEF d, a
<1>3a. List(d \o a) /\ Len(d \o a) = Len(d) + Len(a)
  BY <1>1, <1>2, Concat DEF d, a
<1>4. List(DirectInstructionData(spec))
      /\ Len(DirectInstructionData(spec)) = 8 + Len(DirectArguments[k[2]])
  BY <1>1, <1>3, <1>3a DEF d, a
<1>5. QED
  BY <1>4 DEF spec

\* A hook is built with 16 bytes of data.
LEMMA HookBuilt ==
    ASSUME NEW l \in Made, NEW action, NEW k \in InstructionKeys,
           k[2] \in {"before_take_profit", "before_stop_loss", "after_close_order"}
    PROVE  HookFramed(Instruction(Contracts[l], action, k,
                                  DirectInstructionData(Contracts[l].instructions[k])))
<1> DEFINE data == DirectInstructionData(Contracts[l].instructions[k])
           hook == Instruction(Contracts[l], action, k, data)
<1>1. k[2] \in DOMAIN DirectArguments /\ Len(DirectArguments[k[2]]) = 8
  BY ArgumentsAre
<1>2. List(data) /\ Len(data) = 8 + Len(DirectArguments[k[2]])
  BY <1>1, DirectIs
<1> HIDE DEF data
<1>3. Framed(hook) /\ hook.data = data /\ Len(hook.accounts) < Radix * Radix
  BY ZenonT(30), <1>2, InstructionFramed
<1> HIDE DEF hook
<1>4. HookFramed(hook)
  BY <1>1, <1>2, <1>3 DEF HookFramed
<1>5. QED
  BY <1>4 DEF hook, data

\* Every envelope that is built has the shape.
LEMMA BuiltIsWellFormed ==
    ASSUME NEW l \in Made, NEW action \in Actions
    PROVE  WellFormed(BuildValidEnvelope(Contracts[l], action))
<1> DEFINE c == Contracts[l]
           job == ActionDefinitions[action]
           keys == c.actions[action].cpi
           key == c.actions[action].primary
           direct(k) == DirectInstructionData(c.instructions[k])
           hooks == [i \in DOMAIN keys |-> Instruction(c, action, keys[i], direct(keys[i]))]
           data == PrimaryData(c, action, hooks)
           ix == Instruction(c, action, key, data)
           primary == [ix EXCEPT !.remaining = FlattenSeq([i \in DOMAIN hooks |-> hooks[i].accounts])]
           new == BuildValidEnvelope(c, action)
<1>1. keys = job.cpi /\ key = job.primary
  BY ContractIs
<1>2. /\ List(keys) /\ Len(keys) \in {0, 2} /\ DOMAIN keys = 1..Len(keys)
      /\ \A i \in 1..Len(keys) :
            /\ keys[i] \in InstructionKeys
            /\ keys[i][2] \in {"before_take_profit", "before_stop_loss", "after_close_order"}
      /\ key \in InstructionKeys /\ (key[2] = "delegated_close_leverage" => Len(keys) = 2)
      /\ key[2] # "delegated_close_leverage" => key[2] \in DOMAIN DirectArguments
  <2>1. /\ List(job.cpi) /\ Len(job.cpi) \in {0, 2}
        /\ \A i \in 1..Len(job.cpi) : job.cpi[i] \in InstructionKeys
    BY CpiIs
  <2>2. DOMAIN job.cpi = 1..Len(job.cpi)
    BY <2>1, ListIs
  <2>3. /\ job.primary[2] = "delegated_close_leverage" => Len(job.cpi) = 2
        /\ job.primary \in InstructionKeys
        /\ \A i \in DOMAIN job.cpi :
             job.cpi[i][2] \in {"before_take_profit", "before_stop_loss", "after_close_order"}
    BY ActionFacts
  <2>4. job.primary[2] # "delegated_close_leverage" => job.primary[2] \in DOMAIN DirectArguments
    BY ArgumentsAre
  <2> HIDE DEF job
  <2>5. QED
    BY <1>1, <2>1, <2>2, <2>3, <2>4
<1> HIDE DEF keys, key
<1>3. ASSUME NEW i \in 1..Len(keys) PROVE HookFramed(hooks[i])
  <2> DEFINE k == keys[i]
  <2>1. /\ k \in InstructionKeys
        /\ k[2] \in {"before_take_profit", "before_stop_loss", "after_close_order"}
    BY <1>2
  <2>2. hooks[i] = Instruction(c, action, k, DirectInstructionData(c.instructions[k]))
    BY <1>2
  <2> HIDE DEF hooks, k
  <2>3. QED
    BY <2>1, <2>2, HookBuilt
<1>4. List(hooks) /\ Len(hooks) = Len(keys)
  <2>1. DOMAIN hooks = DOMAIN keys /\ hooks = [i \in DOMAIN keys |-> hooks[i]]
    OBVIOUS
  <2> HIDE DEF hooks
  <2>2. QED
    BY <1>2, <2>1, Replaced
<1> HIDE DEF hooks
<1>5. List(data)
  <2> DEFINE spec == c.instructions[key]
  <2>1. spec.name = key[2] /\ List(spec.discriminator)
    BY <1>2, SpecificationIs
  <2>2. c.actions[action].primary = key
    BY DEF key
  <2>3. CASE key[2] # "delegated_close_leverage"
    <3>1. data = direct(key)
      BY <2>1, <2>2, <2>3 DEF PrimaryData
    <3>2. List(direct(key))
      BY <1>2, <2>3, DirectIs
    <3>3. QED
      BY <3>1, <3>2
  <2>4. CASE key[2] = "delegated_close_leverage"
    <3> DEFINE d == spec.discriminator
               z == <<0>>
               b == Vector(hooks[1].data)
               a == Vector(hooks[2].data)
               n == U16(Len(hooks[1].accounts))
               m == U16(Everything)
    <3>1. data = d \o z \o U64(800) \o m \o b \o a \o n
      BY <2>1, <2>2, <2>4 DEF PrimaryData
    <3>2. HookFramed(hooks[1]) /\ HookFramed(hooks[2])
      BY <1>2, <1>3, <2>4
    <3>3. List(b) /\ List(a)
      BY <3>2, VectorIs DEF HookFramed, Framed
    <3>4. List(d) /\ List(z) /\ List(U64(800)) /\ List(m) /\ List(n)
      BY <2>1, Shorts, U64Is, LeList DEF U16
    <3> HIDE DEF data, d, z, b, a, n, m
    <3>5. List(d \o z \o U64(800) \o m \o b \o a \o n)
      BY <3>3, <3>4, ConcatIsList
    <3>6. QED
      BY <3>1, <3>5
  <2>5. QED
    BY <2>3, <2>4
<1> HIDE DEF data
<1>6. Framed(ix)
  BY <1>2, <1>5, InstructionFramed
<1> HIDE DEF ix
<1>7. Framed(primary)
  BY <1>6 DEF Framed
<1>8. /\ {"primary", "hooks"} \subseteq DOMAIN new
      /\ new.primary = primary /\ new.hooks = hooks
  BY DEF BuildValidEnvelope, Sealed, data, hooks, ix, keys, key
<1> HIDE DEF new, primary
<1>9. WellFormed(new)
  BY <1>2, <1>3, <1>4, <1>7, <1>8 DEF WellFormed
<1>10. QED
  BY <1>9 DEF new

-----------------------------------------------------------------------------
\* The gate

\* What the constructor of the validator has checked of a deployed pair.
LEMMA DeployableIs ==
    ASSUME NEW lock \in DOMAIN Locks, NEW made \in Made,
           ConstructValidator(Locks[lock], Contracts[made]) = "ok"
    PROVE  /\ Contracts[made].revision = Locks[lock].revision
           /\ IdlsOf[made] = IdlsOf[lock]
<1> DEFINE c == Contracts[made]
           listed == c.programs
           own == Locks[made].programs
           theirs == Locks[lock].programs
           pinned(p) == {q \in ToSet(theirs) : q.name = p.name}
           r1 == Refuse(c.schema # 1 \/ c.revision # Locks[lock].revision, "revision_mismatch")
           r2 == Refuse(\E i, j \in DOMAIN listed : i < j /\ listed[i].name = listed[j].name,
                        "instruction_mismatch")
           r3 == Refuse(\E p \in ToSet(listed) :
                            ~\E q \in pinned(p) : q.id = p.id /\ q.idl = p.idl,
                        "program_id_mismatch")
<1>1. ConstructValidator(Locks[lock], c) = r1 ++ r2 ++ r3
  BY DEF ConstructValidator
<1>2. r1 = "ok" /\ r3 = "ok"
  <2> HIDE DEF r1, r2, r3
  <2>1. QED
    BY <1>1, Both
<1>3. c.revision = Locks[lock].revision
  BY <1>2 DEF Refuse
<1>4. \A p \in ToSet(listed) : \E q \in pinned(p) : q.id = p.id /\ q.idl = p.idl
  BY <1>2 DEF Refuse
<1>5. listed = [i \in DOMAIN own |-> [name |-> own[i].name, id |-> own[i].id, idl |-> own[i].idl]]
  BY ContractIs
<1> HIDE DEF listed
<1>6. ASSUME NEW p \in ToSet(own)
      PROVE  \E q \in ToSet(theirs) : q.name = p.name /\ q.idl = p.idl
  <2>1. PICK i \in DOMAIN own : own[i] = p
    BY DEF ToSet
  <2> DEFINE x == [name |-> p.name, id |-> p.id, idl |-> p.idl]
  <2>2. DOMAIN listed = DOMAIN own /\ listed[i] = x
    BY <1>5, <2>1
  <2>3. x \in ToSet(listed)
    BY <2>1, <2>2 DEF ToSet
  <2>4. x.name = p.name /\ x.idl = p.idl
    OBVIOUS
  <2> HIDE DEF x
  <2>5. PICK q \in pinned(x) : q.id = x.id /\ q.idl = x.idl
    BY <1>4, <2>3
  <2>6. QED
    BY <2>4, <2>5
<1>7. IdlsOf[made] = IdlsOf[lock]
  BY <1>6, HashAssumption
<1>8. QED
  BY <1>3, <1>7

\* The deployed lock and contract are a pair with which a validator can be constructed.
LiveIsDeployable == \E d \in Deployable : live = [lock |-> d[1], made |-> d[2]]

\* The envelope in hand, if any, has the shape, changed or not.
WorkIsWellFormed ==
    \/ work = NoWork
    \/ /\ work = [kind |-> "envelope", e |-> work.e, edits |-> work.edits, signed |-> work.signed]
       /\ WellFormed(work.e)

\* The inductive invariant: the shape and the pair are what the verdict rests on.
GateIInv == LiveIsDeployable /\ WorkIsWellFormed /\ SignedIsPinned

\* What is known of the deployed pair.
LEMMA LiveIs ==
    ASSUME LiveIsDeployable
    PROVE  /\ live.lock \in DOMAIN Locks /\ live.made \in Made
           /\ Contracts[live.made].revision = Locks[live.lock].revision
           /\ IdlsOf[live.made] = IdlsOf[live.lock]
<1>1. PICK d \in Deployable : live = [lock |-> d[1], made |-> d[2]]
  BY DEF LiveIsDeployable
<1>2. /\ live.lock \in DOMAIN Locks /\ live.made \in Made
      /\ ConstructValidator(Locks[live.lock], Contracts[live.made]) = "ok"
  BY <1>1 DEF Deployable
<1>3. QED
  BY <1>2, DeployableIs

\* At the start nothing is in hand.
LEMMA GateInitEstablishes == GateInit => GateIInv
BY DEF GateInit, GateIInv, LiveIsDeployable, WorkIsWellFormed, SignedIsPinned, NoWork

\* A deployment changes the pair, not the envelope or what was signed.
LEMMA DeployKeeps ==
    ASSUME GateIInv, NEW lock, NEW made, Deploy(lock, made)
    PROVE  GateIInv'
<1>1. LiveIsDeployable'
  <2>1. /\ live' = [lock |-> <<lock, made>>[1], made |-> <<lock, made>>[2]]
        /\ <<lock, made>> \in Deployable
    BY DEF Deploy
  <2>2. QED
    BY <2>1 DEF LiveIsDeployable
<1>2. WorkIsWellFormed' /\ SignedIsPinned'
  BY DEF Deploy, GateIInv, WorkIsWellFormed, SignedIsPinned
<1>3. QED
  BY <1>1, <1>2 DEF GateIInv

\* A new envelope has the shape and is not signed.
LEMMA BuildKeeps ==
    ASSUME GateIInv, NEW action \in Actions, Build(action)
    PROVE  GateIInv'
<1> DEFINE e == BuildValidEnvelope(Contracts[live.made], action)
<1>1. live.made \in Made
  BY LiveIs DEF GateIInv
<1>2. WellFormed(e)
  BY <1>1, BuiltIsWellFormed
<1>3. work' = [kind |-> "envelope", e |-> e, edits |-> 0, signed |-> {}] /\ live' = live
  BY DEF Build
<1> HIDE DEF e
<1>4. /\ work'.e = e /\ work'.signed = {}
      /\ work' = [kind |-> "envelope", e |-> work'.e, edits |-> work'.edits, signed |-> work'.signed]
  BY <1>3
<1>5. LiveIsDeployable'
  BY <1>3 DEF GateIInv, LiveIsDeployable
<1>6. WorkIsWellFormed' /\ SignedIsPinned'
  BY <1>2, <1>4 DEF WorkIsWellFormed, SignedIsPinned
<1>7. QED
  BY <1>5, <1>6 DEF GateIInv

\* A change keeps the shape; a signed envelope is not changed.
LEMMA EditKeeps ==
    ASSUME GateIInv, NEW edit \in Edits, Edit(edit)
    PROVE  GateIInv'
<1> DEFINE e == Edited(edit, work.e)
<1>1. /\ work = [kind |-> "envelope", e |-> work.e, edits |-> work.edits, signed |-> work.signed]
      /\ WellFormed(work.e)
  BY DEF Edit, GateIInv, WorkIsWellFormed, NoWork
<1>2. WellFormed(e)
  BY <1>1, EditedKeeps
<1>3. /\ work' = [work EXCEPT !.e = e, !.edits = work.edits + 1] /\ live' = live
      /\ work.signed = {}
  BY DEF Edit
<1> HIDE DEF e
<1>3a. work' = [kind |-> "envelope", e |-> e, edits |-> work.edits + 1, signed |-> work.signed]
  <2> DEFINE old == work.e
             count == work.edits
             signed == work.signed
             more == count + 1
  <2>1. /\ work = [kind |-> "envelope", e |-> old, edits |-> count, signed |-> signed]
        /\ work' = [work EXCEPT !.e = e, !.edits = more]
    BY <1>1, <1>3
  <2> HIDE DEF old, count, signed, more
  <2>2. work' = [kind |-> "envelope", e |-> e, edits |-> more, signed |-> signed]
    BY <2>1
  <2>3. QED
    BY <2>2 DEF more, count, signed
<1>4. /\ work'.e = e /\ work'.signed = {}
      /\ work' = [kind |-> "envelope", e |-> work'.e, edits |-> work'.edits, signed |-> work'.signed]
  BY <1>3, <1>3a
<1>5. LiveIsDeployable'
  BY <1>3 DEF GateIInv, LiveIsDeployable
<1>6. WorkIsWellFormed' /\ SignedIsPinned'
  BY <1>2, <1>4 DEF WorkIsWellFormed, SignedIsPinned
<1>7. QED
  BY <1>5, <1>6 DEF GateIInv

\* What is signed was accepted, and what is accepted is pinned.
LEMMA SignKeeps ==
    ASSUME GateIInv, Sign
    PROVE  GateIInv'
<1> DEFINE lock == Locks[live.lock]
           c == Contracts[live.made]
<1>1. /\ work = [kind |-> "envelope", e |-> work.e, edits |-> work.edits, signed |-> work.signed]
      /\ WellFormed(work.e)
  BY DEF Sign, GateIInv, WorkIsWellFormed, NoWork
<1>2. /\ live.made \in Made /\ lock.revision = c.revision
      /\ IdlsOf[live.made] = IdlsOf[live.lock]
  BY LiveIs DEF GateIInv
<1>3. LiveReady(lock) /\ Validate(lock, c, work.e) = "ok"
  <2>1. ValidateForSigning(lock, c, work.e) = "ok"
    BY DEF Sign
  <2>2. (Refuse(~LiveReady(lock), "live_protocol_not_ready") = "ok") <=> LiveReady(lock)
    BY DEF Refuse
  <2>3. QED
    BY <2>1, <2>2, Both DEF ValidateForSigning
<1>4. EnvelopeIsPinned(c, work.e)
  BY <1>1, <1>2, <1>3, Verdict
<1>5. /\ lock.status = "frozen"
      /\ \A p \in ToSet(lock.programs) : <<>> \notin {p.id, p.idl, p.binary}
  BY <1>3 DEF LiveReady
<1>6. work' = [work EXCEPT !.signed = {live}] /\ live' = live
  BY DEF Sign
<1>7. /\ work'.e = work.e /\ work'.signed = {live}
      /\ work' = [kind |-> "envelope", e |-> work'.e, edits |-> work'.edits, signed |-> work'.signed]
  BY <1>1, <1>6
<1>8. LiveIsDeployable'
  BY <1>6 DEF GateIInv, LiveIsDeployable
<1>9. WorkIsWellFormed'
  BY <1>1, <1>7 DEF WorkIsWellFormed
<1>10. SignedIsPinned'
  BY <1>2, <1>4, <1>5, <1>7 DEF SignedIsPinned
<1>11. QED
  BY <1>8, <1>9, <1>10 DEF GateIInv

(*****************************************************************************)
(* Every reachable envelope has the shape, the deployed pair passed the      *)
(* constructor of the validator, and what was signed was pinned.             *)
(*****************************************************************************)
THEOREM GateInvariant == GateSpec => []GateIInv
<1>1. GateInit => GateIInv
  BY GateInitEstablishes
<1>2. GateIInv /\ [GateNext]_gateVars => GateIInv'
  <2>1. ASSUME GateIInv, GateNext PROVE GateIInv'
    BY <2>1, DeployKeeps, BuildKeeps, EditKeeps, SignKeeps DEF GateNext
  <2>2. ASSUME GateIInv, UNCHANGED gateVars PROVE GateIInv'
    BY <2>2 DEF gateVars, GateIInv, LiveIsDeployable, WorkIsWellFormed, SignedIsPinned
  <2>3. QED
    BY <2>1, <2>2
<1>3. QED
  BY <1>1, <1>2, PTL DEF GateSpec

(*****************************************************************************)
(* What was signed was, when it was, an envelope of the contract made from   *)
(* the deployed lock's own IDLs, and that lock was frozen with every         *)
(* program and hash in place (envelope.ts 290-303): for every set of locks,  *)
(* IDLs and changes that the assumptions of Gate allow, and for any number   *)
(* of deployments and changes in between.                                    *)
(*****************************************************************************)
THEOREM SignsOnlyPinned == GateSpec => []SignedIsPinned
<1>1. GateIInv => SignedIsPinned
  BY DEF GateIInv
<1>2. QED
  BY <1>1, GateInvariant, PTL

(*****************************************************************************)
(* The validator accepts an envelope if and only if it is one of the         *)
(* contract, built or changed, under every deployed pair (envelope.ts        *)
(* 212-461): no two of its checks can be passed by changes that undo each    *)
(* other, and none refuses what the contract allows.                         *)
(*****************************************************************************)
THEOREM AcceptsOnlyPinned == GateSpec => []AcceptsExactlyPinned
<1>1. ASSUME GateIInv PROVE AcceptsExactlyPinned
  <2>1. SUFFICES ASSUME work.kind = "envelope"
                 PROVE  (Validate(Locks[live.lock], Contracts[live.made], work.e) = "ok")
                          = EnvelopeIsPinned(Contracts[live.made], work.e)
    BY DEF AcceptsExactlyPinned
  <2>2. WellFormed(work.e)
    BY <1>1, <2>1 DEF GateIInv, WorkIsWellFormed, NoWork
  <2>3. live.made \in Made /\ Locks[live.lock].revision = Contracts[live.made].revision
    BY <1>1, LiveIs DEF GateIInv
  <2>4. (Validate(Locks[live.lock], Contracts[live.made], work.e) = "ok")
          <=> EnvelopeIsPinned(Contracts[live.made], work.e)
    BY <2>2, <2>3, Verdict
  <2>5. EnvelopeIsPinned(Contracts[live.made], work.e) \in BOOLEAN
    BY DEF EnvelopeIsPinned
  <2>6. QED
    BY <2>4, <2>5
<1>2. QED
  BY <1>1, GateInvariant, PTL
===============================================================================
