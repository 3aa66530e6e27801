--------------------------- MODULE AdapterProofs ----------------------------
(*****************************************************************************)
(* Proofs about Adapter, for every prime that is 5 modulo 8, every two       *)
(* bases, and every set of locks and IDLs that the assumptions allow:        *)
(* base58 keeps keys and their strings, the test of the curve is the         *)
(* equation of the curve, and the manifest leads to every derived address.   *)
(*****************************************************************************)
EXTENDS Adapter, GateProofs

-----------------------------------------------------------------------------
\* Base58

\* The number that digits are in a base, most significant first.
Num(s, base) ==
    LET number[n \in 0..Len(s)] == IF n = 0 THEN 0 ELSE number[n - 1] * base + s[n]
    IN  number[Len(s)]

\* The numbers of its beginnings.
Horner(f, s, base) ==
    /\ f \in [0..Len(s) -> Nat] /\ f[0] = 0
    /\ \A i \in 1..Len(s) : f[i] = f[i - 1] * base + s[i]

\* Digits of a base.
Numeral(s, base) == List(s) /\ \A i \in 1..Len(s) : s[i] \in 0..base - 1

\* A number without leading zeros.
Plain(s) == Len(s) > 0 => s[1] # 0

\* Products of natural numbers.
LEMMA Products ==
    /\ \A x, y \in Nat : x * y \in Nat
    /\ \A x, y \in Nat : x > 0 /\ y > 0 => x * y > 0
    /\ \A x, y, z \in Nat : x <= y => x * z <= y * z
<1>1. \A x, y \in Nat : x * y \in Nat
  OBVIOUS
<1>2. \A x, y \in Nat : x > 0 /\ y > 0 => x * y > 0
  OBVIOUS
<1>3. ASSUME NEW x \in Nat, NEW y \in Nat, NEW z \in Nat, x <= y PROVE x * z <= y * z
  <2>1. y = x + (y - x) /\ y - x \in Nat
    BY <1>3
  <2>2. (y - x) * z \in Nat
    BY <2>1, <1>1
  <2>3. y * z = x * z + (y - x) * z
    BY <2>1
  <2>4. QED
    BY <2>2, <2>3
<1>4. QED
  BY <1>1, <1>2, <1>3

\* The function in Num exists.
LEMMA NumIs ==
    ASSUME NEW s, NEW base \in Nat, List(s), \A i \in 1..Len(s) : s[i] \in Nat
    PROVE  \E f : Horner(f, s, base) /\ Num(s, base) = f[Len(s)]
<1> DEFINE step == [x \in (1..Len(s)) \X Nat |-> x[2] * base + s[x[1]]]
           Is(f) == f = [n \in 0..Len(s) |-> IF n = 0 THEN 0 ELSE f[n - 1] * base + s[n]]
           number == CHOOSE f : Is(f)
<1>1. Len(s) \in Nat
  BY ListIs
<1>2. step \in [(1..Len(s)) \X Nat -> Nat]
  BY Products
<1>3. PICK g : Unrolls(g, Len(s), Nat, 0, step)
  <2> HIDE DEF step
  <2>1. Steps(Len(s), Nat, 0, step)
    BY <1>1, <1>2 DEF Steps
  <2>2. QED
    BY <2>1, Recursion
<1>4. /\ g \in [0..Len(s) -> Nat]
      /\ g[0] = 0 /\ \A i \in 1..Len(s) : g[i] = step[<<i, g[i - 1]>>]
  BY <1>3 DEF Unrolls
<1>5. ASSUME NEW i \in 1..Len(s) PROVE g[i] = g[i - 1] * base + s[i]
  <2>1. i - 1 \in 0..Len(s)
    BY <1>1
  <2>2. g[i - 1] \in Nat
    BY <2>1, <1>4
  <2>3. step[<<i, g[i - 1]>>] = g[i - 1] * base + s[i]
    BY <2>2
  <2> HIDE DEF step
  <2>4. QED
    BY <1>4, <2>3
<1> HIDE DEF step
<1>6. Is(g)
  <2>1. ASSUME NEW i \in 0..Len(s) PROVE g[i] = IF i = 0 THEN 0 ELSE g[i - 1] * base + s[i]
    <3>1. CASE i = 0
      BY <1>4, <3>1
    <3>2. CASE i # 0
      <4>1. i \in 1..Len(s)
        BY <1>1, <3>2
      <4>2. QED
        BY <4>1, <3>2, <1>5
    <3>3. QED
      BY <3>1, <3>2
  <2>2. g = [i \in 0..Len(s) |-> g[i]]
    BY <1>4
  <2>3. QED
    BY <2>1, <2>2
<1>7. Is(number)
  <2> HIDE DEF Is
  <2>1. QED
    BY <1>6
<1>8. number[0] = 0 /\ \A i \in 1..Len(s) : number[i] = number[i - 1] * base + s[i]
  <2> HIDE DEF number
  <2>1. QED
    BY <1>1, <1>7
<1>9. number \in [0..Len(s) -> Nat]
  <2> HIDE DEF number
  <2> DEFINE T == {i \in 0..Len(s) : number[i] \in Nat}
  <2>1. 0 \in T
    BY <1>1, <1>8
  <2>2. ASSUME NEW i \in 1..Len(s), i - 1 \in T PROVE i \in T
    <3>1. number[i - 1] \in Nat /\ i \in 0..Len(s)
      BY <1>1, <2>2
    <3>2. number[i - 1] * base \in Nat /\ s[i] \in Nat
      BY <3>1, Products
    <3>3. QED
      BY <1>8, <3>1, <3>2
  <2>3. \A i \in 0..Len(s) : i \in T
    <3> HIDE DEF T
    <3>1. QED
      BY <1>1, <2>1, <2>2, Upwards
  <2>4. QED
    BY <1>7, <2>3
<1>10. Num(s, base) = number[Len(s)]
  BY DEF Num
<1> HIDE DEF number
<1>11. QED
  BY <1>8, <1>9, <1>10 DEF Horner

\* Lists that begin alike have the same numbers as far as they agree.
LEMMA BeginAlike ==
    ASSUME NEW s, NEW t, NEW f, NEW g, NEW base \in Nat, NEW m \in Nat,
           Horner(f, s, base), Horner(g, t, base), m <= Len(s), m <= Len(t),
           Len(s) \in Nat, Len(t) \in Nat, \A i \in 1..m : s[i] = t[i]
    PROVE  \A i \in 0..m : f[i] = g[i]
<1> DEFINE T == {i \in 0..m : f[i] = g[i]}
<1>1. 0 \in T
  BY DEF Horner
<1>2. ASSUME NEW i \in 1..m, i - 1 \in T PROVE i \in T
  <2>1. i \in 1..Len(s) /\ i \in 1..Len(t) /\ f[i - 1] = g[i - 1]
    BY <1>2
  <2>2. f[i] = f[i - 1] * base + s[i] /\ g[i] = g[i - 1] * base + t[i]
    BY <2>1 DEF Horner
  <2>3. QED
    BY <2>1, <2>2
<1>3. \A i \in 0..m : i \in T
  <2> HIDE DEF T
  <2>1. QED
    BY <1>1, <1>2, Upwards
<1>4. QED
  BY <1>3

\* A number without leading zeros is positive, and so are its beginnings.
LEMMA PlainIsPositive ==
    ASSUME NEW s, NEW f, NEW base \in Nat \ {0}, Numeral(s, base), Plain(s), Horner(f, s, base)
    PROVE  \A i \in 1..Len(s) : f[i] > 0
<1> DEFINE T == {i \in 0..Len(s) : i > 0 => f[i] > 0}
<1>1. Len(s) \in Nat
  BY ListIs DEF Numeral
<1>2. 0 \in T
  BY <1>1
<1>3. ASSUME NEW i \in 1..Len(s), i - 1 \in T PROVE i \in T
  <2>1. f[i] = f[i - 1] * base + s[i] /\ f[i - 1] \in Nat /\ s[i] \in Nat /\ f[i] \in Nat
    <3>1. i \in 0..Len(s) /\ i - 1 \in 0..Len(s)
      BY <1>1
    <3>2. f[i] \in Nat /\ f[i - 1] \in Nat /\ f[i] = f[i - 1] * base + s[i]
      BY <3>1 DEF Horner
    <3>3. s[i] \in 0..base - 1
      BY DEF Numeral
    <3>4. QED
      BY <3>2, <3>3
  <2>2. f[i - 1] * base \in Nat
    BY <2>1, Products
  <2>3. CASE i = 1
    <3>1. s[i] # 0
      BY <1>1, <2>3 DEF Plain
    <3>2. QED
      BY <1>1, <2>1, <2>2, <3>1
  <2>4. CASE i # 1
    <3>1. f[i - 1] > 0
      BY <1>3, <2>4
    <3>2. f[i - 1] * base > 0
      BY <2>1, <3>1, Products
    <3>3. QED
      BY <1>1, <2>1, <2>2, <3>2
  <2>5. QED
    BY <2>3, <2>4
<1>4. \A i \in 0..Len(s) : i \in T
  <2> HIDE DEF T
  <2>1. QED
    BY <1>1, <1>2, <1>3, Upwards
<1>5. QED
  BY <1>1, <1>4

\* A number comes apart in one way only.
LEMMA DigitsAgree ==
    ASSUME NEW base \in Nat \ {0}, NEW q \in Nat, NEW r \in 0..base - 1,
           NEW p \in Nat, NEW t \in 0..base - 1, q * base + r = p * base + t
    PROVE  q = p /\ r = t
<1>1. r + base * q = t + base * p
  OBVIOUS
<1>2. (r + base * q) \div base = q /\ (r + base * q) % base = r
  BY DivModIs
<1>3. (t + base * p) \div base = p /\ (t + base * p) % base = t
  BY DivModIs
<1>4. QED
  BY <1>1, <1>2, <1>3

\* Without leading zeros, a number has one numeral.
LEMMA OneNumeral ==
    ASSUME NEW s, NEW t, NEW base \in Nat \ {0}, Numeral(s, base), Numeral(t, base),
           Plain(s), Plain(t), Num(s, base) = Num(t, base)
    PROVE  s = t
<1> DEFINE m == Len(s)
           n == Len(t)
<1>1. m \in Nat /\ n \in Nat /\ List(s) /\ List(t)
  BY ListIs DEF Numeral
<1>2. PICK f : Horner(f, s, base) /\ Num(s, base) = f[m]
  BY NumIs DEF Numeral
<1>3. PICK g : Horner(g, t, base) /\ Num(t, base) = g[n]
  BY NumIs DEF Numeral
<1>4. \A i \in 1..m : f[i] > 0
  BY <1>2, PlainIsPositive
<1>5. \A i \in 1..n : g[i] > 0
  BY <1>3, PlainIsPositive
<1>6. f[0] = 0 /\ g[0] = 0 /\ (\A i \in 0..m : f[i] \in Nat) /\ (\A i \in 0..n : g[i] \in Nat)
  BY <1>2, <1>3 DEF Horner
<1>7. \A i \in 1..m : f[i] = f[i - 1] * base + s[i] /\ s[i] \in 0..base - 1
  BY <1>2 DEF Horner, Numeral
<1>8. \A i \in 1..n : g[i] = g[i - 1] * base + t[i] /\ t[i] \in 0..base - 1
  BY <1>3 DEF Horner, Numeral
<1> HIDE DEF m, n
<1> DEFINE Same(i) == /\ i <= n /\ f[m - i] = g[n - i]
                      /\ \A j \in 0..i - 1 : s[m - j] = t[n - j]
           T == {i \in 0..m : Same(i)}
<1>9. 0 \in T
  <2>1. f[m] = g[n]
    BY <1>2, <1>3
  <2>2. m - 0 = m /\ n - 0 = n
    BY <1>1
  <2>3. QED
    BY <1>1, <2>1, <2>2
<1>10. ASSUME NEW i \in 1..m, i - 1 \in T PROVE i \in T
  <2> DEFINE a == m - (i - 1)
             c == n - (i - 1)
  <2>1. a \in 1..m /\ c \in 0..n /\ f[a] = g[c] /\ \A j \in 0..i - 2 : s[m - j] = t[n - j]
    BY <1>1, <1>10
  <2>2. a = (m - i) + 1 /\ c = (n - i) + 1 /\ a - 1 = m - i /\ c - 1 = n - i
    BY <1>1
  <2>3. i - 1 <= n
    BY <1>10
  <2> HIDE DEF a, c
  <2>4. c # 0
    BY <1>4, <1>6, <2>1
  <2>5. c \in 1..n
    BY <1>1, <2>1, <2>4
  <2>6. f[a - 1] * base + s[a] = g[c - 1] * base + t[c]
    BY <1>7, <1>8, <2>1, <2>5
  <2>7. f[a - 1] \in Nat /\ g[c - 1] \in Nat
    BY <1>1, <1>6, <2>1, <2>5
  <2>8. s[a] \in 0..base - 1 /\ t[c] \in 0..base - 1
    BY <1>7, <1>8, <2>1, <2>5
  <2>9. f[a - 1] = g[c - 1] /\ s[a] = t[c]
    <3>1. PICK q \in Nat, p \in Nat : q = f[a - 1] /\ p = g[c - 1]
      BY <2>7
    <3>2. q * base + s[a] = p * base + t[c]
      BY <2>6, <3>1
    <3>3. q = p /\ s[a] = t[c]
      BY <2>8, <3>2, DigitsAgree
    <3>4. QED
      BY <3>1, <3>3
  <2>10. i <= n /\ f[m - i] = g[n - i]
    BY <1>1, <2>2, <2>5, <2>9
  <2>11. ASSUME NEW j \in 0..i - 1 PROVE s[m - j] = t[n - j]
    <3>1. CASE j = i - 1
      BY <1>1, <2>9, <3>1 DEF a, c
    <3>2. CASE j # i - 1
      BY <2>1, <3>2
    <3>3. QED
      BY <3>1, <3>2
  <2>12. QED
    BY <1>1, <2>10, <2>11
<1>11. \A i \in 0..m : i \in T
  <2> HIDE DEF T
  <2>1. QED
    BY <1>1, <1>9, <1>10, Upwards
<1>12. m <= n /\ f[0] = g[n - m] /\ \A j \in 0..m - 1 : s[m - j] = t[n - j]
  <2>1. m \in T
    BY <1>1, <1>11
  <2>2. m - m = 0
    BY <1>1
  <2>3. QED
    BY <2>1, <2>2
<1>13. n - m \notin 1..n
  BY <1>5, <1>6, <1>12
<1>14. n = m
  BY <1>1, <1>12, <1>13
<1>15. ASSUME NEW i \in 1..m PROVE s[i] = t[i]
  <2>1. m - i \in 0..m - 1 /\ m - (m - i) = i
    BY <1>1
  <2>2. s[m - (m - i)] = t[m - (m - i)]
    BY <1>12, <1>14, <2>1
  <2>3. QED
    BY <2>1, <2>2
<1>16. QED
  BY <1>1, <1>14, <1>15, ListsEqual DEF m, n
\* One more digit.
LEMMA OneMoreDigit ==
    ASSUME NEW s, NEW t, NEW base \in Nat, List(s), List(t), Len(t) = Len(s) + 1,
           \A i \in 1..Len(t) : t[i] \in Nat, \A i \in 1..Len(s) : t[i] = s[i]
    PROVE  Num(t, base) = Num(s, base) * base + t[Len(t)]
<1>1. Len(s) \in Nat /\ Len(t) \in Nat
  BY ListIs
<1>2. \A i \in 1..Len(s) : s[i] \in Nat
  BY <1>1
<1>3. PICK f : Horner(f, s, base) /\ Num(s, base) = f[Len(s)]
  BY <1>2, NumIs
<1>4. PICK g : Horner(g, t, base) /\ Num(t, base) = g[Len(t)]
  BY NumIs
<1>5. f[Len(s)] = g[Len(s)]
  <2>1. Len(s) <= Len(t) /\ Len(s) \in 0..Len(s)
    BY <1>1
  <2>2. QED
    BY <1>1, <1>3, <1>4, <2>1, BeginAlike
<1>6. Len(t) \in 1..Len(t) /\ Len(t) - 1 = Len(s)
  BY <1>1
<1>7. g[Len(t)] = g[Len(s)] * base + t[Len(t)]
  BY <1>4, <1>6 DEF Horner
<1>8. QED
  BY <1>3, <1>4, <1>5, <1>7

\* The number of no digits, and of one.
LEMMA FewDigits ==
    ASSUME NEW base \in Nat
    PROVE  Num(<<>>, base) = 0 /\ \A x \in Nat : Num(<<x>>, base) = x
<1>1. List(<<>>) /\ Len(<<>>) = 0
  BY Shorts
<1>2. Num(<<>>, base) = 0
  <2>1. PICK f : Horner(f, <<>>, base) /\ Num(<<>>, base) = f[0]
    BY <1>1, NumIs
  <2>2. QED
    BY <2>1 DEF Horner
<1>3. ASSUME NEW x \in Nat PROVE Num(<<x>>, base) = x
  <2>1. List(<<x>>) /\ Len(<<x>>) = 1 /\ <<x>>[1] = x
    BY Shorts
  <2>2. \A i \in 1..1 : <<x>>[i] \in Nat
    BY <2>1
  <2>3. Num(<<x>>, base) = Num(<<>>, base) * base + <<x>>[1]
    <3>1. PICK s : s = <<>>
      OBVIOUS
    <3>2. PICK t : t = <<x>>
      OBVIOUS
    <3>3. List(s) /\ List(t) /\ Len(s) = 0 /\ Len(t) = 1 /\ t[1] \in Nat
      BY <1>1, <2>1, <2>2, <3>1, <3>2
    <3>4. /\ Len(t) = Len(s) + 1
          /\ \A i \in 1..Len(t) : t[i] \in Nat
          /\ \A i \in 1..Len(s) : t[i] = s[i]
      BY <3>3
    <3>5. Num(t, base) = Num(s, base) * base + t[Len(t)]
      BY <3>3, <3>4, OneMoreDigit
    <3>6. QED
      BY <3>1, <3>2, <3>3, <3>5
  <2>4. QED
    BY <1>2, <2>1, <2>3
<1>4. QED
  BY <1>2, <1>3

\* The entries of a reversed list.
LEMMA ReverseIs ==
    ASSUME NEW s, List(s)
    PROVE  /\ List(Reverse(s)) /\ Len(Reverse(s)) = Len(s)
           /\ \A i \in 1..Len(s) : Reverse(s)[i] = s[(Len(s) - i) + 1]
           /\ Reverse(Reverse(s)) = s
<1>1. Len(s) \in Nat
  BY ListIs
<1>2. List(Reverse(s)) /\ Len(Reverse(s)) = Len(s)
  BY ReversedIsList
<1>3. \A i \in 1..Len(s) : Reverse(s)[i] = s[(Len(s) - i) + 1]
  BY DEF Reverse
<1>4. List(Reverse(Reverse(s))) /\ Len(Reverse(Reverse(s))) = Len(s)
  BY <1>2, ReversedIsList
<1>5. ASSUME NEW i \in 1..Len(s) PROVE Reverse(Reverse(s))[i] = s[i]
  <2>1. Reverse(Reverse(s))[i] = Reverse(s)[(Len(s) - i) + 1]
    BY <1>2 DEF Reverse
  <2>2. (Len(s) - i) + 1 \in 1..Len(s) /\ (Len(s) - ((Len(s) - i) + 1)) + 1 = i
    BY <1>1
  <2>3. QED
    BY <1>3, <2>1, <2>2
<1>6. Reverse(Reverse(s)) = s
  BY <1>4, <1>5, ListsEqual
<1>7. QED
  BY <1>2, <1>3, <1>6

\* Least significant first: digits without zeros at the end that are a number.
Shows(s, n, base) ==
    /\ Numeral(s, base) /\ Num(Reverse(s), base) = n
    /\ Len(s) > 0 => s[Len(s)] # 0

\* The same, the other way round.
LEMMA ShowsReversed ==
    ASSUME NEW s, NEW n, NEW base \in Nat, Shows(s, n, base)
    PROVE  Numeral(Reverse(s), base) /\ Plain(Reverse(s)) /\ Num(Reverse(s), base) = n
<1>1. List(s) /\ Len(s) \in Nat
  BY ListIs DEF Shows, Numeral
<1>2. List(Reverse(s)) /\ Len(Reverse(s)) = Len(s)
  BY <1>1, ReverseIs
<1>3. \A i \in 1..Len(s) : Reverse(s)[i] = s[(Len(s) - i) + 1] /\ (Len(s) - i) + 1 \in 1..Len(s)
  BY <1>1, ReverseIs
<1>4. Numeral(Reverse(s), base)
  <2>1. \A i \in 1..Len(s) : s[i] \in 0..base - 1
    BY DEF Shows, Numeral
  <2>2. \A i \in 1..Len(s) : Reverse(s)[i] \in 0..base - 1
    BY <1>3, <2>1
  <2>3. QED
    BY <1>2, <2>2 DEF Numeral
<1>5. Plain(Reverse(s))
  <2>1. SUFFICES ASSUME Len(s) > 0 PROVE Reverse(s)[1] # 0
    BY <1>2 DEF Plain
  <2>2. 1 \in 1..Len(s) /\ (Len(s) - 1) + 1 = Len(s)
    BY <1>1, <2>1
  <2>3. Reverse(s)[1] = s[Len(s)]
    BY <1>3, <2>2
  <2>4. QED
    BY <2>1, <2>3 DEF Shows
<1>6. QED
  BY <1>4, <1>5 DEF Shows

\* Only no digits are zero.
LEMMA NothingIsZero ==
    ASSUME NEW s, NEW base \in Nat \ {0}, Numeral(s, base), Plain(s)
    PROVE  /\ Num(s, base) \in Nat
           /\ Num(s, base) = 0 <=> Len(s) = 0
<1>1. List(s) /\ Len(s) \in Nat
  BY ListIs DEF Numeral
<1>2. PICK f : Horner(f, s, base) /\ Num(s, base) = f[Len(s)]
  BY <1>1, NumIs DEF Numeral
<1>3. f[0] = 0 /\ f[Len(s)] \in Nat
  BY <1>1, <1>2 DEF Horner
<1>4. \A i \in 1..Len(s) : f[i] > 0
  BY <1>2, PlainIsPositive
<1>5. QED
  BY <1>1, <1>2, <1>3, <1>4

\* One more digit in front, least significant first.
LEMMA ShowsMore ==
    ASSUME NEW s, NEW q \in Nat, NEW base \in Nat \ {0}, NEW r \in 0..base - 1,
           Shows(s, q, base), q = 0 => r # 0
    PROVE  Shows(<<r>> \o s, q * base + r, base)
<1> DEFINE t == <<r>> \o s
<1>1. List(s) /\ Len(s) \in Nat /\ \A i \in 1..Len(s) : s[i] \in 0..base - 1
  BY ListIs DEF Shows, Numeral
<1>2. List(<<r>>) /\ Len(<<r>>) = 1 /\ <<r>>[1] = r
  BY Shorts
<1>3. /\ List(t) /\ Len(t) = 1 + Len(s)
      /\ \A i \in 1..1 + Len(s) : t[i] = IF i <= 1 THEN <<r>>[i] ELSE s[i - 1]
  BY <1>1, <1>2, Concat
<1> HIDE DEF t
<1>4. t[1] = r /\ \A i \in 1..Len(s) : t[i + 1] = s[i]
  BY <1>1, <1>2, <1>3
<1>5. ASSUME NEW i \in 1..Len(t) PROVE t[i] \in 0..base - 1
  <2>1. CASE i = 1
    BY <1>4, <2>1
  <2>2. CASE i # 1
    <3>1. i - 1 \in 1..Len(s) /\ (i - 1) + 1 = i
      BY <1>1, <1>3, <2>2
    <3>2. QED
      BY <1>1, <1>4, <3>1
  <2>3. QED
    BY <2>1, <2>2
<1>6. Numeral(t, base)
  BY <1>3, <1>5 DEF Numeral
<1>7. /\ List(Reverse(s)) /\ Len(Reverse(s)) = Len(s)
      /\ \A i \in 1..Len(s) : Reverse(s)[i] = s[(Len(s) - i) + 1]
  BY <1>1, ReverseIs
<1>8. /\ List(Reverse(t)) /\ Len(Reverse(t)) = Len(s) + 1
      /\ \A i \in 1..Len(s) + 1 : Reverse(t)[i] = t[(Len(t) - i) + 1]
  BY <1>1, <1>3, ReverseIs
<1>9. \A i \in 1..Len(s) : Reverse(t)[i] = Reverse(s)[i]
  <2>1. TAKE i \in 1..Len(s)
  <2>2. (Len(s) - i) + 1 \in 1..Len(s) /\ (Len(t) - i) + 1 = ((Len(s) - i) + 1) + 1 /\ i \in 1..Len(s) + 1
    BY <1>1, <1>3
  <2>3. QED
    BY <1>4, <1>7, <1>8, <2>2
<1>10. Reverse(t)[Len(s) + 1] = r
  <2>1. Len(s) + 1 \in 1..Len(s) + 1 /\ (Len(t) - (Len(s) + 1)) + 1 = 1
    BY <1>1, <1>3
  <2>2. QED
    BY <1>4, <1>8, <2>1
<1>11. \A i \in 1..Len(s) + 1 : Reverse(t)[i] \in Nat
  <2>1. TAKE i \in 1..Len(s) + 1
  <2>2. (Len(t) - i) + 1 \in 1..Len(t)
    BY <1>1, <1>3
  <2>3. QED
    BY <1>5, <1>8, <2>2
<1>12. Num(Reverse(t), base) = Num(Reverse(s), base) * base + r
  <2>1. PICK x : x = Reverse(s)
    OBVIOUS
  <2>2. PICK y : y = Reverse(t)
    OBVIOUS
  <2>3. List(x) /\ List(y) /\ Len(y) = Len(x) + 1 /\ Len(x) = Len(s)
    BY <1>7, <1>8, <2>1, <2>2
  <2>4. /\ \A i \in 1..Len(y) : y[i] \in Nat
        /\ \A i \in 1..Len(x) : y[i] = x[i]
        /\ y[Len(y)] = r
    BY <1>9, <1>10, <1>11, <2>1, <2>2, <2>3
  <2>5. Num(y, base) = Num(x, base) * base + y[Len(y)]
    BY <2>3, <2>4, OneMoreDigit
  <2>6. QED
    BY <2>1, <2>2, <2>4, <2>5
<1>13. Num(Reverse(t), base) = q * base + r
  BY <1>12 DEF Shows
<1>14. t[Len(t)] # 0
  <2>1. CASE Len(s) = 0
    <3>1. Num(Reverse(s), base) = 0
      <4>1. Numeral(Reverse(s), base) /\ Plain(Reverse(s))
        BY ShowsReversed
      <4>2. QED
        BY <1>7, <2>1, <4>1, NothingIsZero
    <3>2. q = 0
      BY <3>1 DEF Shows
    <3>3. QED
      BY <1>3, <1>4, <2>1, <3>2
  <2>2. CASE Len(s) # 0
    <3>1. Len(s) \in 1..Len(s) /\ Len(t) = Len(s) + 1 /\ Len(s) > 0
      BY <1>1, <1>3, <2>2
    <3>2. s[Len(s)] # 0
      BY <3>1 DEF Shows
    <3>3. QED
      BY <1>4, <3>1, <3>2
  <2>3. QED
    BY <2>1, <2>2
<1>15. QED
  BY <1>6, <1>13, <1>14 DEF Shows, t

\* The digits of a carry are the carry, and none of them is a leading zero.
LEMMA CarryIs ==
    ASSUME NEW base \in Nat \ {0, 1}, NEW most \in Nat, NEW carry \in 0..most
    PROVE  Shows(CarryDigits(carry, base, most), carry, base)
<1> DEFINE Is(f, m) == f = [n \in 0..m |-> IF n = 0 THEN <<>> ELSE <<n % base>> \o f[n \div base]]
           T == {m \in 0..most : \E f : Is(f, m)}
           digits == CHOOSE f : Is(f, most)
<1>1. \A n \in Nat \ {0} : /\ n \div base \in Nat /\ n \div base < n /\ n % base \in 0..base - 1
                           /\ n = (n \div base) * base + (n % base)
  <2>1. TAKE n \in Nat \ {0}
  <2>2. n \div base \in Nat /\ n % base \in 0..base - 1 /\ n = (n % base) + base * (n \div base)
    BY DivMod
  <2>3. PICK q \in Nat, r \in 0..base - 1 : q = n \div base /\ r = n % base
    BY <2>2
  <2>4. n = r + base * q
    BY <2>2, <2>3
  <2>5. q < n
    <3>1. CASE q = 0
      BY <3>1
    <3>2. CASE q # 0
      <4>1. 2 * q <= base * q
        BY Products
      <4>2. QED
        BY <2>4, <3>2, <4>1
    <3>3. QED
      BY <3>1, <3>2
  <2>6. QED
    BY <2>2, <2>3, <2>4, <2>5
<1>2. 0 \in T
  <2> DEFINE g == [n \in 0..0 |-> <<>>]
  <2>1. Is(g, 0)
    OBVIOUS
  <2> HIDE DEF Is, g
  <2>2. QED
    BY <2>1
<1>3. ASSUME NEW m \in 1..most, m - 1 \in T PROVE m \in T
  <2>1. PICK f : Is(f, m - 1)
    BY <1>3
  <2> DEFINE g == [n \in 0..m |-> IF n = m THEN <<m % base>> \o f[m \div base] ELSE f[n]]
  <2>2. ASSUME NEW n \in 0..m
        PROVE  g[n] = IF n = 0 THEN <<>> ELSE <<n % base>> \o g[n \div base]
    <3>1. CASE n = 0
      <4>1. g[0] = f[0] /\ 0 \in 0..m - 1
        OBVIOUS
      <4>2. f[0] = <<>>
        BY <2>1, <4>1
      <4>3. QED
        BY <3>1, <4>1, <4>2
    <3>2. CASE n # 0
      <4>1. n \div base \in 0..m - 1
        BY <1>1, <3>2
      <4>2. g[n \div base] = f[n \div base]
        BY <4>1
      <4>3. CASE n = m
        <5>1. g[n] = <<n % base>> \o f[n \div base]
          BY <4>3
        <5> HIDE DEF g
        <5>2. QED
          BY <3>2, <4>2, <5>1
      <4>4. CASE n # m
        <5>1. n \in 0..m - 1 /\ g[n] = f[n]
          BY <4>4
        <5>2. f[n] = <<n % base>> \o f[n \div base]
          BY <2>1, <3>2, <5>1
        <5> HIDE DEF g
        <5>3. QED
          BY <3>2, <4>2, <5>1, <5>2
      <4>5. QED
        BY <4>3, <4>4
    <3>3. QED
      BY <3>1, <3>2
  <2>3. g = [n \in 0..m |-> g[n]]
    OBVIOUS
  <2>4. Is(g, m)
    <3> HIDE DEF g
    <3>1. QED
      BY <2>2, <2>3
  <2> HIDE DEF Is, g
  <2>5. QED
    BY <2>4
<1>4. \A m \in 0..most : m \in T
  <2> HIDE DEF T
  <2>1. QED
    BY <1>2, <1>3, Upwards
<1>5. Is(digits, most)
  <2>1. \E f : Is(f, most)
    <3>1. most \in 0..most
      OBVIOUS
    <3>2. most \in T
      BY <1>4, <3>1
    <3> HIDE DEF Is
    <3>3. QED
      BY <3>2
  <2> HIDE DEF Is
  <2>2. QED
    BY <2>1
<1>6. CarryDigits(carry, base, most) = digits[carry]
  BY DEF CarryDigits
<1> HIDE DEF digits, T
<1>7. digits[0] = <<>> /\ \A n \in 1..most : digits[n] = <<n % base>> \o digits[n \div base]
  <2>1. 0 \in 0..most /\ \A n \in 1..most : n \in 0..most /\ n # 0
    OBVIOUS
  <2>2. \A n \in 0..most : digits[n] = IF n = 0 THEN <<>> ELSE <<n % base>> \o digits[n \div base]
    BY <1>5
  <2>3. QED
    BY <2>1, <2>2
<1> HIDE DEF Is
<1> DEFINE S == {n \in 0..most : \A k \in 0..n : Shows(digits[k], k, base)}
<1>8. Shows(<<>>, 0, base)
  <2>1. List(<<>>) /\ Len(<<>>) = 0
    BY Shorts
  <2>2. Reverse(<<>>) = <<>>
    <3>1. List(Reverse(<<>>)) /\ Len(Reverse(<<>>)) = 0
      BY <2>1, ReverseIs
    <3>2. QED
      BY <2>1, <3>1, ListsEqual
  <2>3. Num(Reverse(<<>>), base) = 0
    BY <2>2, FewDigits
  <2>4. Numeral(<<>>, base)
    BY <2>1 DEF Numeral
  <2>5. QED
    BY <2>1, <2>3, <2>4 DEF Shows
<1>9. 0 \in S
  BY <1>7, <1>8
<1>10. ASSUME NEW n \in 1..most, n - 1 \in S PROVE n \in S
  <2>1. \A k \in 0..n - 1 : Shows(digits[k], k, base)
    BY <1>10
  <2>2. PICK q \in 0..n - 1, r \in 0..base - 1 :
            q = n \div base /\ r = n % base /\ n = q * base + r
    <3>1. n \div base \in 0..n - 1
      <4>1. n \in Nat /\ n > 0 /\ base \in Nat \ {0} /\ base > 1
        BY <1>1
      <4>2. n < base * n
        BY <4>1
      <4>3. n \div base < n
        BY <4>1, <4>2, Smaller
      <4>4. n \div base \in Nat
        BY <4>1, DivMod
      <4>5. QED
        BY <4>1, <4>3, <4>4
    <3>2. QED
      BY <1>1, <3>1
  <2>3. q = 0 => r # 0
    BY <2>2
  <2>4. Shows(<<r>> \o digits[q], q * base + r, base)
    BY <2>1, <2>3, ShowsMore
  <2>5. Shows(digits[n], n, base)
    BY <1>7, <2>2, <2>4
  <2>6. QED
    BY <2>1, <2>5
<1>11. \A n \in 0..most : n \in S
  <2> HIDE DEF S
  <2>1. QED
    BY <1>9, <1>10, Upwards
<1>12. QED
  BY <1>6, <1>11
\* What the carries of MulAdd are: each is below the factor.
CarryFunction(c, s, factor, carry, base) ==
    /\ c \in [0..Len(s) -> 0..factor - 1] /\ c[0] = carry
    /\ \A i \in 1..Len(s) : c[i] = (s[i] * factor + c[i - 1]) \div base
    /\ MulAdd(s, factor, carry, base) =
        [i \in DOMAIN s |-> (s[i] * factor + c[i - 1]) % base]
        \o CarryDigits(c[Len(s)], base, Bits + Digits)

\* A carry stays below the factor.
LEMMA CarryBounded ==
    ASSUME NEW base \in Nat \ {0}, NEW factor \in Nat \ {0}, NEW d \in 0..base - 1,
           NEW x \in 0..factor - 1
    PROVE  /\ d * factor + x \in Nat
           /\ (d * factor + x) \div base \in 0..factor - 1
           /\ (d * factor + x) % base \in 0..base - 1
           /\ ((d * factor + x) \div base) * base + ((d * factor + x) % base) = d * factor + x
<1>1. d * factor \in Nat
  BY Products
<1>2. PICK v \in Nat : v = d * factor + x
  BY <1>1
<1>3. d * factor <= (base - 1) * factor
  <2>1. d <= base - 1 /\ base - 1 \in Nat
    OBVIOUS
  <2>2. QED
    BY <2>1, Products
<1>4. (base - 1) * factor = base * factor - factor /\ base * factor \in Nat
  BY Products
<1>5. v < base * factor
  BY <1>1, <1>2, <1>3, <1>4
<1>6. v \div base < factor
  BY <1>5, Smaller
<1>7. v \div base \in Nat /\ v % base \in 0..base - 1 /\ v = (v % base) + base * (v \div base)
  BY DivMod
<1>8. PICK q \in Nat, r \in 0..base - 1 : q = v \div base /\ r = v % base
  BY <1>7
<1>9. q * base + r = v
  BY <1>7, <1>8
<1>10. QED
  BY <1>2, <1>6, <1>8, <1>9

\* The function in MulAdd exists.
LEMMA CarriedExists ==
    ASSUME NEW s, NEW base \in Nat \ {0, 1}, NEW factor \in Nat \ {0}, NEW carry \in 0..factor - 1,
           Numeral(s, base)
    PROVE  \E c : CarryFunction(c, s, factor, carry, base)
<1> DEFINE S == 0..factor - 1
           step == [x \in (1..Len(s)) \X S |-> (s[x[1]] * factor + x[2]) \div base]
           Is(c) == c = [i \in 0..Len(s) |-> IF i = 0 THEN carry
                                             ELSE (s[i] * factor + c[i - 1]) \div base]
           carried == CHOOSE c : Is(c)
<1>1. Len(s) \in Nat /\ List(s) /\ \A i \in 1..Len(s) : s[i] \in 0..base - 1
  BY ListIs DEF Numeral
<1>2. \A i \in 1..Len(s), x \in S : (s[i] * factor + x) \div base \in S
  BY <1>1, CarryBounded
<1>3. step \in [(1..Len(s)) \X S -> S]
  <2>1. \A x \in (1..Len(s)) \X S : (s[x[1]] * factor + x[2]) \div base \in S
    BY <1>2
  <2> HIDE DEF S
  <2>2. QED
    BY <2>1
<1>4. PICK g : Unrolls(g, Len(s), S, carry, step)
  <2>1. carry \in S
    OBVIOUS
  <2> HIDE DEF step, S
  <2>2. Steps(Len(s), S, carry, step)
    BY <1>1, <1>3, <2>1 DEF Steps
  <2>3. QED
    BY <2>2, Recursion
<1>5. /\ g \in [0..Len(s) -> S]
      /\ g[0] = carry /\ \A i \in 1..Len(s) : g[i] = step[<<i, g[i - 1]>>]
  BY <1>4 DEF Unrolls
<1>6. ASSUME NEW i \in 1..Len(s) PROVE g[i] = (s[i] * factor + g[i - 1]) \div base
  <2>1. i - 1 \in 0..Len(s)
    BY <1>1
  <2>2. g[i - 1] \in S
    BY <2>1, <1>5
  <2> HIDE DEF S
  <2>3. step[<<i, g[i - 1]>>] = (s[i] * factor + g[i - 1]) \div base
    BY <2>2
  <2> HIDE DEF step
  <2>4. QED
    BY <1>5, <2>3
<1> HIDE DEF step
<1>7. Is(g)
  <2>1. ASSUME NEW i \in 0..Len(s)
        PROVE  g[i] = IF i = 0 THEN carry ELSE (s[i] * factor + g[i - 1]) \div base
    <3>1. CASE i = 0
      BY <1>5, <3>1
    <3>2. CASE i # 0
      <4>1. i \in 1..Len(s)
        BY <1>1, <3>2
      <4>2. QED
        BY <4>1, <3>2, <1>6
    <3>3. QED
      BY <3>1, <3>2
  <2>2. g = [i \in 0..Len(s) |-> g[i]]
    BY <1>5
  <2>3. QED
    BY <2>1, <2>2
<1>8. Is(carried)
  <2> HIDE DEF Is
  <2>1. QED
    BY <1>7
<1>9. carried[0] = carry /\ \A i \in 1..Len(s) : carried[i] = (s[i] * factor + carried[i - 1]) \div base
  <2> HIDE DEF carried
  <2>1. carried[0] = carry
    BY <1>1, <1>8
  <2>2. ASSUME NEW i \in 1..Len(s)
        PROVE  carried[i] = (s[i] * factor + carried[i - 1]) \div base
    <3>1. i \in 0..Len(s) /\ i # 0
      BY <1>1
    <3>2. carried[i] = IF i = 0 THEN carry ELSE (s[i] * factor + carried[i - 1]) \div base
      BY <1>8, <3>1
    <3>3. QED
      BY <3>1, <3>2
  <2>3. QED
    BY <2>1, <2>2
<1>10. carried \in [0..Len(s) -> S]
  <2> HIDE DEF carried
  <2> DEFINE T == {i \in 0..Len(s) : carried[i] \in S}
  <2>1. 0 \in T
    BY <1>1, <1>9
  <2>2. ASSUME NEW i \in 1..Len(s), i - 1 \in T PROVE i \in T
    <3>1. carried[i - 1] \in S /\ i \in 0..Len(s)
      BY <1>1, <2>2
    <3>2. (s[i] * factor + carried[i - 1]) \div base \in S
      BY <1>2, <3>1
    <3> HIDE DEF S
    <3>3. QED
      BY <1>9, <3>1, <3>2
  <2>3. \A i \in 0..Len(s) : i \in T
    <3> HIDE DEF T
    <3>1. QED
      BY <1>1, <2>1, <2>2, Upwards
  <2> HIDE DEF S
  <2>4. QED
    BY <1>8, <2>3
<1>11. MulAdd(s, factor, carry, base) =
            [i \in DOMAIN s |-> (s[i] * factor + carried[i - 1]) % base]
            \o CarryDigits(carried[Len(s)], base, Bits + Digits)
  BY DEF MulAdd
<1> HIDE DEF carried
<1>12. QED
  BY <1>9, <1>10, <1>11 DEF CarryFunction

\* A step of the school method: the digit and the carry that come out are the
\* product that goes in.
LEMMA SchoolStep ==
    ASSUME NEW a \in Nat, NEW f \in Nat, NEW c \in Nat, NEW b \in Nat, NEW l \in Nat, NEW d \in Nat,
           NEW x \in Nat, c * b + l = d * f + x
    PROVE  (a * f + c) * b + l = (a * b + d) * f + x
<1>1. (a * f + c) * b = (a * f) * b + c * b
  OBVIOUS
<1>2. (a * b + d) * f = (a * b) * f + d * f
  OBVIOUS
<1>3. (a * f) * b = (a * b) * f
  OBVIOUS
<1>4. (a * f) * b \in Nat /\ c * b \in Nat /\ d * f \in Nat
  BY Products
<1>5. QED
  BY <1>1, <1>2, <1>3, <1>4

\* MulAdd multiplies and adds, and makes no leading zero.
LEMMA MulAddIs ==
    ASSUME NEW s, NEW base \in Nat \ {0, 1}, NEW factor \in Nat \ {0}, NEW carry \in 0..factor - 1,
           Numeral(s, base), Bits + Digits \in Nat, factor <= Bits + Digits,
           NEW t, t = MulAdd(s, factor, carry, base)
    PROVE  /\ Numeral(t, base)
           /\ Num(Reverse(t), base) = Num(Reverse(s), base) * factor + carry
           /\ Len(s) = 0 \/ s[Len(s)] # 0 \/ (Len(s) = 1 /\ carry > 0) =>
                (Len(t) > 0 => t[Len(t)] # 0)
           /\ Len(s) = 1 /\ s[1] = 0 /\ carry = 0 => t = <<0>>
<1>1. Len(s) \in Nat /\ List(s) /\ DOMAIN s = 1..Len(s) /\ \A i \in 1..Len(s) : s[i] \in 0..base - 1
  BY ListIs DEF Numeral
<1>2. PICK c : CarryFunction(c, s, factor, carry, base)
  BY CarriedExists
<1> DEFINE L == Len(s)
           low == [i \in 1..L |-> (s[i] * factor + c[i - 1]) % base]
           high == CarryDigits(c[L], base, Bits + Digits)
           m == Len(high)
<1>3. (\A i \in 0..L : c[i] \in 0..factor - 1) /\ c[0] = carry
  BY <1>2 DEF CarryFunction
<1>4. t = low \o high
  BY <1>1, <1>2 DEF CarryFunction
<1>5. ASSUME NEW i \in 1..L
      PROVE  /\ low[i] \in 0..base - 1 /\ c[i] \in 0..factor - 1 /\ c[i - 1] \in 0..factor - 1
             /\ c[i] * base + low[i] = s[i] * factor + c[i - 1]
  <2>1. c[i] \in 0..factor - 1 /\ c[i - 1] \in 0..factor - 1
    BY <1>1, <1>3
  <2>2. c[i] = (s[i] * factor + c[i - 1]) \div base
    BY <1>2 DEF CarryFunction
  <2>3. low[i] = (s[i] * factor + c[i - 1]) % base
    OBVIOUS
  <2> HIDE DEF low
  <2>4. PICK d \in 0..base - 1, x \in 0..factor - 1 : d = s[i] /\ x = c[i - 1]
    BY <1>1, <2>1
  <2>5. /\ (d * factor + x) % base \in 0..base - 1
        /\ ((d * factor + x) \div base) * base + ((d * factor + x) % base) = d * factor + x
    BY CarryBounded
  <2>6. c[i] = (d * factor + x) \div base /\ low[i] = (d * factor + x) % base
    BY <2>2, <2>3, <2>4
  <2>7. c[i] * base + low[i] = d * factor + x /\ low[i] \in 0..base - 1
    BY <2>5, <2>6
  <2>8. QED
    BY <2>1, <2>4, <2>7
<1>6. List(low) /\ Len(low) = L
  <2>1. low = [i \in 1..L |-> low[i]]
    OBVIOUS
  <2> HIDE DEF low
  <2>2. QED
    BY <1>1, <2>1, FunctionIsList
<1>7. Shows(high, c[L], base)
  <2>1. L \in 0..L
    BY <1>1
  <2>2. c[L] \in 0..Bits + Digits
    BY <1>3, <2>1
  <2>3. QED
    BY <2>2, CarryIs
<1>8. List(high) /\ m \in Nat /\ \A i \in 1..m : high[i] \in 0..base - 1
  BY <1>7, ListIs DEF Shows, Numeral
<1> HIDE DEF low, high
<1>9. /\ List(t) /\ Len(t) = L + m
      /\ \A i \in 1..L + m : t[i] = IF i <= L THEN low[i] ELSE high[i - L]
  <2>1. /\ List(low \o high) /\ Len(low \o high) = Len(low) + Len(high)
        /\ \A i \in 1..Len(low) + Len(high) :
              (low \o high)[i] = IF i <= Len(low) THEN low[i] ELSE high[i - Len(low)]
    BY <1>6, <1>8, Concat
  <2>2. QED
    BY <1>4, <1>6, <2>1
<1> HIDE DEF L, m
<1>10. L \in Nat /\ m \in Nat
  BY <1>1, <1>8 DEF L
<1>11. (\A i \in 1..L : t[i] = low[i]) /\ \A i \in 1..m : t[L + i] = high[i]
  <2>1. \A i \in 1..L : i \in 1..L + m /\ i <= L
    BY <1>10
  <2>2. \A i \in 1..m : L + i \in 1..L + m /\ ~(L + i <= L) /\ (L + i) - L = i
    BY <1>10
  <2>3. \A i \in 1..L : t[i] = low[i]
    BY <1>9, <2>1
  <2>4. \A i \in 1..m : t[L + i] = high[i]
    BY <1>9, <2>2
  <2>5. QED
    BY <2>3, <2>4
<1>12. ASSUME NEW i \in 1..Len(t) PROVE t[i] \in 0..base - 1
  <2>1. CASE i <= L
    <3>1. i \in 1..L
      BY <1>9, <1>10, <2>1
    <3>2. t[i] = low[i]
      BY <1>11, <3>1
    <3>3. low[i] \in 0..base - 1
      BY <1>5, <3>1 DEF L
    <3>4. QED
      BY <3>2, <3>3
  <2>2. CASE ~(i <= L)
    <3>1. i - L \in 1..m
      BY <1>9, <1>10, <2>2
    <3>2. t[i] = high[i - L]
      BY <1>9, <2>2
    <3>3. QED
      BY <1>8, <3>1, <3>2 DEF m
  <2>3. QED
    BY <2>1, <2>2
<1>13. Numeral(t, base)
  BY <1>9, <1>12 DEF Numeral
<1> DEFINE rs == Reverse(s)
           rt == Reverse(t)
           rh == Reverse(high)
<1>14. List(rs) /\ Len(rs) = L /\ \A i \in 1..L : rs[i] = s[(L - i) + 1]
  BY <1>1, ReverseIs DEF L
<1>15. List(rh) /\ Len(rh) = m /\ \A i \in 1..m : rh[i] = high[(m - i) + 1]
  BY <1>8, ReverseIs DEF m
<1>16. List(rt) /\ Len(rt) = L + m /\ \A i \in 1..L + m : rt[i] = t[((L + m) - i) + 1]
  BY <1>9, ReverseIs, SMTT(30)
<1> HIDE DEF rs, rt, rh
<1>17. \A i \in 1..m : rt[i] = rh[i]
  <2>1. TAKE i \in 1..m
  <2>2. i \in 1..L + m /\ ((L + m) - i) + 1 = L + ((m - i) + 1) /\ (m - i) + 1 \in 1..m
    BY <1>10
  <2>3. rt[i] = t[L + ((m - i) + 1)]
    BY <1>16, <2>2
  <2>4. t[L + ((m - i) + 1)] = high[(m - i) + 1]
    BY <1>11, <2>2
  <2>5. QED
    BY <1>15, <2>3, <2>4
<1>18. \A i \in 1..L : rt[m + i] = low[(L - i) + 1]
  <2>1. TAKE i \in 1..L
  <2>2. m + i \in 1..L + m /\ ((L + m) - (m + i)) + 1 = (L - i) + 1 /\ (L - i) + 1 \in 1..L
    BY <1>10
  <2>3. rt[m + i] = t[(L - i) + 1]
    BY <1>16, <2>2
  <2>4. QED
    BY <1>11, <2>2, <2>3
<1>19. PICK f : Horner(f, rs, base) /\ Num(rs, base) = f[L]
  <2>1. \A i \in 1..L : (L - i) + 1 \in 1..L
    BY <1>10
  <2>2. \A i \in 1..L : s[i] \in Nat
    BY <1>1 DEF L
  <2>3. \A i \in 1..L : rs[i] \in Nat
    BY <1>14, <2>1, <2>2
  <2>4. QED
    BY <1>14, <2>3, NumIs
<1>20. PICK g : Horner(g, rt, base) /\ Num(rt, base) = g[L + m]
  <2>1. \A i \in 1..L + m : ((L + m) - i) + 1 \in 1..L + m
    BY <1>10
  <2>2. \A i \in 1..L + m : t[i] \in Nat
    BY <1>9, <1>12
  <2>3. \A i \in 1..L + m : rt[i] \in Nat
    BY <1>16, <2>1, <2>2
  <2>4. QED
    BY <1>16, <2>3, NumIs, ZenonT(30)
<1>21. PICK h : Horner(h, rh, base) /\ Num(rh, base) = h[m]
  <2>1. \A i \in 1..m : (m - i) + 1 \in 1..m
    BY <1>10
  <2>2. \A i \in 1..m : high[i] \in Nat
    BY <1>8 DEF m
  <2>3. \A i \in 1..m : rh[i] \in Nat
    BY <1>15, <2>1, <2>2
  <2>4. QED
    BY <1>15, <2>3, NumIs
<1>22. g[m] = c[L]
  <2>1. m <= Len(rt) /\ m <= Len(rh) /\ Len(rt) \in Nat /\ Len(rh) \in Nat /\ m \in 0..m
    BY <1>10, <1>15, <1>16
  <2>2. g[m] = h[m]
    BY <1>10, <1>17, <1>20, <1>21, <2>1, BeginAlike
  <2>3. Num(rh, base) = c[L]
    BY <1>7 DEF Shows, rh
  <2>4. QED
    BY <1>21, <2>2, <2>3
<1>23. /\ f[0] = 0 /\ (\A i \in 0..L : f[i] \in Nat)
       /\ \A i \in 1..L : f[i] = f[i - 1] * base + rs[i]
  BY <1>14, <1>19 DEF Horner
<1>24. \A i \in 1..L + m : g[i] = g[i - 1] * base + rt[i]
  BY <1>16, <1>20 DEF Horner
<1> DEFINE T == {j \in 0..L : g[m + j] = f[j] * factor + c[L - j]}
<1>25. 0 \in T
  <2>1. m + 0 = m /\ L - 0 = L /\ 0 * factor = 0 /\ 0 \in 0..L
    BY <1>10
  <2>2. c[L] \in Nat
    <3>1. L \in 0..L
      BY <1>10
    <3>2. QED
      BY <1>3, <3>1 DEF L
  <2>3. QED
    BY <1>22, <1>23, <2>1, <2>2
<1>26. ASSUME NEW j \in 1..L, j - 1 \in T PROVE j \in T
  <2> DEFINE k == (L - j) + 1
  <2>1. k \in 1..L /\ k - 1 = L - j /\ L - (j - 1) = k /\ m + (j - 1) = (m + j) - 1 /\ m + j \in 1..L + m
    BY <1>10
  <2>2. rs[j] = s[k] /\ rt[m + j] = low[k]
    BY <1>14, <1>18
  <2> HIDE DEF k
  <2>3. g[(m + j) - 1] = f[j - 1] * factor + c[k]
    BY <1>26, <2>1
  <2>4. g[m + j] = g[(m + j) - 1] * base + low[k]
    BY <1>24, <2>1, <2>2
  <2>5. f[j] = f[j - 1] * base + s[k]
    BY <1>23, <2>2
  <2>6. c[k] * base + low[k] = s[k] * factor + c[k - 1]
    BY <1>5, <2>1 DEF L
  <2>7. f[j - 1] \in Nat /\ c[k] \in Nat /\ c[k - 1] \in Nat /\ low[k] \in Nat /\ s[k] \in Nat
    <3>1. j - 1 \in 0..L
      BY <1>10
    <3>2. c[k] \in 0..factor - 1 /\ c[k - 1] \in 0..factor - 1 /\ low[k] \in 0..base - 1
      BY <1>5, <2>1 DEF L
    <3>3. s[k] \in 0..base - 1
      BY <1>1, <2>1 DEF L
    <3>4. QED
      BY <1>23, <3>1, <3>2, <3>3
  <2>8. (f[j - 1] * factor + c[k]) * base + low[k] = (f[j - 1] * base + s[k]) * factor + c[k - 1]
    <3>1. PICK a \in Nat, x \in Nat, y \in Nat, l \in Nat, d \in Nat :
            a = f[j - 1] /\ x = c[k] /\ y = c[k - 1] /\ l = low[k] /\ d = s[k]
      BY <2>7
    <3>2. x * base + l = d * factor + y
      BY <2>6, <3>1
    <3>3. (a * factor + x) * base + l = (a * base + d) * factor + y
      BY <3>2, SchoolStep
    <3>4. QED
      BY <3>1, <3>3
  <2>9. g[m + j] = f[j] * factor + c[L - j]
    BY <2>1, <2>3, <2>4, <2>5, <2>8
  <2>10. QED
    BY <1>10, <2>9
<1>27. \A j \in 0..L : j \in T
  <2> HIDE DEF T
  <2>1. QED
    BY <1>10, <1>25, <1>26, Upwards
<1>28. Num(rt, base) = Num(rs, base) * factor + carry
  <2>1. L \in 0..L /\ L - L = 0 /\ L + m = m + L
    BY <1>10
  <2>2. g[m + L] = f[L] * factor + c[L - L]
    BY <1>27, <2>1
  <2>3. QED
    BY <1>3, <1>19, <1>20, <2>1, <2>2
<1>29. ASSUME L = 0 \/ s[L] # 0 \/ (L = 1 /\ carry > 0), Len(t) > 0
       PROVE  t[Len(t)] # 0
  <2>1. CASE m > 0
    <3>1. m \in 1..m /\ Len(t) = L + m
      BY <1>9, <1>10, <2>1
    <3>2. high[m] # 0
      BY <1>7, <2>1 DEF Shows, m
    <3>3. QED
      BY <1>11, <3>1, <3>2
  <2>2. CASE m = 0
    <3>1. L \in 1..L /\ Len(t) = L
      BY <1>9, <1>10, <1>29, <2>2
    <3>2. c[L] = 0
      <4>1. Numeral(rh, base) /\ Plain(rh)
        BY <1>7, ShowsReversed DEF rh
      <4>2. Num(rh, base) = 0
        BY <1>15, <2>2, <4>1, NothingIsZero
      <4>3. QED
        BY <1>7, <4>2 DEF Shows, rh
    <3>3. /\ low[L] \in 0..base - 1 /\ c[L - 1] \in 0..factor - 1 /\ s[L] \in 0..base - 1
          /\ c[L] * base + low[L] = s[L] * factor + c[L - 1]
      BY <1>1, <1>5, <3>1 DEF L
    <3>4. low[L] = s[L] * factor + c[L - 1]
      BY <3>2, <3>3
    <3>5. s[L] * factor + c[L - 1] > 0
      <4>1. CASE s[L] # 0
        <5>1. s[L] * factor > 0
          BY <3>3, <4>1, Products
        <5>2. s[L] * factor \in Nat /\ c[L - 1] \in Nat
          BY <3>3, Products
        <5>3. QED
          BY <5>1, <5>2
      <4>2. CASE L = 1 /\ carry > 0
        <5>1. c[L - 1] = carry
          BY <1>3, <4>2
        <5>2. s[L] * factor \in Nat
          BY <3>3, Products
        <5>3. QED
          BY <4>2, <5>1, <5>2
      <4>3. QED
        BY <1>29, <3>1, <4>1, <4>2
    <3>6. QED
      BY <1>11, <3>1, <3>4, <3>5
  <2>3. QED
    BY <1>10, <2>1, <2>2
<1>30. ASSUME L = 1, s[1] = 0, carry = 0 PROVE t = <<0>>
  <2>1. c[0] = 0
    BY <1>3, <1>30
  <2>2. c[1] * base + low[1] = 0 /\ c[1] \in Nat /\ low[1] \in Nat
    <3>1. 1 \in 1..L /\ 1 - 1 = 0
      BY <1>30
    <3>2. c[1] * base + low[1] = s[1] * factor + c[1 - 1] /\ c[1] \in 0..factor - 1 /\ low[1] \in 0..base - 1
      BY <1>5, <3>1 DEF L
    <3>3. QED
      BY <1>30, <2>1, <3>1, <3>2
  <2>3. c[1] = 0 /\ low[1] = 0
    <3>1. c[1] * base \in Nat /\ (c[1] > 0 => c[1] * base > 0)
      BY <2>2, Products
    <3>2. QED
      BY <2>2, <3>1
  <2>4. m = 0
    <3>1. Numeral(rh, base) /\ Plain(rh) /\ Num(rh, base) = 0
      BY <1>7, <1>30, <2>3, ShowsReversed DEF rh
    <3>2. QED
      BY <1>15, <3>1, NothingIsZero
  <2>5. Len(t) = 1 /\ t[1] = 0
    BY <1>9, <1>11, <1>30, <2>3, <2>4
  <2>6. List(<<0>>) /\ Len(<<0>>) = 1 /\ \A i \in 1..1 : <<0>>[i] = 0
    BY Shorts
  <2>7. \A i \in 1..Len(t) : t[i] = <<0>>[i]
    BY <2>5, <2>6
  <2>8. QED
    BY <1>9, <2>5, <2>6, <2>7, ListsEqual
<1>31. QED
  BY <1>13, <1>28, <1>29, <1>30 DEF L, rs, rt
\* The number of the digits read so far, in the other base; a start without
\* value remains until there is a digit that is not zero.
Reached(s, start, n, base) ==
    /\ Numeral(s, base) /\ Num(Reverse(s), base) = n
    /\ IF n = 0 THEN s = start ELSE Len(s) > 0 /\ s[Len(s)] # 0

\* No digits, and one digit that is zero.
LEMMA StartsAre ==
    ASSUME NEW base \in Nat \ {0, 1}, NEW start \in {<<>>, << 0 >>}
    PROVE  Reached(start, start, 0, base)
<1>1. List(<<>>) /\ Len(<<>>) = 0 /\ List(<<0>>) /\ Len(<<0>>) = 1 /\ <<0>>[1] = 0
  BY Shorts
<1>2. Numeral(start, base)
  <2>1. CASE start = <<>>
    BY <1>1, <2>1 DEF Numeral
  <2>2. CASE start = <<0>>
    <3>1. \A i \in 1..1 : <<0>>[i] \in 0..base - 1
      BY <1>1
    <3>2. QED
      BY <1>1, <2>2, <3>1 DEF Numeral
  <2>3. QED
    BY <2>1, <2>2
<1>3. Reverse(start) = start
  <2>1. List(start) /\ Len(start) \in {0, 1}
    BY <1>1
  <2>2. /\ List(Reverse(start)) /\ Len(Reverse(start)) = Len(start)
        /\ \A i \in 1..Len(start) : Reverse(start)[i] = start[(Len(start) - i) + 1]
    BY <2>1, ReverseIs
  <2>3. ASSUME NEW i \in 1..Len(start) PROVE Reverse(start)[i] = start[i]
    <3>1. i = 1 /\ (Len(start) - i) + 1 = 1
      <4>1. CASE Len(start) = 0
        BY <4>1
      <4>2. CASE Len(start) = 1
        BY <4>2
      <4>3. QED
        BY <2>1, <4>1, <4>2
    <3>2. QED
      BY <2>2, <3>1
  <2>4. QED
    BY <2>1, <2>2, <2>3, ListsEqual
<1>4. Num(start, base) = 0
  <2>1. base \in Nat
    OBVIOUS
  <2>2. Num(<<>>, base) = 0 /\ Num(<<0>>, base) = 0
    BY <2>1, FewDigits
  <2>3. QED
    BY <2>2
<1>5. QED
  BY <1>2, <1>3, <1>4 DEF Reached

\* One more digit is reached.
LEMMA ReachedMore ==
    ASSUME NEW base \in Nat \ {0, 1}, NEW factor \in Nat \ {0}, NEW d \in 0..factor - 1,
           NEW start \in {<<>>, << 0 >>}, NEW s, NEW n \in Nat, Reached(s, start, n, base),
           Bits + Digits \in Nat, factor <= Bits + Digits
    PROVE  Reached(MulAdd(s, factor, d, base), start, n * factor + d, base)
<1>1. PICK t : t = MulAdd(s, factor, d, base)
  OBVIOUS
<1>2. Numeral(s, base) /\ Len(s) \in Nat
  BY ListIs DEF Reached, Numeral
<1>3. /\ Numeral(t, base)
      /\ Num(Reverse(t), base) = Num(Reverse(s), base) * factor + d
      /\ Len(s) = 0 \/ s[Len(s)] # 0 \/ (Len(s) = 1 /\ d > 0) => (Len(t) > 0 => t[Len(t)] # 0)
      /\ Len(s) = 1 /\ s[1] = 0 /\ d = 0 => t = <<0>>
  BY <1>1, <1>2, MulAddIs
<1>4. Num(Reverse(t), base) = n * factor + d
  BY <1>3 DEF Reached
<1>5. n * factor \in Nat /\ (n > 0 => n * factor > 0)
  BY Products
<1>6. Len(<<>>) = 0 /\ Len(<<0>>) = 1 /\ <<0>>[1] = 0
  BY Shorts
<1>7. CASE n = 0 /\ d = 0
  <2>1. n * factor + d = 0 /\ s = start
    BY <1>7 DEF Reached
  <2>2. CASE start = <<0>>
    <3>1. t = start
      BY <1>3, <1>6, <1>7, <2>1, <2>2
    <3>2. QED
      BY <1>1, <1>3, <1>4, <2>1, <3>1 DEF Reached
  <2>3. CASE start = <<>>
    <3>1. Len(t) > 0 => t[Len(t)] # 0
      BY <1>3, <1>6, <2>1, <2>3
    <3>2. Shows(t, 0, base)
      BY <1>3, <1>4, <2>1, <3>1 DEF Shows
    <3>3. Numeral(Reverse(t), base) /\ Plain(Reverse(t)) /\ Num(Reverse(t), base) = 0
      BY <3>2, ShowsReversed
    <3>4. List(t) /\ Len(Reverse(t)) = Len(t)
      BY <1>3, ReverseIs DEF Numeral
    <3>5. Len(t) = 0
      BY <3>3, <3>4, NothingIsZero
    <3>6. t = <<>>
      BY <3>4, <3>5, Shorts, ListsEqual
    <3>7. QED
      BY <1>1, <1>3, <1>4, <2>1, <2>3, <3>6 DEF Reached
  <2>4. QED
    BY <2>2, <2>3
<1>8. CASE ~(n = 0 /\ d = 0)
  <2>1. n * factor + d \in Nat /\ n * factor + d > 0
    BY <1>5, <1>8
  <2>2. Len(s) = 0 \/ s[Len(s)] # 0 \/ (Len(s) = 1 /\ d > 0)
    <3>1. CASE n = 0
      <4>1. s = start /\ d > 0
        BY <1>8, <3>1 DEF Reached
      <4>2. QED
        BY <1>6, <4>1
    <3>2. CASE n # 0
      BY <3>2 DEF Reached
    <3>3. QED
      BY <3>1, <3>2
  <2>3. Len(t) > 0 => t[Len(t)] # 0
    BY <1>3, <2>2
  <2>4. Len(t) > 0
    <3>1. Shows(t, n * factor + d, base)
      BY <1>3, <1>4, <2>3 DEF Shows
    <3>2. Numeral(Reverse(t), base) /\ Plain(Reverse(t)) /\ Num(Reverse(t), base) = n * factor + d
      BY <3>1, ShowsReversed
    <3>3. List(t) /\ Len(Reverse(t)) = Len(t) /\ Len(t) \in Nat
      BY <1>3, ReverseIs, ListIs DEF Numeral
    <3>4. Len(t) # 0
      BY <2>1, <3>2, <3>3, NothingIsZero
    <3>5. QED
      BY <3>3, <3>4
  <2>5. QED
    BY <1>1, <1>3, <1>4, <2>1, <2>3, <2>4 DEF Reached
<1>9. QED
  BY <1>7, <1>8

\* A conversion keeps the number.
LEMMA ConvertedIs ==
    ASSUME NEW s, NEW base \in Nat \ {0, 1}, NEW other \in Nat \ {0, 1}, Numeral(s, base),
           Bits + Digits \in Nat, base <= Bits + Digits, NEW start \in {<<>>, << 0 >>}
    PROVE  Reached(Converted(s, base, other, start), start, Num(s, base), other)
<1> DEFINE S == Seq(0..other - 1)
           step == [x \in (1..Len(s)) \X S |-> MulAdd(x[2], base, s[x[1]], other)]
           Is(u) == u = [n \in 0..Len(s) |-> IF n = 0 THEN start
                                             ELSE MulAdd(u[n - 1], base, s[n], other)]
           upTo == CHOOSE u : Is(u)
<1>1. Len(s) \in Nat /\ List(s) /\ \A i \in 1..Len(s) : s[i] \in 0..base - 1
  BY ListIs DEF Numeral
<1>2. PICK f : Horner(f, s, base) /\ Num(s, base) = f[Len(s)]
  BY <1>1, NumIs
<1>3. ASSUME NEW x \in S PROVE Numeral(x, other)
  <2>1. List(x)
    BY InSeq
  <2>2. \A i \in 1..Len(x) : x[i] \in 0..other - 1
    BY LenProperties
  <2>3. QED
    BY <2>1, <2>2 DEF Numeral
<1>4. ASSUME NEW x, Numeral(x, other) PROVE x \in S
  <2>1. x = [i \in 1..Len(x) |-> x[i]] /\ Len(x) \in Nat /\ \A i \in 1..Len(x) : x[i] \in 0..other - 1
    BY <1>4, ListIs DEF Numeral
  <2>2. x \in [1..Len(x) -> 0..other - 1]
    BY <2>1
  <2>3. QED
    BY <2>1, <2>2, SeqDef
<1>5. ASSUME NEW i \in 1..Len(s), NEW x \in S PROVE MulAdd(x, base, s[i], other) \in S
  <2>1. PICK t : t = MulAdd(x, base, s[i], other)
    OBVIOUS
  <2>2. PICK d \in 0..base - 1 : d = s[i]
    BY <1>1
  <2>3. Numeral(t, other)
    BY <1>3, <2>1, <2>2, MulAddIs
  <2>4. QED
    BY <1>4, <2>1, <2>3
<1>6. start \in S
  BY StartsAre, <1>4 DEF Reached
<1> HIDE DEF S
<1>7. step \in [(1..Len(s)) \X S -> S]
  BY <1>5
<1>8. PICK g : Unrolls(g, Len(s), S, start, step)
  <2> HIDE DEF step
  <2>1. Steps(Len(s), S, start, step)
    BY <1>1, <1>6, <1>7 DEF Steps
  <2>2. QED
    BY <2>1, Recursion
<1>9. /\ g \in [0..Len(s) -> S]
      /\ g[0] = start /\ \A i \in 1..Len(s) : g[i] = step[<<i, g[i - 1]>>]
  BY <1>8 DEF Unrolls
<1>10. ASSUME NEW i \in 1..Len(s) PROVE g[i] = MulAdd(g[i - 1], base, s[i], other)
  <2>1. i - 1 \in 0..Len(s)
    BY <1>1
  <2>2. g[i - 1] \in S
    BY <2>1, <1>9
  <2>3. step[<<i, g[i - 1]>>] = MulAdd(g[i - 1], base, s[i], other)
    BY <2>2
  <2> HIDE DEF step
  <2>4. QED
    BY <1>9, <2>3
<1> HIDE DEF step
<1>11. Is(g)
  <2>1. ASSUME NEW i \in 0..Len(s)
        PROVE  g[i] = IF i = 0 THEN start ELSE MulAdd(g[i - 1], base, s[i], other)
    <3>1. CASE i = 0
      BY <1>9, <3>1
    <3>2. CASE i # 0
      <4>1. i \in 1..Len(s)
        BY <1>1, <3>2
      <4>2. QED
        BY <4>1, <3>2, <1>10
    <3>3. QED
      BY <3>1, <3>2
  <2>2. g = [i \in 0..Len(s) |-> g[i]]
    BY <1>9
  <2>3. QED
    BY <2>1, <2>2
<1>12. Is(upTo)
  <2> HIDE DEF Is
  <2>1. QED
    BY <1>11
<1>13. upTo[0] = start /\ \A i \in 1..Len(s) : upTo[i] = MulAdd(upTo[i - 1], base, s[i], other)
  <2> HIDE DEF upTo
  <2>1. QED
    BY <1>1, <1>12
<1>14. Converted(s, base, other, start) = upTo[Len(s)]
  BY DEF Converted
<1> HIDE DEF upTo
<1> DEFINE T == {i \in 0..Len(s) : Reached(upTo[i], start, f[i], other)}
<1>15. f[0] = 0 /\ (\A i \in 0..Len(s) : f[i] \in Nat) /\ \A i \in 1..Len(s) : f[i] = f[i - 1] * base + s[i]
  BY <1>2 DEF Horner
<1>16. 0 \in T
  <2>1. Reached(start, start, 0, base) /\ Reached(start, start, 0, other)
    BY StartsAre
  <2>2. upTo[0] = start /\ f[0] = 0 /\ 0 \in 0..Len(s)
    BY <1>1, <1>13, <1>15
  <2>3. QED
    BY <2>1, <2>2
<1>17. ASSUME NEW i \in 1..Len(s), i - 1 \in T PROVE i \in T
  <2>1. i \in 0..Len(s) /\ i - 1 \in 0..Len(s) /\ Reached(upTo[i - 1], start, f[i - 1], other)
    BY <1>1, <1>17
  <2>2. PICK d \in 0..base - 1, n \in Nat : d = s[i] /\ n = f[i - 1]
    BY <1>1, <1>15, <2>1
  <2>3. Reached(MulAdd(upTo[i - 1], base, d, other), start, n * base + d, other)
    BY <2>1, <2>2, ReachedMore
  <2>4. upTo[i] = MulAdd(upTo[i - 1], base, d, other) /\ f[i] = n * base + d
    BY <1>13, <1>15, <2>2
  <2>5. QED
    BY <2>1, <2>3, <2>4
<1>18. \A i \in 0..Len(s) : i \in T
  <2> HIDE DEF T
  <2>1. QED
    BY <1>1, <1>16, <1>17, Upwards
<1>19. Reached(upTo[Len(s)], start, f[Len(s)], other)
  BY <1>1, <1>18
<1>20. QED
  BY <1>2, <1>14, <1>19

\* What Leading counts.
LEMMA LeadingIs ==
    ASSUME NEW s, List(s)
    PROVE  /\ Leading(s) \in 0..Len(s) /\ \A i \in 1..Leading(s) : s[i] = 0
           /\ Leading(s) < Len(s) => s[Leading(s) + 1] # 0
<1>1. Len(s) \in Nat /\ DOMAIN s = 1..Len(s)
  BY ListIs
<1> DEFINE T == {i \in 1..Len(s) + 1 : i = Len(s) + 1 \/ s[i] # 0}
<1>2. PICK m \in T : \A k \in T : m <= k
  <2>1. Len(s) + 1 \in T /\ T \in SUBSET Nat
    BY <1>1
  <2>2. T # {}
    BY <2>1
  <2> HIDE DEF T
  <2>3. QED
    BY <2>1, <2>2, Smallest
<1>3. m \in 1..Len(s) + 1 /\ (m = Len(s) + 1 \/ s[m] # 0)
  BY <1>2
<1>4. \A i \in 1..m - 1 : s[i] = 0
  <2>1. TAKE i \in 1..m - 1
  <2>2. i \in 1..Len(s) + 1 /\ i # Len(s) + 1 /\ ~(m <= i)
    BY <1>1, <1>3
  <2>3. i \notin T
    BY <1>2, <2>2
  <2>4. QED
    BY <2>2, <2>3
<1> HIDE DEF T
<1>5. {i \in DOMAIN s : \A j \in 1..i : s[j] = 0} = 1..m - 1
  <2>1. ASSUME NEW i \in DOMAIN s, \A j \in 1..i : s[j] = 0 PROVE i \in 1..m - 1
    <3>1. CASE m <= i
      <4>1. m \in 1..i /\ m # Len(s) + 1
        BY <1>1, <1>3, <3>1
      <4>2. s[m] = 0 /\ s[m] # 0
        BY <1>3, <2>1, <4>1
      <4>3. QED
        BY <4>2
    <3>2. CASE ~(m <= i)
      BY <1>1, <1>3, <3>2
    <3>3. QED
      BY <3>1, <3>2
  <2>2. ASSUME NEW i \in 1..m - 1 PROVE i \in DOMAIN s /\ \A j \in 1..i : s[j] = 0
    <3>1. i \in DOMAIN s
      BY <1>1, <1>3
    <3>2. \A j \in 1..i : j \in 1..m - 1
      BY <1>1, <1>3
    <3>3. QED
      BY <1>4, <3>1, <3>2
  <2>3. QED
    BY <2>1, <2>2
<1>6. Leading(s) = m - 1
  <2>1. m - 1 \in Nat /\ 1 \in Int /\ m - 1 \in Int
    BY <1>1, <1>3
  <2>2. Cardinality(1..m - 1) = m - 1
    <3>1. Cardinality(1..m - 1) = IF 1 > m - 1 THEN 0 ELSE ((m - 1) - 1) + 1
      BY <2>1, FS_Interval
    <3>2. QED
      BY <2>1, <3>1
  <2>3. QED
    BY <1>5, <2>2 DEF Leading
<1>7. QED
  BY <1>1, <1>3, <1>4, <1>6
\* A sequence with zeros written in front.
Padded(s, z, p) == s = Zeros(z) \o p

\* A numeral is its leading zeros and a numeral without any.
LEMMA SplitZeros ==
    ASSUME NEW s, NEW base \in Nat \ {0, 1}, Numeral(s, base),
           NEW r, r = SubSeq(s, Leading(s) + 1, Len(s))
    PROVE  /\ Numeral(r, base) /\ Plain(r) /\ Num(r, base) = Num(s, base)
           /\ Padded(s, Leading(s), r)
<1>1. Len(s) \in Nat /\ List(s) /\ \A i \in 1..Len(s) : s[i] \in 0..base - 1
  BY ListIs DEF Numeral
<1>2. PICK z : z = Leading(s)
  OBVIOUS
<1>3. z \in 0..Len(s) /\ (\A i \in 1..z : s[i] = 0) /\ (z < Len(s) => s[z + 1] # 0)
  BY <1>1, <1>2, LeadingIs
<1>4. /\ List(r) /\ Len(r) = Len(s) - z
      /\ \A i \in 1..Len(s) - z : r[i] = s[z + i]
  <2>1. z + 1 \in Int /\ Len(s) \in Int
    BY <1>1, <1>3
  <2>2. /\ List(r) /\ Len(r) = IF z + 1 <= Len(s) THEN (Len(s) - (z + 1)) + 1 ELSE 0
        /\ \A i \in 1..(Len(s) - (z + 1)) + 1 : r[i] = s[((z + 1) + i) - 1]
    BY <1>2, <2>1, Slice
  <2>3. (Len(s) - (z + 1)) + 1 = Len(s) - z /\ \A i \in 1..Len(s) - z : ((z + 1) + i) - 1 = z + i
    BY <1>1, <1>3
  <2>4. Len(r) = Len(s) - z
    <3>1. CASE z + 1 <= Len(s)
      BY <2>2, <2>3, <3>1
    <3>2. CASE ~(z + 1 <= Len(s))
      <4>1. Len(r) = 0
        BY <2>2, <3>2
      <4>2. Len(s) - z = 0
        BY <1>1, <1>3, <3>2
      <4>3. QED
        BY <4>1, <4>2
    <3>3. QED
      BY <3>1, <3>2
  <2>5. QED
    BY <2>2, <2>3, <2>4
<1>5. \A i \in 1..Len(s) - z : r[i] \in 0..base - 1
  <2>1. \A i \in 1..Len(s) - z : z + i \in 1..Len(s)
    BY <1>1, <1>3
  <2>2. QED
    BY <1>1, <1>4, <2>1
<1>6. Numeral(r, base)
  BY <1>4, <1>5 DEF Numeral
<1>7. Plain(r)
  <2>1. SUFFICES ASSUME Len(r) > 0 PROVE r[1] # 0
    BY DEF Plain
  <2>2. 1 \in 1..Len(s) - z /\ z < Len(s)
    <3>1. Len(s) - z > 0
      BY <1>4, <2>1
    <3>2. QED
      BY <1>1, <1>3, <3>1
  <2>3. QED
    BY <1>3, <1>4, <2>2
<1>8. PICK f : Horner(f, s, base) /\ Num(s, base) = f[Len(s)]
  BY <1>1, NumIs
<1>9. PICK g : Horner(g, r, base) /\ Num(r, base) = g[Len(r)]
  <2>1. \A i \in 1..Len(r) : r[i] \in Nat
    <3>1. \A i \in 1..Len(r) : r[i] \in 0..base - 1
      BY <1>6 DEF Numeral
    <3>2. \A k \in 0..base - 1 : k \in Nat
      OBVIOUS
    <3>3. QED
      BY <3>1, <3>2
  <2>2. QED
    BY <1>4, <2>1, NumIs
<1>10. /\ f[0] = 0 /\ \A i \in 1..Len(s) : f[i] = f[i - 1] * base + s[i]
       /\ g[0] = 0 /\ \A i \in 1..Len(s) - z : g[i] = g[i - 1] * base + r[i]
  BY <1>4, <1>8, <1>9 DEF Horner
<1>11. f[z] = 0
  <2> DEFINE T == {i \in 0..z : f[i] = 0}
  <2>1. 0 \in T
    BY <1>3, <1>10
  <2>2. ASSUME NEW i \in 1..z, i - 1 \in T PROVE i \in T
    <3>1. i \in 1..Len(s) /\ s[i] = 0 /\ f[i - 1] = 0
      BY <1>1, <1>3, <2>2
    <3>2. f[i] = f[i - 1] * base + s[i]
      BY <1>10, <3>1
    <3>3. f[i] = 0
      BY <3>1, <3>2
    <3>4. QED
      BY <1>3, <3>3
  <2>3. z \in Nat
    BY <1>1, <1>3
  <2>4. \A i \in 0..z : i \in T
    <3> HIDE DEF T
    <3>1. QED
      BY <2>1, <2>2, <2>3, Upwards
  <2>5. QED
    BY <2>3, <2>4
<1>12. Num(r, base) = Num(s, base)
  <2> DEFINE T == {i \in 0..Len(s) - z : g[i] = f[z + i]}
  <2>1. 0 \in T
    BY <1>1, <1>3, <1>10, <1>11
  <2>2. ASSUME NEW i \in 1..Len(s) - z, i - 1 \in T PROVE i \in T
    <3>1. z + i \in 1..Len(s) /\ (z + i) - 1 = z + (i - 1)
      BY <1>1, <1>3
    <3>2. f[z + i] = f[z + (i - 1)] * base + s[z + i]
      BY <1>10, <3>1
    <3>3. g[i] = g[i - 1] * base + r[i]
      BY <1>10
    <3>4. g[i - 1] = f[z + (i - 1)] /\ r[i] = s[z + i]
      BY <1>4, <2>2
    <3>5. g[i] = f[z + i]
      BY <3>2, <3>3, <3>4
    <3>6. QED
      BY <3>5
  <2>3. Len(s) - z \in Nat
    BY <1>1, <1>3
  <2>4. \A i \in 0..Len(s) - z : i \in T
    <3> HIDE DEF T
    <3>1. QED
      BY <2>1, <2>2, <2>3, Upwards
  <2>5. g[Len(s) - z] = f[z + (Len(s) - z)] /\ z + (Len(s) - z) = Len(s)
    BY <1>1, <1>3, <2>3, <2>4
  <2>6. QED
    BY <1>4, <1>8, <1>9, <2>5
<1>13. s = Zeros(z) \o r
  <2>1. List(Zeros(z)) /\ Len(Zeros(z)) = z /\ \A i \in 1..z : Zeros(z)[i] = 0
    <3>1. Zeros(z) = [i \in 1..z |-> Zeros(z)[i]] /\ z \in Nat
      BY <1>3 DEF Zeros
    <3>2. QED
      BY <3>1, FunctionIsList DEF Zeros
  <2>2. PICK t : t = Zeros(z) \o r
    OBVIOUS
  <2>3. /\ List(t) /\ Len(t) = Len(Zeros(z)) + Len(r)
        /\ \A i \in 1..Len(Zeros(z)) + Len(r) :
              t[i] = IF i <= Len(Zeros(z)) THEN Zeros(z)[i] ELSE r[i - Len(Zeros(z))]
    BY <1>4, <2>1, <2>2, Concat, ZenonT(30)
  <2>4. Len(t) = Len(s) /\ \A i \in 1..Len(s) : t[i] = IF i <= z THEN Zeros(z)[i] ELSE r[i - z]
    <3>1. z + (Len(s) - z) = Len(s)
      BY <1>1, <1>3
    <3>2. QED
      BY <1>4, <2>1, <2>3, <3>1
  <2>5. ASSUME NEW i \in 1..Len(s) PROVE s[i] = t[i]
    <3>1. CASE i <= z
      <4>1. i \in 1..z
        BY <1>3, <3>1
      <4>2. QED
        BY <1>3, <2>1, <2>4, <3>1, <4>1
    <3>2. CASE ~(i <= z)
      <4>1. i - z \in 1..Len(s) - z /\ z + (i - z) = i
        BY <1>1, <1>3, <3>2
      <4>2. r[i - z] = s[i]
        BY <1>4, <4>1
      <4>3. QED
        BY <2>4, <3>2, <4>2
    <3>3. QED
      BY <3>1, <3>2
  <2>6. QED
    BY <1>1, <2>2, <2>3, <2>4, <2>5, ListsEqual
<1>14. QED
  BY <1>2, <1>6, <1>7, <1>12, <1>13 DEF Padded

\* And zeros in front of a numeral are its leading zeros.
LEMMA JoinZeros ==
    ASSUME NEW p, NEW base \in Nat \ {0, 1}, Numeral(p, base), Plain(p), NEW z \in Nat,
           NEW s, Padded(s, z, p)
    PROVE  /\ Numeral(s, base) /\ Len(s) = z + Len(p) /\ Leading(s) = z
           /\ SubSeq(s, z + 1, Len(s)) = p /\ Num(s, base) = Num(p, base)
<1>1. Len(p) \in Nat /\ List(p) /\ \A i \in 1..Len(p) : p[i] \in 0..base - 1
  BY ListIs DEF Numeral
<1>2. List(Zeros(z)) /\ Len(Zeros(z)) = z /\ \A i \in 1..z : Zeros(z)[i] = 0
  <2>1. Zeros(z) = [i \in 1..z |-> Zeros(z)[i]]
    BY DEF Zeros
  <2>2. QED
    BY <2>1, FunctionIsList DEF Zeros
<1>3. /\ List(s) /\ Len(s) = z + Len(p)
      /\ \A i \in 1..z + Len(p) : s[i] = IF i <= z THEN Zeros(z)[i] ELSE p[i - z]
  <2>1. /\ List(s) /\ Len(s) = Len(Zeros(z)) + Len(p)
        /\ \A i \in 1..Len(Zeros(z)) + Len(p) :
              s[i] = IF i <= Len(Zeros(z)) THEN Zeros(z)[i] ELSE p[i - Len(Zeros(z))]
    BY <1>1, <1>2, Concat DEF Padded
  <2>2. QED
    BY <1>2, <2>1
<1>4. \A i \in 1..z : s[i] = 0
  <2>1. \A i \in 1..z : i \in 1..z + Len(p) /\ i <= z
    BY <1>1
  <2>2. QED
    BY <1>2, <1>3, <2>1
<1>5. \A i \in 1..Len(p) : s[z + i] = p[i]
  <2>1. \A i \in 1..Len(p) : z + i \in 1..z + Len(p) /\ ~(z + i <= z) /\ (z + i) - z = i
    BY <1>1
  <2>2. QED
    BY <1>3, <2>1
<1>6. ASSUME NEW i \in 1..Len(s) PROVE s[i] \in 0..base - 1
  <2>1. CASE i <= z
    <3>1. i \in 1..z /\ 0 \in 0..base - 1
      BY <2>1
    <3>2. QED
      BY <1>4, <3>1
  <2>2. CASE ~(i <= z)
    <3>1. i - z \in 1..Len(p) /\ z + (i - z) = i
      BY <1>1, <1>3, <2>2
    <3>2. s[i] = p[i - z]
      BY <1>5, <3>1
    <3>3. QED
      BY <1>1, <3>1, <3>2
  <2>3. QED
    BY <2>1, <2>2
<1>7. Numeral(s, base)
  BY <1>3, <1>6 DEF Numeral
<1>8. Leading(s) = z
  <2>1. PICK k : k = Leading(s)
    OBVIOUS
  <2>2. k \in 0..Len(s) /\ (\A i \in 1..k : s[i] = 0) /\ (k < Len(s) => s[k + 1] # 0)
    BY <1>3, <2>1, LeadingIs
  <2>3. ~(k < z)
    <3>1. SUFFICES ASSUME k < z PROVE FALSE
      OBVIOUS
    <3>2. k < Len(s) /\ k + 1 \in 1..z
      BY <1>1, <1>3, <2>2, <3>1
    <3>3. QED
      BY <1>4, <2>2, <3>2
  <2>4. ~(k > z)
    <3>1. SUFFICES ASSUME k > z PROVE FALSE
      OBVIOUS
    <3>2. z + 1 \in 1..k /\ Len(p) > 0 /\ 1 \in 1..Len(p)
      BY <1>1, <1>3, <2>2, <3>1
    <3>3. s[z + 1] = 0 /\ s[z + 1] = p[1]
      BY <1>5, <2>2, <3>2
    <3>4. QED
      BY <3>2, <3>3 DEF Plain
  <2>5. QED
    BY <2>1, <2>2, <2>3, <2>4
<1>9. SubSeq(s, z + 1, Len(s)) = p
  <2>1. PICK r : r = SubSeq(s, z + 1, Len(s))
    OBVIOUS
  <2>2. z + 1 \in Int /\ Len(s) \in Int
    BY <1>1, <1>3
  <2>3. /\ List(r) /\ Len(r) = IF z + 1 <= Len(s) THEN (Len(s) - (z + 1)) + 1 ELSE 0
        /\ \A i \in 1..(Len(s) - (z + 1)) + 1 : r[i] = s[((z + 1) + i) - 1]
    BY <2>1, <2>2, Slice
  <2>4. (Len(s) - (z + 1)) + 1 = Len(p) /\ \A i \in 1..Len(p) : ((z + 1) + i) - 1 = z + i
    BY <1>1, <1>3
  <2>5. Len(r) = Len(p)
    BY <1>1, <1>3, <2>3, <2>4
  <2>6. \A i \in 1..Len(r) : r[i] = p[i]
    BY <1>5, <2>3, <2>4, <2>5
  <2>7. QED
    BY <1>1, <2>1, <2>3, <2>5, <2>6, ListsEqual
<1>10. Num(p, base) = Num(s, base)
  <2>1. p = SubSeq(s, Leading(s) + 1, Len(s))
    BY <1>8, <1>9
  <2>2. QED
    BY <1>7, <2>1, SplitZeros
<1>11. QED
  BY <1>3, <1>7, <1>8, <1>9, <1>10

\* A reached number, the most significant digit first.
LEMMA ReachedReversed ==
    ASSUME NEW s, NEW n \in Nat, NEW base \in Nat \ {0, 1}, NEW start, Reached(s, start, n, base),
           n # 0 \/ start = <<>>
    PROVE  Numeral(Reverse(s), base) /\ Plain(Reverse(s)) /\ Num(Reverse(s), base) = n
<1>1. Shows(s, n, base)
  <2>1. Len(s) > 0 => s[Len(s)] # 0
    <3>1. CASE n = 0
      BY <3>1, Shorts DEF Reached
    <3>2. CASE n # 0
      BY <3>2 DEF Reached
    <3>3. QED
      BY <3>1, <3>2
  <2>2. QED
    BY <2>1 DEF Reached, Shows
<1>2. QED
  BY <1>1, ShowsReversed

\* What base58 needs of its parameters.
Sizes == Bits \in Nat \ {0, 1} /\ Digits \in Nat \ {0, 1}

\* An encoded key: as many zeros as the key begins with, and its number.
EncodedAs(p, bytes) ==
    /\ Numeral(p, Digits) /\ Plain(p) /\ Num(p, Digits) = Num(bytes, Bits)
    /\ Base58Encode(bytes) = Zeros(Leading(bytes)) \o p

\* Base58Encode of bytes that are all zero.
LEMMA EncodedZeros ==
    ASSUME Sizes, NEW bytes, Numeral(bytes, Bits), Len(bytes) > 0, Num(bytes, Bits) = 0
    PROVE  EncodedAs(<<>>, bytes)
<1>1. Len(bytes) \in Nat /\ List(bytes) /\ Bits + Digits \in Nat /\ Bits <= Bits + Digits
  BY ListIs DEF Numeral, Sizes
<1>2. PICK z : z = Leading(bytes)
  OBVIOUS
<1>3. z \in 0..Len(bytes) /\ (\A i \in 1..z : bytes[i] = 0) /\ (z < Len(bytes) => bytes[z + 1] # 0)
  BY <1>1, <1>2, LeadingIs
<1>4. z = Len(bytes)
  <2>1. PICK r : r = SubSeq(bytes, Leading(bytes) + 1, Len(bytes))
    OBVIOUS
  <2>2. Numeral(r, Bits) /\ Plain(r) /\ Num(r, Bits) = Num(bytes, Bits)
    BY <2>1, SplitZeros DEF Sizes
  <2>3. Len(r) = 0
    BY <2>2, NothingIsZero DEF Sizes
  <2>4. Len(r) = IF z + 1 <= Len(bytes) THEN (Len(bytes) - (z + 1)) + 1 ELSE 0
    <3>1. z + 1 \in Int /\ Len(bytes) \in Int
      BY <1>1, <1>3
    <3>2. QED
      BY <1>2, <2>1, <3>1, Slice
  <2>5. QED
    BY <1>1, <1>3, <2>3, <2>4
<1>5. PICK front : front = SubSeq(bytes, 1, Len(bytes) - 1)
  OBVIOUS
<1>6. List(front) /\ Len(front) = Len(bytes) - 1 /\ \A i \in 1..Len(bytes) - 1 : front[i] = bytes[i]
  <2>1. 1 \in Int /\ Len(bytes) - 1 \in Int
    BY <1>1
  <2>2. /\ List(front)
        /\ Len(front) = IF 1 <= Len(bytes) - 1 THEN ((Len(bytes) - 1) - 1) + 1 ELSE 0
        /\ \A i \in 1..((Len(bytes) - 1) - 1) + 1 : front[i] = bytes[(1 + i) - 1]
    BY <1>5, <2>1, Slice
  <2>3. ((Len(bytes) - 1) - 1) + 1 = Len(bytes) - 1 /\ \A i \in 1..Len(bytes) - 1 : (1 + i) - 1 = i
    BY <1>1
  <2>4. Len(front) = Len(bytes) - 1
    <3>1. CASE 1 <= Len(bytes) - 1
      BY <2>2, <2>3, <3>1
    <3>2. CASE ~(1 <= Len(bytes) - 1)
      <4>1. Len(front) = 0
        BY <2>2, <3>2
      <4>2. Len(bytes) - 1 = 0
        <5>1. PICK n \in Nat : n = Len(bytes)
          BY <1>1
        <5>2. n > 0 /\ ~(1 <= n - 1)
          BY <3>2, <5>1
        <5>3. n - 1 = 0
          BY <5>2
        <5>4. QED
          BY <5>1, <5>3
      <4>3. QED
        BY <4>1, <4>2
    <3>3. QED
      BY <3>1, <3>2
  <2>5. QED
    BY <2>2, <2>3, <2>4
<1>7. Leading(front) = Len(bytes) - 1
  <2>1. PICK k : k = Leading(front)
    OBVIOUS
  <2>2. k \in 0..Len(front) /\ (k < Len(front) => front[k + 1] # 0)
    BY <1>6, <2>1, LeadingIs
  <2>3. ~(k < Len(front))
    <3>1. SUFFICES ASSUME k < Len(front) PROVE FALSE
      OBVIOUS
    <3>2. k + 1 \in 1..Len(bytes) - 1 /\ k + 1 \in 1..z
      BY <1>1, <1>4, <1>6, <2>2, <3>1
    <3>3. QED
      BY <1>3, <1>6, <2>2, <3>1, <3>2
  <2>4. QED
    BY <1>1, <1>6, <2>1, <2>2, <2>3
<1>8. Converted(bytes, Bits, Digits, <<0>>) = <<0>>
  <2>1. Reached(Converted(bytes, Bits, Digits, <<0>>), <<0>>, Num(bytes, Bits), Digits)
    BY <1>1, ConvertedIs DEF Sizes
  <2>2. QED
    BY <2>1 DEF Reached
<1>9. Base58Encode(bytes) = Zeros(Len(bytes) - 1) \o Reverse(<<0>>)
  BY <1>5, <1>7, <1>8 DEF Base58Encode
<1>10. PICK s : s = Zeros(Len(bytes) - 1) \o Reverse(<<0>>)
  OBVIOUS
<1>11. PICK t : Padded(t, Len(bytes), <<>>)
  BY DEF Padded
<1>12. \A n \in Nat : List(Zeros(n)) /\ Len(Zeros(n)) = n /\ \A i \in 1..n : Zeros(n)[i] = 0
  <2>1. TAKE n \in Nat
  <2>2. Zeros(n) = [i \in 1..n |-> Zeros(n)[i]]
    BY DEF Zeros
  <2>3. QED
    BY <2>2, FunctionIsList DEF Zeros
<1>13. List(Reverse(<<0>>)) /\ Len(Reverse(<<0>>)) = 1 /\ Reverse(<<0>>)[1] = 0
  <2>1. List(<<0>>) /\ Len(<<0>>) = 1 /\ <<0>>[1] = 0
    BY Shorts
  <2>2. PICK o : o = <<0>>
    OBVIOUS
  <2>3. List(Reverse(o)) /\ Len(Reverse(o)) = Len(o) /\ \A i \in 1..Len(o) : Reverse(o)[i] = o[(Len(o) - i) + 1]
    BY <2>1, <2>2, ReverseIs
  <2>4. 1 \in 1..Len(o) /\ (Len(o) - 1) + 1 = 1 /\ o[1] = 0
    BY <2>1, <2>2
  <2>5. QED
    BY <2>1, <2>2, <2>3, <2>4
<1>14. List(s) /\ Len(s) = Len(bytes) /\ \A i \in 1..Len(bytes) : s[i] = 0
  <2>1. PICK a : a = Zeros(Len(bytes) - 1)
    OBVIOUS
  <2>2. List(a) /\ Len(a) = Len(bytes) - 1 /\ \A i \in 1..Len(bytes) - 1 : a[i] = 0
    <3>1. Len(bytes) - 1 \in Nat
      BY <1>1
    <3>2. QED
      BY <1>12, <2>1, <3>1
  <2>3. PICK b : b = Reverse(<<0>>)
    OBVIOUS
  <2>4. /\ List(s) /\ Len(s) = Len(a) + Len(b)
        /\ \A i \in 1..Len(a) + Len(b) : s[i] = IF i <= Len(a) THEN a[i] ELSE b[i - Len(a)]
    BY <1>10, <1>13, <2>1, <2>2, <2>3, Concat
  <2>5. Len(a) + Len(b) = Len(bytes)
    <3>1. Len(b) = 1
      BY <1>13, <2>3
    <3>2. QED
      BY <1>1, <2>2, <3>1
  <2>6. ASSUME NEW i \in 1..Len(bytes) PROVE s[i] = 0
    <3>1. CASE i <= Len(a)
      <4>1. i \in 1..Len(bytes) - 1
        BY <1>1, <2>2, <3>1
      <4>2. QED
        BY <2>2, <2>4, <2>5, <3>1, <4>1
    <3>2. CASE ~(i <= Len(a))
      <4>1. i - Len(a) = 1
        BY <1>1, <2>2, <3>2
      <4>2. QED
        BY <1>13, <2>3, <2>4, <2>5, <3>2, <4>1
    <3>3. QED
      BY <3>1, <3>2
  <2>7. QED
    BY <2>4, <2>5, <2>6
<1>15. Numeral(<<>>, Digits) /\ Plain(<<>>) /\ Num(<<>>, Digits) = 0
  BY Shorts, FewDigits DEF Numeral, Plain, Sizes
<1>16. List(t) /\ Len(t) = Len(bytes) /\ \A i \in 1..Len(bytes) : t[i] = 0
  <2>0. Digits \in Nat \ {0, 1}
    BY DEF Sizes
  <2>1. Len(t) = Len(bytes) + Len(<<>>) /\ Leading(t) = Len(bytes) /\ Numeral(t, Digits)
    BY <1>1, <1>11, <1>15, <2>0, JoinZeros
  <2>2. List(t) /\ Len(t) = Len(bytes)
    BY <1>1, <2>1, Shorts DEF Numeral
  <2>3. \A i \in 1..Leading(t) : t[i] = 0
    BY <2>2, LeadingIs
  <2>4. QED
    BY <2>1, <2>2, <2>3
<1>17. s = t
  BY <1>14, <1>16, ListsEqual
<1>18. QED
  BY <1>2, <1>4, <1>9, <1>10, <1>11, <1>15, <1>17 DEF EncodedAs, Padded

\* Base58Encode of other bytes.
LEMMA EncodedOthers ==
    ASSUME Sizes, NEW bytes, Numeral(bytes, Bits), Len(bytes) > 0, Num(bytes, Bits) # 0
    PROVE  EncodedAs(Reverse(Converted(bytes, Bits, Digits, <<0>>)), bytes)
<1>1. Len(bytes) \in Nat /\ List(bytes) /\ Bits + Digits \in Nat /\ Bits <= Bits + Digits
  BY ListIs DEF Numeral, Sizes
<1>2. PICK z : z = Leading(bytes)
  OBVIOUS
<1>3. z \in 0..Len(bytes) /\ (\A i \in 1..z : bytes[i] = 0) /\ (z < Len(bytes) => bytes[z + 1] # 0)
  BY <1>1, <1>2, LeadingIs
<1>4. Num(bytes, Bits) \in Nat /\ z # Len(bytes)
  <2>1. PICK r : r = SubSeq(bytes, Leading(bytes) + 1, Len(bytes))
    OBVIOUS
  <2>2. Numeral(r, Bits) /\ Plain(r) /\ Num(r, Bits) = Num(bytes, Bits)
    BY <2>1, SplitZeros DEF Sizes
  <2>3. Num(r, Bits) \in Nat /\ Len(r) # 0
    BY <2>2, NothingIsZero DEF Sizes
  <2>4. Len(r) = IF z + 1 <= Len(bytes) THEN (Len(bytes) - (z + 1)) + 1 ELSE 0
    <3>1. z + 1 \in Int /\ Len(bytes) \in Int
      BY <1>1, <1>3
    <3>2. QED
      BY <1>2, <2>1, <3>1, Slice
  <2>5. QED
    BY <1>1, <1>3, <2>2, <2>3, <2>4
<1>5. PICK front : front = SubSeq(bytes, 1, Len(bytes) - 1)
  OBVIOUS
<1>6. List(front) /\ Len(front) = Len(bytes) - 1 /\ \A i \in 1..Len(bytes) - 1 : front[i] = bytes[i]
  <2>1. 1 \in Int /\ Len(bytes) - 1 \in Int
    BY <1>1
  <2>2. /\ List(front)
        /\ Len(front) = IF 1 <= Len(bytes) - 1 THEN ((Len(bytes) - 1) - 1) + 1 ELSE 0
        /\ \A i \in 1..((Len(bytes) - 1) - 1) + 1 : front[i] = bytes[(1 + i) - 1]
    BY <1>5, <2>1, Slice
  <2>3. ((Len(bytes) - 1) - 1) + 1 = Len(bytes) - 1 /\ \A i \in 1..Len(bytes) - 1 : (1 + i) - 1 = i
    BY <1>1
  <2>4. Len(front) = Len(bytes) - 1
    <3>1. CASE 1 <= Len(bytes) - 1
      BY <2>2, <2>3, <3>1
    <3>2. CASE ~(1 <= Len(bytes) - 1)
      <4>1. Len(front) = 0
        BY <2>2, <3>2
      <4>2. Len(bytes) - 1 = 0
        <5>1. PICK n \in Nat : n = Len(bytes)
          BY <1>1
        <5>2. n > 0 /\ ~(1 <= n - 1)
          BY <3>2, <5>1
        <5>3. n - 1 = 0
          BY <5>2
        <5>4. QED
          BY <5>1, <5>3
      <4>3. QED
        BY <4>1, <4>2
    <3>3. QED
      BY <3>1, <3>2
  <2>5. QED
    BY <2>2, <2>3, <2>4
<1>7. Leading(front) = z
  <2>1. PICK k : k = Leading(front)
    OBVIOUS
  <2>2. k \in 0..Len(front) /\ (\A i \in 1..k : front[i] = 0) /\ (k < Len(front) => front[k + 1] # 0)
    BY <1>6, <2>1, LeadingIs
  <2>3. ~(k < z)
    <3>1. SUFFICES ASSUME k < z PROVE FALSE
      OBVIOUS
    <3>2. k < Len(front) /\ k + 1 \in 1..z /\ k + 1 \in 1..Len(bytes) - 1
      BY <1>1, <1>3, <1>4, <1>6, <2>2, <3>1
    <3>3. QED
      BY <1>3, <1>6, <2>2, <3>2
  <2>4. ~(k > z)
    <3>1. SUFFICES ASSUME k > z PROVE FALSE
      OBVIOUS
    <3>2. z + 1 \in 1..k /\ z + 1 \in 1..Len(bytes) - 1 /\ z < Len(bytes)
      BY <1>1, <1>3, <1>6, <2>2, <3>1
    <3>3. QED
      BY <1>3, <1>6, <2>2, <3>2
  <2>5. QED
    BY <1>1, <1>3, <1>6, <2>1, <2>2, <2>3, <2>4
<1>8. PICK c : c = Converted(bytes, Bits, Digits, <<0>>)
  OBVIOUS
<1>9. Reached(c, <<0>>, Num(bytes, Bits), Digits)
  BY <1>1, <1>8, ConvertedIs DEF Sizes
<1>10. Numeral(Reverse(c), Digits) /\ Plain(Reverse(c)) /\ Num(Reverse(c), Digits) = Num(bytes, Bits)
  BY <1>4, <1>9, ReachedReversed DEF Sizes
<1>11. Base58Encode(bytes) = Zeros(z) \o Reverse(c)
  BY <1>5, <1>7, <1>8 DEF Base58Encode
<1>12. QED
  BY <1>2, <1>8, <1>10, <1>11 DEF EncodedAs

\* Base58Encode of any bytes.
LEMMA EncodeIs ==
    ASSUME Sizes, NEW bytes, Numeral(bytes, Bits), Len(bytes) > 0
    PROVE  \E p : EncodedAs(p, bytes)
BY EncodedZeros, EncodedOthers

\* A decoded string: as many zeros as the string begins with, and its number.
DecodedAs(p, string) ==
    /\ Numeral(p, Bits) /\ Plain(p) /\ Num(p, Bits) = Num(string, Digits)
    /\ Base58Decode(string) = Zeros(Leading(string)) \o p

LEMMA DecodeIs ==
    ASSUME Sizes, NEW string, Numeral(string, Digits)
    PROVE  \E p : DecodedAs(p, string)
<1>1. Len(string) \in Nat /\ List(string) /\ Bits + Digits \in Nat /\ Digits <= Bits + Digits
  BY ListIs DEF Numeral, Sizes
<1>2. PICK r : r = SubSeq(string, Leading(string) + 1, Len(string))
  OBVIOUS
<1>3. Numeral(r, Digits) /\ Plain(r) /\ Num(r, Digits) = Num(string, Digits)
  BY <1>2, SplitZeros DEF Sizes
<1>4. Num(r, Digits) \in Nat
  BY <1>3, NothingIsZero DEF Sizes
<1>5. PICK c : c = Converted(r, Digits, Bits, <<>>)
  OBVIOUS
<1>6. Reached(c, <<>>, Num(r, Digits), Bits)
  BY <1>1, <1>3, <1>5, ConvertedIs DEF Sizes
<1>7. Numeral(Reverse(c), Bits) /\ Plain(Reverse(c)) /\ Num(Reverse(c), Bits) = Num(r, Digits)
  BY <1>4, <1>6, ReachedReversed DEF Sizes
<1>8. Base58Decode(string) = Zeros(Leading(string)) \o Reverse(c)
  BY <1>2, <1>5 DEF Base58Decode
<1>9. DecodedAs(Reverse(c), string)
  BY <1>3, <1>7, <1>8 DEF DecodedAs
<1>10. QED
  BY <1>9

\* Base58 keeps a key, and both encoders write the same.
LEMMA KeyKept ==
    ASSUME Sizes, NEW bytes, Numeral(bytes, Bits), Len(bytes) > 0
    PROVE  /\ Base58Decode(Base58Encode(bytes)) = bytes
           /\ Base58OfNumber(bytes) = Base58Encode(bytes)
<1>1. Len(bytes) \in Nat /\ List(bytes)
  BY ListIs DEF Numeral
<1>2. PICK p : EncodedAs(p, bytes)
  BY EncodeIs
<1>3. PICK z : z = Leading(bytes)
  OBVIOUS
<1>4. z \in Nat
  BY <1>1, <1>3, LeadingIs
<1>5. PICK s : Padded(s, z, p)
  BY DEF Padded
<1>6. Base58Encode(bytes) = s /\ Numeral(p, Digits) /\ Plain(p) /\ Num(p, Digits) = Num(bytes, Bits)
  BY <1>2, <1>3, <1>5 DEF EncodedAs, Padded
<1>7. Numeral(s, Digits) /\ Leading(s) = z /\ Num(s, Digits) = Num(p, Digits)
  <2>1. Digits \in Nat \ {0, 1}
    BY DEF Sizes
  <2>2. QED
    BY <1>4, <1>5, <1>6, <2>1, JoinZeros
<1>8. PICK q : DecodedAs(q, s)
  BY <1>7, DecodeIs
<1>9. PICK r : r = SubSeq(bytes, Leading(bytes) + 1, Len(bytes))
  OBVIOUS
<1>10. Numeral(r, Bits) /\ Plain(r) /\ Num(r, Bits) = Num(bytes, Bits) /\ Padded(bytes, z, r)
  <2>1. Bits \in Nat \ {0, 1}
    BY DEF Sizes
  <2>2. QED
    BY <1>3, <1>9, <2>1, SplitZeros
<1>11. q = r
  <2>1. Numeral(q, Bits) /\ Plain(q) /\ Num(q, Bits) = Num(r, Bits)
    BY <1>6, <1>7, <1>8, <1>10 DEF DecodedAs
  <2>2. QED
    BY <1>10, <2>1, OneNumeral DEF Sizes
<1>12. Base58Decode(Base58Encode(bytes)) = bytes
  BY <1>6, <1>7, <1>8, <1>10, <1>11 DEF DecodedAs, Padded
<1>13. PICK n \in Nat : n = Num(bytes, Bits)
  BY <1>10, NothingIsZero DEF Sizes
<1>14. Base58OfNumber(bytes) = Zeros(z) \o Reverse(CarryDigits(n, Digits, n))
  BY <1>3, <1>13 DEF Base58OfNumber, Num
<1>15. PICK d : d = Reverse(CarryDigits(n, Digits, n))
  OBVIOUS
<1>16. Numeral(d, Digits) /\ Plain(d) /\ Num(d, Digits) = n
  <2>1. Shows(CarryDigits(n, Digits, n), n, Digits)
    BY CarryIs DEF Sizes
  <2>2. QED
    BY <1>15, <2>1, ShowsReversed DEF Sizes
<1>17. d = p
  BY <1>6, <1>13, <1>16, OneNumeral DEF Sizes
<1>18. QED
  BY <1>5, <1>6, <1>12, <1>14, <1>15, <1>17 DEF Padded

\* Each key has one string.
LEMMA StringKept ==
    ASSUME Sizes, NEW string, Numeral(string, Digits), Len(string) > 0
    PROVE  Base58Encode(Base58Decode(string)) = string
<1>1. Len(string) \in Nat /\ List(string)
  BY ListIs DEF Numeral
<1>2. PICK p : DecodedAs(p, string)
  BY DecodeIs
<1>3. PICK z : z = Leading(string)
  OBVIOUS
<1>4. z \in Nat
  BY <1>1, <1>3, LeadingIs
<1>5. PICK s : Padded(s, z, p)
  BY DEF Padded
<1>6. Base58Decode(string) = s /\ Numeral(p, Bits) /\ Plain(p) /\ Num(p, Bits) = Num(string, Digits)
  BY <1>2, <1>3, <1>5 DEF DecodedAs, Padded
<1>7. Numeral(s, Bits) /\ Leading(s) = z /\ Num(s, Bits) = Num(p, Bits) /\ Len(s) = z + Len(p)
  <2>1. Bits \in Nat \ {0, 1}
    BY DEF Sizes
  <2>2. QED
    BY <1>4, <1>5, <1>6, <2>1, JoinZeros
<1>8. PICK r : r = SubSeq(string, Leading(string) + 1, Len(string))
  OBVIOUS
<1>9. Numeral(r, Digits) /\ Plain(r) /\ Num(r, Digits) = Num(string, Digits) /\ Padded(string, z, r)
  <2>1. Digits \in Nat \ {0, 1}
    BY DEF Sizes
  <2>2. QED
    BY <1>3, <1>8, <2>1, SplitZeros
<1>10. Len(s) > 0
  <2>1. Len(p) \in Nat /\ Len(r) \in Nat
    BY <1>6, <1>9, ListIs DEF Numeral
  <2>2. SUFFICES ASSUME z = 0, Len(p) = 0 PROVE FALSE
    BY <1>4, <1>7, <2>1
  <2>3. Num(r, Digits) = 0
    <3>1. Num(p, Bits) = 0
      BY <1>6, <2>2, NothingIsZero DEF Sizes
    <3>2. QED
      BY <1>6, <1>9, <3>1
  <2>4. Len(r) = 0
    BY <1>9, <2>3, NothingIsZero DEF Sizes
  <2>5. Len(string) = z + Len(r)
    <3>1. Digits \in Nat \ {0, 1}
      BY DEF Sizes
    <3>2. QED
      BY <1>4, <1>9, <3>1, JoinZeros
  <2>6. QED
    BY <2>2, <2>4, <2>5
<1>11. PICK q : EncodedAs(q, s)
  BY <1>7, <1>10, EncodeIs
<1>12. q = r
  <2>1. Numeral(q, Digits) /\ Plain(q) /\ Num(q, Digits) = Num(r, Digits)
    BY <1>6, <1>7, <1>9, <1>11 DEF EncodedAs
  <2>2. QED
    BY <1>9, <2>1, OneNumeral DEF Sizes
<1>13. QED
  BY <1>6, <1>7, <1>9, <1>11, <1>12 DEF EncodedAs, Padded

-----------------------------------------------------------------------------
\* The field and the curve

\* Equal modulo p.
Cong(a, b, p) == \E k \in Int : a - b = k * p

\* Equality modulo p is an equivalence.
LEMMA CongIs ==
    ASSUME NEW p \in Nat, NEW a \in Int, NEW b \in Int, NEW c \in Int
    PROVE  /\ Cong(a, a, p) /\ (Cong(a, b, p) => Cong(b, a, p))
           /\ Cong(a, b, p) /\ Cong(b, c, p) => Cong(a, c, p)
<1>1. Cong(a, a, p)
  <2>1. a - a = 0 * p /\ 0 \in Int
    OBVIOUS
  <2>2. QED
    BY <2>1 DEF Cong
<1>2. ASSUME Cong(a, b, p) PROVE Cong(b, a, p)
  <2>1. PICK k \in Int : a - b = k * p
    BY <1>2 DEF Cong
  <2>2. b - a = (0 - k) * p /\ 0 - k \in Int
    BY <2>1
  <2>3. QED
    BY <2>2 DEF Cong
<1>3. ASSUME Cong(a, b, p), Cong(b, c, p) PROVE Cong(a, c, p)
  <2>1. PICK k \in Int : a - b = k * p
    BY <1>3 DEF Cong
  <2>2. PICK l \in Int : b - c = l * p
    BY <1>3 DEF Cong
  <2>3. a - c = (k + l) * p /\ k + l \in Int
    BY <2>1, <2>2
  <2>4. QED
    BY <2>3 DEF Cong
<1>4. QED
  BY <1>1, <1>2, <1>3

\* Sums and products keep it.
LEMMA CongSum ==
    ASSUME NEW p \in Nat, NEW a \in Int, NEW b \in Int, NEW c \in Int, NEW d \in Int,
           Cong(a, b, p), Cong(c, d, p)
    PROVE  Cong(a + c, b + d, p) /\ Cong(a - c, b - d, p)
<1>1. PICK k \in Int : a - b = k * p
  BY DEF Cong
<1>2. PICK l \in Int : c - d = l * p
  BY DEF Cong
<1>3. (a + c) - (b + d) = (k + l) * p /\ (a - c) - (b - d) = (k - l) * p
  BY <1>1, <1>2
<1>4. k + l \in Int /\ k - l \in Int
  OBVIOUS
<1>5. QED
  BY <1>3, <1>4 DEF Cong

LEMMA CongTimes ==
    ASSUME NEW p \in Nat, NEW a \in Int, NEW b \in Int, NEW c \in Int, NEW d \in Int,
           Cong(a, b, p), Cong(c, d, p)
    PROVE  Cong(a * c, b * d, p)
<1>1. PICK k \in Int : a - b = k * p
  BY DEF Cong
<1>2. PICK l \in Int : c - d = l * p
  BY DEF Cong
<1>3. a = b + k * p /\ c = d + l * p
  BY <1>1, <1>2
<1>4. PICK m \in Int : m = k * p
  OBVIOUS
<1>5. PICK n \in Int : n = l * p
  OBVIOUS
<1>6. a * c = (b * d + b * n) + (m * d + m * n)
  <2>1. a = b + m /\ c = d + n
    BY <1>3, <1>4, <1>5
  <2>2. (b + m) * (d + n) = (b * d + b * n) + (m * d + m * n)
    OBVIOUS
  <2>3. QED
    BY <2>1, <2>2
<1>7. b * n = (b * l) * p /\ m * d = (k * d) * p /\ m * n = (k * n) * p
  BY <1>4, <1>5
<1>8. PICK x \in Int, y \in Int, z \in Int, w \in Int : x = b * l /\ y = k * d /\ z = k * n /\ w = b * d
  OBVIOUS
<1>9. a * c - w = (x + (y + z)) * p
  <2>1. (x + (y + z)) * p = x * p + (y * p + z * p)
    OBVIOUS
  <2>2. a * c = (w + x * p) + (y * p + z * p)
    BY <1>6, <1>7, <1>8
  <2>3. PICK X \in Int, Y \in Int, Z \in Int : X = x * p /\ Y = y * p /\ Z = z * p
    OBVIOUS
  <2>4. QED
    BY <2>1, <2>2, <2>3
<1>10. x + (y + z) \in Int
  OBVIOUS
<1>11. QED
  BY <1>8, <1>9, <1>10 DEF Cong

\* Remainders.
LEMMA CongMod ==
    ASSUME NEW p \in Nat \ {0}, NEW a \in Int, NEW b \in Int
    PROVE  /\ a % p \in 0..p - 1 /\ Cong(a % p, a, p)
           /\ Cong(a, b, p) <=> a % p = b % p
<1>1. \A x \in Int : x % p \in 0..p - 1 /\ x \div p \in Int /\ x = (x % p) + p * (x \div p)
  OBVIOUS
<1>2. \A x \in Int : Cong(x % p, x, p)
  <2>1. TAKE x \in Int
  <2>2. PICK q \in Int, r \in 0..p - 1 : q = x \div p /\ r = x % p
    BY <1>1
  <2>3. x = r + p * q
    BY <1>1, <2>2
  <2>4. r - x = (0 - q) * p /\ 0 - q \in Int
    BY <2>3
  <2>5. QED
    BY <2>2, <2>4 DEF Cong
<1>3. ASSUME a % p = b % p PROVE Cong(a, b, p)
  <2>1. PICK r \in Int : r = a % p /\ r = b % p
    BY <1>1, <1>3
  <2>2. Cong(r, a, p) /\ Cong(r, b, p)
    BY <1>2, <2>1
  <2>3. QED
    BY <2>2, CongIs
<1>4. ASSUME Cong(a, b, p) PROVE a % p = b % p
  <2>1. PICK k \in Int : a - b = k * p
    BY <1>4 DEF Cong
  <2>2. PICK q \in Int, r \in 0..p - 1 : q = b \div p /\ r = b % p
    BY <1>1
  <2>3. PICK s \in Int, t \in 0..p - 1 : s = a \div p /\ t = a % p
    BY <1>1
  <2>4. b = r + p * q /\ a = t + p * s
    BY <1>1, <2>2, <2>3
  <2>5. PICK n \in Int : n = (k + q) - s
    OBVIOUS
  <2>6. t - r = n * p
    <3>1. (k + q) * p = k * p + p * q /\ n * p = (k + q) * p - p * s
      BY <2>5
    <3>2. PICK X \in Int, Y \in Int, Z \in Int : X = k * p /\ Y = p * q /\ Z = p * s
      OBVIOUS
    <3>3. a = t + Z /\ b = r + Y /\ a - b = X /\ n * p = (X + Y) - Z
      BY <2>1, <2>4, <3>1, <3>2
    <3>4. QED
      BY <3>3
  <2>7. n = 0
    <3>1. CASE n >= 1
      <4>1. n * p >= p
        <5>1. n * p = p + (n - 1) * p /\ (n - 1) * p >= 0
          BY <3>1
        <5>2. QED
          BY <5>1
      <4>2. QED
        BY <2>6, <4>1
    <3>2. CASE n <= -1
      <4>1. n * p <= 0 - p
        <5>1. n * p = 0 - (p + ((0 - n) - 1) * p) /\ ((0 - n) - 1) * p >= 0
          BY <3>2
        <5>2. QED
          BY <5>1
      <4>2. QED
        BY <2>6, <4>1
    <3>3. QED
      BY <3>1, <3>2
  <2>8. t = r
    BY <2>6, <2>7
  <2>9. QED
    BY <2>2, <2>3, <2>8
<1>5. QED
  BY <1>1, <1>2, <1>3, <1>4

\* The remainder of a number.
LEMMA Rest ==
    ASSUME NEW p \in Nat \ {0}, NEW a \in Int, NEW r, r = a % p
    PROVE  r \in 0..p - 1 /\ r \in Int /\ Cong(r, a, p) /\ Cong(a, r, p)
<1>1. a % p \in 0..p - 1 /\ Cong(a % p, a, p)
  BY CongMod
<1>2. r \in 0..p - 1 /\ Cong(r, a, p)
  BY <1>1
<1>3. r \in Int
  BY <1>2
<1>4. QED
  BY <1>2, <1>3, CongIs

\* The product of the first values of a function.
Product(f, n) ==
    LET upTo[i \in 0..n] == IF i = 0 THEN 1 ELSE upTo[i - 1] * f[i]
    IN  upTo[n]

Factors(f, n) == \A i \in 1..n : f[i] \in Int

\* The products of its beginnings.
Multiplies(g, f, n) ==
    /\ g \in [0..n -> Int] /\ g[0] = 1 /\ \A i \in 1..n : g[i] = g[i - 1] * f[i]

\* The function in Product exists.
LEMMA ProductIs ==
    ASSUME NEW f, NEW n \in Nat, Factors(f, n)
    PROVE  \E g : Multiplies(g, f, n) /\ Product(f, n) = g[n]
<1> DEFINE step == [x \in (1..n) \X Int |-> x[2] * f[x[1]]]
           Is(g) == g = [i \in 0..n |-> IF i = 0 THEN 1 ELSE g[i - 1] * f[i]]
           upTo == CHOOSE g : Is(g)
<1>1. \A i \in 1..n : f[i] \in Int
  BY DEF Factors
<1>2. step \in [(1..n) \X Int -> Int]
  BY <1>1
<1>3. PICK g : Unrolls(g, n, Int, 1, step)
  <2> HIDE DEF step
  <2>1. Steps(n, Int, 1, step)
    BY <1>2 DEF Steps
  <2>2. QED
    BY <2>1, Recursion
<1>4. /\ g \in [0..n -> Int]
      /\ g[0] = 1 /\ \A i \in 1..n : g[i] = step[<<i, g[i - 1]>>]
  BY <1>3 DEF Unrolls
<1>5. ASSUME NEW i \in 1..n PROVE g[i] = g[i - 1] * f[i]
  <2>1. i - 1 \in 0..n
    OBVIOUS
  <2>2. g[i - 1] \in Int
    BY <2>1, <1>4
  <2>3. step[<<i, g[i - 1]>>] = g[i - 1] * f[i]
    BY <2>2
  <2> HIDE DEF step
  <2>4. QED
    BY <1>4, <2>3
<1> HIDE DEF step
<1>6. Is(g)
  <2>1. ASSUME NEW i \in 0..n PROVE g[i] = IF i = 0 THEN 1 ELSE g[i - 1] * f[i]
    <3>1. CASE i = 0
      BY <1>4, <3>1
    <3>2. CASE i # 0
      <4>1. i \in 1..n
        BY <3>2
      <4>2. QED
        BY <4>1, <3>2, <1>5
    <3>3. QED
      BY <3>1, <3>2
  <2>2. g = [i \in 0..n |-> g[i]]
    BY <1>4
  <2>3. QED
    BY <2>1, <2>2
<1>7. Is(upTo)
  <2> HIDE DEF Is
  <2>1. QED
    BY <1>6
<1>8. upTo[0] = 1 /\ \A i \in 1..n : upTo[i] = upTo[i - 1] * f[i]
  <2> HIDE DEF upTo
  <2>1. QED
    BY <1>7
<1>9. upTo \in [0..n -> Int]
  <2> HIDE DEF upTo
  <2> DEFINE T == {i \in 0..n : upTo[i] \in Int}
  <2>1. 0 \in T
    BY <1>8
  <2>2. ASSUME NEW i \in 1..n, i - 1 \in T PROVE i \in T
    <3>1. upTo[i - 1] \in Int /\ i \in 0..n
      BY <2>2
    <3>2. upTo[i - 1] * f[i] \in Int
      BY <1>1, <3>1
    <3>3. QED
      BY <1>8, <3>1, <3>2
  <2>3. \A i \in 0..n : i \in T
    <3> HIDE DEF T
    <3>1. QED
      BY <2>1, <2>2, Upwards
  <2>4. QED
    BY <1>7, <2>3
<1>10. Product(f, n) = upTo[n]
  BY DEF Product
<1> HIDE DEF upTo
<1>11. QED
  BY <1>8, <1>9, <1>10 DEF Multiplies

\* Functions that begin alike have the same products.
LEMMA ProductAlike ==
    ASSUME NEW f, NEW g, NEW n \in Nat, NEW m \in Nat, m <= n, Factors(f, n), Factors(g, m),
           \A i \in 1..m : f[i] = g[i], NEW h, Multiplies(h, f, n)
    PROVE  h[m] = Product(g, m) /\ Product(g, m) \in Int
<1>1. PICK k : Multiplies(k, g, m) /\ Product(g, m) = k[m]
  BY ProductIs
<1>2. h[0] = 1 /\ k[0] = 1 /\ \A i \in 1..m : h[i] = h[i - 1] * f[i] /\ k[i] = k[i - 1] * g[i]
  BY <1>1 DEF Multiplies
<1> DEFINE T == {i \in 0..m : h[i] = k[i]}
<1>3. 0 \in T
  BY <1>2
<1>4. ASSUME NEW i \in 1..m, i - 1 \in T PROVE i \in T
  BY <1>2, <1>4
<1>5. \A i \in 0..m : i \in T
  <2> HIDE DEF T
  <2>1. QED
    BY <1>3, <1>4, Upwards
<1>6. QED
  BY <1>1, <1>5 DEF Multiplies

\* The product of nothing, and of one factor more.
LEMMA ProductNext ==
    ASSUME NEW f, NEW n \in Nat, Factors(f, n + 1), NEW g, Factors(g, n), \A i \in 1..n : f[i] = g[i]
    PROVE  /\ Product(f, 0) = 1 /\ Product(g, n) \in Int /\ Product(f, n + 1) \in Int
           /\ Product(f, n + 1) = Product(g, n) * f[n + 1]
<1>1. PICK h : Multiplies(h, f, n + 1) /\ Product(f, n + 1) = h[n + 1]
  BY ProductIs
<1>2. h[n] = Product(g, n) /\ Product(g, n) \in Int
  BY <1>1, ProductAlike
<1>3. h[0] = Product(f, 0)
  <2>1. 0 \in Nat /\ Factors(f, 0) /\ \A i \in 1..0 : f[i] = f[i]
    BY DEF Factors
  <2>2. QED
    BY <1>1, <2>1, ProductAlike
<1>4. n + 1 \in 1..n + 1 /\ (n + 1) - 1 = n
  OBVIOUS
<1>5. h[0] = 1 /\ h[n + 1] = h[n] * f[n + 1] /\ h[n + 1] \in Int
  BY <1>1, <1>4 DEF Multiplies
<1>6. QED
  BY <1>1, <1>2, <1>3, <1>5

\* Products of functions that agree.
LEMMA ProductSame ==
    ASSUME NEW f, NEW g, NEW n \in Nat, Factors(f, n), \A i \in 1..n : f[i] = g[i]
    PROVE  Product(f, n) = Product(g, n) /\ Factors(g, n)
<1>1. Factors(g, n)
  BY DEF Factors
<1>2. PICK h : Multiplies(h, f, n) /\ Product(f, n) = h[n]
  BY ProductIs
<1>3. QED
  BY <1>1, <1>2, ProductAlike

\* Powers.
Pow(b, n) == Product([i \in 1..n |-> b], n)

LEMMA PowIs ==
    ASSUME NEW b \in Int
    PROVE  /\ Pow(b, 0) = 1 /\ \A n \in Nat : Pow(b, n) \in Int
           /\ \A n \in Nat : Pow(b, n + 1) = Pow(b, n) * b
<1>1. ASSUME NEW n \in Nat
      PROVE  Pow(b, n) \in Int /\ Pow(b, n + 1) = Pow(b, n) * b /\ (n = 0 => Pow(b, n) = 1)
  <2>1. PICK f : f = [i \in 1..n + 1 |-> b]
    OBVIOUS
  <2>2. PICK g : g = [i \in 1..n |-> b]
    OBVIOUS
  <2>3. Factors(f, n + 1) /\ Factors(g, n) /\ f[n + 1] = b /\ \A i \in 1..n : f[i] = g[i]
    BY <2>1, <2>2 DEF Factors
  <2>4. Product(g, n) \in Int /\ Product(f, n + 1) = Product(g, n) * b
    BY <2>3, ProductNext
  <2>5. n = 0 => Product(g, n) = 1
    <3>1. SUFFICES ASSUME n = 0 PROVE Product(g, n) = 1
      OBVIOUS
    <3>2. Factors(g, 0 + 1 - 1) /\ Product(f, 0) = 1
      BY <2>3, <3>1, ProductNext
    <3>3. Factors(f, 0) /\ 0 \in Nat /\ \A i \in 1..0 : f[i] = g[i]
      BY DEF Factors
    <3>4. Product(f, 0) = Product(g, 0)
      BY <3>3, ProductSame
    <3>5. QED
      BY <3>1, <3>2, <3>4
  <2>6. QED
    BY <2>1, <2>2, <2>4, <2>5 DEF Pow
<1>2. QED
  BY <1>1

\* The laws of powers.
LEMMA PowSum ==
    ASSUME NEW b \in Int, NEW m \in Nat, NEW n \in Nat
    PROVE  Pow(b, m + n) = Pow(b, m) * Pow(b, n)
<1> DEFINE T == {i \in 0..n : Pow(b, m + i) = Pow(b, m) * Pow(b, i)}
<1>1. 0 \in T
  <2>1. Pow(b, 0) = 1 /\ Pow(b, m) \in Int /\ m + 0 = m
    BY PowIs
  <2>2. QED
    BY <2>1
<1>2. ASSUME NEW i \in 1..n, i - 1 \in T PROVE i \in T
  <2>1. PICK j \in Nat : j = i - 1
    OBVIOUS
  <2>2. Pow(b, m + j) = Pow(b, m) * Pow(b, j)
    BY <1>2, <2>1
  <2>3. m + j \in Nat /\ (m + j) + 1 = m + i /\ j + 1 = i
    BY <2>1
  <2>4. Pow(b, (m + j) + 1) = Pow(b, m + j) * b /\ Pow(b, j + 1) = Pow(b, j) * b
    BY <2>3, PowIs
  <2>5. PICK x \in Int, y \in Int : x = Pow(b, m) /\ y = Pow(b, j)
    BY PowIs
  <2>6. (x * y) * b = x * (y * b)
    OBVIOUS
  <2>7. Pow(b, m + i) = Pow(b, m) * Pow(b, i)
    BY <2>2, <2>3, <2>4, <2>5, <2>6
  <2>8. QED
    BY <2>7
<1>3. \A i \in 0..n : i \in T
  <2> HIDE DEF T
  <2>1. QED
    BY <1>1, <1>2, Upwards
<1>4. QED
  BY <1>3

LEMMA PowTimes ==
    ASSUME NEW a \in Int, NEW b \in Int, NEW n \in Nat
    PROVE  Pow(a * b, n) = Pow(a, n) * Pow(b, n)
<1>1. PICK c \in Int : c = a * b
  OBVIOUS
<1> DEFINE T == {i \in 0..n : Pow(c, i) = Pow(a, i) * Pow(b, i)}
<1>2. 0 \in T
  <2>1. Pow(a, 0) = 1 /\ Pow(b, 0) = 1 /\ Pow(c, 0) = 1
    BY PowIs
  <2>2. QED
    BY <2>1
<1>3. ASSUME NEW i \in 1..n, i - 1 \in T PROVE i \in T
  <2>1. PICK j \in Nat : j = i - 1
    OBVIOUS
  <2>2. Pow(c, j) = Pow(a, j) * Pow(b, j) /\ j + 1 = i
    BY <1>3, <2>1
  <2>3. Pow(a, j + 1) = Pow(a, j) * a /\ Pow(b, j + 1) = Pow(b, j) * b /\ Pow(c, j + 1) = Pow(c, j) * c
    BY PowIs
  <2>4. PICK x \in Int, y \in Int : x = Pow(a, j) /\ y = Pow(b, j)
    BY PowIs
  <2>5. (x * y) * (a * b) = (x * a) * (y * b)
    OBVIOUS
  <2>6. Pow(c, i) = Pow(a, i) * Pow(b, i)
    BY <1>1, <2>2, <2>3, <2>4, <2>5
  <2>7. QED
    BY <2>6
<1>4. \A i \in 0..n : i \in T
  <2> HIDE DEF T
  <2>1. QED
    BY <1>2, <1>3, Upwards
<1>5. QED
  BY <1>1, <1>4

LEMMA PowCong ==
    ASSUME NEW p \in Nat, NEW a \in Int, NEW b \in Int, NEW n \in Nat, Cong(a, b, p)
    PROVE  Cong(Pow(a, n), Pow(b, n), p)
<1> DEFINE T == {i \in 0..n : Cong(Pow(a, i), Pow(b, i), p)}
<1>1. 0 \in T
  <2>1. Pow(a, 0) = 1 /\ Pow(b, 0) = 1 /\ Cong(1, 1, p)
    BY PowIs, CongIs
  <2>2. QED
    BY <2>1
<1>2. ASSUME NEW i \in 1..n, i - 1 \in T PROVE i \in T
  <2>1. PICK j \in Nat : j = i - 1
    OBVIOUS
  <2>2. Cong(Pow(a, j), Pow(b, j), p) /\ j + 1 = i
    BY <1>2, <2>1
  <2>3. Pow(a, j + 1) = Pow(a, j) * a /\ Pow(b, j + 1) = Pow(b, j) * b
    BY PowIs
  <2>4. Pow(a, j) \in Int /\ Pow(b, j) \in Int
    BY PowIs
  <2>5. Cong(Pow(a, j) * a, Pow(b, j) * b, p)
    BY <2>2, <2>4, CongTimes
  <2>6. QED
    BY <2>2, <2>3, <2>5
<1>3. \A i \in 0..n : i \in T
  <2> HIDE DEF T
  <2>1. QED
    BY <1>1, <1>2, Upwards
<1>4. QED
  BY <1>3

\* One step of square and multiply.
LEMMA SquareStep ==
    ASSUME NEW p \in Nat \ {0, 1}, NEW b \in Nat, NEW e \in Nat \ {0}, NEW h \in Int,
           Cong(h, Pow(b, e \div 2), p)
    PROVE  (h * h * (IF e % 2 = 1 THEN b % p ELSE 1)) % p = Pow(b, e) % p
<1>1. PICK q \in Nat, r \in 0..1 : q = e \div 2 /\ r = e % 2 /\ e = (q + q) + r
  <2>1. e \div 2 \in Nat /\ e % 2 \in 0..1 /\ e = (e % 2) + 2 * (e \div 2)
    OBVIOUS
  <2>2. QED
    BY <2>1
<1>2. PICK x \in Int : x = Pow(b, q)
  BY PowIs
<1>3. Pow(b, q + q) = x * x
  BY <1>2, PowSum
<1>4. Cong(h * h, x * x, p) /\ h * h \in Int /\ x * x \in Int
  <2>1. Cong(h, x, p)
    BY <1>1, <1>2
  <2>2. Cong(h * h, x * x, p)
    BY <2>1, CongTimes
  <2>3. QED
    BY <2>2
<1>5. PICK u \in Int, v \in Int : u = h * h /\ v = x * x
  OBVIOUS
<1>6. CASE r = 1
  <2>1. Pow(b, e) = v * b
    <3>1. Pow(b, (q + q) + 1) = Pow(b, q + q) * b
      BY PowIs
    <3>2. QED
      BY <1>1, <1>3, <1>5, <1>6, <3>1
  <2>2. PICK c : c = b % p
    OBVIOUS
  <2>3. p \in Nat \ {0} /\ b \in Int
    OBVIOUS
  <2>4. c \in Int /\ Cong(c, b, p)
    BY <2>2, <2>3, Rest
  <2>5. Cong(u * c, v * b, p)
    BY <1>4, <1>5, <2>4, CongTimes
  <2>6. u * c \in Int /\ v * b \in Int
    BY <2>4
  <2>7. (u * c) % p = (v * b) % p
    BY <2>5, <2>6, CongMod
  <2>8. QED
    BY <1>1, <1>5, <1>6, <2>1, <2>2, <2>7
<1>7. CASE r # 1
  <2>1. Pow(b, e) = v
    BY <1>1, <1>3, <1>5, <1>7
  <2>2. u % p = v % p
    BY <1>4, <1>5, CongMod
  <2>3. u * 1 = u
    OBVIOUS
  <2>4. QED
    BY <1>1, <1>5, <1>7, <2>1, <2>2, <2>3
<1>8. QED
  BY <1>6, <1>7

\* modPow is the power.
LEMMA ModPowIs ==
    ASSUME NEW p \in Nat \ {0, 1}, NEW b \in Nat, NEW exponent \in Nat
    PROVE  ModPow(b, exponent, p) = Pow(b, exponent) % p
<1> DEFINE Is(f) == f = [e \in 0..exponent |->
                            IF e = 0 THEN 1
                            ELSE LET half == f[e \div 2]
                                 IN  (half * half * (IF e % 2 = 1 THEN b % p ELSE 1)) % p]
           power == CHOOSE f : Is(f)
           g == [e \in 0..exponent |-> Pow(b, e) % p]
<1>1. \A e \in Nat : Pow(b, e) \in Int
  BY PowIs
<1>2. \A e \in Nat : Pow(b, e) % p \in Int /\ Cong(Pow(b, e) % p, Pow(b, e), p)
  <2>1. TAKE e \in Nat
  <2>2. PICK x \in Int : x = Pow(b, e)
    BY <1>1
  <2>3. PICK r : r = x % p
    OBVIOUS
  <2>4. p \in Nat \ {0}
    OBVIOUS
  <2>5. r \in Int /\ Cong(r, x, p)
    BY <2>3, <2>4, Rest
  <2>6. QED
    BY <2>2, <2>3, <2>5
<1>3. Pow(b, 0) % p = 1
  <2>1. 1 % p = 1
    OBVIOUS
  <2>2. Pow(b, 0) = 1
    BY PowIs
  <2>3. QED
    BY <2>1, <2>2
<1>4. \A e \in 1..exponent : e \in Nat \ {0} /\ e \div 2 \in 0..e - 1
  OBVIOUS
<1>5. Is(g)
  <2>1. ASSUME NEW e \in 0..exponent
        PROVE  g[e] = IF e = 0 THEN 1
                      ELSE (g[e \div 2] * g[e \div 2] * (IF e % 2 = 1 THEN b % p ELSE 1)) % p
    <3>1. CASE e = 0
      BY <1>3, <3>1
    <3>2. CASE e # 0
      <4>1. e \in 1..exponent
        BY <3>2
      <4>2. e \in Nat \ {0} /\ e \div 2 \in 0..e - 1
        BY <1>4, <4>1
      <4>3. PICK q \in 0..exponent : q = e \div 2
        BY <4>2
      <4>4. PICK h \in Int : h = Pow(b, q) % p /\ Cong(h, Pow(b, q), p)
        BY <1>2, <4>3
      <4>5. (h * h * (IF e % 2 = 1 THEN b % p ELSE 1)) % p = Pow(b, e) % p
        BY <4>2, <4>3, <4>4, SquareStep, ZenonT(30)
      <4>6. g[e \div 2] = h /\ g[e] = Pow(b, e) % p
        BY <4>3, <4>4
      <4> HIDE DEF g
      <4>7. QED
        BY <3>2, <4>5, <4>6
    <3>3. QED
      BY <3>1, <3>2
  <2>2. g = [e \in 0..exponent |-> g[e]]
    OBVIOUS
  <2> HIDE DEF g
  <2>3. QED
    BY <2>1, <2>2
<1>6. Is(power)
  <2> HIDE DEF Is, g
  <2>1. QED
    BY <1>5
<1>7. ModPow(b, exponent, p) = power[exponent]
  BY DEF ModPow
<1> HIDE DEF power, g
<1>8. power[0] = 1 /\ \A e \in 1..exponent : power[e] =
            (power[e \div 2] * power[e \div 2] * (IF e % 2 = 1 THEN b % p ELSE 1)) % p
  <2>1. 0 \in 0..exponent /\ \A e \in 1..exponent : e \in 0..exponent /\ e # 0
    OBVIOUS
  <2>2. \A e \in 0..exponent : power[e] = IF e = 0 THEN 1
            ELSE (power[e \div 2] * power[e \div 2] * (IF e % 2 = 1 THEN b % p ELSE 1)) % p
    BY <1>6
  <2>3. QED
    BY <2>1, <2>2
<1> HIDE DEF Is
<1> DEFINE S == {e \in 0..exponent : \A k \in 0..e : power[k] = Pow(b, k) % p}
<1>9. 0 \in S
  BY <1>3, <1>8
<1>10. ASSUME NEW e \in 1..exponent, e - 1 \in S PROVE e \in S
  <2>1. \A k \in 0..e - 1 : power[k] = Pow(b, k) % p
    BY <1>10
  <2>2. PICK q \in 0..e - 1 : q = e \div 2
    BY <1>4
  <2>3. PICK h \in Int : h = Pow(b, q) % p /\ Cong(h, Pow(b, q), p)
    BY <1>2, <2>2
  <2>4. (h * h * (IF e % 2 = 1 THEN b % p ELSE 1)) % p = Pow(b, e) % p
    <3>1. e \in Nat \ {0}
      BY <1>4
    <3>2. QED
      BY <2>2, <2>3, <3>1, SquareStep, ZenonT(30)
  <2>5. power[e \div 2] = h
    BY <2>1, <2>2, <2>3
  <2>6. power[e] = Pow(b, e) % p
    BY <1>8, <2>4, <2>5
  <2>7. QED
    BY <2>1, <2>6
<1>11. \A e \in 0..exponent : e \in S
  <2> HIDE DEF S
  <2>1. QED
    BY <1>9, <1>10, Upwards
<1>12. QED
  BY <1>7, <1>11

\* A prime number.
Prime(p) == p \in Nat \ {0, 1} /\ \A a \in 2..p - 1 : p % a # 0

\* The least multiple of b that p divides is by one or by p.
LEMMA LeastMultiple ==
    ASSUME NEW p, Prime(p), NEW b \in Int
    PROVE  \E m \in {1, p} : Cong(m * b, 0, p) /\ \A n \in 1..m - 1 : ~Cong(n * b, 0, p)
<1>1. p \in Nat \ {0, 1} /\ \A a \in 2..p - 1 : p % a # 0
  BY DEF Prime
<1> DEFINE T == {n \in 1..p : Cong(n * b, 0, p)}
<1>2. Cong(p * b, 0, p)
  <2>1. p * b - 0 = b * p
    BY <1>1
  <2>2. QED
    BY <2>1 DEF Cong
<1>3. PICK m \in T : \A k \in T : m <= k
  <2>1. p \in T /\ T \in SUBSET Nat
    BY <1>1, <1>2
  <2>2. T # {}
    BY <2>1
  <2> HIDE DEF T
  <2>3. QED
    BY <2>1, <2>2, Smallest
<1>4. m \in 1..p /\ Cong(m * b, 0, p)
  BY <1>3
<1>5. \A n \in 1..m - 1 : ~Cong(n * b, 0, p)
  <2>1. TAKE n \in 1..m - 1
  <2>2. n \in 1..p /\ ~(m <= n)
    BY <1>1, <1>4
  <2>3. n \notin T
    BY <1>3, <2>2
  <2>4. QED
    BY <2>2, <2>3
<1> HIDE DEF T
<1>6. m \in {1, p}
  <2>1. SUFFICES ASSUME m # 1, m # p PROVE FALSE
    OBVIOUS
  <2>2. m \in 2..p - 1 /\ p \in Nat /\ m \in Nat \ {0}
    BY <1>1, <1>4, <2>1
  <2>3. PICK q \in Nat, r \in 0..m - 1 : r = p % m /\ p = r + m * q
    <3>1. p \div m \in Nat /\ p % m \in 0..m - 1 /\ p = (p % m) + m * (p \div m)
      BY <2>2, DivMod
    <3>2. QED
      BY <3>1
  <2>4. r # 0
    BY <1>1, <2>2, <2>3
  <2>5. Cong(r * b, 0, p)
    <3>1. Cong(q * (m * b), q * 0, p)
      <4>1. Cong(q, q, p) /\ m * b \in Int /\ q \in Int /\ 0 \in Int
        BY <2>2, CongIs
      <4>2. PICK x \in Int : x = m * b
        BY <4>1
      <4>3. Cong(x, 0, p)
        BY <1>4, <4>2
      <4>4. Cong(q * x, q * 0, p)
        BY <2>2, <4>1, <4>3, CongTimes
      <4>5. QED
        BY <4>2, <4>4
    <3>2. PICK y \in Int : y = q * (m * b)
      BY <2>2
    <3>3. PICK z \in Int : z = p * b
      BY <2>2
    <3>4. r * b = z - y
      <4>1. (r + m * q) * b = r * b + q * (m * b)
        BY <2>2
      <4>2. PICK w \in Int : w = r * b
        OBVIOUS
      <4>3. z = w + y
        BY <2>3, <3>2, <3>3, <4>1, <4>2
      <4>4. QED
        BY <4>2, <4>3
    <3>5. Cong(y, 0, p)
      BY <3>1, <3>2
    <3>6. Cong(z, 0, p)
      BY <1>2, <3>3
    <3>7. Cong(z - y, 0 - 0, p)
      BY <2>2, <3>5, <3>6, CongSum
    <3>8. QED
      BY <3>4, <3>7
  <2>6. r \in 1..m - 1
    BY <2>2, <2>4
  <2>7. QED
    BY <1>5, <2>5, <2>6
<1>7. QED
  BY <1>4, <1>5, <1>6

\* A prime that divides a product divides a factor.
LEMMA Euclid ==
    ASSUME NEW p, Prime(p), NEW a \in Int, NEW b \in Int, Cong(a * b, 0, p), ~Cong(a, 0, p)
    PROVE  Cong(b, 0, p)
<1>1. p \in Nat /\ p \in Nat \ {0}
  BY DEF Prime
<1>2. PICK m \in {1, p} : Cong(m * b, 0, p) /\ \A n \in 1..m - 1 : ~Cong(n * b, 0, p)
  BY LeastMultiple
<1>3. m # p
  <2>1. SUFFICES ASSUME m = p PROVE FALSE
    OBVIOUS
  <2>2. PICK r : r = a % p
    OBVIOUS
  <2>3. r \in 0..p - 1 /\ r \in Int /\ Cong(r, a, p) /\ Cong(a, r, p)
    BY <1>1, <2>2, Rest
  <2>4. r # 0
    BY <2>3
  <2>5. Cong(b, b, p)
    BY <1>1, CongIs
  <2>6. Cong(r * b, a * b, p)
    BY <1>1, <2>3, <2>5, CongTimes
  <2>7. r * b \in Int /\ a * b \in Int /\ 0 \in Int
    BY <2>3
  <2>8. Cong(r * b, 0, p)
    BY <1>1, <2>6, <2>7, CongIs
  <2>9. r \in 1..m - 1
    BY <1>1, <2>1, <2>3, <2>4
  <2>10. QED
    BY <1>2, <2>8, <2>9
<1>4. m = 1 /\ 1 * b = b
  BY <1>2, <1>3
<1>5. QED
  BY <1>2, <1>4

\* What is not a multiple of a prime can be cancelled.
LEMMA Cancel ==
    ASSUME NEW p, Prime(p), NEW a \in Int, NEW b \in Int, NEW c \in Int,
           Cong(a * b, a * c, p), ~Cong(a, 0, p)
    PROVE  Cong(b, c, p)
<1>1. p \in Nat
  BY DEF Prime
<1>2. PICK k \in Int : a * b - a * c = k * p
  BY DEF Cong
<1>3. a * (b - c) = a * b - a * c /\ b - c \in Int
  OBVIOUS
<1>4. PICK d \in Int : d = b - c
  OBVIOUS
<1>5. a * d - 0 = k * p
  <2>1. PICK x \in Int : x = a * d
    OBVIOUS
  <2>2. x = k * p
    BY <1>2, <1>3, <1>4, <2>1
  <2>3. QED
    BY <2>1, <2>2
<1>6. Cong(a * d, 0, p)
  BY <1>5 DEF Cong
<1>7. Cong(d, 0, p)
  BY <1>6, Euclid
<1>8. PICK l \in Int : d - 0 = l * p
  BY <1>7 DEF Cong
<1>9. b - c = l * p
  BY <1>1, <1>4, <1>8
<1>10. QED
  BY <1>9 DEF Cong

\* Products of functions that differ in one place.
LEMMA OneChanged ==
    ASSUME NEW n \in Nat, NEW f, NEW g, Factors(f, n), Factors(g, n), NEW j \in 1..n,
           \A i \in 1..n : i # j => f[i] = g[i]
    PROVE  Product(f, n) * g[j] = Product(g, n) * f[j]
<1>1. PICK h : Multiplies(h, f, n) /\ Product(f, n) = h[n]
  BY ProductIs
<1>2. PICK k : Multiplies(k, g, n) /\ Product(g, n) = k[n]
  BY ProductIs
<1>3. /\ h[0] = 1 /\ k[0] = 1 /\ \A i \in 0..n : h[i] \in Int /\ k[i] \in Int
      /\ \A i \in 1..n : h[i] = h[i - 1] * f[i] /\ k[i] = k[i - 1] * g[i]
  BY <1>1, <1>2 DEF Multiplies
<1>4. PICK x \in Int, y \in Int : x = f[j] /\ y = g[j]
  BY DEF Factors
<1> DEFINE T == {i \in 0..n : (i < j => h[i] = k[i]) /\ (~(i < j) => h[i] * y = k[i] * x)}
<1>5. 0 \in T
  BY <1>3
<1>6. ASSUME NEW i \in 1..n, i - 1 \in T PROVE i \in T
  <2>1. PICK l \in 0..n : l = i - 1
    OBVIOUS
  <2>2. PICK v \in Int, w \in Int : v = h[l] /\ w = k[l]
    BY <1>3
  <2>3. PICK s \in Int, t \in Int : s = f[i] /\ t = g[i]
    BY DEF Factors
  <2>4. h[i] = v * s /\ k[i] = w * t
    BY <1>3, <2>1, <2>2, <2>3
  <2>5. (l < j => v = w) /\ (~(l < j) => v * y = w * x)
    BY <1>6, <2>1, <2>2
  <2>6. CASE i < j
    <3>1. l < j /\ s = t
      BY <2>1, <2>3, <2>6
    <3>2. h[i] = k[i]
      BY <2>4, <2>5, <3>1
    <3>3. QED
      BY <2>6, <3>2
  <2>7. CASE i = j
    <3>1. v = w /\ s = x /\ t = y
      BY <1>4, <2>1, <2>3, <2>5, <2>7
    <3>2. (v * x) * y = (v * y) * x
      OBVIOUS
    <3>3. h[i] * y = k[i] * x /\ ~(i < j)
      BY <2>4, <2>7, <3>1, <3>2
    <3>4. QED
      BY <3>3
  <2>8. CASE i > j
    <3>1. ~(l < j) /\ s = t
      BY <2>1, <2>3, <2>8
    <3>2. v * y = w * x
      BY <2>5, <3>1
    <3>3. (v * s) * y = (v * y) * s /\ (w * s) * x = (w * x) * s
      OBVIOUS
    <3>4. h[i] * y = k[i] * x /\ ~(i < j)
      BY <2>4, <2>8, <3>1, <3>2, <3>3
    <3>5. QED
      BY <3>4
  <2>9. QED
    BY <2>6, <2>7, <2>8
<1>7. \A i \in 0..n : i \in T
  <2> HIDE DEF T
  <2>1. QED
    BY <1>5, <1>6, Upwards
<1>8. h[n] * y = k[n] * x
  BY <1>7
<1>9. QED
  BY <1>1, <1>2, <1>4, <1>8

Factorial(n) == Product([i \in 1..n |-> i], n)

LEMMA FactorialIs ==
    /\ Factorial(0) = 1 /\ \A n \in Nat : Factorial(n) \in Int
    /\ \A n \in Nat : Factorial(n + 1) = Factorial(n) * (n + 1)
<1>1. ASSUME NEW n \in Nat
      PROVE  Factorial(n) \in Int /\ Factorial(n + 1) = Factorial(n) * (n + 1) /\ (n = 0 => Factorial(n) = 1)
  <2>1. PICK f : f = [i \in 1..n + 1 |-> i]
    OBVIOUS
  <2>2. PICK g : g = [i \in 1..n |-> i]
    OBVIOUS
  <2>3. Factors(f, n + 1) /\ Factors(g, n) /\ f[n + 1] = n + 1 /\ \A i \in 1..n : f[i] = g[i]
    BY <2>1, <2>2 DEF Factors
  <2>4. /\ Product(g, n) \in Int /\ Product(f, n + 1) = Product(g, n) * (n + 1)
        /\ Product(f, 0) = 1
    BY <2>3, ProductNext
  <2>5. n = 0 => Product(g, n) = 1
    <3>1. SUFFICES ASSUME n = 0 PROVE Product(g, n) = 1
      OBVIOUS
    <3>2. Factors(f, 0) /\ 0 \in Nat /\ \A i \in 1..0 : f[i] = g[i]
      BY DEF Factors
    <3>3. Product(f, 0) = Product(g, 0)
      BY <3>2, ProductSame
    <3>4. QED
      BY <2>4, <3>1, <3>3
  <2>6. QED
    BY <2>1, <2>2, <2>4, <2>5 DEF Factorial
<1>2. QED
  BY <1>1

\* The first numbers in another order.
Permutes(f, n) ==
    (\A i \in 1..n : f[i] \in 1..n) /\ \A i, j \in 1..n : f[i] = f[j] => i = j

\* One of them is the last.
LEMMA LastIsThere ==
    ASSUME NEW f, NEW n \in Nat, Permutes(f, n + 1)
    PROVE  \E j \in 1..n + 1 : f[j] = n + 1
<1>1. SUFFICES ASSUME \A j \in 1..n + 1 : f[j] # n + 1 PROVE FALSE
  OBVIOUS
<1> DEFINE h == [i \in 1..n + 1 |-> f[i]]
<1>2. h \in [1..n + 1 -> 1..n]
  BY <1>1 DEF Permutes
<1>3. /\ IsFiniteSet(1..n + 1) /\ IsFiniteSet(1..n)
      /\ Cardinality(1..n + 1) = n + 1 /\ Cardinality(1..n) = n
  <2>1. 1 \in Int /\ n \in Int /\ n + 1 \in Int
    OBVIOUS
  <2>2. IsFiniteSet(1..n) /\ Cardinality(1..n) = IF 1 > n THEN 0 ELSE (n - 1) + 1
    BY <2>1, FS_Interval
  <2>3. IsFiniteSet(1..n + 1) /\ Cardinality(1..n + 1) = IF 1 > n + 1 THEN 0 ELSE ((n + 1) - 1) + 1
    BY <2>1, FS_Interval
  <2>4. QED
    BY <2>2, <2>3
<1>4. \E x, y \in 1..n + 1 : x # y /\ h[x] = h[y]
  <2>1. Cardinality(1..n) < Cardinality(1..n + 1)
    BY <1>3
  <2> HIDE DEF h
  <2>2. QED
    BY <1>2, <1>3, <2>1, FS_PigeonHole
<1>5. QED
  BY <1>4 DEF Permutes

\* The product does not depend on the order.
LEMMA Rearranged ==
    ASSUME NEW n \in Nat, NEW f, Permutes(f, n)
    PROVE  Product(f, n) = Factorial(n)
<1> DEFINE T == {m \in 0..n : \A g : Permutes(g, m) => Product(g, m) = Factorial(m)}
<1>1. 0 \in T
  <2>1. ASSUME NEW g PROVE Product(g, 0) = 1
    <3>1. Factors(g, 0) /\ 0 \in Nat
      BY DEF Factors
    <3>2. PICK h : Multiplies(h, g, 0) /\ Product(g, 0) = h[0]
      BY <3>1, ProductIs
    <3>3. QED
      BY <3>2 DEF Multiplies
  <2>2. QED
    BY <2>1, FactorialIs
<1>2. ASSUME NEW m \in 1..n, m - 1 \in T PROVE m \in T
  <2>1. PICK k \in Nat : k = m - 1 /\ m = k + 1
    OBVIOUS
  <2>2. SUFFICES ASSUME NEW g, Permutes(g, k + 1) PROVE Product(g, k + 1) = Factorial(k + 1)
    BY <2>1
  <2>3. PICK j \in 1..k + 1 : g[j] = k + 1
    BY <2>2, LastIsThere
  <2>4. PICK s : s = [i \in 1..k |-> g[i]]
    OBVIOUS
  <2>5. PICK t : t = [i \in 1..k |-> IF i = j THEN g[k + 1] ELSE g[i]]
    OBVIOUS
  <2>6. /\ \A i \in 1..k : s[i] = g[i] /\ t[i] = IF i = j THEN g[k + 1] ELSE g[i]
        /\ \A i \in 1..k + 1 : g[i] \in 1..k + 1
        /\ \A i, l \in 1..k + 1 : g[i] = g[l] => i = l
    BY <2>2, <2>4, <2>5 DEF Permutes
  <2>7. Permutes(t, k)
    <3>1. ASSUME NEW i \in 1..k PROVE t[i] \in 1..k
      <4>1. i \in 1..k + 1 /\ k + 1 \in 1..k + 1 /\ i # k + 1
        OBVIOUS
      <4>2. CASE i = j
        <5>1. g[k + 1] # k + 1
          BY <2>3, <2>6, <4>1, <4>2
        <5>2. g[k + 1] \in 1..k + 1 /\ t[i] = g[k + 1]
          BY <2>6, <4>1, <4>2
        <5>3. QED
          BY <5>1, <5>2
      <4>3. CASE i # j
        <5>1. g[i] # k + 1
          BY <2>3, <2>6, <4>1, <4>3
        <5>2. g[i] \in 1..k + 1 /\ t[i] = g[i]
          BY <2>6, <4>1, <4>3
        <5>3. QED
          BY <5>1, <5>2
      <4>4. QED
        BY <4>2, <4>3
    <3>2. ASSUME NEW i \in 1..k, NEW l \in 1..k, t[i] = t[l] PROVE i = l
      <4>1. i \in 1..k + 1 /\ l \in 1..k + 1 /\ k + 1 \in 1..k + 1 /\ i # k + 1 /\ l # k + 1
        OBVIOUS
      <4>2. t[i] = (IF i = j THEN g[k + 1] ELSE g[i]) /\ t[l] = IF l = j THEN g[k + 1] ELSE g[l]
        BY <2>6
      <4>3. CASE i = j /\ l # j
        BY <2>6, <3>2, <4>1, <4>2, <4>3
      <4>4. CASE i # j /\ l = j
        BY <2>6, <3>2, <4>1, <4>2, <4>4
      <4>5. CASE i # j /\ l # j
        BY <2>6, <3>2, <4>1, <4>2, <4>5
      <4>6. QED
        BY <4>3, <4>4, <4>5
    <3>3. QED
      BY <3>1, <3>2 DEF Permutes
  <2>8. Product(t, k) = Factorial(k)
    BY <1>2, <2>1, <2>7
  <2>9. Factors(g, k + 1) /\ Factors(s, k) /\ Factors(t, k)
    <3>1. Factors(g, k + 1)
      BY <2>6 DEF Factors
    <3>2. \A i \in 1..k : i \in 1..k + 1 /\ k + 1 \in 1..k + 1
      OBVIOUS
    <3>3. \A i \in 1..k + 1 : g[i] \in Int
      BY <3>1 DEF Factors
    <3>4. \A i \in 1..k : s[i] \in Int /\ t[i] \in Int
      BY <2>6, <3>2, <3>3
    <3>5. QED
      BY <3>1, <3>4 DEF Factors
  <2>10. Product(g, k + 1) = Product(s, k) * g[k + 1]
    BY <2>6, <2>9, ProductNext
  <2>11. Factorial(k + 1) = Factorial(k) * (k + 1)
    BY FactorialIs
  <2>12. CASE j = k + 1
    <3>1. \A i \in 1..k : s[i] = t[i]
      BY <2>6, <2>12
    <3>2. Product(s, k) = Product(t, k)
      BY <2>9, <3>1, ProductSame
    <3>3. QED
      BY <2>3, <2>8, <2>10, <2>11, <2>12, <3>2
  <2>13. CASE j # k + 1
    <3>1. j \in 1..k
      BY <2>13
    <3>2. \A i \in 1..k : i # j => s[i] = t[i]
      BY <2>6
    <3>3. Product(s, k) * t[j] = Product(t, k) * s[j]
      BY <2>9, <3>1, <3>2, OneChanged
    <3>4. t[j] = g[k + 1] /\ s[j] = k + 1
      BY <2>3, <2>6, <3>1
    <3>5. QED
      BY <2>8, <2>10, <2>11, <3>3, <3>4
  <2>14. QED
    BY <2>12, <2>13
<1>3. \A m \in 0..n : m \in T
  <2> HIDE DEF T
  <2>1. QED
    BY <1>1, <1>2, Upwards
<1>4. QED
  BY <1>3

\* The remainder of what is below p.
LEMMA SmallRest ==
    ASSUME NEW p \in Nat \ {0}, NEW a \in 0..p - 1, NEW b \in 0..p - 1, Cong(a, b, p)
    PROVE  a = b
<1>1. a % p = a /\ b % p = b
  OBVIOUS
<1>2. a \in Int /\ b \in Int
  OBVIOUS
<1>3. a % p = b % p
  BY <1>2, CongMod
<1>4. QED
  BY <1>1, <1>3

\* No prime divides the factorial of a smaller number.
LEMMA FactorialIsPrimeTo ==
    ASSUME NEW p, Prime(p), NEW n \in 0..p - 1
    PROVE  ~Cong(Factorial(n), 0, p)
<1>1. p \in Nat \ {0, 1} /\ p \in Nat \ {0} /\ p \in Nat /\ n \in Nat
  BY DEF Prime
<1> DEFINE T == {i \in 0..n : ~Cong(Factorial(i), 0, p)}
<1>2. 0 \in T
  <2>1. 1 \in 0..p - 1 /\ 0 \in 0..p - 1
    BY <1>1
  <2>2. ~Cong(1, 0, p)
    BY <1>1, <2>1, SmallRest
  <2>3. QED
    BY <1>1, <2>2, FactorialIs
<1>3. ASSUME NEW i \in 1..n, i - 1 \in T PROVE i \in T
  <2>1. PICK k \in Nat : k = i - 1 /\ i = k + 1
    BY <1>1
  <2>2. Factorial(k + 1) = Factorial(k) * (k + 1)
    BY FactorialIs
  <2>3. PICK x \in Int : x = Factorial(k)
    BY FactorialIs
  <2>4. ~Cong(x, 0, p)
    BY <1>3, <2>1, <2>3
  <2>5. ~Cong(i, 0, p)
    <3>1. i \in 0..p - 1 /\ 0 \in 0..p - 1 /\ i # 0
      BY <1>1
    <3>2. QED
      BY <1>1, <3>1, SmallRest
  <2>6. i \in Int
    BY <1>1
  <2>7. ~Cong(x * i, 0, p)
    BY <2>4, <2>5, <2>6, Euclid
  <2>8. Factorial(i) = x * i
    BY <2>1, <2>2, <2>3
  <2>9. QED
    BY <2>7, <2>8
<1>4. \A i \in 0..n : i \in T
  <2> HIDE DEF T
  <2>1. QED
    BY <1>1, <1>2, <1>3, Upwards
<1>5. QED
  BY <1>1, <1>4

\* The multiples of a number, modulo p, and their product.
LEMMA ScaledProduct ==
    ASSUME NEW p \in Nat \ {0}, NEW a \in Int, NEW n \in Nat, NEW f,
           \A i \in 1..n : f[i] = (a * i) % p
    PROVE  Cong(Product(f, n), Pow(a, n) * Factorial(n), p)
<1>1. ASSUME NEW i \in 1..n PROVE f[i] \in Int /\ Cong(f[i], a * i, p)
  <2>1. PICK x \in Int : x = a * i
    OBVIOUS
  <2>2. PICK r : r = x % p
    OBVIOUS
  <2>3. r \in Int /\ Cong(r, x, p)
    BY <2>2, Rest
  <2>4. QED
    BY <2>1, <2>2, <2>3
<1>2. Factors(f, n)
  BY <1>1 DEF Factors
<1>3. PICK h : Multiplies(h, f, n) /\ Product(f, n) = h[n]
  BY <1>2, ProductIs
<1>4. /\ h[0] = 1 /\ \A i \in 0..n : h[i] \in Int
      /\ \A i \in 1..n : h[i] = h[i - 1] * f[i]
  BY <1>3 DEF Multiplies
<1> DEFINE T == {i \in 0..n : Cong(h[i], Pow(a, i) * Factorial(i), p)}
<1>5. 0 \in T
  <2>1. Pow(a, 0) * Factorial(0) = 1
    BY PowIs, FactorialIs
  <2>2. Cong(1, 1, p)
    BY CongIs
  <2>3. QED
    BY <1>4, <2>1, <2>2
<1>6. ASSUME NEW i \in 1..n, i - 1 \in T PROVE i \in T
  <2>1. PICK k \in Nat : k = i - 1 /\ i = k + 1
    OBVIOUS
  <2>2. PICK x \in Int, y \in Int : x = Pow(a, k) /\ y = Factorial(k)
    BY PowIs, FactorialIs
  <2>3. Pow(a, i) = x * a /\ Factorial(i) = y * i
    BY <2>1, <2>2, PowIs, FactorialIs
  <2>4. PICK u \in Int, v \in Int : u = h[k] /\ v = f[i]
    BY <1>1, <1>4, <2>1
  <2>5. PICK z \in Int, w \in Int : z = x * y /\ w = a * i
    OBVIOUS
  <2>6. Cong(u, z, p) /\ Cong(v, w, p)
    BY <1>1, <1>6, <2>1, <2>2, <2>4, <2>5
  <2>7. Cong(u * v, z * w, p)
    BY <2>6, CongTimes
  <2>8. (x * y) * (a * i) = (x * a) * (y * i)
    OBVIOUS
  <2>9. h[i] = u * v
    BY <1>4, <2>1, <2>4
  <2>10. z * w = Pow(a, i) * Factorial(i)
    BY <2>3, <2>5, <2>8
  <2>11. QED
    BY <2>7, <2>9, <2>10
<1>7. \A i \in 0..n : i \in T
  <2> HIDE DEF T
  <2>1. QED
    BY <1>5, <1>6, Upwards
<1>8. QED
  BY <1>3, <1>7

\* Fermat's little theorem.
LEMMA Fermat ==
    ASSUME NEW p, Prime(p), NEW a \in Int, ~Cong(a, 0, p)
    PROVE  Cong(Pow(a, p - 1), 1, p)
<1>1. p \in Nat \ {0, 1} /\ p \in Nat \ {0} /\ p \in Nat
  BY DEF Prime
<1>2. PICK n \in Nat : n = p - 1
  BY <1>1
<1>3. PICK f : f = [i \in 1..n |-> (a * i) % p]
  OBVIOUS
<1>4. ASSUME NEW i \in 1..n
      PROVE  f[i] \in 0..p - 1 /\ Cong(f[i], a * i, p) /\ Cong(a * i, f[i], p) /\ i \in 0..p - 1
  <2>1. PICK x \in Int : x = a * i
    OBVIOUS
  <2>2. PICK r : r = x % p
    OBVIOUS
  <2>3. r \in 0..p - 1 /\ Cong(r, x, p) /\ Cong(x, r, p)
    BY <1>1, <2>2, Rest
  <2>4. f[i] = r
    BY <1>3, <2>1, <2>2
  <2>5. i \in 0..p - 1
    BY <1>1, <1>2
  <2>6. QED
    BY <2>1, <2>3, <2>4, <2>5
<1>5. ASSUME NEW i \in 1..n PROVE f[i] \in 1..n
  <2>1. SUFFICES ASSUME f[i] = 0 PROVE FALSE
    BY <1>1, <1>2, <1>4
  <2>2. Cong(a * i, 0, p)
    BY <1>4, <2>1
  <2>3. Cong(i, 0, p)
    BY <2>2, Euclid
  <2>4. 0 \in 0..p - 1 /\ i \in 0..p - 1 /\ i # 0
    BY <1>1, <1>4
  <2>5. QED
    BY <1>1, <2>3, <2>4, SmallRest
<1>6. ASSUME NEW i \in 1..n, NEW j \in 1..n, f[i] = f[j] PROVE i = j
  <2>1. PICK r \in Int : r = f[i] /\ r = f[j]
    BY <1>4, <1>6
  <2>2. PICK x \in Int, y \in Int : x = a * i /\ y = a * j
    OBVIOUS
  <2>3. Cong(x, r, p) /\ Cong(r, y, p)
    BY <1>4, <2>1, <2>2
  <2>4. Cong(x, y, p)
    BY <1>1, <2>3, CongIs
  <2>5. Cong(a * i, a * j, p)
    BY <2>2, <2>4
  <2>6. Cong(i, j, p)
    BY <2>5, Cancel
  <2>7. QED
    BY <1>1, <1>4, <2>6, SmallRest
<1>7. Product(f, n) = Factorial(n)
  <2>1. Permutes(f, n)
    BY <1>5, <1>6 DEF Permutes
  <2>2. QED
    BY <2>1, Rearranged
<1>8. Cong(Product(f, n), Pow(a, n) * Factorial(n), p)
  <2>1. \A i \in 1..n : f[i] = (a * i) % p
    BY <1>3
  <2>2. QED
    BY <1>1, <2>1, ScaledProduct
<1>9. PICK x \in Int, y \in Int : x = Pow(a, n) /\ y = Factorial(n)
  BY PowIs, FactorialIs
<1>10. ~Cong(y, 0, p)
  <2>1. n \in 0..p - 1
    BY <1>1, <1>2
  <2>2. QED
    BY <1>9, <2>1, FactorialIsPrimeTo
<1>11. Cong(y * x, y * 1, p)
  <2>1. x * y = y * x /\ y * 1 = y /\ x * y \in Int
    OBVIOUS
  <2>2. Cong(y, x * y, p)
    BY <1>7, <1>8, <1>9
  <2>3. Cong(x * y, y, p)
    BY <1>1, <2>1, <2>2, CongIs
  <2>4. QED
    BY <2>1, <2>3
<1>12. Cong(x, 1, p)
  BY <1>10, <1>11, Cancel
<1>13. QED
  BY <1>2, <1>9, <1>12

\* Odd powers of minus one.
LEMMA OddPower ==
    ASSUME NEW t \in Nat
    PROVE  Pow(-1, 2 * t + 1) = -1
<1> DEFINE T == {i \in 0..t : Pow(-1, 2 * i) = 1}
<1>1. -1 \in Int
  OBVIOUS
<1>2. 0 \in T
  <2>1. 2 * 0 = 0
    OBVIOUS
  <2>2. QED
    BY <1>1, <2>1, PowIs
<1>3. ASSUME NEW i \in 1..t, i - 1 \in T PROVE i \in T
  <2>1. PICK k \in Nat : k = i - 1
    OBVIOUS
  <2>2. PICK m \in Nat : m = 2 * k
    OBVIOUS
  <2>3. Pow(-1, m) = 1 /\ 2 * i = (m + 1) + 1
    BY <1>3, <2>1, <2>2
  <2>4. Pow(-1, m + 1) = Pow(-1, m) * (-1)
    BY <1>1, PowIs
  <2>5. m + 1 \in Nat
    OBVIOUS
  <2>6. Pow(-1, (m + 1) + 1) = Pow(-1, m + 1) * (-1)
    BY <1>1, <2>5, PowIs
  <2>7. Pow(-1, 2 * i) = 1
    BY <2>3, <2>4, <2>6
  <2>8. QED
    BY <2>7
<1>4. \A i \in 0..t : i \in T
  <2> HIDE DEF T
  <2>1. QED
    BY <1>2, <1>3, Upwards
<1>5. PICK m \in Nat : m = 2 * t
  OBVIOUS
<1>6. Pow(-1, m) = 1
  BY <1>4, <1>5
<1>7. Pow(-1, m + 1) = Pow(-1, m) * (-1)
  BY <1>1, PowIs
<1>8. QED
  BY <1>5, <1>6, <1>7

\* A fourth of the way to the power that is one.
LEMMA FourTimes ==
    ASSUME NEW p, Prime(p), NEW t \in Nat, p = 8 * t + 5, NEW s \in Nat, s = 2 * t + 1,
           NEW a \in Int, ~Cong(a, 0, p), NEW e, e = Pow(a, s + s)
    PROVE  e \in Int /\ Cong(e * e, 1, p)
<1>1. e \in Int /\ s + s \in Nat
  BY PowIs
<1>2. Cong(Pow(a, p - 1), 1, p)
  BY Fermat
<1>3. PICK n \in Nat : n = s + s
  BY <1>1
<1>4. n + n = p - 1
  BY <1>3
<1>5. Pow(a, n + n) = Pow(a, n) * Pow(a, n)
  BY PowSum
<1>6. QED
  BY <1>1, <1>2, <1>3, <1>4, <1>5

\* Two to the power of half of p - 1, where minus one is a square and p is 5
\* modulo 8.
LEMMA TwoIsNoSquare ==
    ASSUME NEW p, Prime(p), NEW t \in Nat, p = 8 * t + 5, NEW s \in Nat, s = 2 * t + 1,
           NEW i \in Int, Cong(i * i, -1, p)
    PROVE  Cong(Pow(2, s) * Pow(2, s), -1, p)
<1>1. p \in Nat \ {0} /\ p \in Nat /\ -1 \in Int /\ 1 \in Int /\ 2 \in Int /\ 0 \in Int
  BY DEF Prime
<1>2. PICK w \in Int : w = 1 + i
  OBVIOUS
<1>3. ~Cong(w, 0, p)
  <2>1. SUFFICES ASSUME Cong(w, 0, p) PROVE FALSE
    OBVIOUS
  <2>2. Cong(1, 1, p)
    BY <1>1, CongIs
  <2>3. Cong(w - 1, 0 - 1, p)
    BY <1>1, <2>1, <2>2, CongSum
  <2>4. Cong(i, -1, p)
    <3>1. w - 1 = i /\ 0 - 1 = -1
      BY <1>2
    <3>2. QED
      BY <2>3, <3>1
  <2>5. Cong(i * i, (-1) * (-1), p)
    BY <1>1, <2>4, CongTimes
  <2>6. PICK j \in Int : j = i * i
    OBVIOUS
  <2>7. Cong(j, 1, p) /\ Cong(j, -1, p)
    <3>1. (-1) * (-1) = 1
      OBVIOUS
    <3>2. QED
      BY <2>5, <2>6, <3>1
  <2>8. Cong(j - j, 1 - (-1), p)
    BY <1>1, <2>7, CongSum
  <2>9. Cong(0, 2, p)
    <3>1. j - j = 0 /\ 1 - (-1) = 2
      OBVIOUS
    <3>2. QED
      BY <2>8, <3>1
  <2>10. 0 \in 0..p - 1 /\ 2 \in 0..p - 1
    OBVIOUS
  <2>11. QED
    BY <1>1, <2>9, <2>10, SmallRest
<1>4. PICK n \in Nat : n = s + s
  OBVIOUS
<1>5. PICK e \in Int : e = Pow(w, n)
  BY PowIs
<1>6. Cong(e * e, 1, p)
  BY <1>3, <1>4, <1>5, FourTimes
<1>7. Pow(w * w, n) = e * e
  BY <1>5, PowTimes
<1>8. Cong(w * w, 2 * i, p)
  <2>1. PICK j \in Int : j = i * i
    OBVIOUS
  <2>2. w * w = (j - (-1)) + 2 * i
    <3>1. (1 + i) * (1 + i) = (i * i + 1) + 2 * i
      OBVIOUS
    <3>2. QED
      BY <1>2, <2>1, <3>1
  <2>3. Cong(j, -1, p) /\ Cong(-1, -1, p)
    BY <1>1, <2>1, CongIs
  <2>4. Cong(j - (-1), (-1) - (-1), p)
    BY <1>1, <2>3, CongSum
  <2>5. PICK k \in Int : k = 2 * i
    OBVIOUS
  <2>6. PICK l \in Int : l = j - (-1)
    OBVIOUS
  <2>7. Cong(l, 0, p) /\ Cong(k, k, p)
    <3>1. (-1) - (-1) = 0
      OBVIOUS
    <3>2. Cong(k, k, p)
      BY <1>1, CongIs
    <3>3. QED
      BY <2>4, <2>6, <3>1, <3>2
  <2>8. Cong(l + k, 0 + k, p)
    BY <1>1, <2>7, CongSum
  <2>9. l + k = w * w /\ 0 + k = k
    BY <2>2, <2>5, <2>6
  <2>10. QED
    BY <2>5, <2>8, <2>9
<1>9. Cong(Pow(w * w, n), Pow(2 * i, n), p)
  <2>1. w * w \in Int /\ 2 * i \in Int
    OBVIOUS
  <2>2. QED
    BY <1>1, <1>8, <2>1, PowCong
<1>10. Pow(2 * i, n) = Pow(2, n) * Pow(i, n)
  BY <1>1, PowTimes
<1>11. Cong(Pow(i, n), -1, p)
  <2>1. Pow(i, n) = Pow(i, s) * Pow(i, s) /\ Pow(i * i, s) = Pow(i, s) * Pow(i, s)
    <3>1. Pow(i, s + s) = Pow(i, s) * Pow(i, s)
      BY PowSum
    <3>2. Pow(i * i, s) = Pow(i, s) * Pow(i, s)
      BY PowTimes
    <3>3. QED
      BY <1>4, <3>1, <3>2
  <2>2. Cong(Pow(i * i, s), Pow(-1, s), p)
    <3>1. i * i \in Int
      OBVIOUS
    <3>2. QED
      BY <1>1, <3>1, PowCong
  <2>3. Pow(-1, s) = -1
    BY OddPower
  <2>4. QED
    BY <2>1, <2>2, <2>3
<1>12. PICK x \in Int, y \in Int, z \in Int : x = Pow(2, n) /\ y = Pow(i, n) /\ z = e * e
  <2>1. Pow(2, n) \in Int /\ Pow(i, n) \in Int
    BY <1>1, PowIs
  <2>2. e * e \in Int
    OBVIOUS
  <2>3. QED
    BY <2>1, <2>2
<1>13. Cong(x * y, 1, p)
  <2>1. Cong(z, x * y, p) /\ x * y \in Int
    BY <1>7, <1>9, <1>10, <1>12
  <2>2. PICK u \in Int : u = x * y
    BY <2>1
  <2>3. Cong(u, z, p) /\ Cong(z, 1, p)
    BY <1>1, <1>6, <1>12, <2>1, <2>2, CongIs
  <2>4. Cong(u, 1, p)
    BY <1>1, <2>3, CongIs
  <2>5. QED
    BY <2>2, <2>4
<1>14. Cong(x * y, x * (-1), p)
  <2>1. Cong(x, x, p) /\ Cong(y, -1, p)
    BY <1>1, <1>11, <1>12, CongIs
  <2>2. QED
    BY <1>1, <2>1, CongTimes
<1>15. Cong(x, -1, p)
  <2>1. PICK u \in Int, v \in Int : u = x * y /\ v = x * (-1)
    OBVIOUS
  <2>2. Cong(u, 1, p) /\ Cong(v, u, p)
    BY <1>1, <1>13, <1>14, <2>1, CongIs
  <2>3. Cong(v, 1, p)
    BY <1>1, <2>2, CongIs
  <2>4. Cong(-1, -1, p)
    BY <1>1, CongIs
  <2>5. Cong(v * (-1), 1 * (-1), p)
    BY <1>1, <2>3, <2>4, CongTimes
  <2>6. v * (-1) = x /\ 1 * (-1) = -1
    BY <2>1
  <2>7. QED
    BY <2>5, <2>6
<1>16. Pow(2, n) = Pow(2, s) * Pow(2, s)
  BY <1>1, <1>4, PowSum
<1>17. QED
  BY <1>12, <1>15, <1>16

\* One of the two candidates is a root of every square.
LEMMA RootFound ==
    ASSUME NEW p, Prime(p), NEW t \in Nat, p = 8 * t + 5, NEW s \in Nat, s = 2 * t + 1,
           NEW x \in Int, NEW r \in Int, Cong(x * x, r, p),
           NEW first \in Int, Cong(first, Pow(r, t + 1), p),
           NEW two \in Int, Cong(two, Pow(2, s), p)
    PROVE  Cong(first * first, r, p) \/ Cong((first * two) * (first * two), r, p)
<1>1. p \in Nat \ {0} /\ p \in Nat /\ -1 \in Int /\ 1 \in Int /\ 2 \in Int /\ 0 \in Int
  BY DEF Prime
<1>2. PICK k \in Nat : k = t + 1
  OBVIOUS
<1>3. PICK c \in Int : c = Pow(r, k)
  BY PowIs
<1>4. Cong(first, c, p)
  BY <1>2, <1>3
<1>5. CASE Cong(r, 0, p)
  <2>1. PICK d \in Int : d = Pow(r, t)
    BY PowIs
  <2>2. c = d * r
    BY <1>2, <1>3, <2>1, PowIs
  <2>3. Cong(d, d, p)
    BY <1>1, CongIs
  <2>4. Cong(d * r, d * 0, p)
    BY <1>1, <1>5, <2>3, CongTimes
  <2>5. Cong(c, 0, p)
    <3>1. d * 0 = 0
      OBVIOUS
    <3>2. QED
      BY <2>2, <2>4, <3>1
  <2>6. Cong(first, 0, p)
    BY <1>1, <1>4, <2>5, CongIs
  <2>7. Cong(first * first, 0 * 0, p)
    BY <1>1, <2>6, CongTimes
  <2>8. PICK f \in Int : f = first * first
    OBVIOUS
  <2>9. Cong(f, 0, p) /\ Cong(0, r, p)
    <3>1. 0 * 0 = 0
      OBVIOUS
    <3>2. Cong(0, r, p)
      BY <1>1, <1>5, CongIs
    <3>3. QED
      BY <2>7, <2>8, <3>1, <3>2
  <2>10. Cong(f, r, p)
    BY <1>1, <2>9, CongIs
  <2>11. QED
    BY <2>8, <2>10
<1>6. CASE ~Cong(r, 0, p)
  <2>1. PICK q \in Int : q = x * x
    OBVIOUS
  <2>2. Cong(q, r, p) /\ Cong(r, q, p)
    BY <1>1, <2>1, CongIs
  <2>3. ~Cong(x, 0, p)
    <3>1. SUFFICES ASSUME Cong(x, 0, p) PROVE FALSE
      OBVIOUS
    <3>2. Cong(x * x, 0 * 0, p)
      BY <1>1, <3>1, CongTimes
    <3>3. 0 * 0 = 0
      OBVIOUS
    <3>4. Cong(q, 0, p)
      BY <2>1, <3>2, <3>3
    <3>5. Cong(r, 0, p)
      BY <1>1, <2>2, <3>4, CongIs
    <3>6. QED
      BY <1>6, <3>5
  <2>4. PICK n \in Nat : n = k + k
    OBVIOUS
  <2>5. PICK g \in Int : g = Pow(x, n)
    BY PowIs
  <2>6. Cong(first, g, p)
    <3>1. Cong(c, Pow(q, k), p)
      BY <1>1, <1>3, <2>2, PowCong
    <3>2. Pow(q, k) = g
      <4>1. Pow(x * x, k) = Pow(x, k) * Pow(x, k)
        BY PowTimes
      <4>2. Pow(x, k + k) = Pow(x, k) * Pow(x, k)
        BY PowSum
      <4>3. QED
        BY <2>1, <2>4, <2>5, <4>1, <4>2
    <3>3. QED
      BY <1>1, <1>4, <3>1, <3>2, CongIs
  <2>7. PICK m \in Nat : m = s + s
    OBVIOUS
  <2>8. PICK e \in Int : e = Pow(x, m)
    BY PowIs
  <2>9. Cong(e * e, 1, p)
    BY <2>3, <2>7, <2>8, FourTimes
  <2>10. g * g = q * e
    <3>1. Pow(x, n + n) = g * g
      BY <2>5, PowSum
    <3>2. n + n = (0 + 1 + 1) + m /\ 0 + 1 + 1 \in Nat
      BY <1>2, <2>4, <2>7
    <3>3. Pow(x, 0 + 1 + 1) = q
      <4>1. 0 \in Nat /\ 0 + 1 \in Nat
        OBVIOUS
      <4>2. Pow(x, 0) = 1 /\ Pow(x, 0 + 1) = Pow(x, 0) * x /\ Pow(x, 0 + 1 + 1) = Pow(x, 0 + 1) * x
        BY <4>1, PowIs
      <4>3. 1 * x = x
        OBVIOUS
      <4>4. QED
        BY <2>1, <4>2, <4>3
    <3>4. PICK l \in Nat : l = 0 + 1 + 1
      OBVIOUS
    <3>5. Pow(x, l + m) = Pow(x, l) * Pow(x, m)
      BY PowSum
    <3>6. QED
      BY <2>8, <3>1, <3>2, <3>3, <3>4, <3>5
  <2>11. Cong(first * first, q * e, p)
    BY <1>1, <2>6, <2>10, CongTimes
  <2>12. PICK f \in Int : f = first * first
    OBVIOUS
  <2>13. ASSUME NEW b \in Int, Cong(e, b, p) PROVE Cong(f, r * b, p)
    <3>1. Cong(q * e, r * b, p)
      BY <1>1, <2>2, <2>13, CongTimes
    <3>2. PICK u \in Int, v \in Int : u = q * e /\ v = r * b
      OBVIOUS
    <3>3. Cong(f, u, p) /\ Cong(u, v, p)
      BY <2>11, <2>12, <3>1, <3>2
    <3>4. Cong(f, v, p)
      BY <1>1, <3>3, CongIs
    <3>5. QED
      BY <3>2, <3>4
  <2>14. Cong(e, 1, p) \/ Cong(e, -1, p)
    <3>1. (e - 1) * (e + 1) = e * e - 1
      OBVIOUS
    <3>2. PICK u \in Int, v \in Int, z \in Int : u = e - 1 /\ v = e + 1 /\ z = e * e
      OBVIOUS
    <3>3. Cong(z - 1, 1 - 1, p)
      <4>1. Cong(z, 1, p) /\ Cong(1, 1, p)
        BY <1>1, <2>9, <3>2, CongIs
      <4>2. QED
        BY <1>1, <4>1, CongSum
    <3>4. Cong(u * v, 0, p)
      BY <3>1, <3>2, <3>3
    <3>5. Cong(u, 0, p) \/ Cong(v, 0, p)
      BY <3>4, Euclid
    <3>6. Cong(1, 1, p)
      BY <1>1, CongIs
    <3>7. CASE Cong(u, 0, p)
      <4>1. Cong(u + 1, 0 + 1, p)
        BY <1>1, <3>6, <3>7, CongSum
      <4>2. u + 1 = e /\ 0 + 1 = 1
        BY <3>2
      <4>3. QED
        BY <4>1, <4>2
    <3>8. CASE Cong(v, 0, p)
      <4>1. Cong(v - 1, 0 - 1, p)
        BY <1>1, <3>6, <3>8, CongSum
      <4>2. v - 1 = e /\ 0 - 1 = -1
        BY <3>2
      <4>3. QED
        BY <4>1, <4>2
    <3>9. QED
      BY <3>5, <3>7, <3>8
  <2>15. CASE Cong(e, 1, p)
    <3>1. Cong(f, r * 1, p) /\ r * 1 = r
      BY <1>1, <2>13, <2>15
    <3>2. QED
      BY <2>12, <3>1
  <2>16. CASE Cong(e, -1, p)
    <3>1. Cong(f, r * (-1), p)
      BY <1>1, <2>13, <2>16
    <3>2. PICK i \in Int : i = Pow(x, s)
      BY PowIs
    <3>3. Cong(i * i, -1, p)
      <4>1. e = i * i
        BY <2>7, <2>8, <3>2, PowSum
      <4>2. QED
        BY <2>16, <4>1
    <3>4. Cong(Pow(2, s) * Pow(2, s), -1, p)
      BY <3>3, TwoIsNoSquare
    <3>5. PICK w \in Int : w = Pow(2, s)
      BY <1>1, PowIs
    <3>6. Cong(two * two, w * w, p)
      BY <1>1, <3>5, CongTimes
    <3>7. PICK u \in Int, v \in Int, z \in Int : u = two * two /\ v = w * w /\ z = r * (-1)
      OBVIOUS
    <3>8. Cong(u, v, p) /\ Cong(v, -1, p)
      BY <3>4, <3>5, <3>6, <3>7
    <3>9. Cong(u, -1, p)
      BY <1>1, <3>8, CongIs
    <3>10. Cong(f * u, z * (-1), p)
      BY <1>1, <3>1, <3>7, <3>9, CongTimes
    <3>11. (first * two) * (first * two) = f * u
      <4>1. (first * two) * (first * two) = (first * first) * (two * two)
        OBVIOUS
      <4>2. QED
        BY <2>12, <3>7, <4>1
    <3>12. z * (-1) = r
      BY <3>7
    <3>13. QED
      BY <3>10, <3>11, <3>12
  <2>17. QED
    BY <2>14, <2>15, <2>16
<1>7. QED
  BY <1>5, <1>6

\* Equal modulo p: the difference is a multiple.
LEMMA CongZero ==
    ASSUME NEW p \in Nat, NEW a \in Int, NEW b \in Int
    PROVE  Cong(a, b, p) <=> Cong(b - a, 0, p)
<1>1. ASSUME Cong(a, b, p) PROVE Cong(b - a, 0, p)
  <2>1. PICK k \in Int : a - b = k * p
    BY <1>1 DEF Cong
  <2>2. (b - a) - 0 = (0 - k) * p /\ 0 - k \in Int
    BY <2>1
  <2>3. QED
    BY <2>2 DEF Cong
<1>2. ASSUME Cong(b - a, 0, p) PROVE Cong(a, b, p)
  <2>1. PICK k \in Int : (b - a) - 0 = k * p
    BY <1>2 DEF Cong
  <2>2. a - b = (0 - k) * p /\ 0 - k \in Int
    BY <2>1
  <2>3. QED
    BY <2>2 DEF Cong
<1>3. QED
  BY <1>1, <1>2

\* The equation of the curve for one x.
LEMMA OnePoint ==
    ASSUME NEW p \in Nat \ {0}, NEW y \in Int, NEW x \in Int, NEW d \in Int, NEW u, NEW v,
           u = (y * y - 1) % p, v = (d * ((y * y) % p) + 1) % p
    PROVE  /\ u \in 0..p - 1 /\ v \in 0..p - 1
           /\ (y * y - x * x) % p = (1 + d * ((x * x) % p) * ((y * y) % p)) % p
                <=> Cong((x * x) * v, u, p)
<1>1. p \in Nat
  OBVIOUS
<1>2. PICK X \in Int, Y \in Int : X = x * x /\ Y = y * y
  OBVIOUS
<1>3. PICK a : a = X % p
  OBVIOUS
<1>4. PICK b : b = Y % p
  OBVIOUS
<1>5. a \in Int /\ Cong(a, X, p) /\ Cong(X, a, p)
  BY <1>3, Rest
<1>6. b \in Int
  BY <1>4, Rest
<1>7. PICK n \in Int, m \in Int : n = Y - 1 /\ m = d * b + 1
  BY <1>6
<1>8. u = n % p /\ v = m % p
  BY <1>2, <1>4, <1>7
<1>9. u \in 0..p - 1 /\ u \in Int /\ Cong(u, n, p)
  BY <1>8, Rest
<1>10. v \in 0..p - 1 /\ v \in Int /\ Cong(v, m, p)
  BY <1>8, Rest
<1>11. PICK e \in Int, f \in Int : e = Y - X /\ f = 1 + (d * a) * b
  BY <1>5, <1>6
<1>12. e % p = f % p <=> Cong(f - e, 0, p)
  <2>1. Cong(e, f, p) <=> e % p = f % p
    BY CongMod
  <2>2. Cong(e, f, p) <=> Cong(f - e, 0, p)
    BY <1>1, CongZero
  <2>3. QED
    BY <2>1, <2>2
<1>13. PICK w \in Int : w = X * v
  BY <1>10
<1>14. Cong(w - u, f - e, p)
  <2>1. PICK g \in Int : g = a * m
    BY <1>5
  <2>2. Cong(w, g, p)
    BY <1>1, <1>5, <1>10, <1>13, <2>1, CongTimes
  <2>3. PICK h \in Int : h = g + (X - a)
    BY <1>5
  <2>4. Cong(g, h, p)
    <3>1. Cong(X - a, 0, p)
      BY <1>1, <1>5, CongZero
    <3>2. Cong(g, g, p)
      BY <1>1, CongIs
    <3>3. PICK z \in Int : z = X - a
      BY <1>5
    <3>4. Cong(g + z, g + 0, p)
      BY <1>1, <3>1, <3>2, <3>3, CongSum
    <3>5. g + z = h /\ g + 0 = g
      BY <2>3, <3>3
    <3>6. QED
      BY <1>1, <3>4, <3>5, CongIs
  <2>5. Cong(w, h, p)
    BY <1>1, <2>2, <2>4, CongIs
  <2>6. Cong(w - u, h - n, p)
    BY <1>1, <1>9, <2>5, CongSum
  <2>7. h - n = f - e
    <3>1. a * (d * b + 1) = (d * a) * b + a
      BY <1>5, <1>6
    <3>2. PICK z \in Int : z = (d * a) * b
      BY <1>5, <1>6
    <3>3. g = z + a
      BY <1>7, <2>1, <3>1, <3>2
    <3>4. QED
      BY <1>5, <1>7, <1>11, <2>3, <3>2, <3>3
  <2>8. QED
    BY <2>6, <2>7
<1>15. Cong(f - e, 0, p) <=> Cong(w - u, 0, p)
  <2>1. PICK g \in Int, h \in Int : g = w - u /\ h = f - e
    <3>1. u \in Int
      BY <1>9
    <3>2. w - u \in Int /\ f - e \in Int
      BY <3>1
    <3>3. QED
      BY <3>2
  <2>2. Cong(g, h, p) /\ Cong(h, g, p)
    BY <1>1, <1>14, <2>1, CongIs
  <2>3. Cong(h, 0, p) <=> Cong(g, 0, p)
    BY <1>1, <2>2, CongIs
  <2>4. QED
    BY <2>1, <2>3
<1>16. Cong(w - u, 0, p) <=> Cong(w, u, p)
  <2>1. Cong(u, w, p) <=> Cong(w - u, 0, p)
    BY <1>1, <1>9, CongZero
  <2>2. Cong(u, w, p) <=> Cong(w, u, p)
    BY <1>1, <1>9, CongIs
  <2>3. QED
    BY <2>1, <2>2
<1>17. e % p = f % p <=> Cong(w, u, p)
  BY <1>12, <1>15, <1>16
<1>18. QED
  BY <1>2, <1>3, <1>4, <1>9, <1>10, <1>11, <1>13, <1>17

\* Dividing: where v is not a multiple of p, w v is u where w is u v^(p - 2).
LEMMA Divided ==
    ASSUME NEW p, Prime(p), NEW u \in Int, NEW v \in Int, ~Cong(v, 0, p), NEW w \in Int,
           NEW r \in Int, Cong(r, u * Pow(v, p - 2), p)
    PROVE  Cong(w * v, u, p) <=> Cong(w, r, p)
<1>1. p \in Nat /\ p \in Nat \ {0, 1}
  BY DEF Prime
<1>2. PICK n \in Nat : n = p - 2
  BY <1>1
<1>3. PICK q \in Int : q = Pow(v, n)
  BY PowIs
<1>4. Cong(q * v, 1, p)
  <2>1. Pow(v, n + 1) = q * v /\ n + 1 = p - 1
    BY <1>1, <1>2, <1>3, PowIs
  <2>2. Cong(Pow(v, p - 1), 1, p)
    BY Fermat
  <2>3. QED
    BY <2>1, <2>2
<1>5. Cong(r, u * q, p)
  BY <1>2, <1>3
<1>6. PICK s \in Int, t \in Int : s = q * v /\ t = u * q
  OBVIOUS
<1>7. Cong(s, 1, p) /\ Cong(r, t, p) /\ Cong(v, v, p)
  BY <1>1, <1>4, <1>5, <1>6, CongIs
<1>8. Cong(t * v, u, p)
  <2>1. Cong(u, u, p)
    BY <1>1, CongIs
  <2>2. Cong(u * s, u * 1, p)
    BY <1>1, <1>7, <2>1, CongTimes
  <2>3. u * s = t * v /\ u * 1 = u
    <3>1. u * (q * v) = (u * q) * v
      OBVIOUS
    <3>2. QED
      BY <1>6, <3>1
  <2>4. QED
    BY <2>2, <2>3
<1>9. PICK x \in Int, y \in Int, z \in Int : x = r * v /\ y = t * v /\ z = w * v
  OBVIOUS
<1>10. Cong(x, u, p) /\ Cong(u, x, p)
  <2>1. Cong(x, y, p)
    BY <1>1, <1>7, <1>9, CongTimes
  <2>2. Cong(y, u, p)
    BY <1>8, <1>9
  <2>3. Cong(x, u, p)
    BY <1>1, <2>1, <2>2, CongIs
  <2>4. QED
    BY <1>1, <2>3, CongIs
<1>11. ASSUME Cong(w, r, p) PROVE Cong(z, u, p)
  <2>1. Cong(z, x, p)
    BY <1>1, <1>7, <1>9, <1>11, CongTimes
  <2>2. QED
    BY <1>1, <1>10, <2>1, CongIs
<1>12. ASSUME Cong(z, u, p) PROVE Cong(w, r, p)
  <2>1. Cong(z, x, p)
    BY <1>1, <1>10, <1>12, CongIs
  <2>2. Cong(v * w, v * r, p)
    <3>1. z = v * w /\ x = v * r
      BY <1>9
    <3>2. QED
      BY <2>1, <3>1
  <2>3. QED
    BY <2>2, Cancel
<1>13. QED
  BY <1>9, <1>11, <1>12

\* The test of the curve is its equation.
LEMMA PointIs ==
    ASSUME NEW p, Prime(p), p % 8 = 5, NEW d \in Nat, NEW y \in 0..p - 1
    PROVE  IsEd25519Point(y, d, p) = HasPoint(y, d, p)
<1>1. p \in Nat \ {0, 1} /\ p \in Nat \ {0} /\ p \in Nat
  BY DEF Prime
<1>2. PICK t \in Nat : t = p \div 8 /\ p = 8 * t + 5
  <2>1. p \div 8 \in Nat /\ p = (p % 8) + 8 * (p \div 8)
    BY <1>1
  <2>2. QED
    BY <2>1
<1>3. PICK s \in Nat : s = 2 * t + 1
  OBVIOUS
<1>4. (p + 3) \div 8 = t + 1 /\ (p - 1) \div 4 = s /\ p - 2 \in Nat
  BY <1>2, <1>3
<1>5. PICK u, v : u = (y * y - 1) % p /\ v = (d * ((y * y) % p) + 1) % p
  OBVIOUS
<1>6. y \in Int /\ d \in Int /\ 2 \in Nat
  BY <1>1
<1>7. /\ u \in 0..p - 1 /\ v \in 0..p - 1
      /\ \A x \in Int :
            (y * y - x * x) % p = (1 + d * ((x * x) % p) * ((y * y) % p)) % p
                <=> Cong((x * x) * v, u, p)
  <2>1. ASSUME NEW x \in Int
        PROVE  /\ u \in 0..p - 1 /\ v \in 0..p - 1
               /\ (y * y - x * x) % p = (1 + d * ((x * x) % p) * ((y * y) % p)) % p
                    <=> Cong((x * x) * v, u, p)
    BY <1>1, <1>5, <1>6, OnePoint
  <2>2. 0 \in Int
    OBVIOUS
  <2>3. QED
    BY <2>1, <2>2
<1>8. u \in Nat /\ v \in Nat /\ u \in Int /\ v \in Int
  BY <1>1, <1>7
<1>9. PICK q : q = ModPow(v, p - 2, p)
  OBVIOUS
<1>10. q \in 0..p - 1 /\ q \in Int /\ Cong(q, Pow(v, p - 2), p)
  <2>1. PICK w \in Int : w = Pow(v, p - 2)
    BY <1>4, <1>8, PowIs
  <2>2. q = w % p
    BY <1>1, <1>4, <1>8, <1>9, <2>1, ModPowIs
  <2>3. QED
    BY <1>1, <2>1, <2>2, Rest
<1>11. PICK m \in Nat : m = u * q
  BY <1>1, <1>8, <1>10
<1>12. PICK r : r = m % p
  OBVIOUS
<1>13. r \in 0..p - 1 /\ r \in Int /\ r \in Nat /\ Cong(r, m, p)
  <2>1. r \in 0..p - 1 /\ r \in Int /\ Cong(r, m, p)
    BY <1>1, <1>12, Rest
  <2>2. QED
    BY <2>1
<1>14. Cong(r, u * Pow(v, p - 2), p)
  <2>1. PICK w \in Int : w = Pow(v, p - 2)
    BY <1>4, <1>8, PowIs
  <2>2. Cong(u, u, p) /\ Cong(q, w, p)
    BY <1>1, <1>8, <1>10, <2>1, CongIs
  <2>3. Cong(u * q, u * w, p)
    BY <1>1, <1>8, <1>10, <2>2, CongTimes
  <2>4. u * w \in Int
    BY <1>8
  <2>5. PICK z \in Int : z = u * w
    BY <2>4
  <2>6. Cong(m, z, p)
    BY <1>11, <2>3, <2>5
  <2>7. Cong(r, z, p)
    BY <1>1, <1>13, <2>6, CongIs
  <2>8. QED
    BY <2>1, <2>5, <2>7
<1>15. PICK f : f = ModPow(r, t + 1, p)
  OBVIOUS
<1>16. f \in 0..p - 1 /\ f \in Int /\ Cong(f, Pow(r, t + 1), p)
  <2>1. t + 1 \in Nat
    OBVIOUS
  <2>2. PICK w \in Int : w = Pow(r, t + 1)
    BY <1>13, <2>1, PowIs
  <2>3. f = w % p
    BY <1>1, <1>13, <1>15, <2>1, <2>2, ModPowIs
  <2>4. QED
    BY <1>1, <2>2, <2>3, Rest
<1>17. PICK two : two = ModPow(2, s, p)
  OBVIOUS
<1>18. two \in Int /\ Cong(two, Pow(2, s), p)
  <2>1. PICK w \in Int : w = Pow(2, s)
    BY <1>6, PowIs
  <2>2. two = w % p
    BY <1>1, <1>6, <1>17, <2>1, ModPowIs
  <2>3. QED
    BY <1>1, <2>1, <2>2, Rest
<1>19. PICK h \in Int : h = f * two
  BY <1>16, <1>18
<1>20. PICK g : g = h % p
  OBVIOUS
<1>21. g \in 0..p - 1 /\ g \in Int /\ Cong(g, h, p)
  BY <1>1, <1>20, Rest
<1>22. PICK root : root = IF (f * f) % p = r THEN f ELSE g
  OBVIOUS
<1>23. root \in 0..p - 1 /\ root \in Int
  BY <1>16, <1>21, <1>22
<1>24. IsEd25519Point(y, d, p) = IF v = 0 THEN u = 0 ELSE (root * root) % p = r
  <2>1. r = (u * ModPow(v, p - 2, p)) % p
    BY <1>9, <1>11, <1>12
  <2>2. f = ModPow(r, (p + 3) \div 8, p)
    BY <1>4, <1>15
  <2>3. g = (f * ModPow(2, (p - 1) \div 4, p)) % p
    BY <1>4, <1>17, <1>19, <1>20
  <2>4. QED
    BY <1>5, <1>22, <2>1, <2>2, <2>3 DEF IsEd25519Point, ModInverse
<1>25. HasPoint(y, d, p) <=> \E x \in 0..p - 1 : Cong((x * x) * v, u, p)
  <2>1. \A x \in 0..p - 1 : x \in Int
    BY <1>1
  <2>2. QED
    BY <1>7, <2>1 DEF HasPoint
<1>26. CASE v = 0
  <2>1. ASSUME NEW x \in 0..p - 1 PROVE Cong((x * x) * v, u, p) <=> u = 0
    <3>1. (x * x) * v = 0 /\ 0 \in 0..p - 1 /\ 0 \in Int
      BY <1>1, <1>26
    <3>2. Cong(0, u, p) <=> u = 0
      BY <1>1, <1>7, <1>8, <3>1, SmallRest, CongIs
    <3>3. QED
      BY <3>1, <3>2
  <2>2. 0 \in 0..p - 1
    BY <1>1
  <2>3. HasPoint(y, d, p) <=> u = 0
    BY <1>25, <2>1, <2>2
  <2>4. HasPoint(y, d, p) \in BOOLEAN
    BY DEF HasPoint
  <2>5. QED
    BY <1>24, <1>26, <2>3, <2>4
<1>27. CASE v # 0
  <2>1. ~Cong(v, 0, p)
    <3>1. 0 \in 0..p - 1
      BY <1>1
    <3>2. QED
      BY <1>1, <1>7, <1>27, <3>1, SmallRest
  <2>2. \A x \in Int : Cong((x * x) * v, u, p) <=> Cong(x * x, r, p)
    <3>1. TAKE x \in Int
    <3>2. PICK w \in Int : w = x * x
      OBVIOUS
    <3>3. Cong(w * v, u, p) <=> Cong(w, r, p)
      BY <1>8, <1>13, <1>14, <2>1, Divided
    <3>4. QED
      BY <3>2, <3>3
  <2>3. \A a \in Int : a % p = r <=> Cong(a, r, p)
    <3>1. TAKE a \in Int
    <3>2. Cong(a, r, p) <=> a % p = r % p
      BY <1>1, <1>13, CongMod
    <3>3. r % p = r
      BY <1>1, <1>13
    <3>4. QED
      BY <3>2, <3>3
  <2>4. ASSUME NEW x \in 0..p - 1, Cong(x * x, r, p) PROVE (root * root) % p = r
    <3>1. x \in Int
      BY <1>1
    <3>2. Cong(f * f, r, p) \/ Cong((f * two) * (f * two), r, p)
      BY <1>2, <1>3, <1>13, <1>16, <1>18, <2>4, <3>1, RootFound
    <3>3. f * f \in Int /\ g * g \in Int /\ h * h \in Int
      BY <1>16, <1>21
    <3>4. CASE Cong(f * f, r, p)
      <4>1. (f * f) % p = r
        BY <2>3, <3>3, <3>4
      <4>2. QED
        BY <1>22, <4>1
    <3>5. CASE ~Cong(f * f, r, p)
      <4>1. root = g
        BY <1>22, <2>3, <3>3, <3>5
      <4>2. Cong(h * h, r, p)
        BY <1>19, <3>2, <3>5
      <4>3. Cong(g * g, h * h, p)
        BY <1>1, <1>21, CongTimes
      <4>4. PICK a \in Int, b \in Int : a = g * g /\ b = h * h
        BY <3>3
      <4>5. Cong(a, r, p)
        BY <1>1, <1>13, <4>2, <4>3, <4>4, CongIs
      <4>6. QED
        BY <2>3, <4>1, <4>4, <4>5
    <3>6. QED
      BY <3>4, <3>5
  <2>5. ASSUME (root * root) % p = r PROVE HasPoint(y, d, p)
    <3>1. Cong(root * root, r, p)
      <4>1. root * root \in Int
        BY <1>23
      <4>2. QED
        BY <2>3, <2>5, <4>1
    <3>2. Cong((root * root) * v, u, p)
      BY <1>23, <2>2, <3>1
    <3>3. QED
      BY <1>23, <1>25, <3>2
  <2>6. ASSUME HasPoint(y, d, p) PROVE (root * root) % p = r
    <3>1. PICK x \in 0..p - 1 : Cong((x * x) * v, u, p)
      BY <1>25, <2>6
    <3>2. x \in Int
      BY <1>1
    <3>3. Cong(x * x, r, p)
      BY <2>2, <3>1, <3>2
    <3>4. QED
      BY <2>4, <3>3
  <2>7. HasPoint(y, d, p) \in BOOLEAN
    BY DEF HasPoint
  <2>8. QED
    BY <1>24, <1>27, <2>5, <2>6, <2>7
<1>28. QED
  BY <1>26, <1>27

-----------------------------------------------------------------------------
\* The recipes of addresses

\* What the seeds of an account become in a recipe.
Seeds(l, k, a) ==
    [i \in DOMAIN a.seeds |->
        CHOOSE s \in NormalizeSeed(IdlsOf[l][k[1]], IdlsOf[l][k[1]].instructions[k[2]], a.seeds[i]) :
            TRUE]

\* A usage is of an account of an instruction, and the recipe has its seeds, its
\* program and a key that names it.
Stands(l, r, u) ==
    \E k \in InstructionKeys : \E a \in ToSet(Flat(l, k)) :
        /\ u = <<k, a.name>> /\ r.seeds = Seeds(l, k, a) /\ r.id = IdlsOf[l][k[1]].address
        /\ r.key = <<k[1], a.name>> \/ r.key = <<k[1], a.name, k[2]>>

\* Recipes have a usage, and stand for each of theirs.
RecipeIs(l, r) ==
    /\ DOMAIN r = {"key", "program", "id", "usages", "seeds"}
    /\ r.usages # {} /\ \A u \in r.usages : Stands(l, r, u)

\* The recipes have keys of their own, and each of the usages has one of them.
Held(l, R, used) ==
    /\ List(R) /\ \A i \in 1..Len(R) : RecipeIs(l, R[i])
    /\ \A i, j \in 1..Len(R) : R[i].key = R[j].key => i = j
    /\ \A u \in used : \E i \in 1..Len(R) : u \in R[i].usages

\* What is known of the pairs and triples that are keys.
LEMMA KeysApart ==
    /\ \A a, b, c, d, e : <<a, b>> # <<c, d, e>>
    /\ \A a, b, c : Append(<<a, b>>, c) = <<a, b, c>>
    /\ \A a, b, c, d : <<a, b>> = <<c, d>> => a = c /\ b = d
    /\ \A a, b, c, d, e, f : <<a, b, c>> = <<d, e, f>> => a = d /\ b = e /\ c = f
<1>1. ASSUME NEW a, NEW b, NEW c, NEW d, NEW e PROVE <<a, b>> # <<c, d, e>>
  <2>1. Len(<<a, b>>) = 2 /\ Len(<<c, d, e>>) = 3
    OBVIOUS
  <2>2. QED
    BY <2>1
<1>2. ASSUME NEW a, NEW b, NEW c PROVE Append(<<a, b>>, c) = <<a, b, c>>
  <2> DEFINE S == {a, b, c}
             s == <<a, b>>
             t == <<a, b, c>>
  <2>1. s \in Seq(S) /\ c \in S /\ t \in Seq(S)
    OBVIOUS
  <2>2. Len(s) = 2 /\ s[1] = a /\ s[2] = b /\ Len(t) = 3 /\ t[1] = a /\ t[2] = b /\ t[3] = c
    OBVIOUS
  <2> HIDE DEF S, s, t
  <2>3. /\ Append(s, c) \in Seq(S) /\ Len(Append(s, c)) = Len(s) + 1
        /\ \A i \in 1..Len(s) : Append(s, c)[i] = s[i]
        /\ Append(s, c)[Len(s) + 1] = c
    BY <2>1, AppendProperties
  <2>4. Len(Append(s, c)) = Len(t) /\ \A i \in 1..Len(t) : Append(s, c)[i] = t[i]
    BY <2>2, <2>3
  <2>5. List(Append(s, c)) /\ List(t)
    BY <2>1, <2>3, InSeq
  <2>6. Append(s, c) = t
    BY <2>4, <2>5, ListsEqual
  <2>7. QED
    BY <2>6 DEF s, t
<1>3. ASSUME NEW a, NEW b, NEW c, NEW d, <<a, b>> = <<c, d>> PROVE a = c /\ b = d
  BY <1>3
<1>4. ASSUME NEW a, NEW b, NEW c, NEW d, NEW e, NEW f, <<a, b, c>> = <<d, e, f>>
      PROVE  a = d /\ b = e /\ c = f
  BY <1>4
<1>5. QED
  BY <1>1, <1>2, <1>3, <1>4

\* An instruction is named by its program and its name.
LEMMA KeyIsPair ==
    ASSUME NEW k \in InstructionKeys
    PROVE  k = <<k[1], k[2]>>
<1>1. PICK a \in Actions : k = ActionDefinitions[a].primary \/ k \in ToSet(ActionDefinitions[a].cpi)
  BY DEF InstructionKeys
<1>2. /\ ActionDefinitions[a].primary = <<ActionDefinitions[a].primary[1], ActionDefinitions[a].primary[2]>>
      /\ \/ ActionDefinitions[a].cpi = <<>>
         \/ \E b : ActionDefinitions[a].cpi =
                    << <<"leverage_delegate", b>>, <<"leverage_delegate", "after_close_order">> >>
  BY <1>1 DEF Actions, ActionDefinitions, Job, DelegatedClose
<1>3. CASE k = ActionDefinitions[a].primary
  BY <1>2, <1>3
<1>4. CASE k \in ToSet(ActionDefinitions[a].cpi)
  BY <1>2, <1>4 DEF ToSet
<1>5. QED
  BY <1>1, <1>3, <1>4

\* The accounts of an instruction have names of their own.
LEMMA OneAccount ==
    ASSUME NEW l \in Made, NEW k \in InstructionKeys,
           NEW a \in ToSet(Flat(l, k)), NEW b \in ToSet(Flat(l, k)), a.name = b.name
    PROVE  a = b
<1> DEFINE flat == Flat(l, k)
           accounts == Contracts[l].instructions[k].accounts
<1>1. accounts = [i \in DOMAIN flat |-> AccountSpecification(flat[i])]
  BY ContractIs
<1>2. \A i, j \in DOMAIN accounts : accounts[i].name = accounts[j].name => i = j
  BY SpecificationIs
<1>3. DOMAIN flat = 1..Len(flat) /\ ToSet(flat) = {flat[i] : i \in 1..Len(flat)}
  BY FlatIsList, ListIs
<1>4. PICK i \in DOMAIN flat, j \in DOMAIN flat : a = flat[i] /\ b = flat[j]
  BY <1>3
<1> HIDE DEF accounts, flat
<1>5. accounts[i].name = a.name /\ accounts[j].name = b.name
  BY <1>1, <1>4 DEF AccountSpecification
<1>6. i = j
  BY <1>1, <1>2, <1>4, <1>5
<1>7. QED
  BY <1>4, <1>6

\* The program of an instruction has the address that its IDL gives.
LEMMA IdIs ==
    ASSUME NEW l \in Made, NEW k \in InstructionKeys
    PROVE  Contracts[l].instructions[k].id = IdlsOf[l][k[1]].address
<1> DEFINE lock == Locks[l]
           idls == IdlsOf[l]
           pinned(p) == CHOOSE q \in ToSet(lock.programs) : q.name = p
           flat(n) == FlattenAccounts(idls[n[1]].instructions[n[2]].accounts)
           sound(n) == /\ n[2] \in DOMAIN idls[n[1]].instructions
                       /\ idls[n[1]].instructions[n[2]].discriminator = AnchorHash[n[2]]
                       /\ Cardinality({flat(n)[i].name : i \in DOMAIN flat(n)}) = Len(flat(n))
           checked == /\ \A q \in ToSet(lock.programs) : idls[q.name].address = q.id
                      /\ \A n \in InstructionKeys :
                          (\E q \in ToSet(lock.programs) : q.name = n[1]) /\ sound(n)
           programs == [i \in DOMAIN lock.programs |->
                   [name |-> lock.programs[i].name, id |-> lock.programs[i].id,
                    idl |-> lock.programs[i].idl]]
           instructions == [n \in InstructionKeys |->
                   [program |-> n[1], id |-> pinned(n[1]).id, name |-> n[2],
                    discriminator |-> idls[n[1]].instructions[n[2]].discriminator,
                    accounts |-> [i \in DOMAIN flat(n) |-> AccountSpecification(flat(n)[i])]]]
           made == [schema |-> 1, revision |-> lock.revision, programs |-> programs,
                    actions |-> ActionDefinitions, instructions |-> instructions]
<1>1. BuildContract(lock, idls) = IF checked THEN {made} ELSE {}
  BY DEF BuildContract
<1>2. BuildContract(lock, idls) # {}
  BY GateAssumption
<1>3. /\ \A q \in ToSet(lock.programs) : idls[q.name].address = q.id
      /\ \E q \in ToSet(lock.programs) : q.name = k[1]
  <2>1. checked
    <3> HIDE DEF checked, made
    <3>1. QED
      BY <1>1, <1>2
  <2>2. QED
    BY <2>1
<1>4. Contracts[l] = made
  <2>1. Contracts[l] = CHOOSE c \in BuildContract(lock, idls) : TRUE
    BY DEF Contracts
  <2> HIDE DEF checked, made, lock, idls
  <2>2. QED
    BY <1>1, <1>2, <2>1
<1>5. made.instructions = instructions
  OBVIOUS
<1>6. instructions[k].id = pinned(k[1]).id
  OBVIOUS
<1>7. pinned(k[1]).id = idls[k[1]].address
  <2>1. pinned(k[1]) \in ToSet(lock.programs) /\ pinned(k[1]).name = k[1]
    BY <1>3
  <2> HIDE DEF pinned, lock, idls
  <2>2. QED
    BY <1>3, <2>1
<1> HIDE DEF made, instructions, pinned
<1>8. QED
  BY <1>4, <1>5, <1>6, <1>7

\* A further recipe with a key of its own.
LEMMA HeldMore ==
    ASSUME NEW l, NEW R, NEW used, Held(l, R, used), NEW r, RecipeIs(l, r),
           \A i \in 1..Len(R) : R[i].key # r.key
    PROVE  Held(l, Append(R, r), used \cup r.usages)
<1> DEFINE t == Append(R, r)
           n == Len(R)
<1>1. /\ List(R) /\ \A i \in 1..n : RecipeIs(l, R[i])
      /\ \A i, j \in 1..n : R[i].key = R[j].key => i = j
      /\ \A u \in used : \E i \in 1..n : u \in R[i].usages
  BY DEF Held
<1>2. n \in Nat
  BY <1>1, ListIs
<1>3. List(t) /\ Len(t) = n + 1 /\ (\A i \in 1..n : t[i] = R[i]) /\ t[n + 1] = r
  <2> DEFINE S == ToSet(R) \cup {r}
  <2>1. R \in Seq(S) /\ r \in S
    <3>1. ToSet(R) \subseteq S /\ r \in S
      OBVIOUS
    <3> HIDE DEF S
    <3>2. QED
      BY <1>1, <3>1, SeqMonotonic DEF List
  <2> HIDE DEF S
  <2>2. /\ t \in Seq(S) /\ Len(t) = n + 1
        /\ (\A i \in 1..n : t[i] = R[i]) /\ t[n + 1] = r
    BY <2>1, AppendProperties
  <2> HIDE DEF t
  <2>3. List(t)
    BY <2>2, InSeq
  <2>4. QED
    BY <2>2, <2>3
<1> HIDE DEF t, n
<1>4. \A i \in 1..n + 1 : i \in 1..n \/ i = n + 1
  BY <1>2
<1>5. n + 1 \in 1..n + 1 /\ \A i \in 1..n : i \in 1..n + 1
  BY <1>2
<1>6. \A i \in 1..n + 1 : RecipeIs(l, t[i])
  BY <1>1, <1>3, <1>4
<1>7. \A i \in 1..n : R[i].key # r.key
  BY DEF n
<1>8. \A i, j \in 1..n + 1 : t[i].key = t[j].key => i = j
  BY <1>1, <1>3, <1>4, <1>7
<1>9. \A u \in used \cup r.usages : \E i \in 1..n + 1 : u \in t[i].usages
  BY <1>1, <1>3, <1>5
<1>10. QED
  BY <1>3, <1>6, <1>8, <1>9 DEF Held, t

\* A recipe gets another usage that it stands for.
LEMMA HeldLonger ==
    ASSUME NEW l, NEW R, NEW used, Held(l, R, used), NEW i \in 1..Len(R), NEW u,
           Stands(l, R[i], u)
    PROVE  Held(l, [R EXCEPT ![i].usages = @ \cup {u}], used \cup {u})
<1> DEFINE new == [R[i] EXCEPT !.usages = @ \cup {u}]
           t == [R EXCEPT ![i] = new]
           n == Len(R)
<1>1. /\ List(R) /\ \A j \in 1..n : RecipeIs(l, R[j])
      /\ \A j, m \in 1..n : R[j].key = R[m].key => j = m
      /\ \A v \in used : \E j \in 1..n : v \in R[j].usages
  BY DEF Held
<1>2. n \in Nat /\ R = [j \in 1..n |-> R[j]]
  BY <1>1, ListIs
<1>3. [R EXCEPT ![i].usages = @ \cup {u}] = t
  OBVIOUS
<1>4. /\ DOMAIN new = {"key", "program", "id", "usages", "seeds"}
      /\ new.key = R[i].key /\ new.id = R[i].id /\ new.seeds = R[i].seeds
      /\ new.usages = R[i].usages \cup {u}
  <2>1. DOMAIN R[i] = {"key", "program", "id", "usages", "seeds"}
    BY <1>1 DEF RecipeIs
  <2>2. QED
    BY <2>1
<1> HIDE DEF new
<1>5. List(t) /\ Len(t) = n /\ t[i] = new /\ \A j \in 1..n : j # i => t[j] = R[j]
  <2>1. t = [j \in 1..n |-> t[j]] /\ t[i] = new /\ \A j \in 1..n : j # i => t[j] = R[j]
    BY <1>2
  <2> HIDE DEF t
  <2>2. List(t) /\ Len(t) = n
    BY <1>2, <2>1, FunctionIsList
  <2>3. QED
    BY <2>1, <2>2
<1> HIDE DEF t
<1>6. i \in 1..n
  OBVIOUS
<1> HIDE DEF n
<1>7. RecipeIs(l, new)
  <2>1. R[i].usages # {} /\ \A v \in R[i].usages : Stands(l, R[i], v)
    BY <1>1, <1>6 DEF RecipeIs
  <2>2. \A v : Stands(l, R[i], v) => Stands(l, new, v)
    BY <1>4 DEF Stands
  <2>3. QED
    BY <1>4, <2>1, <2>2 DEF RecipeIs
<1>8. \A j \in 1..n : RecipeIs(l, t[j])
  BY <1>1, <1>5, <1>7
<1>9. \A j \in 1..n : t[j].key = R[j].key
  BY <1>4, <1>5
<1>10. \A j, m \in 1..n : t[j].key = t[m].key => j = m
  BY <1>1, <1>9
<1>11. \A j \in 1..n : R[j].usages \subseteq t[j].usages
  BY <1>4, <1>5
<1>12. \A v \in used \cup {u} : \E j \in 1..n : v \in t[j].usages
  BY <1>1, <1>4, <1>5, <1>6, <1>11
<1>13. QED
  BY <1>3, <1>5, <1>8, <1>10, <1>12 DEF Held

\* A usage joins a recipe that has its seeds, or makes one of its own.
LEMMA AddUsageKeeps ==
    ASSUME NEW l \in Made, NEW k \in InstructionKeys, NEW a \in ToSet(Flat(l, k)),
           NEW R, NEW used, Held(l, R, used), NEW fresh,
           fresh = [key |-> <<k[1], a.name>>, program |-> k[1], id |-> IdlsOf[l][k[1]].address,
                    usages |-> {<<k, a.name>>}, seeds |-> Seeds(l, k, a)]
    PROVE  Held(l, AddUsage(R, fresh), used \cup {<<k, a.name>>})
<1> DEFINE held(key) == {i \in DOMAIN R : R[i].key = key}
           apart == \E i \in held(fresh.key) : R[i].seeds # fresh.seeds
           long == <<k[1], a.name, k[2]>>
           key == IF apart THEN long ELSE fresh.key
           u == <<k, a.name>>
<1>1. /\ DOMAIN R = 1..Len(R) /\ \A i \in 1..Len(R) : RecipeIs(l, R[i])
  BY ListIs DEF Held
<1>2. /\ fresh.key = <<k[1], a.name>> /\ fresh.id = IdlsOf[l][k[1]].address
      /\ fresh.usages = {u} /\ fresh.seeds = Seeds(l, k, a)
      /\ DOMAIN fresh = {"key", "program", "id", "usages", "seeds"}
  OBVIOUS
<1>3. AddUsage(R, fresh) = IF held(key) # {}
                           THEN [R EXCEPT ![CHOOSE i \in held(key) : TRUE].usages = @ \cup {u}]
                           ELSE Append(R, [fresh EXCEPT !.key = key])
  <2>1. (CHOOSE v \in fresh.usages : TRUE)[1][2] = k[2]
    <3>1. (CHOOSE v \in fresh.usages : TRUE) = u
      BY <1>2
    <3>2. u[1][2] = k[2]
      OBVIOUS
    <3>3. QED
      BY <3>1, <3>2
  <2>2. Append(fresh.key, (CHOOSE v \in fresh.usages : TRUE)[1][2]) = long
    BY <1>2, <2>1, KeysApart
  <2> DEFINE longer == Append(fresh.key, (CHOOSE v \in fresh.usages : TRUE)[1][2])
             named == IF apart THEN longer ELSE fresh.key
  <2>3. AddUsage(R, fresh) =
            IF held(named) # {}
            THEN [R EXCEPT ![CHOOSE i \in held(named) : TRUE].usages = @ \cup fresh.usages]
            ELSE Append(R, [fresh EXCEPT !.key = named])
    BY DEF AddUsage
  <2>4. named = key
    <3>1. longer = long
      BY <2>2
    <3> HIDE DEF apart, long, longer
    <3>2. QED
      BY <3>1
  <2>5. fresh.usages = {u}
    BY <1>2
  <2> HIDE DEF named, key, held, u
  <2>6. QED
    BY <2>3, <2>4, <2>5
<1>4. ASSUME NEW i \in held(key) PROVE Stands(l, R[i], u)
  <2>1. i \in 1..Len(R) /\ R[i].key = key
    BY <1>1, <1>4
  <2>2. PICK v \in R[i].usages : Stands(l, R[i], v)
    BY <1>1, <2>1 DEF RecipeIs
  <2>2a. PICK m \in InstructionKeys : \E b \in ToSet(Flat(l, m)) :
            /\ R[i].seeds = Seeds(l, m, b) /\ R[i].id = IdlsOf[l][m[1]].address
            /\ R[i].key = <<m[1], b.name>> \/ R[i].key = <<m[1], b.name, m[2]>>
    BY <2>2 DEF Stands
  <2>3. PICK b \in ToSet(Flat(l, m)) :
            /\ R[i].seeds = Seeds(l, m, b) /\ R[i].id = IdlsOf[l][m[1]].address
            /\ R[i].key = <<m[1], b.name>> \/ R[i].key = <<m[1], b.name, m[2]>>
    BY <2>2a
  <2>4. CASE apart
    <3>1. R[i].key = <<k[1], a.name, k[2]>>
      BY <2>1, <2>4
    <3>2. m[1] = k[1] /\ b.name = a.name /\ m[2] = k[2]
      BY <2>3, <3>1, KeysApart
    <3>3. m = k
      BY <3>2, KeyIsPair
    <3>4. b = a
      BY <3>2, <3>3, OneAccount
    <3>5. R[i].seeds = Seeds(l, k, a) /\ R[i].id = IdlsOf[l][k[1]].address
      BY <2>3, <3>3, <3>4
    <3>6. QED
      BY <3>1, <3>5 DEF Stands
  <2>5. CASE ~apart
    <3>1. R[i].key = <<k[1], a.name>> /\ R[i].key = fresh.key
      BY <1>2, <2>1, <2>5
    <3>2. R[i].seeds = Seeds(l, k, a)
      BY <1>1, <1>2, <2>1, <2>5, <3>1
    <3>3. m[1] = k[1]
      BY <2>3, <3>1, KeysApart
    <3>4. R[i].id = IdlsOf[l][k[1]].address
      BY <2>3, <3>3
    <3>5. QED
      BY <3>1, <3>2, <3>4 DEF Stands
  <2>6. QED
    BY <2>4, <2>5
<1>5. CASE held(key) # {}
  <2> DEFINE i == CHOOSE j \in held(key) : TRUE
  <2>1. i \in held(key)
    BY <1>5
  <2>2. i \in 1..Len(R)
    BY <1>1, <2>1
  <2>3. AddUsage(R, fresh) = [R EXCEPT ![i].usages = @ \cup {u}]
    BY <1>3, <1>5
  <2> HIDE DEF i, held, key, u
  <2>4. Stands(l, R[i], u)
    BY <1>4, <2>1
  <2>5. Held(l, [R EXCEPT ![i].usages = @ \cup {u}], used \cup {u})
    BY <2>2, <2>4, HeldLonger
  <2>6. QED
    BY <2>3, <2>5 DEF u
<1>6. CASE held(key) = {}
  <2> DEFINE r == [fresh EXCEPT !.key = key]
  <2>1. AddUsage(R, fresh) = Append(R, r)
    BY <1>3, <1>6
  <2>2. /\ DOMAIN r = {"key", "program", "id", "usages", "seeds"} /\ r.key = key
        /\ r.id = IdlsOf[l][k[1]].address /\ r.usages = {u} /\ r.seeds = Seeds(l, k, a)
    <3> HIDE DEF key, u
    <3>1. QED
      BY <1>2
  <2>3. key = <<k[1], a.name>> \/ key = <<k[1], a.name, k[2]>>
    BY <1>2
  <2>4. \A i \in 1..Len(R) : R[i].key # key
    <3> HIDE DEF key
    <3>1. QED
      BY <1>1, <1>6
  <2> HIDE DEF r, key
  <2>5. Stands(l, r, u)
    BY <2>2, <2>3 DEF Stands
  <2> HIDE DEF u
  <2>6. RecipeIs(l, r)
    BY <2>2, <2>5 DEF RecipeIs
  <2>7. \A i \in 1..Len(R) : R[i].key # r.key
    BY <2>2, <2>4
  <2>8. Held(l, Append(R, r), used \cup r.usages)
    BY <2>6, <2>7, HeldMore
  <2>9. QED
    BY <2>1, <2>2, <2>8 DEF u
<1>7. QED
  BY <1>5, <1>6

\* The recipes after one more account of an instruction.
WithAccount(l, k, R, i) ==
    IF Flat(l, k)[i].seeds = <<>> THEN R
    ELSE AddUsage(R, FirstUsage(Contracts[l], IdlsOf[l], k, Flat(l, k)[i]))

\* It has a recipe then, if it has seeds.
LEMMA WithAccountKeeps ==
    ASSUME NEW l \in Made, NEW k \in InstructionKeys, NEW i \in 1..Len(Flat(l, k)),
           NEW R, NEW used, Held(l, R, used)
    PROVE  Held(l, WithAccount(l, k, R, i),
                used \cup {<<k, a.name>> : a \in {b \in {Flat(l, k)[i]} : b.seeds # <<>>}})
<1> DEFINE a == Flat(l, k)[i]
           fresh == FirstUsage(Contracts[l], IdlsOf[l], k, a)
           now == used \cup {<<k, b.name>> : b \in {c \in {a} : c.seeds # <<>>}}
<1>1. a \in ToSet(Flat(l, k))
  BY FlatIsList, ListIs
<1>2. CASE a.seeds = <<>>
  <2>1. WithAccount(l, k, R, i) = R
    BY <1>2 DEF WithAccount
  <2>2. now = used
    <3> HIDE DEF a
    <3>1. QED
      BY <1>2
  <2>3. QED
    BY <2>1, <2>2
<1>3. CASE a.seeds # <<>>
  <2>1. WithAccount(l, k, R, i) = AddUsage(R, fresh)
    BY <1>3 DEF WithAccount
  <2>2. now = used \cup {<<k, a.name>>}
    <3> HIDE DEF a
    <3>1. QED
      BY <1>3
  <2>3. fresh = [key |-> <<k[1], a.name>>, program |-> k[1], id |-> IdlsOf[l][k[1]].address,
                 usages |-> {<<k, a.name>>}, seeds |-> Seeds(l, k, a)]
    <3>1. Contracts[l].instructions[k].id = IdlsOf[l][k[1]].address
      BY IdIs
    <3> HIDE DEF a
    <3>2. QED
      BY <3>1 DEF FirstUsage, Seeds
  <2> HIDE DEF a, fresh
  <2>4. Held(l, AddUsage(R, fresh), used \cup {<<k, a.name>>})
    BY <1>1, <2>3, AddUsageKeeps
  <2>5. QED
    BY <2>1, <2>2, <2>4 DEF a
<1>4. QED
  BY <1>2, <1>3

\* After an instruction, each of its accounts with seeds has a recipe.
LEMMA AddRecipesKeeps ==
    ASSUME NEW l \in Made, NEW k \in InstructionKeys, NEW R, NEW used, Held(l, R, used)
    PROVE  Held(l, AddRecipes(Contracts[l], IdlsOf[l], R, k),
                used \cup {<<k, a.name>> : a \in {b \in ToSet(Flat(l, k)) : b.seeds # <<>>}})
<1> DEFINE n == Len(Flat(l, k))
           Is(f, m) == f = [i \in 0..m |-> IF i = 0 THEN R ELSE WithAccount(l, k, f[i - 1], i)]
           T == {m \in 0..n : \E f : Is(f, m)}
           added == CHOOSE f : Is(f, n)
<1>1. n \in Nat /\ DOMAIN Flat(l, k) = 1..n /\ ToSet(Flat(l, k)) = {Flat(l, k)[i] : i \in 1..n}
  BY FlatIsList, ListIs
<1>2. 0 \in T
  <2> DEFINE g == [i \in 0..0 |-> R]
  <2>1. Is(g, 0)
    OBVIOUS
  <2> HIDE DEF Is, g
  <2>2. QED
    BY <2>1
<1>3. ASSUME NEW m \in 1..n, m - 1 \in T PROVE m \in T
  <2>1. PICK f : Is(f, m - 1)
    BY <1>3
  <2> DEFINE g == [i \in 0..m |-> IF i = m THEN WithAccount(l, k, f[m - 1], m) ELSE f[i]]
  <2>2. ASSUME NEW i \in 0..m
        PROVE  g[i] = IF i = 0 THEN R ELSE WithAccount(l, k, g[i - 1], i)
    <3>1. CASE i = 0
      <4>1. g[0] = f[0] /\ 0 \in 0..m - 1
        BY <1>1
      <4>2. f[0] = R
        BY <2>1, <4>1
      <4>3. QED
        BY <3>1, <4>1, <4>2
    <3>2. CASE i # 0
      <4>1. i - 1 \in 0..m - 1 /\ i - 1 \in 0..m /\ i - 1 # m
        BY <1>1, <3>2
      <4>2. g[i - 1] = f[i - 1]
        BY <4>1
      <4>3. CASE i = m
        <5>1. g[i] = WithAccount(l, k, f[i - 1], i)
          BY <4>3
        <5> HIDE DEF g
        <5>2. QED
          BY <3>2, <4>2, <5>1
      <4>4. CASE i # m
        <5>1. i \in 0..m - 1 /\ g[i] = f[i]
          BY <1>1, <4>4
        <5>2. f[i] = WithAccount(l, k, f[i - 1], i)
          BY <2>1, <3>2, <5>1
        <5> HIDE DEF g
        <5>3. QED
          BY <3>2, <4>2, <5>1, <5>2
      <4>5. QED
        BY <4>3, <4>4
    <3>3. QED
      BY <3>1, <3>2
  <2>3. g = [i \in 0..m |-> g[i]]
    OBVIOUS
  <2>4. Is(g, m)
    <3> HIDE DEF g
    <3>1. QED
      BY <2>2, <2>3
  <2> HIDE DEF Is, g
  <2>5. QED
    BY <2>4
<1>4. \A m \in 0..n : m \in T
  <2> HIDE DEF T
  <2>1. n \in Nat
    BY <1>1
  <2> HIDE DEF n
  <2>2. QED
    BY <1>2, <1>3, <2>1, Upwards
<1>5. Is(added, n)
  <2>1. \E f : Is(f, n)
    <3>1. n \in T
      BY <1>1, <1>4
    <3> HIDE DEF Is
    <3>2. QED
      BY <3>1
  <2> HIDE DEF Is
  <2>2. QED
    BY <2>1
<1>6. AddRecipes(Contracts[l], IdlsOf[l], R, k) = added[n]
  BY DEF AddRecipes, WithAccount, Flat
<1>7. added[0] = R /\ \A i \in 1..n : added[i] = WithAccount(l, k, added[i - 1], i)
  <2>1. 0 \in 0..n /\ \A i \in 1..n : i \in 0..n /\ i # 0
    BY <1>1
  <2>2. \A i \in 0..n : added[i] = IF i = 0 THEN R ELSE WithAccount(l, k, added[i - 1], i)
    <3> HIDE DEF added
    <3>1. QED
      BY <1>5
  <2> HIDE DEF added
  <2>3. QED
    BY <2>1, <2>2
<1> HIDE DEF added, Is, T
<1> DEFINE upTo(m) == used \cup {<<k, a.name>> :
                            a \in {b \in {Flat(l, k)[i] : i \in 1..m} : b.seeds # <<>>}}
           S == {m \in 0..n : Held(l, added[m], upTo(m))}
<1>8. 0 \in S
  <2>1. upTo(0) = used
    OBVIOUS
  <2> HIDE DEF upTo
  <2>2. QED
    BY <1>1, <1>7, <2>1
<1>9. ASSUME NEW m \in 1..n, m - 1 \in S PROVE m \in S
  <2> DEFINE more == {<<k, a.name>> : a \in {b \in {Flat(l, k)[m]} : b.seeds # <<>>}}
  <2>1. Held(l, added[m - 1], upTo(m - 1))
    BY <1>9
  <2>2. upTo(m) = upTo(m - 1) \cup more
    <3>1. \A i : i \in 1..m <=> i \in 1..m - 1 \/ i = m
      BY <1>1
    <3>2. {Flat(l, k)[i] : i \in 1..m} = {Flat(l, k)[i] : i \in 1..m - 1} \cup {Flat(l, k)[m]}
      BY <3>1
    <3>3. QED
      BY <3>2
  <2> HIDE DEF upTo, S
  <2>3. m \in 1..Len(Flat(l, k))
    OBVIOUS
  <2>4. Held(l, WithAccount(l, k, added[m - 1], m), upTo(m - 1) \cup more)
    BY <2>1, <2>3, WithAccountKeeps
  <2>5. Held(l, added[m], upTo(m))
    BY <1>7, <2>2, <2>4
  <2>6. m \in 0..n
    BY <1>1
  <2>7. QED
    BY <2>5, <2>6 DEF S
<1>10. \A m \in 0..n : m \in S
  <2> HIDE DEF S
  <2>1. n \in Nat
    BY <1>1
  <2> HIDE DEF n
  <2>2. QED
    BY <1>8, <1>9, <2>1, Upwards
<1>11. Held(l, added[n], upTo(n))
  <2>1. n \in 0..n
    BY <1>1
  <2>2. n \in S
    <3> HIDE DEF S, n
    <3>1. QED
      BY <1>10, <2>1
  <2>3. QED
    BY <2>2
<1>12. upTo(n) = used \cup {<<k, a.name>> : a \in {b \in ToSet(Flat(l, k)) : b.seeds # <<>>}}
  BY <1>1
<1> HIDE DEF upTo
<1>13. QED
  BY <1>6, <1>11, <1>12

\* After all of them, each account with seeds of each instruction has one.
LEMMA RecipesHeld ==
    ASSUME NEW l \in Made, NEW n \in Nat, n = Len(InstructionOrder),
           \A i \in 1..n : InstructionOrder[i] \in InstructionKeys
    PROVE  \E used :
            /\ Held(l, Recipes(Contracts[l], IdlsOf[l]), used)
            /\ \A i \in 1..n : \A a \in ToSet(Flat(l, InstructionOrder[i])) :
                    a.seeds # <<>> => <<InstructionOrder[i], a.name>> \in used
<1> DEFINE After(R, i) == AddRecipes(Contracts[l], IdlsOf[l], R, InstructionOrder[i])
           Is(f, m) == f = [i \in 0..m |-> IF i = 0 THEN <<>> ELSE After(f[i - 1], i)]
           T == {m \in 0..n : \E f : Is(f, m)}
           added == CHOOSE f : Is(f, n)
<1>1. n \in Nat
  OBVIOUS
<1>2. 0 \in T
  <2> DEFINE g == [i \in 0..0 |-> <<>>]
  <2>1. Is(g, 0)
    OBVIOUS
  <2> HIDE DEF Is, g
  <2>2. QED
    BY <2>1
<1>3. ASSUME NEW m \in 1..n, m - 1 \in T PROVE m \in T
  <2>1. PICK f : Is(f, m - 1)
    BY <1>3
  <2> DEFINE g == [i \in 0..m |-> IF i = m THEN After(f[m - 1], m) ELSE f[i]]
  <2>2. ASSUME NEW i \in 0..m
        PROVE  g[i] = IF i = 0 THEN <<>> ELSE After(g[i - 1], i)
    <3>1. CASE i = 0
      <4>1. g[0] = f[0] /\ 0 \in 0..m - 1
        BY <1>1
      <4>2. f[0] = <<>>
        BY <2>1, <4>1
      <4>3. QED
        BY <3>1, <4>1, <4>2
    <3>2. CASE i # 0
      <4>1. i - 1 \in 0..m - 1 /\ i - 1 \in 0..m /\ i - 1 # m
        BY <1>1, <3>2
      <4>2. g[i - 1] = f[i - 1]
        BY <4>1
      <4>3. CASE i = m
        <5>1. g[i] = After(f[i - 1], i)
          BY <4>3
        <5> HIDE DEF g
        <5>2. QED
          BY <3>2, <4>2, <5>1
      <4>4. CASE i # m
        <5>1. i \in 0..m - 1 /\ g[i] = f[i]
          BY <1>1, <4>4
        <5>2. f[i] = After(f[i - 1], i)
          BY <2>1, <3>2, <5>1
        <5> HIDE DEF g
        <5>3. QED
          BY <3>2, <4>2, <5>1, <5>2
      <4>5. QED
        BY <4>3, <4>4
    <3>3. QED
      BY <3>1, <3>2
  <2>3. g = [i \in 0..m |-> g[i]]
    OBVIOUS
  <2>4. Is(g, m)
    <3> HIDE DEF g
    <3>1. QED
      BY <2>2, <2>3
  <2> HIDE DEF Is, g
  <2>5. QED
    BY <2>4
<1>4. \A m \in 0..n : m \in T
  <2> HIDE DEF T
  <2>1. n \in Nat
    BY <1>1
  <2>2. QED
    BY <1>2, <1>3, <2>1, Upwards
<1>5. Is(added, n)
  <2>1. \E f : Is(f, n)
    <3>1. n \in T
      BY <1>1, <1>4
    <3> HIDE DEF Is
    <3>2. QED
      BY <3>1
  <2> HIDE DEF Is
  <2>2. QED
    BY <2>1
<1>6. Recipes(Contracts[l], IdlsOf[l]) = added[n]
  BY DEF Recipes
<1>7. added[0] = <<>> /\ \A i \in 1..n : added[i] = After(added[i - 1], i)
  <2>1. 0 \in 0..n /\ \A i \in 1..n : i \in 0..n /\ i # 0
    OBVIOUS
  <2>2. \A i \in 0..n : added[i] = IF i = 0 THEN <<>> ELSE After(added[i - 1], i)
    <3> HIDE DEF added
    <3>1. QED
      BY <1>5
  <2> HIDE DEF added
  <2>3. QED
    BY <2>1, <2>2
<1> HIDE DEF added, Is, T
<1> DEFINE of(k) == {<<k, a.name>> : a \in {b \in ToSet(Flat(l, k)) : b.seeds # <<>>}}
           upTo(m) == UNION {of(InstructionOrder[i]) : i \in 1..m}
           S == {m \in 0..n : Held(l, added[m], upTo(m))}
<1>8. 0 \in S
  <2>1. List(<<>>) /\ Len(<<>>) = 0
    BY Shorts
  <2>2. upTo(0) = {}
    <3> HIDE DEF of
    <3>1. QED
      OBVIOUS
  <2> HIDE DEF upTo
  <2>3. Held(l, <<>>, {})
    BY <2>1 DEF Held
  <2>3a. added[0] = <<>> /\ 0 \in 0..n
    BY <1>7
  <2>3b. Held(l, added[0], {})
    BY <2>3, <2>3a
  <2>4. Held(l, added[0], upTo(0)) /\ 0 \in 0..n
    BY <2>2, <2>3a, <2>3b
  <2>5. QED
    BY <2>4
<1>9. ASSUME NEW m \in 1..n, m - 1 \in S PROVE m \in S
  <2> DEFINE k == InstructionOrder[m]
             R == added[m - 1]
             before == upTo(m - 1)
  <2>1. Held(l, R, before) /\ k \in InstructionKeys
    BY <1>9
  <2>2. upTo(m) = before \cup of(k)
    <3>1. \A i : i \in 1..m <=> i \in 1..m - 1 \/ i = m
      OBVIOUS
    <3> HIDE DEF of
    <3>2. QED
      BY <3>1
  <2>3. added[m] = AddRecipes(Contracts[l], IdlsOf[l], R, k)
    BY <1>7
  <2>4. m \in 0..n
    OBVIOUS
  <2> HIDE DEF k, R, before, S
  <2>5. Held(l, AddRecipes(Contracts[l], IdlsOf[l], R, k), before \cup of(k))
    BY <2>1, AddRecipesKeeps
  <2> HIDE DEF of, upTo
  <2>6. Held(l, added[m], upTo(m))
    BY <2>2, <2>3, <2>5
  <2>7. QED
    BY <2>4, <2>6 DEF S
<1>10. \A m \in 0..n : m \in S
  <2> HIDE DEF S
  <2>1. QED
    BY <1>8, <1>9, Upwards
<1>11. Held(l, added[n], upTo(n))
  <2>1. n \in 0..n
    OBVIOUS
  <2>2. n \in S
    <3> HIDE DEF S
    <3>1. QED
      BY <1>10, <2>1
  <2>3. QED
    BY <2>2
<1>12. ASSUME NEW i \in 1..n, NEW a \in ToSet(Flat(l, InstructionOrder[i])), a.seeds # <<>>
       PROVE  <<InstructionOrder[i], a.name>> \in upTo(n)
  <2>1. <<InstructionOrder[i], a.name>> \in of(InstructionOrder[i])
    BY <1>12
  <2> HIDE DEF of
  <2>2. QED
    BY <2>1
<1> HIDE DEF upTo
<1>13. QED
  BY <1>6, <1>11, <1>12

\* Sublist has what the sequence has at the indices.
LEMMA SublistHas ==
    ASSUME NEW s, NEW n \in Nat, NEW indices \in SUBSET (1..n)
    PROVE  ToSet(Sublist(s, indices)) = {s[i] : i \in indices}
<1> DEFINE absent == (1..n) \ indices
           c == Cardinality(indices)
           at(k) == CHOOSE i \in indices : Cardinality({j \in indices : j <= i}) = k
<1>1. indices = (1..n) \ absent /\ \A i \in 1..n : i \in indices <=> i \notin absent
  OBVIOUS
<1>2. ASSUME NEW i \in 1..n PROVE Cardinality({j \in indices : j <= i}) = Place(absent, i)
  <2>1. {j \in indices : j <= i} = (1..i) \ absent
    <3> HIDE DEF absent
    <3>1. ASSUME NEW j \in indices, j <= i PROVE j \in (1..i) \ absent
      <4>1. j \in 1..n
        OBVIOUS
      <4>2. QED
        BY <1>1, <3>1, <4>1
    <3>2. ASSUME NEW j \in (1..i) \ absent PROVE j \in indices /\ j <= i
      <4>1. j \in 1..n /\ j <= i
        OBVIOUS
      <4>2. QED
        BY <1>1, <4>1
    <3>3. QED
      BY <3>1, <3>2
  <2> HIDE DEF absent
  <2>2. QED
    BY <2>1 DEF Place
<1> HIDE DEF absent
<1>3. c = Place(absent, n)
  BY <1>1 DEF Place
<1>4. ASSUME NEW k \in 1..c PROVE at(k) \in indices /\ Place(absent, at(k)) = k
  <2>1. PICK i \in (1..n) \ absent : Place(absent, i) = k
    BY <1>3, PlaceReached
  <2>2. i \in indices /\ Cardinality({j \in indices : j <= i}) = k
    BY <1>1, <1>2, <2>1
  <2>3. at(k) \in indices /\ Cardinality({j \in indices : j <= at(k)}) = k
    BY <2>2
  <2> HIDE DEF at
  <2>4. QED
    BY <1>2, <2>3
<1>5. ASSUME NEW i \in indices, NEW j \in indices, i < j
      PROVE  Place(absent, i) < Place(absent, j)
  <2>1. i \in 1..n /\ j \in 1..n /\ j \in Nat \ {0} /\ j - 1 \in Nat /\ i \in 0..j - 1 /\ i \in Nat
    BY <1>5
  <2>2. Place(absent, j - 1) \in Nat /\ Place(absent, j) = Place(absent, j - 1) + 1
    BY <1>1, <2>1, PlaceStep
  <2>3. Place(absent, i) <= Place(absent, j - 1)
    BY <2>1, PlaceGrows
  <2>4. Place(absent, i) \in Nat
    BY <2>1, PlaceIsNat
  <2>5. QED
    BY <2>2, <2>3, <2>4
<1>6. ASSUME NEW i \in indices PROVE \E k \in 1..c : at(k) = i
  <2> DEFINE k == Place(absent, i)
  <2>1. i \in 1..n /\ i \in Nat \ {0} /\ i \in Nat /\ i \in 0..n
    OBVIOUS
  <2>2. k \in Nat /\ k > 0
    <3>1. Place(absent, i - 1) \in Nat /\ k = Place(absent, i - 1) + 1
      BY <1>1, <2>1, PlaceStep
    <3>2. QED
      BY <3>1
  <2>3. k <= c
    BY <1>3, <2>1, PlaceGrows
  <2>4. c \in Nat
    BY <1>3, PlaceIsNat
  <2>5. k \in 1..c
    BY <2>2, <2>3, <2>4
  <2>6. at(k) \in indices /\ Place(absent, at(k)) = k
    BY <1>4, <2>5
  <2>7. PICK j \in indices : j = at(k)
    BY <2>6
  <2>8. ~(i < j) /\ ~(j < i)
    <3>1. Place(absent, j) = k /\ Place(absent, i) = k
      BY <2>6, <2>7
    <3>2. ~(k < k)
      BY <2>2
    <3> HIDE DEF k, at
    <3>3. QED
      BY <1>5, <3>1, <3>2
  <2>9. i \in Nat /\ j \in Nat
    OBVIOUS
  <2>10. i = j
    BY <2>8, <2>9
  <2> HIDE DEF k, at
  <2>11. QED
    BY <2>5, <2>7, <2>10
<1>7. DOMAIN Sublist(s, indices) = 1..c /\ \A k \in 1..c : Sublist(s, indices)[k] = s[at(k)]
  BY DEF Sublist
<1> HIDE DEF at, c
<1> DEFINE t == Sublist(s, indices)
<1>8. ToSet(t) = {t[k] : k \in 1..c}
  BY <1>7 DEF ToSet
<1>9. \A k \in 1..c : t[k] = s[at(k)] /\ at(k) \in indices
  BY <1>4, <1>7
<1> HIDE DEF t
<1>10. ToSet(t) = {s[i] : i \in indices}
  <2>1. ASSUME NEW k \in 1..c PROVE t[k] \in {s[i] : i \in indices}
    BY <1>9
  <2>2. ASSUME NEW i \in indices PROVE s[i] \in {t[k] : k \in 1..c}
    <3>1. PICK k \in 1..c : at(k) = i
      BY <1>6
    <3>2. t[k] = s[i]
      BY <1>9, <3>1
    <3>3. QED
      BY <3>2
  <2>3. QED
    BY <1>8, <2>1, <2>2
<1>11. QED
  BY <1>10 DEF t

\* The instructions of an action, and instructions with more of them.
KeysOfJob(a) == <<ActionDefinitions[a].primary>> \o ActionDefinitions[a].cpi
Extended(keys, more) == keys \o Sublist(more, {i \in DOMAIN more : more[i] \notin ToSet(keys)})

\* What a concatenation has.
LEMMA ConcatHas ==
    ASSUME NEW s, NEW t, List(s), List(t)
    PROVE  ToSet(s \o t) = ToSet(s) \cup ToSet(t)
<1> DEFINE u == s \o t
           m == Len(s)
           n == Len(t)
<1>1. /\ List(u) /\ Len(u) = m + n
      /\ \A i \in 1..m + n : u[i] = IF i <= m THEN s[i] ELSE t[i - m]
  BY Concat
<1>2. /\ m \in Nat /\ n \in Nat /\ ToSet(s) = {s[i] : i \in 1..m} /\ ToSet(t) = {t[i] : i \in 1..n}
      /\ ToSet(u) = {u[i] : i \in 1..m + n}
  BY <1>1, ListIs
<1> HIDE DEF u, m, n
<1>3. ASSUME NEW i \in 1..m PROVE s[i] \in ToSet(u)
  BY <1>1, <1>2
<1>4. ASSUME NEW i \in 1..n PROVE t[i] \in ToSet(u)
  <2>1. m + i \in 1..m + n /\ ~(m + i <= m) /\ (m + i) - m = i
    BY <1>2
  <2>2. u[m + i] = t[i]
    BY <1>1, <2>1
  <2>3. QED
    BY <1>2, <2>1, <2>2
<1>5. ASSUME NEW i \in 1..m + n PROVE u[i] \in ToSet(s) \cup ToSet(t)
  <2>1. CASE i <= m
    BY <1>1, <1>2, <2>1
  <2>2. CASE ~(i <= m)
    <3>1. i - m \in 1..n
      BY <1>2, <2>2
    <3>2. u[i] = t[i - m]
      BY <1>1, <2>2
    <3>3. QED
      BY <1>2, <3>1, <3>2
  <2>3. QED
    BY <2>1, <2>2
<1>6. ToSet(u) = ToSet(s) \cup ToSet(t)
  BY <1>2, <1>3, <1>4, <1>5
<1>7. QED
  BY <1>6 DEF u

\* Each instruction joins once.
LEMMA ExtendedHas ==
    ASSUME NEW keys, NEW more, List(keys), List(more)
    PROVE  /\ List(Extended(keys, more))
           /\ ToSet(Extended(keys, more)) = ToSet(keys) \cup ToSet(more)
<1> DEFINE indices == {i \in DOMAIN more : more[i] \notin ToSet(keys)}
           new == Sublist(more, indices)
<1>1. Len(more) \in Nat /\ DOMAIN more = 1..Len(more) /\ ToSet(more) = {more[i] : i \in 1..Len(more)}
  BY ListIs
<1>2. indices \in SUBSET (1..Len(more))
  BY <1>1
<1>3. ToSet(keys) \cup {more[i] : i \in indices} = ToSet(keys) \cup ToSet(more)
  BY <1>1
<1> HIDE DEF indices
<1>4. List(new) /\ ToSet(new) = {more[i] : i \in indices}
  BY <1>1, <1>2, SublistIsList, SublistHas
<1> HIDE DEF new
<1>5. List(keys \o new) /\ ToSet(keys \o new) = ToSet(keys) \cup ToSet(new)
  BY <1>4, Concat, ConcatHas
<1>6. Extended(keys, more) = keys \o new
  BY DEF Extended, new, indices
<1>7. QED
  BY <1>3, <1>4, <1>5, <1>6

\* The instructions of an action are listed.
LEMMA NamedHas ==
    ASSUME NEW a \in Actions
    PROVE  /\ List(KeysOfJob(a))
           /\ ToSet(KeysOfJob(a)) = {ActionDefinitions[a].primary} \cup ToSet(ActionDefinitions[a].cpi)
<1> DEFINE p == ActionDefinitions[a].primary
           cpi == ActionDefinitions[a].cpi
<1>1. cpi = <<>> \/ \E b, c : cpi = <<b, c>>
  BY ActionFacts
<1> HIDE DEF cpi, p
<1>2. List(cpi)
  BY <1>1, Shorts
<1>3. List(<<p>>) /\ Len(<<p>>) = 1 /\ <<p>>[1] = p
  BY Shorts
<1>4. ToSet(<<p>>) = {p}
  <2>1. ToSet(<<p>>) = {<<p>>[i] : i \in 1..1}
    BY <1>3, ListIs
  <2>2. QED
    BY <1>3, <2>1
<1>5. List(<<p>> \o cpi) /\ ToSet(<<p>> \o cpi) = {p} \cup ToSet(cpi)
  BY <1>2, <1>3, <1>4, Concat, ConcatHas
<1>6. QED
  BY <1>5 DEF KeysOfJob, p, cpi

\* The order of the actions has each of them.
LEMMA ActionOrderHas == List(ActionOrder) /\ ToSet(ActionOrder) = Actions
<1>1. ActionOrder \in Seq(Actions)
  BY DEF ActionOrder, Actions, ActionDefinitions
<1>2. List(ActionOrder)
  BY <1>1, InSeq
<1>3. ASSUME NEW a \in Actions PROVE \E i \in 1..18 : ActionOrder[i] = a
  BY DEF ActionOrder, Actions, ActionDefinitions
<1>4. Len(ActionOrder) = 18
  BY DEF ActionOrder
<1>5. ToSet(ActionOrder) = {ActionOrder[i] : i \in 1..18}
  BY <1>2, <1>4, ListIs
<1>6. \A i \in 1..18 : ActionOrder[i] \in Actions
  BY <1>1, <1>4, ElementOfSeq
<1>7. QED
  BY <1>2, <1>3, <1>5, <1>6

\* The order of the instructions has each of them.
LEMMA InstructionOrderHas == List(InstructionOrder) /\ ToSet(InstructionOrder) = InstructionKeys
<1> DEFINE n == Len(ActionOrder)
           After(keys, i) == Extended(keys, KeysOfJob(ActionOrder[i]))
           Is(f, m) == f = [i \in 0..m |-> IF i = 0 THEN <<>> ELSE After(f[i - 1], i)]
           T == {m \in 0..n : \E f : Is(f, m)}
           added == CHOOSE f : Is(f, n)
<1>1. n \in Nat /\ ToSet(ActionOrder) = {ActionOrder[i] : i \in 1..n}
  BY ActionOrderHas, ListIs
<1>0. InstructionOrder = added[n]
  BY DEF InstructionOrder, Extended, KeysOfJob
<1>1a. \A i \in 1..n : ActionOrder[i] \in Actions
  BY <1>1, ActionOrderHas
<1> HIDE DEF n
<1>2. 0 \in T
  <2> DEFINE g == [i \in 0..0 |-> <<>>]
  <2>1. Is(g, 0)
    OBVIOUS
  <2> HIDE DEF Is, g
  <2>2. QED
    BY <1>1, <2>1
<1>3. ASSUME NEW m \in 1..n, m - 1 \in T PROVE m \in T
  <2>1. PICK f : Is(f, m - 1)
    BY <1>3
  <2> DEFINE g == [i \in 0..m |-> IF i = m THEN After(f[m - 1], m) ELSE f[i]]
  <2>2. ASSUME NEW i \in 0..m
        PROVE  g[i] = IF i = 0 THEN <<>> ELSE After(g[i - 1], i)
    <3>1. CASE i = 0
      <4>1. g[0] = f[0] /\ 0 \in 0..m - 1
        BY <1>1
      <4>2. f[0] = <<>>
        BY <2>1, <4>1
      <4>3. QED
        BY <3>1, <4>1, <4>2
    <3>2. CASE i # 0
      <4>1. i - 1 \in 0..m - 1 /\ i - 1 \in 0..m /\ i - 1 # m
        BY <1>1, <3>2
      <4>2. g[i - 1] = f[i - 1]
        BY <4>1
      <4>3. CASE i = m
        <5>1. g[i] = After(f[i - 1], i)
          BY <4>3
        <5> HIDE DEF g
        <5>2. QED
          BY <3>2, <4>2, <5>1
      <4>4. CASE i # m
        <5>1. i \in 0..m - 1 /\ g[i] = f[i]
          BY <1>1, <4>4
        <5>2. f[i] = After(f[i - 1], i)
          BY <2>1, <3>2, <5>1
        <5> HIDE DEF g
        <5>3. QED
          BY <3>2, <4>2, <5>1, <5>2
      <4>5. QED
        BY <4>3, <4>4
    <3>3. QED
      BY <3>1, <3>2
  <2>3. g = [i \in 0..m |-> g[i]]
    OBVIOUS
  <2>4. Is(g, m)
    <3> HIDE DEF g
    <3>1. QED
      BY <2>2, <2>3
  <2> HIDE DEF Is, g
  <2>5. QED
    BY <2>4
<1>4. \A m \in 0..n : m \in T
  <2> HIDE DEF T
  <2>1. n \in Nat
    BY <1>1
  <2>2. QED
    BY <1>2, <1>3, <2>1, Upwards
<1>5. Is(added, n)
  <2>1. \E f : Is(f, n)
    <3>1. n \in T
      BY <1>1, <1>4
    <3> HIDE DEF Is
    <3>2. QED
      BY <3>1
  <2> HIDE DEF Is
  <2>2. QED
    BY <2>1
<1>7. added[0] = <<>> /\ \A i \in 1..n : added[i] = After(added[i - 1], i)
  <2>1. 0 \in 0..n /\ \A i \in 1..n : i \in 0..n /\ i # 0
    BY <1>1
  <2>2. \A i \in 0..n : added[i] = IF i = 0 THEN <<>> ELSE After(added[i - 1], i)
    <3> HIDE DEF added
    <3>1. QED
      BY <1>5
  <2> HIDE DEF added
  <2>3. QED
    BY <2>1, <2>2
<1> HIDE DEF added, Is, T
<1> DEFINE of(i) == {ActionDefinitions[ActionOrder[i]].primary}
                    \cup ToSet(ActionDefinitions[ActionOrder[i]].cpi)
           upTo(m) == UNION {of(i) : i \in 1..m}
           Right(keys, m) == List(keys) /\ ToSet(keys) = upTo(m)
           S == {m \in 0..n : Right(added[m], m)}
<1>8. 0 \in S
  <2>1. List(<<>>) /\ Len(<<>>) = 0
    BY Shorts
  <2>2. ToSet(<<>>) = {<<>>[i] : i \in 1..0}
    BY <2>1, ListIs
  <2>3. upTo(0) = {} /\ ToSet(<<>>) = {}
    <3> HIDE DEF of
    <3>1. QED
      BY <2>2
  <2> HIDE DEF upTo
  <2>4. Right(<<>>, 0)
    BY <2>1, <2>3
  <2> HIDE DEF Right
  <2>5. 0 \in 0..n /\ added[0] = <<>>
    BY <1>1, <1>7
  <2>6. Right(added[0], 0)
    BY <2>4, <2>5
  <2>7. QED
    BY <2>5, <2>6
<1>9. ASSUME NEW m \in 1..n, m - 1 \in S PROVE m \in S
  <2> DEFINE keys == added[m - 1]
             more == KeysOfJob(ActionOrder[m])
  <2>1. Right(keys, m - 1)
    BY <1>9
  <2>2. List(more) /\ ToSet(more) = of(m)
    BY <1>1a, NamedHas
  <2>3. upTo(m) = upTo(m - 1) \cup of(m)
    <3>1. \A i : i \in 1..m <=> i \in 1..m - 1 \/ i = m
      BY <1>1
    <3> HIDE DEF of
    <3>2. QED
      BY <3>1
  <2>4. added[m] = Extended(keys, more) /\ m \in 0..n
    BY <1>1, <1>7
  <2> HIDE DEF keys, more, S, of, upTo
  <2>5. List(Extended(keys, more)) /\ ToSet(Extended(keys, more)) = ToSet(keys) \cup ToSet(more)
    BY <2>1, <2>2, ExtendedHas
  <2>6. Right(added[m], m)
    BY <2>1, <2>2, <2>3, <2>4, <2>5
  <2>7. QED
    BY <2>4, <2>6 DEF S
<1>10. \A m \in 0..n : m \in S
  <2> HIDE DEF S
  <2>1. QED
    BY <1>1, <1>8, <1>9, Upwards
<1>11. Right(added[n], n)
  <2>1. n \in 0..n
    BY <1>1
  <2>2. n \in S
    <3> HIDE DEF S
    <3>1. QED
      BY <1>10, <2>1
  <2>3. QED
    BY <2>2
<1>12. upTo(n) = InstructionKeys
  <2>1. Actions = {ActionOrder[i] : i \in 1..n}
    BY <1>1, ActionOrderHas
  <2>2. QED
    BY <2>1 DEF InstructionKeys
<1> HIDE DEF upTo
<1>13. QED
  BY <1>0, <1>11, <1>12

\* Every account with seeds has a recipe that stands for it, under a key of its own.
LEMMA RecipeFound ==
    ASSUME NEW l \in Made, NEW k \in InstructionKeys, NEW a \in ToSet(Flat(l, k)), a.seeds # <<>>
    PROVE  LET R == Recipes(Contracts[l], IdlsOf[l]) IN
           \E r \in ToSet(R) :
              /\ <<k, a.name>> \in r.usages /\ r.seeds = Seeds(l, k, a)
              /\ r.id = IdlsOf[l][k[1]].address
              /\ \A q \in ToSet(R) : q.key = r.key => q = r
<1> DEFINE R == Recipes(Contracts[l], IdlsOf[l])
           n == Len(InstructionOrder)
           u == <<k, a.name>>
<1>1. n \in Nat /\ InstructionKeys = {InstructionOrder[i] : i \in 1..n}
  BY InstructionOrderHas, ListIs
<1> HIDE DEF R, n
<1>2. PICK used :
        /\ Held(l, R, used)
        /\ \A i \in 1..n : \A b \in ToSet(Flat(l, InstructionOrder[i])) :
                b.seeds # <<>> => <<InstructionOrder[i], b.name>> \in used
  <2>1. n = Len(InstructionOrder) /\ \A i \in 1..n : InstructionOrder[i] \in InstructionKeys
    BY <1>1 DEF n
  <2>2. QED
    BY <1>1, <2>1, RecipesHeld DEF R
<1>3. u \in used
  <2>1. PICK i \in 1..n : k = InstructionOrder[i]
    BY <1>1
  <2>2. QED
    BY <1>2, <2>1
<1>4. PICK i \in 1..Len(R) : u \in R[i].usages
  BY <1>2, <1>3 DEF Held
<1>5. /\ \A j \in 1..Len(R) : R[i].key = R[j].key => i = j
      /\ RecipeIs(l, R[i]) /\ List(R)
  BY <1>2, <1>4 DEF Held
<1>6. ToSet(R) = {R[j] : j \in 1..Len(R)}
  BY <1>5, ListIs
<1>7. PICK m \in InstructionKeys : \E b \in ToSet(Flat(l, m)) :
        u = <<m, b.name>> /\ R[i].seeds = Seeds(l, m, b) /\ R[i].id = IdlsOf[l][m[1]].address
  BY <1>4, <1>5 DEF RecipeIs, Stands
<1>8. PICK b \in ToSet(Flat(l, m)) :
        u = <<m, b.name>> /\ R[i].seeds = Seeds(l, m, b) /\ R[i].id = IdlsOf[l][m[1]].address
  BY <1>7
<1>9. m = k /\ b.name = a.name
  BY <1>8, KeysApart
<1>10. b = a
  BY <1>8, <1>9, OneAccount
<1>11. R[i] \in ToSet(R) /\ \A q \in ToSet(R) : q.key = R[i].key => q = R[i]
  BY <1>4, <1>5, <1>6
<1>12. R[i].seeds = Seeds(l, k, a) /\ R[i].id = IdlsOf[l][k[1]].address
  BY <1>8, <1>9, <1>10
<1> HIDE DEF u
<1>13. QED
  BY <1>4, <1>11, <1>12 DEF R, u

\* The manifest of a contract has the recipes of its accounts, each of whose seeds
\* has a form in a recipe.
LEMMA ManifestIs ==
    ASSUME NEW l \in Made
    PROVE  /\ Manifests[l].recipes = Recipes(Contracts[l], IdlsOf[l])
           /\ \A k \in InstructionKeys : \A a \in ToSet(Flat(l, k)) : \A s \in ToSet(a.seeds) :
                NormalizeSeed(IdlsOf[l][k[1]], IdlsOf[l][k[1]].instructions[k[2]], s) # {}
<1> DEFINE lock == Locks[l]
           contract == Contracts[l]
           idls == IdlsOf[l]
           ix(k) == idls[k[1]].instructions[k[2]]
           flat(k) == FlattenAccounts(ix(k).accounts)
           listed(k) == FlattenSeq([i \in DOMAIN flat(k) |->
            SetToSeq({[key |-> k, account |-> flat(k)[i].name, address |-> address] :
                      address \in StaticAddress(contract, k, flat(k)[i])})])
           sound(k) == \A a \in ToSet(flat(k)) :
            /\ \A s \in ToSet(a.seeds) : NormalizeSeed(idls[k[1]], ix(k), s) # {}
            /\ a.name = "delegated_program" => Cardinality(StaticAddress(contract, k, a)) = 1
           programs == [i \in DOMAIN lock.programs |->
                   [name |-> lock.programs[i].name, id |-> lock.programs[i].id,
                    idl |-> lock.programs[i].idl]]
           all == FlattenSeq([i \in DOMAIN InstructionOrder |-> listed(InstructionOrder[i])])
           recipes == Recipes(contract, idls)
           made == [schema |-> 1, revision |-> lock.revision, programs |-> programs,
                    static |-> all, recipes |-> recipes]
           checked == \A k \in DOMAIN contract.instructions : sound(k)
           results == BuildResolutionManifest(lock, contract, idls)
<1>1. results = IF checked THEN {made} ELSE {}
  BY DEF BuildResolutionManifest
<1>2. results # {}
  BY ManifestAssumption
<1>3. DOMAIN contract.instructions = InstructionKeys
  BY ContractIs
<1>4. Manifests[l] = CHOOSE r \in results : TRUE
  BY DEF Manifests, Only
<1>5. made.recipes = recipes
  <2> HIDE DEF programs, all, recipes
  <2>1. QED
    OBVIOUS
<1>6. checked => \A k \in InstructionKeys : \A a \in ToSet(flat(k)) : \A s \in ToSet(a.seeds) :
        NormalizeSeed(idls[k[1]], ix(k), s) # {}
  BY <1>3
<1> HIDE DEF made, checked, results
<1>7. Manifests[l] = made /\ checked
  BY <1>1, <1>2, <1>4
<1>8. Manifests[l].recipes = Recipes(Contracts[l], IdlsOf[l])
  BY <1>5, <1>7
<1>9. QED
  BY <1>6, <1>7, <1>8 DEF Flat

\* The constructor of the resolver has looked at every recipe.
LEMMA ResolverIs ==
    ASSUME NEW lock, NEW contract, NEW manifest, ConstructResolver(lock, contract, manifest) = "ok"
    PROVE  \A r \in ToSet(manifest.recipes) : RecipeSound(contract, manifest, r)
BY DEF ConstructResolver, Refuse

\* There are three encodings of a seed.
LEMMA EncodingIs ==
    ASSUME NEW idl, NEW ix, NEW seed, NEW e \in SeedEncoding(idl, ix, seed)
    PROVE  e \in {"pubkey", "bytes32", "u64_le"}
BY DEF SeedEncoding

\* A seed of a recipe has what the seed of the account has.
LEMMA SeedIs ==
    ASSUME NEW idl, NEW ix, NEW s, NormalizeSeed(idl, ix, s) # {}, NEW q,
           q = CHOOSE r \in NormalizeSeed(idl, ix, s) : TRUE
    PROVE  /\ s.kind = "const" => q.kind = "const" /\ q.bytes = s.bytes
           /\ s.kind # "const" =>
                /\ q.kind = "input" /\ q.name = InputNames[s.path] /\ s.path \in DOMAIN InputNames
                /\ q.encoding \in SeedEncoding(idl, ix, s)
<1>1. q \in NormalizeSeed(idl, ix, s)
  OBVIOUS
<1>2. CASE s.kind = "const"
  <2> DEFINE made == [kind |-> "const", bytes |-> s.bytes, name |-> "", encoding |-> ""]
  <2>1. NormalizeSeed(idl, ix, s) = IF Len(s.bytes) \in 1..32 THEN {made} ELSE {}
    BY <1>2 DEF NormalizeSeed
  <2>2. made.kind = "const" /\ made.bytes = s.bytes
    OBVIOUS
  <2> HIDE DEF made
  <2>3. q = made
    BY <1>1, <2>1
  <2>4. QED
    BY <1>2, <2>2, <2>3
<1>3. CASE s.kind # "const"
  <2> DEFINE made(e) == [kind |-> "input", bytes |-> <<>>, name |-> InputNames[s.path], encoding |-> e]
             some == SeedEncoding(idl, ix, s)
  <2>1. NormalizeSeed(idl, ix, s) =
          IF s.path \notin DOMAIN InputNames THEN {} ELSE {made(e) : e \in some}
    BY <1>3 DEF NormalizeSeed
  <2>2. \A e : /\ made(e).kind = "input" /\ made(e).name = InputNames[s.path]
               /\ made(e).encoding = e
    OBVIOUS
  <2> HIDE DEF made, some
  <2>3. s.path \in DOMAIN InputNames /\ q \in {made(e) : e \in some}
    BY <1>1, <2>1
  <2>4. PICK e \in some : q = made(e)
    BY <2>3
  <2>5. q.kind = "input" /\ q.name = InputNames[s.path] /\ q.encoding \in some
    BY <2>2, <2>4
  <2>6. QED
    BY <1>3, <2>3, <2>5 DEF some
<1>4. QED
  BY <1>2, <1>3


\* The seeds q of a recipe have what those of an account have, and the inputs
\* among them have names of their own.
Match(s, q, n, idl, ix) ==
    /\ DOMAIN s = 1..n /\ DOMAIN q = 1..n
    /\ ToSet(s) = {s[i] : i \in 1..n} /\ ToSet(q) = {q[i] : i \in 1..n}
    /\ \A i \in 1..n :
        \/ s[i].kind = "const" /\ q[i].kind = "const" /\ q[i].bytes = s[i].bytes
        \/ /\ s[i].kind # "const" /\ q[i].kind = "input" /\ s[i].path \in DOMAIN InputNames
           /\ q[i].name = InputNames[s[i].path] /\ q[i].encoding \in SeedEncoding(idl, ix, s[i])
    /\ \A i, j \in 1..n :
        q[i].kind = "input" /\ q[j].kind = "input" /\ q[i].name = q[j].name => i = j

\* The seeds of an account match those of its recipe.
LEMMA SeedsMatch ==
    ASSUME NEW l \in Made, NEW k \in InstructionKeys, NEW a \in ToSet(Flat(l, k)),
           NEW contract, NEW manifest, NEW r, r.seeds = Seeds(l, k, a),
           RecipeSound(contract, manifest, r)
    PROVE  \E n \in Nat :
              Match(a.seeds, r.seeds, n, IdlsOf[l][k[1]], IdlsOf[l][k[1]].instructions[k[2]])
<1> DEFINE idl == IdlsOf[l][k[1]]
           ix == idl.instructions[k[2]]
           s == a.seeds
           q == Seeds(l, k, a)
           n == Len(s)
           norm(i) == NormalizeSeed(idl, ix, s[i])
<1>1. List(s)
  BY ManifestAssumption DEF Flat, List
<1>2. n \in Nat /\ DOMAIN s = 1..n /\ ToSet(s) = {s[i] : i \in 1..n}
  BY <1>1, ListIs
<1>3. q = [i \in 1..n |-> CHOOSE t \in norm(i) : TRUE]
  BY <1>2 DEF Seeds
<1>4. DOMAIN q = 1..n /\ \A i \in 1..n : q[i] = CHOOSE t \in norm(i) : TRUE
  <2> HIDE DEF q, norm, n
  <2>1. QED
    BY <1>3
<1>5. ToSet(q) = {q[i] : i \in 1..n}
  BY <1>4 DEF ToSet
<1>6. \A i \in 1..n : norm(i) # {}
  BY <1>2, ManifestIs
<1>7. ASSUME NEW i \in 1..n
      PROVE  \/ s[i].kind = "const" /\ q[i].kind = "const" /\ q[i].bytes = s[i].bytes
             \/ /\ s[i].kind # "const" /\ q[i].kind = "input" /\ s[i].path \in DOMAIN InputNames
                /\ q[i].name = InputNames[s[i].path] /\ q[i].encoding \in SeedEncoding(idl, ix, s[i])
  <2>1. NormalizeSeed(idl, ix, s[i]) # {} /\ q[i] = CHOOSE t \in NormalizeSeed(idl, ix, s[i]) : TRUE
    BY <1>4, <1>6
  <2> HIDE DEF q, idl, ix, s
  <2>2. /\ s[i].kind = "const" => q[i].kind = "const" /\ q[i].bytes = s[i].bytes
        /\ s[i].kind # "const" =>
             /\ q[i].kind = "input" /\ q[i].name = InputNames[s[i].path]
             /\ s[i].path \in DOMAIN InputNames /\ q[i].encoding \in SeedEncoding(idl, ix, s[i])
    BY <2>1, SeedIs
  <2>3. QED
    BY <2>2
<1>8. r.seeds = q
  OBVIOUS
<1>9. ~\E i, j \in DOMAIN r.seeds :
            /\ i < j /\ r.seeds[i].name = r.seeds[j].name
            /\ r.seeds[i].kind = "input" /\ r.seeds[j].kind = "input"
  BY DEF RecipeSound
<1> HIDE DEF q, idl, ix, s, n, norm
<1>10. ASSUME NEW i \in 1..n, NEW j \in 1..n, q[i].kind = "input", q[j].kind = "input",
              q[i].name = q[j].name
       PROVE  i = j
  <2>1. ~(i < j) /\ ~(j < i)
    BY <1>4, <1>8, <1>9, <1>10
  <2>2. QED
    BY <1>2, <2>1
<1>11. Match(s, q, n, idl, ix)
  BY <1>2, <1>4, <1>5, <1>7, <1>10 DEF Match
<1>12. QED
  BY <1>2, <1>8, <1>11 DEF s, idl, ix

\* What a recipe calls its inputs.
NamesOf(q, n) == {q[i].name : i \in {j \in 1..n : q[j].kind = "input"}}

\* They are given as what the paths of the account's seeds stand for.
Given(inputs, s, q, n, named) ==
    /\ DOMAIN inputs = NamesOf(q, n) /\ inputs = [m \in NamesOf(q, n) |-> inputs[m]]
    /\ NamesOf(q, n) \subseteq {InputNames[p] : p \in DOMAIN InputNames}
    /\ \A i \in 1..n : q[i].kind = "input" => inputs[q[i].name] = named[s[i].path]

\* The inputs of an account are those that its recipe names, with the values that
\* their paths stand for.
LEMMA InputsAre ==
    ASSUME NEW a, NEW q, NEW n \in Nat, NEW idl, NEW ix, NEW named, Match(a.seeds, q, n, idl, ix)
    PROVE  Given(InputsFor(a, named), a.seeds, q, n, named)
<1> DEFINE s == a.seeds
           inputs == InputsFor(a, named)
           held == {j \in 1..n : q[j].kind = "input"}
           names == {q[i].name : i \in held}
           paths == {t.path : t \in {u \in ToSet(s) : u.kind # "const"}}
           called == {InputNames[p] : p \in paths}
<1>1. inputs = [m \in called |-> named[CHOOSE p \in paths : InputNames[p] = m]]
  BY DEF InputsFor
<1>2. ToSet(s) = {s[i] : i \in 1..n}
  BY DEF Match
<1>3. \A i \in 1..n :
        \/ s[i].kind = "const" /\ q[i].kind = "const"
        \/ /\ s[i].kind # "const" /\ q[i].kind = "input" /\ s[i].path \in DOMAIN InputNames
           /\ q[i].name = InputNames[s[i].path]
  BY DEF Match
<1>4. \A i, j \in 1..n :
        q[i].kind = "input" /\ q[j].kind = "input" /\ q[i].name = q[j].name => i = j
  BY DEF Match
<1> HIDE DEF s, inputs
<1>5. \A i \in 1..n : (i \in held <=> s[i].kind # "const")
  BY <1>3
<1>6. \A i \in held : q[i].name = InputNames[s[i].path] /\ s[i].path \in DOMAIN InputNames
  BY <1>3
<1>7. paths = {s[i].path : i \in held}
  <2>1. ASSUME NEW p \in paths PROVE \E i \in held : p = s[i].path
    <3>1. PICK t \in ToSet(s) : t.kind # "const" /\ p = t.path
      OBVIOUS
    <3>2. PICK i \in 1..n : t = s[i]
      BY <1>2
    <3>3. QED
      BY <1>5, <3>1, <3>2
  <2>2. ASSUME NEW i \in held PROVE s[i].path \in paths
    <3>1. s[i] \in ToSet(s) /\ s[i].kind # "const"
      BY <1>2, <1>5
    <3>2. QED
      BY <3>1
  <2>3. QED
    BY <2>1, <2>2
<1> HIDE DEF held, paths
<1>8. called = names
  BY <1>6, <1>7
<1>9. ASSUME NEW i \in held PROVE inputs[q[i].name] = named[s[i].path]
  <2> DEFINE m == q[i].name
             p == CHOOSE x \in paths : InputNames[x] = m
  <2>1. s[i].path \in paths /\ InputNames[s[i].path] = m /\ m \in called
    BY <1>6, <1>7
  <2>2. p \in paths /\ InputNames[p] = m
    <3> HIDE DEF m
    <3>1. QED
      BY <2>1
  <2> HIDE DEF p
  <2>3. PICK j \in held : p = s[j].path
    BY <1>7, <2>2
  <2>4. q[j].name = m
    BY <1>6, <2>2, <2>3
  <2>5. i = j
    BY <1>4, <2>4 DEF held
  <2>6. inputs[m] = named[p]
    BY <1>1, <2>1 DEF p
  <2>7. QED
    BY <2>3, <2>5, <2>6
<1>10. DOMAIN inputs = names /\ inputs = [m \in names |-> inputs[m]]
  <2> HIDE DEF called, names
  <2>1. QED
    BY <1>1, <1>8
<1>11. names \subseteq {InputNames[p] : p \in DOMAIN InputNames}
  BY <1>6
<1>12. QED
  <2>1. names = NamesOf(q, n)
    BY DEF NamesOf, held
  <2>2. Given(inputs, s, q, n, named)
    <3> HIDE DEF names
    <3>1. QED
      BY <1>9, <1>10, <1>11, <2>1 DEF Given, held
  <2>3. QED
    BY <2>2 DEF s, inputs

\* What the recipe of a key is asked for, and what its inputs are called.
Wants(manifest, key, r, q, n, names) ==
    /\ r \in ToSet(manifest.recipes) /\ r.key = key /\ r.seeds = q
    /\ \A t \in ToSet(manifest.recipes) : t.key = key => t = r
    /\ DOMAIN q = 1..n /\ ToSet(q) = {q[i] : i \in 1..n}
    /\ \A i \in 1..n : q[i].kind = "const" \/ q[i].kind = "input"
    /\ names = {q[i].name : i \in {j \in 1..n : q[j].kind = "input"}}

\* The names of a recipe, and the only recipe of its key.
LEMMA RecipeOf ==
    ASSUME NEW manifest, NEW key, NEW r, NEW q, NEW n \in Nat, NEW names,
           Wants(manifest, key, r, q, n, names)
    PROVE  /\ (CHOOSE t \in ToSet(manifest.recipes) : t.key = key) = r
           /\ {s.name : s \in {t \in ToSet(q) : t.kind = "input"}} = names
<1>1. /\ r \in ToSet(manifest.recipes) /\ r.key = key
      /\ \A t \in ToSet(manifest.recipes) : t.key = key => t = r
      /\ ToSet(q) = {q[i] : i \in 1..n}
      /\ names = {q[i].name : i \in {j \in 1..n : q[j].kind = "input"}}
  BY DEF Wants
<1>2. (CHOOSE t \in ToSet(manifest.recipes) : t.key = key) = r
  BY <1>1
<1>3. {s.name : s \in {t \in ToSet(q) : t.kind = "input"}} = names
  BY <1>1
<1>4. QED
  BY <1>2, <1>3

\* Inputs are accepted when they are called what the recipe calls them.
LEMMA InputsChecked ==
    ASSUME NEW manifest, NEW key, NEW r, NEW q, NEW n \in Nat, NEW names, NEW inputs,
           Wants(manifest, key, r, q, n, names)
    PROVE  /\ DOMAIN inputs = names => CheckInputs(manifest, key, inputs) = "ok"
           /\ names \subseteq DOMAIN inputs /\ ~DOMAIN inputs \subseteq names =>
                CheckInputs(manifest, key, inputs) = "unexpected_input"
<1> DEFINE recipe == CHOOSE t \in ToSet(manifest.recipes) : t.key = key
           held(x) == {s.name : s \in {t \in ToSet(x) : t.kind = "input"}}
<1>1. recipe = r /\ held(q) = names
  BY RecipeOf
<1>2. r \in ToSet(manifest.recipes) /\ r.key = key /\ r.seeds = q
  BY DEF Wants
<1>3. CheckInputs(manifest, key, inputs) =
        Refuse(\A t \in ToSet(manifest.recipes) : t.key # key, "unknown_recipe")
        ++ Refuse(~held(recipe.seeds) \subseteq DOMAIN inputs, "missing_input")
        ++ Refuse(~DOMAIN inputs \subseteq held(recipe.seeds), "unexpected_input")
  BY DEF CheckInputs
<1> HIDE DEF recipe, held
<1>4. CheckInputs(manifest, key, inputs) =
        "ok" ++ Refuse(~names \subseteq DOMAIN inputs, "missing_input")
        ++ Refuse(~DOMAIN inputs \subseteq names, "unexpected_input")
  BY <1>1, <1>2, <1>3 DEF Refuse
<1>5. QED
  BY <1>4 DEF Refuse, ++

\* The seeds of an address: the constants and inputs of a recipe.
SeedsOf(q, n, inputs) ==
    [i \in 1..n |-> IF q[i].kind = "const" THEN q[i].bytes
                    ELSE IF inputs[q[i].name].form = "decimal" THEN U64(inputs[q[i].name].n)
                    ELSE inputs[q[i].name].bytes]

\* With inputs of the types that the recipe asks for, the address is that of its
\* constants and inputs.
LEMMA RecipeDerives ==
    ASSUME NEW manifest, NEW key, NEW r, NEW q, NEW n \in Nat, NEW names, NEW inputs,
           Wants(manifest, key, r, q, n, names),
           \A i, j \in 1..n : q[i].kind = "input" /\ q[j].kind = "input" /\ q[i].name = q[j].name => i = j,
           DOMAIN inputs = names,
           \A i \in 1..n : q[i].kind = "input" =>
               /\ q[i].encoding \in {"pubkey", "bytes32", "u64_le"}
               /\ SeedParses(q[i].encoding, inputs[q[i].name])
    PROVE  DerivePdaStrings(manifest, key, inputs) =
             FindProgramAddress(SeedsOf(q, n, inputs), r.id)
<1> DEFINE recipe == CHOOSE t \in ToSet(manifest.recipes) : t.key = key
           encodingOf(x, name) == (CHOOSE s \in ToSet(x.seeds) : s.kind = "input" /\ s.name = name).encoding
           encoding == [name \in DOMAIN inputs |-> encodingOf(recipe, name)]
           typed == [name \in DOMAIN inputs |->
                [encoding |-> encoding[name], n |-> inputs[name].n, bytes |-> inputs[name].bytes]]
           held == {j \in 1..n : q[j].kind = "input"}
           own(i) == IF q[i].kind = "const" THEN q[i].bytes
                     ELSE IF inputs[q[i].name].form = "decimal" THEN U64(inputs[q[i].name].n)
                     ELSE inputs[q[i].name].bytes
<1>1. recipe = r /\ r.seeds = q /\ DOMAIN q = 1..n /\ ToSet(q) = {q[i] : i \in 1..n}
  BY RecipeOf DEF Wants
<1>2. names = {q[i].name : i \in held} /\ \A i \in 1..n : q[i].kind = "const" \/ q[i].kind = "input"
  BY DEF Wants
<1>3. ASSUME NEW i \in held PROVE q[i].name \in names /\ encoding[q[i].name] = q[i].encoding
  <2> DEFINE m == q[i].name
             s == CHOOSE t \in ToSet(q) : t.kind = "input" /\ t.name = m
  <2>1. m \in names
    BY <1>2
  <2>2. q[i] \in ToSet(q) /\ q[i].kind = "input" /\ q[i].name = m
    BY <1>1
  <2>3. s \in ToSet(q) /\ s.kind = "input" /\ s.name = m
    <3> HIDE DEF m
    <3>1. QED
      BY <2>2
  <2>4. encoding[m] = s.encoding
    <3> HIDE DEF m
    <3>1. encoding[m] = encodingOf(recipe, m)
      BY <2>1
    <3>2. QED
      BY <1>1, <3>1
  <2> HIDE DEF s, encoding
  <2>5. PICK j \in 1..n : s = q[j]
    BY <1>1, <2>3
  <2>6. i = j
    BY <2>3, <2>5
  <2>7. QED
    BY <2>1, <2>4, <2>5, <2>6
<1>4. \A m \in DOMAIN inputs : SeedParses(encoding[m], inputs[m])
  <2> HIDE DEF encoding
  <2>1. SUFFICES ASSUME NEW m \in names PROVE SeedParses(encoding[m], inputs[m])
    OBVIOUS
  <2>2. PICK i \in held : m = q[i].name
    BY <1>2, <2>1
  <2>3. QED
    BY <1>3, <2>2
<1>5. /\ DOMAIN typed = names
      /\ \A i \in held : /\ typed[q[i].name].encoding = q[i].encoding
                         /\ typed[q[i].name].n = inputs[q[i].name].n
                         /\ typed[q[i].name].bytes = inputs[q[i].name].bytes
  <2>1. DOMAIN typed = names
    OBVIOUS
  <2>2. ASSUME NEW m \in names
        PROVE  typed[m].encoding = encoding[m] /\ typed[m].n = inputs[m].n /\ typed[m].bytes = inputs[m].bytes
    <3> HIDE DEF encoding
    <3>1. QED
      OBVIOUS
  <2> HIDE DEF encoding, typed
  <2>3. QED
    BY <1>3, <2>1, <2>2
<1>6. CheckInputs(manifest, key, inputs) = "ok" /\ CheckInputs(manifest, key, typed) = "ok"
  BY <1>5, InputsChecked
<1>7. DerivePdaStrings(manifest, key, inputs) = DerivePda(manifest, key, typed)
  <2> DEFINE refused == \E m \in DOMAIN inputs : ~SeedParses(encoding[m], inputs[m])
             code == CheckInputs(manifest, key, inputs) ++ Refuse(refused, "invalid_seed_value")
  <2>1. DerivePdaStrings(manifest, key, inputs) =
          IF code = "ok" THEN DerivePda(manifest, key, typed)
          ELSE [code |-> code, address |-> <<>>, bump |-> 0]
    BY DEF DerivePdaStrings
  <2>2. ~refused
    BY <1>4
  <2> HIDE DEF refused, typed
  <2>3. code = "ok"
    BY <1>6, <2>2 DEF Refuse, ++
  <2>4. QED
    BY <2>1, <2>3
<1> HIDE DEF recipe, encoding, typed
<1>8. ASSUME NEW i \in held
      PROVE  SeedFits(q[i].encoding, typed[q[i].name]) /\ SeedBytes(typed[q[i].name]) = own(i)
  <2> DEFINE e == q[i].encoding
             v == inputs[q[i].name]
             t == typed[q[i].name]
  <2>1. e \in {"pubkey", "bytes32", "u64_le"} /\ SeedParses(e, v) /\ q[i].kind # "const"
    OBVIOUS
  <2>2. t.encoding = e /\ t.n = v.n /\ t.bytes = v.bytes
    BY <1>5
  <2>3. own(i) = IF v.form = "decimal" THEN U64(v.n) ELSE v.bytes
    BY <2>1
  <2> HIDE DEF e, v, t, own
  <2>4. CASE e = "u64_le"
    BY <2>1, <2>2, <2>3, <2>4 DEF SeedFits, SeedBytes, SeedParses, e, t
  <2>5. CASE e # "u64_le"
    <3>1. Len(v.bytes) = 32 /\ v.form # "decimal"
      BY <2>1, <2>5 DEF SeedParses
    <3>2. QED
      BY <2>2, <2>3, <2>5, <3>1 DEF SeedFits, SeedBytes, e, t
  <2>6. QED
    BY <2>4, <2>5
<1>9. DerivePda(manifest, key, typed) = FindProgramAddress([i \in 1..n |-> own(i)], r.id)
  <2> DEFINE bad(x) == \E s \in ToSet(x.seeds) : s.kind = "input" /\ ~SeedFits(s.encoding, typed[s.name])
             code(x) == CheckInputs(manifest, key, typed) ++ Refuse(bad(x), "invalid_seed_value")
             seeds(x) == [i \in DOMAIN x.seeds |->
                IF x.seeds[i].kind = "const" THEN x.seeds[i].bytes
                ELSE SeedBytes(typed[x.seeds[i].name])]
  <2>1. DerivePda(manifest, key, typed) =
          IF code(recipe) = "ok" THEN FindProgramAddress(seeds(recipe), recipe.id)
          ELSE [code |-> code(recipe), address |-> <<>>, bump |-> 0]
    BY DEF DerivePda, recipe
  <2>2. ~bad(r)
    <3>1. SUFFICES ASSUME NEW s \in ToSet(q), s.kind = "input" PROVE SeedFits(s.encoding, typed[s.name])
      BY <1>1
    <3>2. PICK i \in 1..n : s = q[i]
      BY <1>1
    <3>3. QED
      BY <1>8, <3>1, <3>2
  <2>3. seeds(r) = [i \in 1..n |-> own(i)]
    <3>1. seeds(r) = [i \in 1..n |-> IF q[i].kind = "const" THEN q[i].bytes
                                     ELSE SeedBytes(typed[q[i].name])]
      BY <1>1
    <3>2. ASSUME NEW i \in 1..n
          PROVE  (IF q[i].kind = "const" THEN q[i].bytes ELSE SeedBytes(typed[q[i].name])) = own(i)
      BY <1>2, <1>8
    <3> HIDE DEF own
    <3>3. QED
      BY <3>1, <3>2
  <2> HIDE DEF bad, seeds
  <2>4. code(r) = "ok"
    BY <1>6, <2>2 DEF Refuse, ++
  <2> HIDE DEF code
  <2>5. QED
    BY <1>1, <2>1, <2>3, <2>4
<1>10. [i \in 1..n |-> own(i)] = SeedsOf(q, n, inputs)
  BY DEF SeedsOf
<1>11. QED
  BY <1>7, <1>9, <1>10

\* The manifest leads to the address of an account, and refuses other inputs.
Found(l, k, a, named, more) ==
    \E recipe \in PdaRecipeKey(Manifests[l], k, a.name) :
        DerivePdaStrings(Manifests[l], recipe, InputsWith(more, InputsFor(a, named))) =
            IF more = <<>> THEN DerivedByProgram(IdlsOf[l], k, a, named)
            ELSE [code |-> "unexpected_input", address |-> <<>>, bump |-> 0]

\* What the paths of an account's seeds stand for is of the types of the IDL.
Typed(l, k, a, named) ==
    \A s \in ToSet(a.seeds) : s.kind # "const" =>
        \A e \in SeedEncoding(IdlsOf[l][k[1]], IdlsOf[l][k[1]].instructions[k[2]], s) :
            SeedParses(e, named[s.path])

\* The accounts of an accepted manifest are found at the addresses that the
\* program derives; other inputs are refused.
LEMMA AddressFound ==
    ASSUME NEW l \in Made, NEW k \in InstructionKeys, NEW a \in ToSet(Flat(l, k)),
           a.seeds # <<>>, a.owner = <<>>, NEW named, NEW more, NEW lock,
           ConstructResolver(lock, Contracts[l], Manifests[l]) = "ok",
           more = <<>> \/ ~DOMAIN more \subseteq {InputNames[p] : p \in DOMAIN InputNames},
           Typed(l, k, a, named)
    PROVE  Found(l, k, a, named, more)
<1> DEFINE manifest == Manifests[l]
           idl == IdlsOf[l][k[1]]
           ix == idl.instructions[k[2]]
           s == a.seeds
           inputs == InputsFor(a, named)
           all == InputsWith(more, inputs)
<1>1. manifest.recipes = Recipes(Contracts[l], IdlsOf[l])
  BY ManifestIs
<1>2. PICK r \in ToSet(manifest.recipes) :
        /\ <<k, a.name>> \in r.usages /\ r.seeds = Seeds(l, k, a)
        /\ r.id = IdlsOf[l][k[1]].address
        /\ \A q \in ToSet(manifest.recipes) : q.key = r.key => q = r
  <2> HIDE DEF manifest
  <2>1. QED
    BY <1>1, RecipeFound
<1>3. RecipeSound(Contracts[l], manifest, r)
  BY ResolverIs
<1> DEFINE key == r.key
           q == r.seeds
<1>4. PICK n \in Nat : Match(s, q, n, idl, ix)
  BY <1>2, <1>3, SeedsMatch
<1> DEFINE names == NamesOf(q, n)
<1>5. key \in PdaRecipeKey(manifest, k, a.name)
  BY <1>2 DEF PdaRecipeKey
<1>6. Wants(manifest, key, r, q, n, names)
  <2>1. DOMAIN q = 1..n /\ ToSet(q) = {q[i] : i \in 1..n}
    BY <1>4 DEF Match
  <2>2. \A i \in 1..n : q[i].kind = "const" \/ q[i].kind = "input"
    BY <1>4 DEF Match
  <2> HIDE DEF names, q, manifest
  <2>3. QED
    BY <1>2, <2>1, <2>2 DEF Wants, names, q, NamesOf
<1>7. /\ DOMAIN inputs = names /\ inputs = [m \in names |-> inputs[m]]
      /\ names \subseteq {InputNames[p] : p \in DOMAIN InputNames}
      /\ \A i \in 1..n : q[i].kind = "input" => inputs[q[i].name] = named[s[i].path]
  <2> HIDE DEF q, idl, ix
  <2>1. Given(inputs, s, q, n, named)
    BY <1>4, InputsAre
  <2> HIDE DEF inputs, s
  <2>2. QED
    BY <2>1 DEF Given
<1>8. DOMAIN all = DOMAIN more \cup names
  <2> HIDE DEF inputs, names
  <2>1. QED
    BY <1>7 DEF InputsWith
<1>9. CASE more = <<>>
  <2>1. all = inputs
    <3>1. all = [m \in names |-> inputs[m]]
      <4> HIDE DEF inputs, names
      <4>1. DOMAIN more = {}
        BY <1>9
      <4>2. all = [m \in DOMAIN more \cup DOMAIN inputs |-> IF m \in DOMAIN more THEN more[m] ELSE inputs[m]]
        BY DEF InputsWith
      <4>3. QED
        BY <1>7, <4>1, <4>2
    <3>2. QED
      BY <1>7, <3>1
  <2> DEFINE own(i) == IF q[i].kind = "const" THEN q[i].bytes
                       ELSE IF inputs[q[i].name].form = "decimal" THEN U64(inputs[q[i].name].n)
                       ELSE inputs[q[i].name].bytes
             theirs(i) == IF s[i].kind = "const" THEN s[i].bytes
                          ELSE IF named[s[i].path].form = "decimal" THEN U64(named[s[i].path].n)
                          ELSE named[s[i].path].bytes
  <2>2. ASSUME NEW i \in 1..n, q[i].kind = "input"
        PROVE  /\ q[i].encoding \in {"pubkey", "bytes32", "u64_le"}
               /\ SeedParses(q[i].encoding, inputs[q[i].name])
    <3>1. /\ s[i].kind # "const" /\ q[i].encoding \in SeedEncoding(idl, ix, s[i])
          /\ s[i] \in ToSet(s)
      BY <1>4, <2>2 DEF Match
    <3>2. q[i].encoding \in {"pubkey", "bytes32", "u64_le"}
      BY <3>1, EncodingIs
    <3>3. SeedParses(q[i].encoding, named[s[i].path])
      BY <3>1 DEF Typed
    <3>4. QED
      BY <1>7, <2>2, <3>2, <3>3
  <2>3. \A i, j \in 1..n : q[i].kind = "input" /\ q[j].kind = "input" /\ q[i].name = q[j].name => i = j
    BY <1>4 DEF Match
  <2>4. DerivePdaStrings(manifest, key, inputs) = FindProgramAddress(SeedsOf(q, n, inputs), r.id)
    <3> HIDE DEF manifest, key, q, inputs, names
    <3>1. QED
      BY <1>6, <1>7, <2>2, <2>3, RecipeDerives
  <2>5. DerivedByProgram(IdlsOf[l], k, a, named) =
          FindProgramAddress([i \in 1..n |-> theirs(i)], IdlsOf[l][k[1]].address)
    BY <1>4 DEF DerivedByProgram, Match
  <2>6. ASSUME NEW i \in 1..n PROVE own(i) = theirs(i)
    BY <1>4, <1>7 DEF Match
  <2>7. SeedsOf(q, n, inputs) = [i \in 1..n |-> theirs(i)]
    <3>1. SeedsOf(q, n, inputs) = [i \in 1..n |-> own(i)]
      BY DEF SeedsOf
    <3> HIDE DEF own, theirs
    <3>2. QED
      BY <2>6, <3>1
  <2>8. DerivePdaStrings(manifest, key, all) = DerivedByProgram(IdlsOf[l], k, a, named)
    <3> HIDE DEF own, theirs, manifest, key, q, inputs, all
    <3>1. QED
      BY <1>2, <2>1, <2>4, <2>5, <2>7
  <2>9. QED
    BY <1>5, <1>9, <2>8 DEF Found
<1>10. CASE more # <<>>
  <2>1. names \subseteq DOMAIN all /\ ~DOMAIN all \subseteq names
    <3> HIDE DEF all, names
    <3>1. QED
      BY <1>7, <1>8, <1>10
  <2>2. CheckInputs(manifest, key, all) = "unexpected_input"
    <3> HIDE DEF all, names, manifest, key, q
    <3>1. QED
      BY <1>6, <2>1, InputsChecked
  <2>3. DerivePdaStrings(manifest, key, all) = [code |-> "unexpected_input", address |-> <<>>, bump |-> 0]
    <3> DEFINE recipe == CHOOSE t \in ToSet(manifest.recipes) : t.key = key
               encoding == [m \in DOMAIN all |->
                    (CHOOSE t \in ToSet(recipe.seeds) : t.kind = "input" /\ t.name = m).encoding]
               later == Refuse(\E m \in DOMAIN all : ~SeedParses(encoding[m], all[m]), "invalid_seed_value")
               code == CheckInputs(manifest, key, all) ++ later
               found == DerivePda(manifest, key, [m \in DOMAIN all |->
                    [encoding |-> encoding[m], n |-> all[m].n, bytes |-> all[m].bytes]])
    <3> HIDE DEF manifest, key, all
    <3>1. DerivePdaStrings(manifest, key, all) =
            IF code = "ok" THEN found ELSE [code |-> code, address |-> <<>>, bump |-> 0]
      BY DEF DerivePdaStrings
    <3> HIDE DEF found, later
    <3>2. code = "unexpected_input"
      BY <2>2 DEF ++
    <3>3. QED
      BY <3>1, <3>2
  <2>4. QED
    BY <1>5, <1>10, <2>3 DEF Found
<1>11. QED
  BY <1>9, <1>10

-----------------------------------------------------------------------------
\* The specification

\* What a deployed pair and work in hand are: the invariant of Gate, unless the
\* work is another call.
AdapterIInv ==
    /\ live = [lock |-> live.lock, made |-> live.made]
    /\ <<live.lock, live.made>> \in Resolvable
    /\ (work \in Calls \/ GateIInv)

\* A deployed pair with which a resolver can be constructed is one with which a
\* validator can.
LEMMA ResolvableIsDeployable == Resolvable \subseteq Deployable
BY DEF Resolvable

\* A deployed pair is one of a contract that was made, and a resolver could be
\* constructed from it.
LEMMA ResolvableIsMade ==
    ASSUME NEW lock, NEW made, <<lock, made>> \in Resolvable
    PROVE  made \in Made /\ ConstructResolver(Locks[lock], Contracts[made], Manifests[made]) = "ok"
BY DEF Resolvable, Deployable

\* The shape of the pair, and that it stays in the set, over a step.
LEMMA LiveStays ==
    ASSUME AdapterIInv, live' = live
    PROVE  /\ live' = [lock |-> live'.lock, made |-> live'.made]
           /\ <<live'.lock, live'.made>> \in Resolvable
BY DEF AdapterIInv

\* An envelope in hand is no other call.
LEMMA EnvelopeInHand ==
    ASSUME AdapterIInv, work.kind \in {"none", "envelope"}
    PROVE  GateIInv
BY CallAssumption DEF AdapterIInv

\* Characters of a base, and at least one, are a numeral.
LEMMA SymbolsAreNumeral ==
    ASSUME NEW base, NEW s \in Seq(0..base - 1), s # <<>>
    PROVE  Numeral(s, base) /\ Len(s) > 0
<1>1. List(s)
  BY InSeq
<1>2. Len(s) \in Nat \ {0}
  BY EmptySeq
<1>3. \A i \in 1..Len(s) : s[i] \in 0..base - 1
  BY LenProperties
<1>4. QED
  BY <1>1, <1>2, <1>3 DEF Numeral

\* What is in hand is exact when it is a call.
LEMMA CallIsExact ==
    ASSUME NEW c \in Calls, work = c
    PROVE  KeysAreExact
<1>1. ASSUME c.kind = "bytes"
      PROVE  Base58Decode(Base58Encode(c.bytes)) = c.bytes
             /\ Base58OfNumber(c.bytes) = Base58Encode(c.bytes)
  <2> DEFINE s == c.bytes
  <2>1. s \in Seq(0..Bits - 1) /\ s # <<>>
    BY <1>1, CallAssumption
  <2> HIDE DEF s
  <2>2. Sizes
    BY SizeAssumption DEF Sizes
  <2>3. Numeral(s, Bits) /\ Len(s) > 0
    BY <2>1, SymbolsAreNumeral
  <2>4. QED
    BY <2>2, <2>3, KeyKept DEF s
<1>2. ASSUME c.kind = "string"
      PROVE  Base58Encode(Base58Decode(c.string)) = c.string
  <2> DEFINE s == c.string
  <2>1. s \in Seq(0..Digits - 1) /\ s # <<>>
    BY <1>2, CallAssumption
  <2> HIDE DEF s
  <2>2. Sizes
    BY SizeAssumption DEF Sizes
  <2>3. Numeral(s, Digits) /\ Len(s) > 0
    BY <2>1, SymbolsAreNumeral
  <2>4. QED
    BY <2>2, <2>3, StringKept DEF s
<1>3. ASSUME c.kind = "curve", NEW y \in 0..c.p - 1
      PROVE  IsEd25519Point(y, c.d, c.p) = HasPoint(y, c.d, c.p)
  <2> DEFINE p == c.p
             d == c.d
  <2>1. p \in Nat \ {0, 1} /\ p % 8 = 5 /\ (\A a \in 2..p - 1 : p % a # 0) /\ d \in Nat
    BY <1>3, CallAssumption
  <2>2. y \in 0..p - 1
    BY <1>3
  <2> HIDE DEF p, d
  <2>3. Prime(p)
    BY <2>1 DEF Prime
  <2>4. IsEd25519Point(y, d, p) = HasPoint(y, d, p)
    BY <2>1, <2>2, <2>3, PointIs
  <2>5. QED
    BY <2>4 DEF p, d
<1>4. QED
  BY <1>1, <1>2, <1>3 DEF KeysAreExact

(*****************************************************************************)
(* A deployed pair stays one that both constructors accept, and whatever is  *)
(* in hand is another call or satisfies the invariant of Gate.               *)
(*****************************************************************************)
THEOREM AdapterInvariant == AdapterSpec => []AdapterIInv
<1>1. AdapterInit => AdapterIInv
  <2>1. SUFFICES ASSUME AdapterInit PROVE AdapterIInv
    OBVIOUS
  <2>2. GateIInv
    BY <2>1, GateInitEstablishes DEF AdapterInit
  <2>3. PICK d \in Deployable : live = [lock |-> d[1], made |-> d[2]]
    BY <2>1 DEF AdapterInit, GateInit
  <2>4. QED
    BY <2>1, <2>2, <2>3 DEF AdapterInit, AdapterIInv
<1>2. AdapterIInv /\ [AdapterNext]_gateVars => AdapterIInv'
  <2>1. ASSUME AdapterIInv, NEW d \in Resolvable, Deploy(d[1], d[2]) PROVE AdapterIInv'
    <3>1. GateIInv
      BY <2>1, EnvelopeInHand DEF Deploy
    <3>2. GateIInv'
      BY <2>1, <3>1, DeployKeeps
    <3>3. d = <<d[1], d[2]>>
      BY <2>1 DEF Resolvable, Deployable
    <3>4. live' = [lock |-> d[1], made |-> d[2]]
      BY <2>1 DEF Deploy
    <3>5. QED
      BY <3>2, <3>3, <3>4 DEF AdapterIInv
  <2>2. ASSUME AdapterIInv, NEW a \in Actions, Build(a) PROVE AdapterIInv'
    <3>1. GateIInv /\ live' = live
      BY <2>2, EnvelopeInHand DEF Build, NoWork
    <3>2. GateIInv'
      BY <2>2, <3>1, BuildKeeps
    <3>3. QED
      BY <2>2, <3>1, <3>2, LiveStays DEF AdapterIInv
  <2>3. ASSUME AdapterIInv, NEW edit \in Edits, Edit(edit) PROVE AdapterIInv'
    <3>1. GateIInv /\ live' = live
      BY <2>3, EnvelopeInHand DEF Edit
    <3>2. GateIInv'
      BY <2>3, <3>1, EditKeeps
    <3>3. QED
      BY <2>3, <3>1, <3>2, LiveStays DEF AdapterIInv
  <2>4. ASSUME AdapterIInv, Sign PROVE AdapterIInv'
    <3>1. GateIInv /\ live' = live
      BY <2>4, EnvelopeInHand DEF Sign
    <3>2. GateIInv'
      BY <2>4, <3>1, SignKeeps
    <3>3. QED
      BY <2>4, <3>1, <3>2, LiveStays DEF AdapterIInv
  <2>5. ASSUME AdapterIInv, NEW input \in Calls, Call(input) PROVE AdapterIInv'
    <3>1. work' \in Calls /\ live' = live
      BY <2>5 DEF Call
    <3>2. QED
      BY <2>5, <3>1, LiveStays DEF AdapterIInv
  <2>6. ASSUME AdapterIInv, UNCHANGED gateVars PROVE AdapterIInv'
    <3>1. live' = live /\ work' = work
      BY <2>6 DEF gateVars
    <3>2. QED
      BY <2>6, <3>1 DEF AdapterIInv, GateIInv, LiveIsDeployable, WorkIsWellFormed, SignedIsPinned
  <2>7. QED
    BY <2>1, <2>2, <2>3, <2>4, <2>5, <2>6 DEF AdapterNext
<1>3. QED
  BY <1>1, <1>2, PTL DEF AdapterSpec

(*****************************************************************************)
(* A public key keeps its value through base58, each key has one string,     *)
(* and the encoders of resolution.ts and liquidation.ts agree; and the test  *)
(* of the curve, which computes a root, is the equation of the curve         *)
(* (resolution.ts 326-365): for keys of every length, and for every prime    *)
(* that is 5 modulo 8, as 2^255 - 19 is.                                     *)
(*****************************************************************************)
THEOREM KeysStayExact == AdapterSpec => []KeysAreExact
<1>1. ASSUME AdapterIInv PROVE KeysAreExact
  <2>1. CASE work \in Calls
    BY <2>1, CallIsExact
  <2>2. CASE GateIInv
    BY <2>2 DEF GateIInv, WorkIsWellFormed, NoWork, KeysAreExact
  <2>3. QED
    BY <1>1, <2>1, <2>2 DEF AdapterIInv
<1>2. QED
  BY <1>1, AdapterInvariant, PTL

(*****************************************************************************)
(* The manifest of every deployment leads to the address that the program    *)
(* derives, for every derived account of every instruction that the IDL does *)
(* not place under another program, although accounts of one name share      *)
(* recipes across instructions; inputs other than those of the recipe are    *)
(* refused (generate-adapter-codecs.mjs 149-251, resolution.ts 94-324).      *)
(*****************************************************************************)
THEOREM AddressesAreFound == AdapterSpec => []ManifestFindsSeeds
<1>1. ASSUME AdapterIInv PROVE ManifestFindsSeeds
  <2>1. CASE work \in Calls /\ work.kind = "derive"
    <3> DEFINE l == live.made
               k == work.key
    <3>1. /\ l \in Made
          /\ ConstructResolver(Locks[live.lock], Contracts[l], Manifests[l]) = "ok"
      BY <1>1, ResolvableIsMade DEF AdapterIInv
    <3>2. /\ k \in InstructionKeys
          /\ work.more = <<>> \/ ~DOMAIN work.more \subseteq {InputNames[p] : p \in DOMAIN InputNames}
          /\ \A a \in ToSet(Flat(l, k)) : Typed(l, k, a, work.named)
      BY <2>1, <3>1, DeriveAssumption DEF Flat, Typed
    <3> HIDE DEF l, k
    <3>3. SUFFICES ASSUME NEW a \in ToSet(Flat(l, k)), a.seeds # <<>>, a.owner = <<>>
                   PROVE  Found(l, k, a, work.named, work.more)
      BY DEF ManifestFindsSeeds, Found, Flat, l, k
    <3>4. QED
      BY <3>1, <3>2, <3>3, AddressFound
  <2>2. CASE work \in Calls /\ work.kind # "derive"
    BY <2>2 DEF ManifestFindsSeeds
  <2>3. CASE GateIInv
    <3>1. work.kind # "derive"
      BY <2>3 DEF GateIInv, WorkIsWellFormed, NoWork
    <3>2. QED
      BY <3>1 DEF ManifestFindsSeeds
  <2>4. QED
    BY <1>1, <2>1, <2>2, <2>3 DEF AdapterIInv
<1>2. QED
  BY <1>1, AdapterInvariant, PTL

=============================================================================
