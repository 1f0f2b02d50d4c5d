------------------------------ MODULE WireProofs ------------------------------
(***************************************************************************)
(* However the stream is cut into reads, what is sent arrives, in order    *)
(* and with its meaning, for any widths, limits and messages.              *)
(***************************************************************************)
EXTENDS WireProps, WellFoundedInduction, SequenceTheorems, TLAPS

-----------------------------------------------------------------------------
(* Induction, as a fact about sets of numbers.                             *)

Less == OpToRel(<, Nat)

\* The usual order of the natural numbers is well founded.
LEMMA LessWellFounded ==
    /\ IsWellFoundedOn(Less, Nat)
    /\ \A x, y \in Nat : x < y => <<x, y>> \in Less
<1>1. IsWellFoundedOn(Less, Nat)
  BY Zenon, NatLessThanWellFounded DEF Less
<1>2. \A x, y \in Nat : x < y => <<x, y>> \in Less
  BY DEF Less, OpToRel
<1> QED BY <1>1, <1>2

\* A set that 0 is in, and with a number its successor, has all of them.
LEMMA Induction ==
    ASSUME NEW A, 0 \in A, \A n \in Nat : n \in A => n + 1 \in A
    PROVE  \A n \in Nat : n \in A
<1> SUFFICES ASSUME Nat \ A # {} PROVE FALSE
  OBVIOUS
<1>1. PICK x \in Nat \ A : \A y \in Nat \ A : ~(<<y, x>> \in Less)
  <2>1. Nat \ A \subseteq Nat
    OBVIOUS
  <2> QED BY Zenon, <2>1, LessWellFounded, WFMin
<1>2. x # 0
  OBVIOUS
<1>3. x - 1 \in Nat /\ x - 1 < x /\ (x - 1) + 1 = x
  BY <1>2
<1>4. x - 1 \in A
  BY Zenon, <1>1, <1>3, LessWellFounded
<1> QED BY <1>3, <1>4

\* f begins with x0 and goes from n to n + 1 as step[n] says.
Runs(f, X, x0, step) ==
    f \in [Nat -> X] /\ f[0] = x0 /\ \A n \in Nat : f[n + 1] = step[n][f[n]]

\* A function can be defined step by step.
LEMMA Iterate ==
    ASSUME NEW X, NEW x0 \in X, NEW step \in [Nat -> [X -> X]]
    PROVE  \E f : Runs(f, X, x0, step)
<1> DEFINE Up(f, n) == f[0] = x0 /\ \A i \in 0..(n - 1) : f[i + 1] = step[i][f[i]]
           A == {n \in Nat : \E f \in [0..n -> X] : Up(f, n)}
           Pick(n) == CHOOSE f : f \in [0..n -> X] /\ Up(f, n)
<1>1. 0 \in A
  <2>1. [i \in 0..0 |-> x0] \in [0..0 -> X] /\ Up([i \in 0..0 |-> x0], 0)
    OBVIOUS
  <2> QED BY Zenon, <2>1
<1>2. ASSUME NEW n \in Nat, n \in A PROVE n + 1 \in A
  <2>1. PICK f \in [0..n -> X] : Up(f, n)
    BY <1>2
  <2> DEFINE g == [i \in 0..(n + 1) |-> IF i <= n THEN f[i] ELSE step[n][f[n]]]
  <2>2. g \in [0..(n + 1) -> X]
    OBVIOUS
  <2>3. Up(g, n + 1)
    <3>1. g[0] = x0
      BY <2>1
    <3>2. ASSUME NEW i \in 0..n PROVE g[i + 1] = step[i][g[i]]
      BY <2>1
    <3>3. (n + 1) - 1 = n
      OBVIOUS
    <3> HIDE DEF g
    <3> QED BY Zenon, <3>1, <3>2, <3>3
  <2>4. n + 1 \in Nat
    OBVIOUS
  <2> HIDE DEF g, Up
  <2> QED BY Zenon, <2>2, <2>3, <2>4
<1>3. \A n \in Nat : n \in A
  <2> HIDE DEF A
  <2> QED BY <1>1, <1>2, Induction
<1>4. ASSUME NEW n \in Nat PROVE Pick(n) \in [0..n -> X] /\ Up(Pick(n), n)
  <2>1. \E f : f \in [0..n -> X] /\ Up(f, n)
    BY <1>3
  <2> HIDE DEF Up
  <2> QED BY Zenon, <2>1
<1> HIDE DEF Pick
<1>5. ASSUME NEW n \in Nat PROVE Pick(n + 1)[n] = Pick(n)[n]
  <2> DEFINE f == Pick(n)
             g == Pick(n + 1)
             B == {i \in Nat : i <= n => g[i] = f[i]}
  <2>1. Up(f, n) /\ Up(g, n + 1)
    BY <1>4
  <2> HIDE DEF f, g
  <2>2. 0 \in B
    BY <2>1
  <2>3. ASSUME NEW i \in Nat, i \in B PROVE i + 1 \in B
    BY <2>1, <2>3
  <2>4. n \in B
    <3> HIDE DEF B
    <3> QED BY <2>2, <2>3, Induction
  <2> QED BY <2>4 DEF f, g
<1> DEFINE F == [n \in Nat |-> Pick(n)[n]]
<1>6. F \in [Nat -> X]
  BY <1>4
<1>7. F[0] = x0
  BY <1>4
<1>8. ASSUME NEW n \in Nat PROVE F[n + 1] = step[n][F[n]]
  <2>1. Pick(n + 1)[n + 1] = step[n][Pick(n + 1)[n]]
    BY <1>4
  <2> QED BY <1>5, <2>1
<1> HIDE DEF F
<1> QED BY Zenon, <1>6, <1>7, <1>8 DEF Runs

-----------------------------------------------------------------------------
(* Powers, quotients and digits.                                           *)

\* Power computes powers of Base.
LEMMA PowerFacts ==
    /\ Power[0] = 1
    /\ \A n \in Nat : Power[n] \in Nat \ {0} /\ Power[n + 1] = Base * Power[n]
<1> DEFINE Eq(f) == f = [n \in Nat |-> IF n = 0 THEN 1 ELSE Base * f[n - 1]]
<1>0. Base \in Nat /\ Base > 2
  BY WireAssumption
<1>1. \E f : Eq(f)
  <2> DEFINE Pos == Nat \ {0}
             mul == [n \in Nat |-> [x \in Pos |-> Base * x]]
  <2>1. mul \in [Nat -> [Pos -> Pos]] /\ 1 \in Pos
    BY <1>0
  <2>a. PICK f : Runs(f, Pos, 1, mul)
    <3> HIDE DEF mul, Pos
    <3> QED BY Zenon, <2>1, Iterate
  <2>2. f \in [Nat -> Pos] /\ f[0] = 1 /\ \A n \in Nat : f[n + 1] = mul[n][f[n]]
    BY Zenon, <2>a DEF Runs
  <2>3. ASSUME NEW n \in Nat PROVE f[n] = IF n = 0 THEN 1 ELSE Base * f[n - 1]
    <3>1. CASE n = 0
      BY Zenon, <2>2, <3>1
    <3>2. CASE n # 0
      <4>1. n - 1 \in Nat /\ (n - 1) + 1 = n
        BY <3>2
      <4>2. f[(n - 1) + 1] = mul[n - 1][f[n - 1]] /\ f[n - 1] \in Pos
        BY Zenon, <2>2, <4>1
      <4>3. mul[n - 1][f[n - 1]] = Base * f[n - 1]
        BY <4>1, <4>2
      <4> QED BY <3>2, <4>1, <4>2, <4>3
    <3> QED BY <3>1, <3>2
  <2>4. f = [n \in Nat |-> f[n]]
    BY Zenon, <2>2
  <2> QED BY Zenon, <2>3, <2>4
<1>2. Eq(Power)
  BY Zenon, <1>1 DEF Power
<1>3. Power[0] = 1 /\ \A n \in Nat : Power[n + 1] = Base * Power[n]
  <2>1. \A n \in Nat : Power[n] = IF n = 0 THEN 1 ELSE Base * Power[n - 1]
    BY Zenon, <1>2
  <2>2. ASSUME NEW n \in Nat PROVE Power[n + 1] = Base * Power[n]
    <3>1. n + 1 \in Nat /\ n + 1 # 0 /\ (n + 1) - 1 = n
      OBVIOUS
    <3> QED BY Zenon, <2>1, <3>1
  <2> QED BY <2>1, <2>2
<1> DEFINE A == {n \in Nat : Power[n] \in Nat \ {0}}
<1>4. 0 \in A
  BY <1>3
<1>5. ASSUME NEW n \in Nat, n \in A PROVE n + 1 \in A
  BY <1>0, <1>3, <1>5
<1>6. \A n \in Nat : n \in A
  <2> HIDE DEF A
  <2> QED BY <1>4, <1>5, Induction
<1> QED BY <1>3, <1>6

\* Multiplication by a positive number.
LEMMA Times ==
    ASSUME NEW b \in Nat \ {0}, NEW p \in Nat, NEW q \in Nat
    PROVE  /\ b * p \in Nat
           /\ p < q => b * p + b <= b * q
           /\ b * p = b * q => p = q
<1>1. b * p \in Nat /\ b * (p + 1) = b * p + b
  OBVIOUS
<1>2. ASSUME NEW x \in Nat, NEW y \in Nat, x < y PROVE b * x + b <= b * y
  <2>1. PICK d \in Nat : y = (x + 1) + d
    <3>1. y - (x + 1) \in Nat /\ y = (x + 1) + (y - (x + 1))
      BY <1>2
    <3> QED BY <3>1
  <2>2. b * y = (b * x + b) + b * d
    BY <2>1
  <2>3. b * d \in Nat /\ b * x \in Nat /\ b * y \in Nat
    OBVIOUS
  <2> QED BY <2>2, <2>3
<1>3. b * q \in Nat
  OBVIOUS
<1>4. b * p = b * q => p = q
  <2>1. p < q => b * p + b <= b * q
    BY <1>2
  <2>2. q < p => b * q + b <= b * p
    BY <1>2
  <2> QED BY <1>1, <1>3, <2>1, <2>2
<1> QED BY <1>1, <1>2, <1>4

\* Quotient and remainder ...
LEMMA DivMod ==
    ASSUME NEW a \in Nat, NEW b \in Nat \ {0}
    PROVE  /\ a \div b \in Nat /\ a % b \in Nat /\ a % b < b
           /\ a = b * (a \div b) + (a % b)
OBVIOUS

\* ... are the only numbers of their kind.
LEMMA DivUnique ==
    ASSUME NEW a \in Nat, NEW b \in Nat \ {0}, NEW q \in Nat, NEW r \in Nat,
           r < b, a = b * q + r
    PROVE  a \div b = q /\ a % b = r
<1>1. PICK p \in Nat : p = a \div b
  BY DivMod
<1>2. PICK s \in Nat : s = a % b
  BY DivMod
<1>3. s < b /\ a = b * p + s
  BY <1>1, <1>2, DivMod
<1>4. b * p \in Nat /\ b * q \in Nat
  BY Times
<1>5. ~(p < q)
  <2>1. p < q => b * p + b <= b * q
    BY Times
  <2> QED BY <1>3, <1>4, <2>1
<1>6. ~(q < p)
  <2>1. q < p => b * q + b <= b * p
    BY Times
  <2> QED BY <1>3, <1>4, <2>1
<1>7. p = q
  BY <1>5, <1>6
<1>8. s = r
  BY <1>3, <1>4, <1>7
<1> QED BY <1>1, <1>2, <1>7, <1>8

\* Digit j of v.
Dig(v, j) == (v \div Power[j]) % Base

\* One more digit of a quotient, and of a remainder.
LEMMA DigitStep ==
    ASSUME NEW v \in Nat, NEW j \in Nat
    PROVE  /\ Dig(v, j) \in Byte
           /\ v \div Power[j] = Base * (v \div Power[j + 1]) + Dig(v, j)
           /\ v % Power[j + 1] = (v % Power[j]) + Dig(v, j) * Power[j]
<1>1. PICK P \in Nat \ {0} : P = Power[j] /\ Power[j + 1] = Base * P
  BY PowerFacts
<1>2. Base \in Nat \ {0}
  BY WireAssumption
<1>3. PICK q \in Nat : q = v \div P
  BY DivMod
<1>4. PICK r \in Nat : r = v % P
  BY DivMod
<1>5. v = P * q + r /\ r < P
  BY DivMod, <1>3, <1>4
<1>6. PICK p \in Nat : p = q \div Base
  BY DivMod, <1>2
<1>7. PICK d \in Nat : d = q % Base
  BY DivMod, <1>2
<1>8. q = Base * p + d /\ d < Base
  BY DivMod, <1>2, <1>6, <1>7
<1>9. Base * P \in Nat \ {0} /\ P * d \in Nat /\ P * d + P <= P * Base
  <2>1. P * d \in Nat /\ P * d + P <= P * Base
    BY Times, <1>2, <1>8
  <2>2. P * Base = Base * P
    BY <1>2
  <2> QED BY <2>1, <2>2, <1>2
<1>10. v = (Base * P) * p + (P * d + r)
  <2>1. P * (Base * p + d) = (Base * P) * p + P * d
    BY <1>2
  <2>2. (Base * P) * p \in Nat
    BY <1>9, Times
  <2> QED BY <1>5, <1>8, <1>9, <2>1, <2>2
<1>11. P * d + r \in Nat /\ P * d + r < Base * P
  <2>1. P * Base = Base * P
    BY <1>2
  <2> QED BY <1>5, <1>9, <2>1
<1>12. v \div (Base * P) = p /\ v % (Base * P) = P * d + r
  BY Zenon, DivUnique, <1>9, <1>10, <1>11
<1>13. Dig(v, j) = d
  BY <1>1, <1>3, <1>7 DEF Dig
<1>14. d \in Byte
  BY <1>2, <1>8 DEF Byte
<1>15. v \div Power[j] = q /\ v % Power[j] = r /\ v \div Power[j + 1] = p
       /\ v % Power[j + 1] = P * d + r
  BY Zenon, <1>1, <1>3, <1>4, <1>12
<1>16. P * d + r = r + d * P
  BY <1>9
<1> QED BY Zenon, <1>1, <1>8, <1>13, <1>14, <1>15, <1>16

\* Only 1 divides everything, and below the divisor the quotient is 0.
LEMMA SmallDiv ==
    ASSUME NEW v \in Nat, NEW b \in Nat \ {0}
    PROVE  /\ v \div 1 = v /\ v % 1 = 0
           /\ v < b => v \div b = 0 /\ v % b = v
<1>1. v \div 1 = v /\ v % 1 = 0
  <2>1. v = 1 * v + 0 /\ 0 < 1 /\ 0 \in Nat /\ 1 \in Nat \ {0}
    OBVIOUS
  <2> QED BY Zenon, <2>1, DivUnique
<1>2. ASSUME v < b PROVE v \div b = 0 /\ v % b = v
  <2>1. v = b * 0 + v /\ 0 \in Nat
    OBVIOUS
  <2> QED BY Zenon, <1>2, <2>1, DivUnique
<1> QED BY <1>1, <1>2

\* The low k digits of the low w digits are the low k digits.
LEMMA LowDigits ==
    ASSUME NEW v \in Nat, NEW w \in Nat, NEW k \in Nat, k <= w
    PROVE  Uint(v, w) % Power[k] = v % Power[k]
<1> DEFINE A == {n \in Nat : (v % Power[k + n]) % Power[k] = v % Power[k]}
<1>1. PICK P \in Nat \ {0} : P = Power[k]
  BY PowerFacts
<1>2. 0 \in A
  <2>1. (v % P) % P = v % P
    <3>1. v % P \in Nat /\ v % P < P
      BY DivMod
    <3> QED BY Zenon, <3>1, SmallDiv
  <2> QED BY <1>1, <2>1
<1>3. ASSUME NEW n \in Nat, n \in A PROVE n + 1 \in A
  <2>1. PICK m \in Nat : Power[k + n] = P * m
    <3> DEFINE B == {i \in Nat : \E x \in Nat : Power[k + i] = P * x}
    <3>1. 0 \in B
      <4>1. P = P * 1 /\ k + 0 = k /\ 1 \in Nat
        OBVIOUS
      <4> QED BY <1>1, <4>1
    <3>2. ASSUME NEW i \in Nat, i \in B PROVE i + 1 \in B
      <4>1. PICK x \in Nat : Power[k + i] = P * x
        BY <3>2
      <4>2. Power[k + (i + 1)] = Base * (P * x)
        <5>1. k + i \in Nat /\ (k + i) + 1 = k + (i + 1)
          OBVIOUS
        <5> QED BY <4>1, <5>1, PowerFacts
      <4>3. Base * (P * x) = P * (Base * x) /\ Base * x \in Nat
        BY WireAssumption
      <4> QED BY <4>2, <4>3
    <3>3. n \in B
      <4> HIDE DEF B
      <4> QED BY <3>1, <3>2, Induction
    <3> QED BY Zenon, <3>3
  <2>2. k + n \in Nat /\ (k + n) + 1 = k + (n + 1)
    OBVIOUS
  <2>3. PICK d \in Nat : v % Power[k + (n + 1)] = (v % Power[k + n]) + d * (P * m)
    <3>1. v % Power[(k + n) + 1] = (v % Power[k + n]) + Dig(v, k + n) * Power[k + n]
      BY Zenon, <2>2, DigitStep
    <3>2. Dig(v, k + n) \in Nat
      <4>1. Dig(v, k + n) \in Byte
        BY Zenon, <2>2, DigitStep
      <4> QED BY <4>1, WireAssumption DEF Byte
    <3> QED BY Zenon, <2>1, <2>2, <3>1, <3>2
  <2>4. PICK x \in Nat : x = v % Power[k + n]
    <3>1. Power[k + n] \in Nat \ {0}
      BY Zenon, <2>2, PowerFacts
    <3> QED BY Zenon, <3>1, DivMod
  <2>5. x = P * (x \div P) + (x % P) /\ x \div P \in Nat /\ x % P \in Nat /\ x % P < P
    OBVIOUS
  <2>6. PICK q \in Nat : q = x \div P
    BY <2>5
  <2>7. PICK r \in Nat : r = x % P
    BY <2>5
  <2>8. x + d * (P * m) = P * (q + d * m) + r /\ q + d * m \in Nat /\ x + d * (P * m) \in Nat
    <3>1. d * (P * m) = P * (d * m) /\ d * m \in Nat
      BY Times
    <3>2. PICK y \in Nat : y = d * m
      BY <3>1
    <3>3. x = P * q + r
      BY <2>5, <2>6, <2>7
    <3>4. P * (q + y) = P * q + P * y
      OBVIOUS
    <3>5. P * q \in Nat /\ P * y \in Nat
      BY Times
    <3> QED BY <3>1, <3>2, <3>3, <3>4, <3>5
  <2>9. (x + d * (P * m)) % P = r
    <3>1. r < P
      BY <2>5, <2>7
    <3> QED BY Zenon, <3>1, <2>8, DivUnique
  <2> QED BY <1>1, <1>3, <2>3, <2>4, <2>7, <2>9
<1>4. w - k \in Nat /\ k + (w - k) = w
  OBVIOUS
<1>5. w - k \in A
  <2> HIDE DEF A
  <2> QED BY <1>2, <1>3, <1>4, Induction
<1> QED BY <1>4, <1>5 DEF Uint

-----------------------------------------------------------------------------
(* Integers on the wire.                                                   *)

\* A sum over the numbers 1..N.
LEMMA Summing ==
    ASSUME NEW N \in Nat, NEW add \in [1..N -> [Nat -> Nat]]
    PROVE  \E h \in [0..N -> Nat] : h[0] = 0 /\ \A i \in 1..N : h[i] = add[i][h[i - 1]]
<1> DEFINE next == [n \in Nat |-> [x \in Nat |-> IF n < N THEN add[n + 1][x] ELSE 0]]
<1>1. next \in [Nat -> [Nat -> Nat]] /\ 0 \in Nat
  OBVIOUS
<1>2. PICK g : Runs(g, Nat, 0, next)
  <2> HIDE DEF next
  <2> QED BY Zenon, <1>1, Iterate
<1>3. g \in [Nat -> Nat] /\ g[0] = 0 /\ \A n \in Nat : g[n + 1] = next[n][g[n]]
  BY Zenon, <1>2 DEF Runs
<1> DEFINE h == [i \in 0..N |-> g[i]]
<1>4. h \in [0..N -> Nat] /\ h[0] = 0
  BY <1>3
<1>5. ASSUME NEW i \in 1..N PROVE h[i] = add[i][h[i - 1]]
  <2>1. i - 1 \in Nat /\ (i - 1) + 1 = i /\ i - 1 < N /\ i - 1 \in 0..N
    OBVIOUS
  <2>2. g[(i - 1) + 1] = next[i - 1][g[i - 1]] /\ g[i - 1] \in Nat
    BY Zenon, <1>3, <2>1
  <2>3. next[i - 1][g[i - 1]] = add[i][g[i - 1]]
    BY <2>1, <2>2
  <2> QED BY <2>1, <2>2, <2>3
<1> HIDE DEF h
<1> QED BY Zenon, <1>4, <1>5

\* FromLittle adds the bytes up, each times its power.
LEMMA FromLittleSum ==
    ASSUME NEW s \in Seq(Nat)
    PROVE  \E f : /\ f[0] = 0 /\ FromLittle(s) = f[Len(s)]
                  /\ \A i \in 1..Len(s) : f[i] = f[i - 1] + s[i] * Power[i - 1]
<1> DEFINE Eq(f) == f = [i \in 0..Len(s) |->
                           IF i = 0 THEN 0 ELSE f[i - 1] + s[i] * Power[i - 1]]
           add == [i \in 1..Len(s) |-> [x \in Nat |-> x + s[i] * Power[i - 1]]]
<1>1. add \in [1..Len(s) -> [Nat -> Nat]] /\ Len(s) \in Nat
  <2>1. ASSUME NEW i \in 1..Len(s) PROVE s[i] * Power[i - 1] \in Nat
    <3>1. s[i] \in Nat
      OBVIOUS
    <3>2. Power[i - 1] \in Nat
      <4>1. i - 1 \in Nat
        OBVIOUS
      <4> QED BY Zenon, <4>1, PowerFacts
    <3> QED BY <3>1, <3>2
  <2> QED BY <2>1
<1>2. PICK h \in [0..Len(s) -> Nat] :
        h[0] = 0 /\ \A i \in 1..Len(s) : h[i] = add[i][h[i - 1]]
  <2> HIDE DEF add
  <2> QED BY Zenon, <1>1, Summing
<1>3. ASSUME NEW i \in 0..Len(s)
      PROVE  h[i] = IF i = 0 THEN 0 ELSE h[i - 1] + s[i] * Power[i - 1]
  <2>1. CASE i = 0
    BY <1>2, <2>1
  <2>2. CASE i # 0
    <3>1. i \in 1..Len(s) /\ h[i - 1] \in Nat
      BY <2>2
    <3> QED BY Zenon, <1>2, <2>2, <3>1
  <2> QED BY <2>1, <2>2
<1>4. h = [i \in 0..Len(s) |-> h[i]]
  BY Zenon
<1>5. Eq(h)
  BY Zenon, <1>3, <1>4
<1>6. PICK f : Eq(f) /\ FromLittle(s) = f[Len(s)]
  BY Zenon, <1>5 DEF FromLittle
<1>7. \A i \in 0..Len(s) : f[i] = IF i = 0 THEN 0 ELSE f[i - 1] + s[i] * Power[i - 1]
  BY Zenon, <1>6
<1>8. 0 \in 0..Len(s) /\ \A i \in 1..Len(s) : i \in 0..Len(s) /\ i # 0
  OBVIOUS
<1> QED BY Zenon, <1>6, <1>7, <1>8

\* FromBig shifts and adds.
LEMMA FromBigSum ==
    ASSUME NEW s \in Seq(Nat)
    PROVE  \E f : /\ f[0] = 0 /\ FromBig(s) = f[Len(s)]
                  /\ \A i \in 1..Len(s) : f[i] = f[i - 1] * Base + s[i]
<1> DEFINE Eq(f) == f = [i \in 0..Len(s) |-> IF i = 0 THEN 0 ELSE f[i - 1] * Base + s[i]]
           add == [i \in 1..Len(s) |-> [x \in Nat |-> x * Base + s[i]]]
<1>1. add \in [1..Len(s) -> [Nat -> Nat]] /\ Len(s) \in Nat
  <2>1. ASSUME NEW i \in 1..Len(s), NEW x \in Nat PROVE x * Base + s[i] \in Nat
    <3>1. s[i] \in Nat
      OBVIOUS
    <3>2. x * Base \in Nat
      <4>1. Base \in Nat
        BY WireAssumption
      <4> QED BY <4>1
    <3> QED BY <3>1, <3>2
  <2>2. Len(s) \in Nat
    OBVIOUS
  <2> QED BY Zenon, <2>1, <2>2
<1>2. PICK h \in [0..Len(s) -> Nat] :
        h[0] = 0 /\ \A i \in 1..Len(s) : h[i] = add[i][h[i - 1]]
  <2> HIDE DEF add
  <2> QED BY Zenon, <1>1, Summing
<1>3. ASSUME NEW i \in 0..Len(s)
      PROVE  h[i] = IF i = 0 THEN 0 ELSE h[i - 1] * Base + s[i]
  <2>1. CASE i = 0
    BY Zenon, <1>2, <2>1
  <2>2. CASE i # 0
    <3>1. i \in 1..Len(s) /\ h[i - 1] \in Nat
      BY <2>2
    <3> QED BY Zenon, <1>2, <2>2, <3>1
  <2> QED BY <2>1, <2>2
<1>4. h = [i \in 0..Len(s) |-> h[i]]
  BY Zenon
<1>5. Eq(h)
  BY Zenon, <1>3, <1>4
<1>6. PICK f : Eq(f) /\ FromBig(s) = f[Len(s)]
  BY Zenon, <1>5 DEF FromBig
<1>7. \A i \in 0..Len(s) : f[i] = IF i = 0 THEN 0 ELSE f[i - 1] * Base + s[i]
  BY Zenon, <1>6
<1>8. 0 \in 0..Len(s) /\ \A i \in 1..Len(s) : i \in 0..Len(s) /\ i # 0
  OBVIOUS
<1> QED BY Zenon, <1>6, <1>7, <1>8

-----------------------------------------------------------------------------
(* Cutting sequences.                                                      *)

\* The first n elements of a sequence, and the others.
LEMMA Cut ==
    ASSUME NEW S, NEW s \in Seq(S), NEW n \in Nat, n <= Len(s)
    PROVE  /\ First(s, n) \in Seq(S) /\ Len(First(s, n)) = n
           /\ \A i \in 1..n : First(s, n)[i] = s[i]
           /\ After(s, n) \in Seq(S) /\ Len(After(s, n)) = Len(s) - n
           /\ \A i \in 1..(Len(s) - n) : After(s, n)[i] = s[n + i]
           /\ First(s, n) \o After(s, n) = s
<1>1. First(s, n) = SubSeq(s, 1, n) /\ After(s, n) = SubSeq(s, n + 1, Len(s))
  BY DEF First, After
<1>2. SubSeq(s, 1, n) \in Seq(S) /\ Len(SubSeq(s, 1, n)) = n
      /\ \A i \in 1..n : SubSeq(s, 1, n)[i] = s[i]
  OBVIOUS
<1>3. /\ SubSeq(s, n + 1, Len(s)) \in Seq(S) /\ Len(SubSeq(s, n + 1, Len(s))) = Len(s) - n
      /\ \A i \in 1..(Len(s) - n) : SubSeq(s, n + 1, Len(s))[i] = s[n + i]
  OBVIOUS
<1>4. SubSeq(s, 1, n) \o SubSeq(s, n + 1, Len(s)) = s
  <2>1. 1 \in 1..(Len(s) + 1) /\ n \in (1 - 1)..Len(s) /\ Len(s) \in n..Len(s)
    OBVIOUS
  <2>2. SubSeq(s, 1, n) \o SubSeq(s, n + 1, Len(s)) = SubSeq(s, 1, Len(s))
    BY Zenon, <2>1, ConcatAdjacentSubSeq
  <2> QED BY Zenon, <2>2, SubSeqFull
<1> QED BY Zenon, <1>1, <1>2, <1>3, <1>4

\* Sequences joined are told apart by the length of the first.
LEMMA Split ==
    ASSUME NEW S, NEW s \in Seq(S), NEW t \in Seq(S), NEW u \in Seq(S), NEW v \in Seq(S),
           s \o t = u \o v, Len(s) = Len(u)
    PROVE  s = u /\ t = v
<1>1. s = u
  <2>1. \A i \in 1..Len(s) : s[i] = (s \o t)[i] /\ u[i] = (u \o v)[i]
    OBVIOUS
  <2> QED BY <2>1, SeqEqual
<1>2. t = v
  BY Zenon, <1>1, ConcatSimplifications
<1> QED BY <1>1, <1>2

\* Where the cut falls into the first of two sequences.
LEMMA CutCat ==
    ASSUME NEW S, NEW s \in Seq(S), NEW t \in Seq(S), NEW n \in Nat, n <= Len(s)
    PROVE  /\ First(s \o t, n) = First(s, n)
           /\ After(s \o t, n) = After(s, n) \o t
<1>1. s \o t \in Seq(S) /\ n <= Len(s \o t)
  OBVIOUS
<1>2. First(s \o t, n) \o After(s \o t, n) = s \o t
  BY Zenon, <1>1, Cut
<1>3. First(s, n) \o After(s, n) = s
  BY Zenon, Cut
<1>4. First(s, n) \in Seq(S) /\ After(s, n) \in Seq(S) /\ Len(First(s, n)) = n
  BY Zenon, Cut
<1>5. First(s \o t, n) \in Seq(S) /\ After(s \o t, n) \in Seq(S) /\ Len(First(s \o t, n)) = n
  BY Zenon, <1>1, Cut
<1>6. First(s, n) \o (After(s, n) \o t) = s \o t
  <2>1. (First(s, n) \o After(s, n)) \o t = First(s, n) \o (After(s, n) \o t)
    <3>1. PICK a \in Seq(S) : a = First(s, n)
      BY Zenon, <1>4
    <3>2. PICK b \in Seq(S) : b = After(s, n)
      BY Zenon, <1>4
    <3>3. (a \o b) \o t = a \o (b \o t)
      OBVIOUS
    <3> QED BY Zenon, <3>1, <3>2, <3>3
  <2> QED BY Zenon, <1>3, <2>1
<1>7. After(s, n) \o t \in Seq(S)
  BY <1>4
<1> QED BY Zenon, <1>2, <1>4, <1>5, <1>6, <1>7, Split

\* The cut between the two.
LEMMA CutAt ==
    ASSUME NEW S, NEW s \in Seq(S), NEW t \in Seq(S)
    PROVE  First(s \o t, Len(s)) = s /\ After(s \o t, Len(s)) = t
<1>1. s \o t \in Seq(S) /\ Len(s) \in Nat /\ Len(s) <= Len(s \o t)
  OBVIOUS
<1>2. /\ First(s \o t, Len(s)) \o After(s \o t, Len(s)) = s \o t
      /\ First(s \o t, Len(s)) \in Seq(S) /\ After(s \o t, Len(s)) \in Seq(S)
      /\ Len(First(s \o t, Len(s))) = Len(s)
  BY Zenon, <1>1, Cut
<1> QED BY Zenon, <1>2, Split

-----------------------------------------------------------------------------
(* Integers written and read back.                                         *)

\* LittleEndian and BigEndian write w bytes, ...
LEMMA Endian ==
    ASSUME NEW v \in Nat, NEW w \in Nat
    PROVE  /\ Uint(v, w) \in Nat /\ Uint(v, w) < Power[w]
           /\ LittleEndian(v, w) \in Seq(Byte) /\ Len(LittleEndian(v, w)) = w
           /\ \A i \in 1..w : LittleEndian(v, w)[i] = Dig(Uint(v, w), i - 1)
           /\ BigEndian(v, w) \in Seq(Byte) /\ Len(BigEndian(v, w)) = w
           /\ \A i \in 1..w : BigEndian(v, w)[i] = Dig(Uint(v, w), w - i)
<1>1. Uint(v, w) \in Nat /\ Uint(v, w) < Power[w]
  <2>1. Power[w] \in Nat \ {0}
    BY Zenon, PowerFacts
  <2> QED BY Zenon, <2>1, DivMod DEF Uint
<1>2. ASSUME NEW j \in Nat PROVE Dig(Uint(v, w), j) \in Byte
  BY Zenon, <1>1, DigitStep
<1>3. LittleEndian(v, w) = [i \in 1..w |-> Dig(Uint(v, w), i - 1)]
  BY Zenon DEF LittleEndian, Dig
<1>4. BigEndian(v, w) = [i \in 1..w |-> Dig(Uint(v, w), w - i)]
  BY Zenon DEF BigEndian, Dig
<1>5. ASSUME NEW i \in 1..w PROVE i - 1 \in Nat /\ w - i \in Nat
  OBVIOUS
<1>6. \A i \in 1..w : Dig(Uint(v, w), i - 1) \in Byte /\ Dig(Uint(v, w), w - i) \in Byte
  BY Zenon, <1>2, <1>5
<1>7. LittleEndian(v, w) \in Seq(Byte) /\ Len(LittleEndian(v, w)) = w
      /\ \A i \in 1..w : LittleEndian(v, w)[i] = Dig(Uint(v, w), i - 1)
  BY <1>3, <1>6
<1>8. BigEndian(v, w) \in Seq(Byte) /\ Len(BigEndian(v, w)) = w
      /\ \A i \in 1..w : BigEndian(v, w)[i] = Dig(Uint(v, w), w - i)
  BY <1>4, <1>6
<1> QED BY Zenon, <1>1, <1>7, <1>8

\* ... of which FromLittle reads the low k back, ...
LEMMA LittleRead ==
    ASSUME NEW v \in Nat, NEW w \in Nat, NEW k \in Nat, k <= w, NEW t \in Seq(Byte)
    PROVE  FromLittle(First(LittleEndian(v, w) \o t, k)) = Uint(v, k)
<1> DEFINE u == Uint(v, w)
           s == First(LittleEndian(v, w) \o t, k)
<1>1. /\ u \in Nat /\ LittleEndian(v, w) \in Seq(Byte) /\ Len(LittleEndian(v, w)) = w
      /\ \A i \in 1..w : LittleEndian(v, w)[i] = Dig(u, i - 1)
  BY Zenon, Endian
<1>2. s \in Seq(Byte) /\ Len(s) = k /\ \A i \in 1..k : s[i] = Dig(u, i - 1)
  <2>1. s = First(LittleEndian(v, w), k)
    BY Zenon, <1>1, CutCat
  <2>2. /\ First(LittleEndian(v, w), k) \in Seq(Byte) /\ Len(First(LittleEndian(v, w), k)) = k
        /\ \A i \in 1..k : First(LittleEndian(v, w), k)[i] = LittleEndian(v, w)[i]
    BY Zenon, <1>1, Cut
  <2>3. \A i \in 1..k : i \in 1..w
    OBVIOUS
  <2> HIDE DEF u, s
  <2> QED BY Zenon, <1>1, <2>1, <2>2, <2>3
<1> HIDE DEF s, u
<1>3. s \in Seq(Nat)
  <2>1. Byte \subseteq Nat
    BY WireAssumption DEF Byte
  <2> QED BY Zenon, <1>2, <2>1, SeqMonotonic
<1>4. PICK f : /\ f[0] = 0 /\ FromLittle(s) = f[Len(s)]
               /\ \A i \in 1..Len(s) : f[i] = f[i - 1] + s[i] * Power[i - 1]
  BY Zenon, <1>3, FromLittleSum
<1> DEFINE A == {n \in Nat : n <= k => f[n] = u % Power[n]}
<1>5. 0 \in A
  <2>1. u % 1 = 0
    <3>1. 1 \in Nat \ {0}
      OBVIOUS
    <3> QED BY Zenon, <1>1, <3>1, SmallDiv
  <2> QED BY Zenon, <1>4, <2>1, PowerFacts
<1>6. ASSUME NEW n \in Nat, n \in A PROVE n + 1 \in A
  <2> SUFFICES ASSUME n + 1 <= k PROVE f[n + 1] = u % Power[n + 1]
    OBVIOUS
  <2>1. n + 1 \in 1..k /\ (n + 1) - 1 = n /\ f[n] = u % Power[n]
    BY <1>6
  <2>2. f[n + 1] = f[n] + s[n + 1] * Power[n] /\ s[n + 1] = Dig(u, n)
    BY Zenon, <1>2, <1>4, <2>1
  <2>3. u % Power[n + 1] = (u % Power[n]) + Dig(u, n) * Power[n]
    BY Zenon, <1>1, DigitStep
  <2> QED BY Zenon, <2>1, <2>2, <2>3
<1>7. k \in A
  <2> HIDE DEF A
  <2> QED BY <1>5, <1>6, Induction
<1>8. FromLittle(s) = u % Power[k]
  BY <1>2, <1>4, <1>7
<1>9. u % Power[k] = v % Power[k]
  BY Zenon, LowDigits DEF u
<1> QED BY Zenon, <1>8, <1>9 DEF s, Uint

\* ... and FromBig all of them.
LEMMA BigRead ==
    ASSUME NEW v \in Nat, NEW w \in Nat, v < Power[w], NEW t \in Seq(Byte)
    PROVE  FromBig(First(BigEndian(v, w) \o t, w)) = v
<1> DEFINE s == BigEndian(v, w)
<1>1. Uint(v, w) = v
  <2>1. Power[w] \in Nat \ {0}
    BY Zenon, PowerFacts
  <2> QED BY Zenon, <2>1, SmallDiv DEF Uint
<1>2. /\ s \in Seq(Byte) /\ Len(s) = w
      /\ \A i \in 1..w : s[i] = Dig(v, w - i)
  <2>1. /\ s \in Seq(Byte) /\ Len(s) = w
        /\ \A i \in 1..w : s[i] = Dig(Uint(v, w), w - i)
    BY Zenon, Endian
  <2> HIDE DEF s
  <2> QED BY Zenon, <1>1, <2>1
<1>3. First(s \o t, w) = s
  BY Zenon, <1>2, CutAt
<1> HIDE DEF s
<1>4. s \in Seq(Nat)
  <2>1. Byte \subseteq Nat
    BY WireAssumption DEF Byte
  <2> QED BY Zenon, <1>2, <2>1, SeqMonotonic
<1>5. PICK f : /\ f[0] = 0 /\ FromBig(s) = f[Len(s)]
               /\ \A i \in 1..Len(s) : f[i] = f[i - 1] * Base + s[i]
  BY Zenon, <1>4, FromBigSum
<1> DEFINE A == {n \in Nat : n <= w => f[n] = v \div Power[w - n]}
<1>6. 0 \in A
  <2>1. w - 0 = w /\ Power[w] \in Nat \ {0}
    BY PowerFacts
  <2>2. v \div Power[w] = 0
    BY Zenon, <2>1, SmallDiv
  <2> QED BY <1>5, <2>1, <2>2
<1>7. ASSUME NEW n \in Nat, n \in A PROVE n + 1 \in A
  <2> SUFFICES ASSUME n + 1 <= w PROVE f[n + 1] = v \div Power[w - (n + 1)]
    OBVIOUS
  <2>1. PICK j \in Nat : j = w - (n + 1) /\ j + 1 = w - n
    OBVIOUS
  <2>2. n + 1 \in 1..w /\ (n + 1) - 1 = n /\ f[n] = v \div Power[j + 1]
    BY <1>7, <2>1
  <2>3. f[n + 1] = f[n] * Base + Dig(v, j)
    BY Zenon, <1>2, <1>5, <2>1, <2>2
  <2>4. v \div Power[j] = Base * (v \div Power[j + 1]) + Dig(v, j)
    BY Zenon, DigitStep
  <2>5. f[n] * Base = Base * f[n]
    <3>1. v \div Power[j + 1] \in Nat
      <4>1. Power[j + 1] \in Nat \ {0}
        BY PowerFacts
      <4> QED BY Zenon, <4>1, DivMod
    <3>2. PICK x \in Nat : x = f[n]
      BY Zenon, <2>2, <3>1
    <3>3. Base \in Nat
      BY WireAssumption
    <3>4. x * Base = Base * x
      BY <3>3
    <3> QED BY Zenon, <3>2, <3>4
  <2> QED BY Zenon, <2>1, <2>2, <2>3, <2>4, <2>5
<1>8. w \in A
  <2> HIDE DEF A
  <2> QED BY <1>6, <1>7, Induction
<1>9. f[w] = v
  <2>1. w - w = 0 /\ 1 \in Nat \ {0}
    OBVIOUS
  <2>2. v \div 1 = v
    BY Zenon, <2>1, SmallDiv
  <2>3. f[w] = v \div Power[w - w]
    BY <1>8
  <2>4. Power[0] = 1
    BY Zenon, PowerFacts
  <2> QED BY Zenon, <2>1, <2>2, <2>3, <2>4
<1> QED BY Zenon, <1>2, <1>3, <1>5, <1>9 DEF s

-----------------------------------------------------------------------------
(* Joining sequences.                                                      *)

\* Joining a to b and the result to c, or b to c first.
Associate(a, b, c) == (a \o b) \o c = a \o (b \o c)

\* The order does not matter.
LEMMA Associative ==
    ASSUME NEW S, NEW a \in Seq(S), NEW b \in Seq(S), NEW c \in Seq(S)
    PROVE  Associate(a, b, c)
BY DEF Associate

\* Joined joins the sequences one by one.
LEMMA FlatSum ==
    ASSUME NEW S, NEW q \in Seq(Seq(S))
    PROVE  \E g \in [0..Len(q) -> Seq(S)] :
             /\ g[0] = <<>> /\ Joined(q) = g[Len(q)]
             /\ \A i \in 1..Len(q) : g[i] = g[i - 1] \o q[i]
<1> DEFINE Eq(f) == f = [i \in 0..Len(q) |-> IF i = 0 THEN <<>> ELSE f[i - 1] \o q[i]]
           join == [n \in Nat |-> [x \in Seq(S) |-> IF n < Len(q) THEN x \o q[n + 1] ELSE x]]
<1>0. Len(q) \in Nat
  OBVIOUS
<1>1. <<>> \in Seq(S) /\ join \in [Nat -> [Seq(S) -> Seq(S)]]
  <2>1. ASSUME NEW n \in Nat, NEW x \in Seq(S), n < Len(q) PROVE x \o q[n + 1] \in Seq(S)
    <3>1. q[n + 1] \in Seq(S)
      BY <2>1
    <3> QED BY <3>1
  <2> QED BY <2>1
<1>2. PICK g : Runs(g, Seq(S), <<>>, join)
  <2> HIDE DEF join
  <2> QED BY Zenon, <1>1, Iterate
<1>3. g \in [Nat -> Seq(S)] /\ g[0] = <<>> /\ \A n \in Nat : g[n + 1] = join[n][g[n]]
  BY Zenon, <1>2 DEF Runs
<1>4. ASSUME NEW i \in 1..Len(q) PROVE g[i] = g[i - 1] \o q[i] /\ g[i - 1] \in Seq(S)
  <2>1. i - 1 \in Nat /\ (i - 1) + 1 = i /\ i - 1 < Len(q)
    OBVIOUS
  <2>2. g[(i - 1) + 1] = join[i - 1][g[i - 1]] /\ g[i - 1] \in Seq(S)
    BY Zenon, <1>3, <2>1
  <2>3. join[i - 1][g[i - 1]] = g[i - 1] \o q[i]
    BY Zenon, <2>1, <2>2
  <2> QED BY Zenon, <2>1, <2>2, <2>3
<1> HIDE DEF join
<1>5. \E f : Eq(f)
  <2> DEFINE h == [i \in 0..Len(q) |-> g[i]]
  <2>1. ASSUME NEW i \in 0..Len(q) PROVE g[i] = IF i = 0 THEN <<>> ELSE h[i - 1] \o q[i]
    <3>1. CASE i = 0
      BY <1>3, <3>1
    <3>2. CASE i # 0
      <4>1. i \in 1..Len(q) /\ i - 1 \in 0..Len(q)
        BY <1>0, <3>2
      <4> QED BY Zenon, <1>4, <3>2, <4>1
    <3> QED BY <3>1, <3>2
  <2>2. h = [i \in 0..Len(q) |-> IF i = 0 THEN <<>> ELSE h[i - 1] \o q[i]]
    BY Zenon, <2>1
  <2> HIDE DEF h
  <2> QED BY Zenon, <2>2
<1>6. Joined(q) = g[Len(q)]
  <2>1. PICK f : Eq(f) /\ Joined(q) = f[Len(q)]
    BY Zenon, <1>5 DEF Joined
  <2>2. \A i \in 0..Len(q) : f[i] = IF i = 0 THEN <<>> ELSE f[i - 1] \o q[i]
    BY Zenon, <2>1
  <2> DEFINE A == {n \in Nat : n <= Len(q) => f[n] = g[n]}
  <2>3. 0 \in A
    <3>1. 0 \in 0..Len(q)
      BY <1>0
    <3>2. f[0] = <<>>
      BY Zenon, <2>2, <3>1
    <3> QED BY <1>3, <3>2
  <2>4. ASSUME NEW n \in Nat, n \in A PROVE n + 1 \in A
    <3> SUFFICES ASSUME n + 1 <= Len(q) PROVE f[n + 1] = g[n + 1]
      OBVIOUS
    <3>1. /\ n + 1 \in 0..Len(q) /\ n + 1 \in 1..Len(q) /\ n + 1 # 0 /\ (n + 1) - 1 = n
          /\ f[n] = g[n]
      <4>1. n <= Len(q) => f[n] = g[n]
        BY Zenon, <2>4
      <4>2. /\ n + 1 \in 0..Len(q) /\ n + 1 \in 1..Len(q) /\ n + 1 # 0 /\ (n + 1) - 1 = n
            /\ n <= Len(q)
        BY <1>0
      <4> QED BY Zenon, <4>1, <4>2
    <3>2. f[n + 1] = f[n] \o q[n + 1]
      BY Zenon, <2>2, <3>1
    <3>3. g[n + 1] = g[n] \o q[n + 1]
      BY Zenon, <1>4, <3>1
    <3> QED BY Zenon, <3>1, <3>2, <3>3
  <2>5. Len(q) \in A
    <3> HIDE DEF A
    <3> QED BY Zenon, <1>0, <2>3, <2>4, Induction
  <2>6. f[Len(q)] = g[Len(q)]
    BY <1>0, <2>5
  <2> QED BY Zenon, <2>1, <2>6
<1> DEFINE k == [i \in 0..Len(q) |-> g[i]]
<1>7. k \in [0..Len(q) -> Seq(S)] /\ k[0] = <<>> /\ Joined(q) = k[Len(q)]
  BY <1>0, <1>3, <1>6
<1>8. ASSUME NEW i \in 1..Len(q) PROVE k[i] = k[i - 1] \o q[i]
  <2>1. i \in 0..Len(q) /\ i - 1 \in 0..Len(q)
    OBVIOUS
  <2> QED BY Zenon, <1>4, <2>1
<1> HIDE DEF k
<1> QED BY Zenon, <1>7, <1>8

\* One sequence more at the end.
LEMMA FlatAppend ==
    ASSUME NEW S, NEW q \in Seq(Seq(S)), NEW x \in Seq(S)
    PROVE  Joined(q) \in Seq(S) /\ Joined(Append(q, x)) = Joined(q) \o x
<1>1. PICK g \in [0..Len(q) -> Seq(S)] :
         /\ g[0] = <<>> /\ Joined(q) = g[Len(q)]
         /\ \A i \in 1..Len(q) : g[i] = g[i - 1] \o q[i]
  BY Zenon, FlatSum
<1> DEFINE r == Append(q, x)
<1>2. r \in Seq(Seq(S)) /\ Len(r) = Len(q) + 1 /\ r[Len(q) + 1] = x
      /\ \A i \in 1..Len(q) : r[i] = q[i]
  OBVIOUS
<1> HIDE DEF r
<1>3. PICK h \in [0..Len(r) -> Seq(S)] :
         /\ h[0] = <<>> /\ Joined(r) = h[Len(r)]
         /\ \A i \in 1..Len(r) : h[i] = h[i - 1] \o r[i]
  BY Zenon, <1>2, FlatSum
<1> DEFINE A == {n \in Nat : n <= Len(q) => h[n] = g[n]}
<1>4. 0 \in A
  BY <1>1, <1>3
<1>5. ASSUME NEW n \in Nat, n \in A PROVE n + 1 \in A
  <2> SUFFICES ASSUME n + 1 <= Len(q) PROVE h[n + 1] = g[n + 1]
    OBVIOUS
  <2>1. n + 1 \in 1..Len(q) /\ n + 1 \in 1..Len(r) /\ (n + 1) - 1 = n /\ h[n] = g[n]
    BY <1>2, <1>5
  <2> QED BY Zenon, <1>1, <1>2, <1>3, <2>1
<1>6. Len(q) \in Nat /\ Len(q) <= Len(q) /\ Len(q) + 1 \in 1..(Len(q) + 1) /\ (Len(q) + 1) - 1 = Len(q)
      /\ Len(q) \in 0..Len(q)
  OBVIOUS
<1>7. Len(q) \in A
  <2> HIDE DEF A
  <2> QED BY Zenon, <1>4, <1>5, <1>6, Induction
<1>8. h[Len(q)] = g[Len(q)]
  BY <1>6, <1>7
<1> QED BY Zenon, <1>1, <1>2, <1>3, <1>6, <1>8 DEF r

\* The first sequence taken off.
LEMMA FlatHead ==
    ASSUME NEW S, NEW q \in Seq(Seq(S)), q # <<>>
    PROVE  /\ q[1] \in Seq(S) /\ Tail(q) \in Seq(Seq(S))
           /\ Joined(q) = q[1] \o Joined(Tail(q))
<1> DEFINE r == Tail(q)
<1>1. PICK g \in [0..Len(q) -> Seq(S)] :
         /\ g[0] = <<>> /\ Joined(q) = g[Len(q)]
         /\ \A i \in 1..Len(q) : g[i] = g[i - 1] \o q[i]
  BY Zenon, FlatSum
<1>2. r \in Seq(Seq(S)) /\ Len(r) + 1 = Len(q) /\ Len(r) \in Nat /\ q[1] \in Seq(S)
      /\ \A i \in 1..Len(r) : r[i] = q[i + 1]
  OBVIOUS
<1> HIDE DEF r
<1>3. PICK h \in [0..Len(r) -> Seq(S)] :
         /\ h[0] = <<>> /\ Joined(r) = h[Len(r)]
         /\ \A i \in 1..Len(r) : h[i] = h[i - 1] \o r[i]
  BY Zenon, <1>2, FlatSum
<1> DEFINE A == {n \in Nat : n <= Len(r) => g[n + 1] = q[1] \o h[n]}
<1>4. 0 \in A
  <2>1. 1 \in 1..Len(q) /\ 1 - 1 = 0 /\ 0 + 1 = 1
    BY <1>2
  <2>2. g[1] = <<>> \o q[1]
    BY Zenon, <1>1, <2>1
  <2>3. <<>> \o q[1] = q[1] \o <<>>
    BY <1>2
  <2> QED BY Zenon, <1>3, <2>1, <2>2, <2>3
<1>5. ASSUME NEW n \in Nat, n \in A, n + 1 <= Len(r) PROVE g[(n + 1) + 1] = q[1] \o h[n + 1]
  <2>1. n + 1 \in 1..Len(r) /\ (n + 1) + 1 \in 1..Len(q) /\ (n + 1) - 1 = n
        /\ ((n + 1) + 1) - 1 = n + 1 /\ g[n + 1] = q[1] \o h[n] /\ n \in 0..Len(r)
    <3>1. n + 1 \in 1..Len(r) /\ (n + 1) + 1 \in 1..Len(q) /\ (n + 1) - 1 = n
          /\ ((n + 1) + 1) - 1 = n + 1 /\ n \in 0..Len(r) /\ n <= Len(r)
      <4> HIDE DEF A
      <4> QED BY <1>2, <1>5
    <3> QED BY Zenon, <1>5, <3>1
  <2>2. g[(n + 1) + 1] = (q[1] \o h[n]) \o r[n + 1]
    BY Zenon, <1>1, <1>2, <2>1
  <2>3. h[n + 1] = h[n] \o r[n + 1]
    BY Zenon, <1>3, <2>1
  <2>4. q[1] \in Seq(S) /\ h[n] \in Seq(S) /\ r[n + 1] \in Seq(S)
    <3>1. r[n + 1] \in Seq(S)
      BY <1>2, <2>1
    <3> QED BY Zenon, <1>2, <2>1, <3>1
  <2>5. Associate(q[1], h[n], r[n + 1])
    BY Zenon, <2>4, Associative
  <2> QED BY Zenon, <2>2, <2>3, <2>5 DEF Associate
<1>6. ASSUME NEW n \in Nat, n \in A PROVE n + 1 \in A
  <2>1. n + 1 \in Nat
    OBVIOUS
  <2> QED BY Zenon, <1>5, <1>6, <2>1
<1>7. g[Len(q)] = q[1] \o h[Len(r)]
  <2>1. Len(r) \in A
    <3> HIDE DEF A
    <3> QED BY Zenon, <1>2, <1>4, <1>6, Induction
  <2>2. Len(r) <= Len(r)
    BY <1>2
  <2> QED BY Zenon, <1>2, <2>1, <2>2
<1> QED BY Zenon, <1>1, <1>2, <1>3, <1>7 DEF r

-----------------------------------------------------------------------------
(* The stream of a sequence of payloads.                                   *)

Encoded(q) == Joined([k \in 1..Len(q) |-> encodeFrame(q[k])])

\* A frame is its length and the payload.
LEMMA FrameBytes ==
    ASSUME NEW p \in Bytes
    PROVE  encodeFrame(p) \in Bytes /\ Len(encodeFrame(p)) = LenWidth + Len(p)
<1>1. Len(p) \in Nat /\ LenWidth \in Nat
  BY WireAssumption DEF Bytes
<1>2. PICK b \in Seq(Byte) : b = BigEndian(Len(p), LenWidth) /\ Len(b) = LenWidth
  BY Zenon, <1>1, Endian
<1>3. b \o p \in Seq(Byte) /\ Len(b \o p) = Len(b) + Len(p)
  BY DEF Bytes
<1> QED BY Zenon, <1>2, <1>3 DEF encodeFrame, Bytes

\* No payload, one more, and the first taken off.
LEMMA EncodedParts ==
    ASSUME NEW q \in Seq(Bytes)
    PROVE  /\ Encoded(q) \in Bytes
           /\ q = <<>> => Encoded(q) = <<>>
           /\ \A p \in Bytes : Encoded(Append(q, p)) = Encoded(q) \o encodeFrame(p)
           /\ q # <<>> => /\ q[1] \in Bytes /\ Tail(q) \in Seq(Bytes)
                          /\ Encoded(q) = encodeFrame(q[1]) \o Encoded(Tail(q))
<1> DEFINE Frames(x) == [k \in 1..Len(x) |-> encodeFrame(x[k])]
<1>1. ASSUME NEW x \in Seq(Bytes) PROVE Frames(x) \in Seq(Seq(Byte)) /\ Len(Frames(x)) = Len(x)
  <2>1. ASSUME NEW k \in 1..Len(x) PROVE encodeFrame(x[k]) \in Seq(Byte)
    <3>1. x[k] \in Bytes
      OBVIOUS
    <3> QED BY Zenon, <3>1, FrameBytes DEF Bytes
  <2> QED BY <2>1
<1>2. <<>> \in Seq(Byte)
  OBVIOUS
<1>3. Encoded(q) \in Bytes
  BY Zenon, <1>1, <1>2, FlatAppend DEF Encoded, Bytes
<1>4. q = <<>> => Encoded(q) = <<>>
  <2> SUFFICES ASSUME q = <<>> PROVE Encoded(q) = <<>>
    OBVIOUS
  <2>1. Frames(q) \in Seq(Seq(Byte)) /\ Len(Frames(q)) = 0
    BY <1>1
  <2>2. Joined(Frames(q)) = <<>>
    <3>1. PICK x \in Seq(Seq(Byte)) : x = Frames(q)
      BY Zenon, <2>1
    <3>2. PICK g \in [0..Len(x) -> Seq(Byte)] :
             /\ g[0] = <<>> /\ Joined(x) = g[Len(x)]
             /\ \A i \in 1..Len(x) : g[i] = g[i - 1] \o x[i]
      BY Zenon, FlatSum
    <3>3. Len(x) = 0
      BY Zenon, <2>1, <3>1
    <3> QED BY Zenon, <3>1, <3>2, <3>3
  <2> QED BY Zenon, <2>2 DEF Encoded
<1>5. ASSUME NEW p \in Bytes PROVE Encoded(Append(q, p)) = Encoded(q) \o encodeFrame(p)
  <2>1. encodeFrame(p) \in Seq(Byte)
    BY Zenon, FrameBytes DEF Bytes
  <2>2. Append(q, p) \in Seq(Bytes) /\ Len(Append(q, p)) = Len(q) + 1
        /\ Append(q, p)[Len(q) + 1] = p /\ \A k \in 1..Len(q) : Append(q, p)[k] = q[k]
    OBVIOUS
  <2>3. Frames(Append(q, p)) = Append(Frames(q), encodeFrame(p))
    <3> DEFINE a == Frames(Append(q, p))
               b == Append(Frames(q), encodeFrame(p))
    <3>1. a \in Seq(Seq(Byte)) /\ Len(a) = Len(q) + 1
          /\ \A k \in 1..(Len(q) + 1) : a[k] = encodeFrame(Append(q, p)[k])
      BY Zenon, <1>1, <2>2
    <3>2. Frames(q) \in Seq(Seq(Byte)) /\ Len(Frames(q)) = Len(q)
          /\ \A k \in 1..Len(q) : Frames(q)[k] = encodeFrame(q[k])
      BY Zenon, <1>1
    <3> HIDE DEF Frames
    <3>3. b \in Seq(Seq(Byte)) /\ Len(b) = Len(q) + 1 /\ b[Len(q) + 1] = encodeFrame(p)
          /\ \A k \in 1..Len(q) : b[k] = Frames(q)[k]
      BY <2>1, <3>2
    <3> HIDE DEF a, b
    <3>4. ASSUME NEW k \in 1..(Len(q) + 1) PROVE a[k] = b[k]
      <4>1. k \in 1..Len(q) \/ k = Len(q) + 1
        OBVIOUS
      <4> QED BY Zenon, <2>2, <3>1, <3>2, <3>3, <4>1
    <3>5. a = b
      BY Zenon, <3>1, <3>3, <3>4, SeqEqual
    <3> QED BY Zenon, <3>5 DEF a, b
  <2>4. Joined(Append(Frames(q), encodeFrame(p))) = Joined(Frames(q)) \o encodeFrame(p)
    BY Zenon, <1>1, <2>1, FlatAppend
  <2> QED BY Zenon, <2>3, <2>4 DEF Encoded
<1>6. ASSUME q # <<>>
      PROVE  /\ q[1] \in Bytes /\ Tail(q) \in Seq(Bytes)
             /\ Encoded(q) = encodeFrame(q[1]) \o Encoded(Tail(q))
  <2>1. q[1] \in Bytes /\ Tail(q) \in Seq(Bytes) /\ Len(q) \in Nat /\ Len(Tail(q)) = Len(q) - 1
        /\ Len(q) >= 1 /\ \A k \in 1..(Len(q) - 1) : Tail(q)[k] = q[k + 1]
    BY <1>6
  <2> DEFINE a == Frames(Tail(q))
             f == Frames(q)
  <2>2. f \in Seq(Seq(Byte)) /\ Len(f) = Len(q) /\ \A k \in 1..Len(q) : f[k] = encodeFrame(q[k])
    BY Zenon, <1>1
  <2>3. a \in Seq(Seq(Byte)) /\ Len(a) = Len(q) - 1
        /\ \A k \in 1..(Len(q) - 1) : a[k] = encodeFrame(Tail(q)[k])
    BY Zenon, <1>1, <2>1
  <2> HIDE DEF a, f
  <2>4. f # <<>> /\ Tail(f) \in Seq(Seq(Byte)) /\ Len(Tail(f)) = Len(q) - 1
        /\ \A k \in 1..(Len(q) - 1) : Tail(f)[k] = f[k + 1]
    BY <2>1, <2>2
  <2>5. a = Tail(f)
    <3>1. ASSUME NEW k \in 1..(Len(q) - 1) PROVE a[k] = Tail(f)[k]
      <4>1. k + 1 \in 1..Len(q)
        BY <2>1
      <4> QED BY Zenon, <2>1, <2>2, <2>3, <2>4, <4>1
    <3> QED BY Zenon, <2>3, <2>4, <3>1, SeqEqual
  <2>6. Joined(f) = f[1] \o Joined(Tail(f))
    BY Zenon, <2>2, <2>4, FlatHead
  <2>7. f[1] = encodeFrame(q[1])
    <3>1. 1 \in 1..Len(q)
      BY <2>1
    <3> QED BY Zenon, <2>2, <3>1
  <2>8. Encoded(q) = Joined(f) /\ Encoded(Tail(q)) = Joined(a)
    BY Zenon DEF Encoded, a, f
  <2> QED BY Zenon, <2>1, <2>5, <2>6, <2>7, <2>8
<1> QED BY Zenon, <1>3, <1>4, <1>5, <1>6

\* What FromBig returns is a number.
LEMMA FromBigNat ==
    ASSUME NEW s \in Bytes
    PROVE  FromBig(s) \in Nat
<1>1. s \in Seq(Nat) /\ Base \in Nat
  <2>1. Byte \subseteq Nat /\ Base \in Nat
    BY WireAssumption DEF Byte
  <2> QED BY Zenon, <2>1, SeqMonotonic DEF Bytes
<1>2. PICK f : /\ f[0] = 0 /\ FromBig(s) = f[Len(s)]
               /\ \A i \in 1..Len(s) : f[i] = f[i - 1] * Base + s[i]
  BY Zenon, <1>1, FromBigSum
<1> DEFINE A == {n \in Nat : n <= Len(s) => f[n] \in Nat}
<1>3. 0 \in A
  BY <1>2
<1>4. ASSUME NEW n \in Nat, n \in A PROVE n + 1 \in A
  <2> SUFFICES ASSUME n + 1 <= Len(s) PROVE f[n + 1] \in Nat
    OBVIOUS
  <2>1. n + 1 \in 1..Len(s) /\ (n + 1) - 1 = n /\ s[n + 1] \in Nat
    BY <1>1
  <2>2. PICK x \in Nat : x = f[n]
    BY <1>1, <1>4
  <2>3. f[n + 1] = x * Base + s[n + 1]
    BY Zenon, <1>2, <2>1, <2>2
  <2>4. x * Base \in Nat
    BY <1>1
  <2> QED BY <2>1, <2>3, <2>4
<1>5. Len(s) \in Nat /\ Len(s) <= Len(s)
  BY <1>1
<1>6. Len(s) \in A
  <2> HIDE DEF A
  <2> QED BY <1>3, <1>4, <1>5, Induction
<1> QED BY Zenon, <1>2, <1>5, <1>6

\* What the receiver makes of bytes b of a stream that goes on with t, when
\* the stream is that of the payloads q.
LEMMA FrameRead ==
    ASSUME NEW b \in Bytes, NEW t \in Bytes, NEW q \in Seq(Bytes), b \o t = Encoded(q),
           Fits(b, LenWidth), \A k \in 1..Len(q) : encodeFrameOK(q[k])
    PROVE  /\ q # <<>> /\ FrameLen(b) = Len(q[1])
           /\ Complete(b) => /\ FirstFrame(b) = q[1]
                             /\ AfterFrame(b) \o t = Encoded(Tail(q))
<1>0. LenWidth \in Nat \ {0} /\ Len(b) \in Nat /\ LenWidth <= Len(b)
  BY WireAssumption DEF Bytes, Fits
<1>1. q # <<>>
  <2> SUFFICES ASSUME q = <<>> PROVE FALSE
    OBVIOUS
  <2>1. b \o t = <<>>
    BY Zenon, EncodedParts
  <2>2. b = <<>>
    BY <2>1 DEF Bytes
  <2> QED BY <1>0, <2>2
<1> DEFINE p == q[1]
           R == Encoded(Tail(q))
           h == BigEndian(Len(p), LenWidth)
<1>2. p \in Bytes /\ Tail(q) \in Seq(Bytes) /\ b \o t = encodeFrame(p) \o R
  BY Zenon, <1>1, EncodedParts
<1>3. R \in Bytes
  BY Zenon, <1>2, EncodedParts
<1>4. Len(p) \in Nat /\ Len(p) < Power[LenWidth]
  <2>1. 1 \in 1..Len(q)
    BY <1>1
  <2>2. encodeFrameOK(p)
    BY Zenon, <2>1
  <2>3. Len(p) \in Nat
    BY <1>2 DEF Bytes
  <2> QED BY Zenon, <2>2, <2>3 DEF encodeFrameOK
<1> HIDE DEF p, R
<1>5. h \in Seq(Byte) /\ Len(h) = LenWidth /\ encodeFrame(p) = h \o p
  BY Zenon, <1>0, <1>4, Endian DEF encodeFrame
<1> HIDE DEF h
<1>6. b \o t = h \o (p \o R) /\ p \o R \in Seq(Byte)
  <2>1. Associate(h, p, R)
    BY Zenon, <1>2, <1>3, <1>5, Associative DEF Bytes
  <2>2. p \o R \in Seq(Byte)
    BY <1>2, <1>3 DEF Bytes
  <2> QED BY Zenon, <1>2, <1>5, <2>1, <2>2 DEF Associate
<1>7. First(b, LenWidth) = First(h \o (p \o R), LenWidth)
  <2>1. First(b \o t, LenWidth) = First(b, LenWidth)
    BY Zenon, <1>0, CutCat DEF Bytes
  <2> QED BY Zenon, <1>6, <2>1
<1>8. FrameLen(b) = Len(p)
  <2>1. LenWidth \in Nat
    BY <1>0
  <2>2. FromBig(First(h \o (p \o R), LenWidth)) = Len(p)
    BY Zenon, <2>1, <1>4, <1>6, BigRead DEF h
  <2> QED BY Zenon, <1>7, <2>2 DEF FrameLen
<1>9. ASSUME Complete(b) PROVE FirstFrame(b) = p /\ AfterFrame(b) \o t = R
  <2>1. LenWidth + Len(p) <= Len(b)
    BY Zenon, <1>8, <1>9 DEF Complete, Fits
  <2> DEFINE a == After(b, LenWidth)
             n == LenWidth + Len(p)
  <2>2. a \in Seq(Byte) /\ Len(a) = Len(b) - LenWidth
    BY Zenon, <1>0, Cut DEF Bytes
  <2>3. a \o t = p \o R
    <3>1. After(b \o t, LenWidth) = a \o t
      BY Zenon, <1>0, CutCat DEF Bytes
    <3>2. After(h \o (p \o R), LenWidth) = p \o R
      BY Zenon, <1>5, <1>6, CutAt
    <3> QED BY Zenon, <1>6, <3>1, <3>2
  <2> HIDE DEF a
  <2>4. Len(p) <= Len(a)
    BY <1>0, <1>4, <2>1, <2>2
  <2>5. First(a, Len(p)) = p
    <3>1. First(a \o t, Len(p)) = First(a, Len(p))
      BY Zenon, <1>4, <2>2, <2>4, CutCat DEF Bytes
    <3>2. First(p \o R, Len(p)) = p
      BY Zenon, <1>2, <1>3, CutAt DEF Bytes
    <3> QED BY Zenon, <2>3, <3>1, <3>2
  <2>6. n \in Nat /\ n <= Len(b)
    BY <1>0, <1>4, <2>1
  <2>7. After(b, n) \o t = R
    <3>1. After(b \o t, n) = After(b, n) \o t
      BY Zenon, <2>6, CutCat DEF Bytes
    <3>2. After(encodeFrame(p) \o R, n) = R
      BY Zenon, <1>2, <1>3, FrameBytes, CutAt DEF Bytes
    <3> QED BY Zenon, <1>2, <3>1, <3>2
  <2> QED BY Zenon, <1>8, <2>5, <2>7 DEF FirstFrame, AfterFrame, a
<1> QED BY Zenon, <1>1, <1>8, <1>9 DEF p, R

-----------------------------------------------------------------------------
(* decodeFrames.                                                           *)

\* One round of the loop of decodeFrames(buf), m bytes before the end, where
\* f tells what later rounds make of the rest.
Round(buf, f, m) ==
    LET b == After(buf, Len(buf) - m) IN
    IF Oversized(b) THEN Decoded(<<>>, b, TRUE)
    ELSE IF ~Complete(b) THEN Decoded(<<>>, b, FALSE)
    ELSE LET d == f[Len(AfterFrame(b))]
         IN [d EXCEPT !.frames = IF d.err THEN <<>> ELSE <<FirstFrame(b)>> \o @]

\* The bytes before round m.
LEMMA RoundBytes ==
    ASSUME NEW buf \in Bytes, NEW m \in 0..Len(buf)
    PROVE  /\ After(buf, Len(buf) - m) \in Bytes /\ Len(After(buf, Len(buf) - m)) = m
           /\ Complete(After(buf, Len(buf) - m)) =>
                /\ FrameLen(After(buf, Len(buf) - m)) \in Nat
                /\ Len(AfterFrame(After(buf, Len(buf) - m))) \in 0..(m - 1)
                /\ Len(AfterFrame(After(buf, Len(buf) - m))) =
                     m - (LenWidth + FrameLen(After(buf, Len(buf) - m)))
<1> DEFINE b == After(buf, Len(buf) - m)
<1>1. Len(buf) - m \in Nat /\ Len(buf) - m <= Len(buf) /\ Len(buf) - (Len(buf) - m) = m
  BY DEF Bytes
<1>2. b \in Bytes /\ Len(b) = m
  BY Zenon, <1>1, Cut DEF Bytes
<1> HIDE DEF b
<1>3. ASSUME Complete(b)
      PROVE  /\ FrameLen(b) \in Nat /\ Len(AfterFrame(b)) \in 0..(m - 1)
             /\ Len(AfterFrame(b)) = m - (LenWidth + FrameLen(b))
  <2>1. LenWidth \in Nat \ {0}
    BY WireAssumption
  <2>2. LenWidth <= Len(b) /\ LenWidth + FrameLen(b) <= Len(b)
    BY Zenon, <1>3 DEF Complete, Fits
  <2>3. LenWidth \in Nat
    BY <2>1
  <2>4. First(b, LenWidth) \in Bytes
    BY Zenon, <1>2, <2>2, <2>3, Cut DEF Bytes
  <2>5. FrameLen(b) \in Nat
    BY Zenon, <2>4, FromBigNat DEF FrameLen
  <2>6. LenWidth + FrameLen(b) \in Nat
    BY <2>3, <2>5
  <2>7. Len(AfterFrame(b)) = m - (LenWidth + FrameLen(b))
    BY Zenon, <1>2, <2>2, <2>6, Cut DEF AfterFrame, Bytes
  <2> QED BY <1>2, <2>1, <2>2, <2>5, <2>7
<1> QED BY Zenon, <1>2, <1>3 DEF b

\* A round looks at later rounds only.
LEMMA RoundAgree ==
    ASSUME NEW buf \in Bytes, NEW m \in 0..Len(buf), NEW f, NEW g,
           \A j \in 0..(m - 1) : f[j] = g[j]
    PROVE  Round(buf, f, m) = Round(buf, g, m)
<1> DEFINE b == After(buf, Len(buf) - m)
           j == Len(AfterFrame(b))
<1>1. Complete(b) => j \in 0..(m - 1)
  BY Zenon, RoundBytes
<1>2. Complete(b) => f[j] = g[j]
  <2> HIDE DEF b, j
  <2> QED BY Zenon, <1>1
<1> HIDE DEF j
<1>3. ASSUME NEW x
      PROVE  Round(buf, x, m) =
               IF Oversized(b) THEN Decoded(<<>>, b, TRUE)
               ELSE IF ~Complete(b) THEN Decoded(<<>>, b, FALSE)
               ELSE [x[j] EXCEPT !.frames = IF x[j].err THEN <<>> ELSE <<FirstFrame(b)>> \o @]
  BY Zenon DEF Round, j
<1> HIDE DEF b
<1> QED BY Zenon, <1>2, <1>3

\* decodeFrames makes the rounds from the first byte on.
LEMMA Rounds ==
    ASSUME NEW buf \in Bytes
    PROVE  \E f : /\ decodeFrames(buf) = f[Len(buf)]
                  /\ \A m \in 0..Len(buf) : f[m] = Round(buf, f, m)
<1> DEFINE N == Len(buf)
           Eq(f, n) == f = [m \in 0..n |-> Round(buf, f, m)]
           A == {n \in Nat : n <= N => \E f : Eq(f, n)}
<1>0. N \in Nat
  BY DEF Bytes
<1> HIDE DEF N
<1>1. ASSUME NEW n \in Nat, n <= N, NEW f, \A m \in 0..(n - 1) : f[m] = Round(buf, f, m)
      PROVE  \E g : Eq(g, n)
  <2> DEFINE g == [m \in 0..n |-> IF m = n THEN Round(buf, f, n) ELSE f[m]]
  <2>1. ASSUME NEW m \in 0..n PROVE g[m] = Round(buf, g, m)
    <3>1. \A j \in 0..(m - 1) : j \in 0..n /\ j # n
      OBVIOUS
    <3>2. \A j \in 0..(m - 1) : f[j] = g[j]
      BY Zenon, <3>1
    <3>3. m \in 0..Len(buf)
      BY <1>0, <1>1 DEF N
    <3> HIDE DEF g
    <3>4. Round(buf, f, m) = Round(buf, g, m)
      BY Zenon, <3>2, <3>3, RoundAgree
    <3>5. g[m] = IF m = n THEN Round(buf, f, n) ELSE f[m]
      BY Zenon DEF g
    <3>6. m # n => m \in 0..(n - 1)
      OBVIOUS
    <3> QED BY Zenon, <1>1, <3>4, <3>5, <3>6
  <2>2. g = [m \in 0..n |-> g[m]]
    BY Zenon
  <2> HIDE DEF g
  <2>3. Eq(g, n)
    BY Zenon, <2>1, <2>2
  <2> HIDE DEF Eq
  <2> QED BY Zenon, <2>3
<1>2. 0 \in A
  <2>1. 0 \in Nat /\ 0 <= N /\ \A m \in 0..(0 - 1) : FALSE
    BY <1>0
  <2>2. \E f : Eq(f, 0)
    <3> HIDE DEF Eq
    <3> QED BY Zenon, <1>1, <2>1
  <2> HIDE DEF Eq
  <2> QED BY Zenon, <2>1, <2>2
<1>3. ASSUME NEW n \in Nat, n \in A PROVE n + 1 \in A
  <2>1. n + 1 \in Nat /\ (n + 1) - 1 = n /\ (n + 1 <= N => n <= N)
    BY <1>0
  <2>2. ASSUME n + 1 <= N PROVE \E f : Eq(f, n + 1)
    <3>1. PICK f : Eq(f, n)
      BY Zenon, <1>3, <2>1, <2>2
    <3>2. \A m \in 0..((n + 1) - 1) : f[m] = Round(buf, f, m)
      BY Zenon, <2>1, <3>1
    <3> HIDE DEF Eq
    <3> QED BY Zenon, <1>1, <2>1, <2>2, <3>2
  <2> HIDE DEF Eq
  <2> QED BY Zenon, <2>1, <2>2
<1>4. N \in A /\ N <= N
  <2> HIDE DEF A
  <2> QED BY <1>0, <1>2, <1>3, Induction
<1>5. \E f : Eq(f, N)
  BY Zenon, <1>4
<1>6. PICK f : Eq(f, N) /\ decodeFrames(buf) = f[N]
  BY Zenon, <1>5 DEF decodeFrames, Round, N
<1>7. \A m \in 0..N : f[m] = Round(buf, f, m)
  BY Zenon, <1>6
<1> QED BY Zenon, <1>6, <1>7 DEF N

Outcome == [frames : Seq(Bytes), rest : Bytes, err : BOOLEAN]

\* d is right for the bytes before t of the stream of payloads q: its frames
\* are the first payloads, what is left is the rest of the stream, and it is
\* an error only if a payload is too long.
Right(d, q, t) ==
    /\ d \in Outcome
    /\ Len(d.frames) <= Len(q) /\ \A k \in 1..Len(d.frames) : d.frames[k] = q[k]
    /\ d.err => d.frames = <<>> /\ \E k \in 1..Len(q) : Len(q[k]) > MaxFrame
    /\ ~d.err => d.rest \o t = Encoded(After(q, Len(d.frames)))

\* Nothing decoded.
LEMMA RightNone ==
    ASSUME NEW b \in Bytes, NEW t \in Bytes, NEW q \in Seq(Bytes), b \o t = Encoded(q)
    PROVE  Right(Decoded(<<>>, b, FALSE), q, t)
<1>1. After(q, 0) = q
  <2>1. <<>> \in Seq(Bytes) /\ Len(<<>>) = 0 /\ <<>> \o q = q
    OBVIOUS
  <2> QED BY Zenon, <2>1, CutAt
<1> DEFINE d == Decoded(<<>>, b, FALSE)
<1>2. d \in Outcome /\ d.frames = <<>> /\ d.rest = b /\ d.err = FALSE
  BY DEF Decoded, Outcome
<1>3. Len(<<>>) = 0 /\ 0 <= Len(q) /\ ~(\E k \in 1..0 : TRUE)
  OBVIOUS
<1> HIDE DEF d
<1>4. d.rest \o t = Encoded(After(q, Len(d.frames)))
  BY Zenon, <1>1, <1>2, <1>3
<1>5. Right(d, q, t)
  BY Zenon, <1>2, <1>3, <1>4 DEF Right
<1> QED BY Zenon, <1>5 DEF d

\* The first frame, and what the later rounds make of the rest.
LEMMA RightMore ==
    ASSUME NEW q \in Seq(Bytes), q # <<>>, NEW t \in Bytes, NEW d, Right(d, Tail(q), t),
           NEW e, e = [d EXCEPT !.frames = IF d.err THEN <<>> ELSE <<q[1]>> \o @]
    PROVE  Right(e, q, t)
<1> DEFINE fs == IF d.err THEN <<>> ELSE <<q[1]>> \o d.frames
           r == Tail(q)
<1>1. /\ q[1] \in Bytes /\ r \in Seq(Bytes) /\ Len(r) + 1 = Len(q) /\ Len(r) \in Nat
      /\ \A k \in 1..Len(r) : r[k] = q[k + 1]
      /\ <<q[1]>> \in Seq(Bytes) /\ <<q[1]>> \o r = q
  OBVIOUS
<1>2. d \in Outcome /\ d.frames \in Seq(Bytes) /\ d.err \in BOOLEAN /\ Len(d.frames) \in Nat
  BY DEF Right, Outcome
<1>3. Len(d.frames) <= Len(r) /\ \A k \in 1..Len(d.frames) : d.frames[k] = r[k]
  BY Zenon DEF Right
<1>4. fs \in Seq(Bytes)
  BY <1>1, <1>2
<1>5. e \in Outcome /\ e.frames = fs /\ e.err = d.err /\ e.rest = d.rest
  <2>1. e = [d EXCEPT !.frames = fs]
    OBVIOUS
  <2> HIDE DEF fs
  <2> QED BY Zenon, <1>2, <1>4, <2>1 DEF Outcome
<1>6. CASE d.err
  <2>1. fs = <<>>
    BY Zenon, <1>6
  <2>2. PICK k \in 1..Len(r) : Len(r[k]) > MaxFrame
    BY Zenon, <1>6 DEF Right
  <2>3. k + 1 \in 1..Len(q) /\ Len(q[k + 1]) > MaxFrame
    BY <1>1, <2>2
  <2>4. Len(<<>>) = 0 /\ 0 <= Len(q) /\ ~(\E i \in 1..0 : TRUE)
    BY <1>1
  <2> HIDE DEF fs
  <2> QED BY Zenon, <1>5, <1>6, <2>1, <2>3, <2>4 DEF Right
<1>7. CASE ~d.err
  <2> DEFINE n == Len(d.frames)
  <2>1. fs = <<q[1]>> \o d.frames
    BY Zenon, <1>7
  <2> HIDE DEF fs
  <2>2. /\ Len(fs) = n + 1 /\ n + 1 <= Len(q) /\ n <= Len(r)
        /\ \A k \in 1..(n + 1) : fs[k] = IF k = 1 THEN q[1] ELSE d.frames[k - 1]
    BY <1>1, <1>2, <1>3, <2>1
  <2>3. ASSUME NEW k \in 1..(n + 1) PROVE fs[k] = q[k]
    <3>1. k # 1 => k - 1 \in 1..n /\ k - 1 \in 1..Len(r) /\ (k - 1) + 1 = k
      BY <1>1, <1>2, <2>2
    <3>2. CASE k = 1
      BY Zenon, <2>2, <3>2
    <3>3. CASE k # 1
      <4>1. fs[k] = d.frames[k - 1]
        BY Zenon, <2>2, <3>3
      <4>2. d.frames[k - 1] = r[k - 1]
        BY Zenon, <1>3, <3>1, <3>3
      <4>3. r[k - 1] = q[(k - 1) + 1]
        BY Zenon, <1>1, <3>1, <3>3
      <4> QED BY Zenon, <3>1, <3>3, <4>1, <4>2, <4>3
    <3> QED BY Zenon, <3>2, <3>3
  <2>4. After(q, n + 1) = After(r, n)
    <3>1. First(r, n) \in Seq(Bytes) /\ After(r, n) \in Seq(Bytes) /\ Len(First(r, n)) = n
          /\ First(r, n) \o After(r, n) = r
      <4>1. n \in Nat /\ r \in Seq(Bytes) /\ n <= Len(r)
        BY Zenon, <1>1, <1>2, <2>2
      <4> HIDE DEF n, r
      <4> QED BY Zenon, <4>1, Cut
    <3>2. PICK a \in Seq(Bytes) : a = <<q[1]>> \o First(r, n) /\ Len(a) = n + 1
      <4>1. PICK x \in Seq(Bytes) : x = First(r, n) /\ Len(x) = n
        BY Zenon, <3>1
      <4>2. <<q[1]>> \o x \in Seq(Bytes) /\ Len(<<q[1]>> \o x) = n + 1
        BY <1>1, <4>1
      <4> QED BY Zenon, <4>1, <4>2
    <3>3. a \o After(r, n) = q
      <4>1. Associate(<<q[1]>>, First(r, n), After(r, n))
        BY Zenon, <1>1, <3>1, Associative
      <4> QED BY Zenon, <1>1, <3>1, <3>2, <4>1 DEF Associate
    <3>4. After(a \o After(r, n), Len(a)) = After(r, n)
      BY Zenon, <3>1, CutAt
    <3> QED BY Zenon, <3>2, <3>3, <3>4
  <2>5. d.rest \o t = Encoded(After(r, n))
    BY Zenon, <1>7 DEF Right
  <2> HIDE DEF n
  <2>6. e.rest \o t = Encoded(After(q, Len(e.frames)))
    BY Zenon, <1>5, <2>2, <2>4, <2>5
  <2> QED BY Zenon, <1>5, <1>7, <2>2, <2>3, <2>6 DEF Right
<1> QED BY Zenon, <1>2, <1>6, <1>7

\* Whatever part of the stream of payloads q has been read, decodeFrames is
\* right about it.
LEMMA DecodeRight ==
    ASSUME NEW buf \in Bytes, NEW t \in Bytes, NEW q \in Seq(Bytes), buf \o t = Encoded(q),
           \A k \in 1..Len(q) : encodeFrameOK(q[k])
    PROVE  Right(decodeFrames(buf), q, t)
<1> DEFINE N == Len(buf)
           b(m) == After(buf, N - m)
           Stream(m, p) == b(m) \o t = Encoded(p) /\ \A k \in 1..Len(p) : encodeFrameOK(p[k])
<1>0. N \in Nat /\ LenWidth \in Nat \ {0} /\ LenWidth \in Nat
  BY WireAssumption DEF Bytes
<1>1. PICK f : decodeFrames(buf) = f[N] /\ \A m \in 0..N : f[m] = Round(buf, f, m)
  BY Zenon, Rounds
<1> DEFINE A == {n \in Nat : \A m \in 0..N : m < n =>
                   \A p \in Seq(Bytes) : Stream(m, p) => Right(f[m], p, t)}
<1>2. 0 \in A
  <2>1. 0 \in Nat /\ \A m \in 0..N : ~(m < 0)
    BY <1>0
  <2> QED BY Zenon, <2>1
<1>3. ASSUME NEW m \in 0..N, m \in A, NEW p \in Seq(Bytes), Stream(m, p)
      PROVE  Right(f[m], p, t)
  <2>1. b(m) \in Bytes /\ Len(b(m)) = m
    BY Zenon, RoundBytes
  <2>2. f[m] = Round(buf, f, m)
    BY Zenon, <1>1
  <2> DEFINE c == b(m)
             j == Len(AfterFrame(c))
  <2>3. f[m] = IF Oversized(c) THEN Decoded(<<>>, c, TRUE)
               ELSE IF ~Complete(c) THEN Decoded(<<>>, c, FALSE)
               ELSE [f[j] EXCEPT !.frames = IF f[j].err THEN <<>> ELSE <<FirstFrame(c)>> \o @]
    BY Zenon, <2>2 DEF Round
  <2>4. c \o t = Encoded(p) /\ \A k \in 1..Len(p) : encodeFrameOK(p[k])
    BY Zenon, <1>3
  <2>5. c \in Bytes
    BY Zenon, <2>1
  <2>6. ASSUME Oversized(c) PROVE Right(f[m], p, t)
    <3> HIDE DEF c, j
    <3>1. Fits(c, LenWidth) /\ FrameLen(c) > MaxFrame
      BY Zenon, <2>6 DEF Oversized
    <3>2. p # <<>> /\ FrameLen(c) = Len(p[1])
      BY Zenon, <2>4, <2>5, <3>1, FrameRead
    <3>3. f[m] \in Outcome /\ f[m].frames = <<>> /\ f[m].err = TRUE
      BY <2>3, <2>5, <2>6 DEF Decoded, Outcome
    <3>4. 1 \in 1..Len(p) /\ Len(p) \in Nat /\ Len(<<>>) = 0 /\ 0 <= Len(p) /\ ~(\E k \in 1..0 : TRUE)
      BY <3>2
    <3> QED BY Zenon, <3>1, <3>2, <3>3, <3>4 DEF Right
  <2>7. ASSUME ~Oversized(c), ~Complete(c) PROVE Right(f[m], p, t)
    <3> HIDE DEF c, j
    <3>1. f[m] = Decoded(<<>>, c, FALSE)
      BY Zenon, <2>3, <2>7
    <3> QED BY Zenon, <2>4, <2>5, <3>1, RightNone
  <2>8. ASSUME ~Oversized(c), Complete(c) PROVE Right(f[m], p, t)
    <3>1. j \in 0..(m - 1)
      BY Zenon, <2>8, RoundBytes
    <3>2. FrameLen(c) \in Nat /\ j = m - (LenWidth + FrameLen(c))
      BY Zenon, <2>8, RoundBytes
    <3>3. AfterFrame(c) = b(j)
      <4>1. PICK n \in Nat : n = LenWidth + FrameLen(c) /\ n <= m
        <5>1. LenWidth \in Nat
          BY WireAssumption
        <5> HIDE DEF c, j
        <5> QED BY <1>0, <3>1, <3>2, <5>1
      <4>2. N - m \in Nat /\ N - m <= N /\ N - j \in Nat /\ N - j = (N - m) + n /\ N - j <= N
        <5> HIDE DEF c, j, N
        <5>1. j = m - n /\ n <= m /\ N \in Nat
          BY Zenon, <1>0, <3>2, <4>1
        <5>2. N - m \in Nat /\ N - m <= N /\ N - (m - n) \in Nat /\ N - (m - n) = (N - m) + n
              /\ N - (m - n) <= N
          BY <5>1
        <5> QED BY Zenon, <5>1, <5>2
      <4>3. PICK a \in Seq(Byte) : a = First(buf, N - m) /\ Len(a) = N - m /\ a \o c = buf
        BY Zenon, <4>2, Cut DEF Bytes
      <4> HIDE DEF c, j
      <4>4. PICK y \in Seq(Byte) : y = First(c, n) /\ Len(y) = n
        BY Zenon, <2>1, <4>1, Cut DEF Bytes, c
      <4>5. After(c, n) \in Seq(Byte) /\ y \o After(c, n) = c
        BY Zenon, <2>1, <4>1, <4>4, Cut DEF Bytes, c
      <4>6. a \o y \in Seq(Byte) /\ Len(a \o y) = N - j
        <5>1. a \o y \in Seq(Byte) /\ Len(a \o y) = Len(a) + Len(y)
          OBVIOUS
        <5> QED BY Zenon, <4>2, <4>3, <4>4, <5>1
      <4>7. (a \o y) \o After(c, n) = buf
        <5>1. Associate(a, y, After(c, n))
          BY Zenon, <4>5, Associative
        <5> QED BY Zenon, <4>3, <4>5, <5>1 DEF Associate
      <4>8. After((a \o y) \o After(c, n), Len(a \o y)) = After(c, n)
        BY Zenon, <4>5, <4>6, CutAt
      <4>9. After(buf, N - j) = After(c, n)
        BY Zenon, <4>6, <4>7, <4>8
      <4> QED BY Zenon, <4>1, <4>9 DEF AfterFrame
    <3>4. p # <<>> /\ FirstFrame(c) = p[1] /\ AfterFrame(c) \o t = Encoded(Tail(p))
      <4>1. Fits(c, LenWidth)
        BY Zenon, <2>8 DEF Complete
      <4> HIDE DEF c, j
      <4> QED BY Zenon, <2>4, <2>5, <2>8, <4>1, FrameRead
    <3>5. /\ Tail(p) \in Seq(Bytes) /\ Len(Tail(p)) = Len(p) - 1
          /\ \A k \in 1..Len(Tail(p)) : k + 1 \in 1..Len(p) /\ Tail(p)[k] = p[k + 1]
      <4> HIDE DEF b, c, j, A
      <4> QED BY <3>4
    <3>6. Stream(j, Tail(p))
      <4> HIDE DEF c, j
      <4> QED BY Zenon, <2>4, <3>3, <3>4, <3>5
    <3>7. Right(f[j], Tail(p), t)
      <4>1. j \in 0..N /\ j < m
        <5> HIDE DEF c, j, N
        <5> QED BY <1>0, <3>1
      <4> HIDE DEF j, Stream
      <4> QED BY Zenon, <1>3, <3>5, <3>6, <4>1
    <3> HIDE DEF c, j, b
    <3>8. f[m] = [f[j] EXCEPT !.frames = IF f[j].err THEN <<>> ELSE <<p[1]>> \o @]
      BY Zenon, <2>3, <2>8, <3>4
    <3> QED BY Zenon, <3>4, <3>7, <3>8, RightMore
  <2> QED BY Zenon, <2>6, <2>7, <2>8
<1> HIDE DEF Stream, b
<1>4. ASSUME NEW n \in Nat, n \in A PROVE n + 1 \in A
  <2>1. ASSUME NEW m \in 0..N, m < n + 1, NEW p \in Seq(Bytes), Stream(m, p)
        PROVE  Right(f[m], p, t)
    <3>1. m < n \/ m = n
      <4> HIDE DEF A, N
      <4> QED BY <1>0, <2>1
    <3> QED BY Zenon, <1>3, <1>4, <2>1, <3>1
  <2>2. n + 1 \in Nat
    OBVIOUS
  <2> QED BY Zenon, <2>1, <2>2
<1>5. N + 1 \in A /\ N + 1 \in Nat /\ N \in 0..N /\ N < N + 1
  <2> HIDE DEF A, N
  <2>1. N + 1 \in Nat /\ N \in 0..N /\ N < N + 1
    BY <1>0
  <2>2. N + 1 \in A
    BY Zenon, <1>2, <1>4, <2>1, Induction
  <2> QED BY <2>1, <2>2
<1>6. Stream(N, q)
  <2>1. N - N = 0 /\ <<>> \in Seq(Byte) /\ Len(<<>>) = 0 /\ <<>> \o buf = buf
    BY <1>0 DEF Bytes
  <2>2. After(<<>> \o buf, Len(<<>>)) = buf
    BY Zenon, <2>1, CutAt DEF Bytes
  <2>3. After(buf, N - N) = buf
    BY Zenon, <2>1, <2>2
  <2> QED BY Zenon, <2>3 DEF Stream, b
<1>7. Right(f[N], q, t)
  <2> HIDE DEF N
  <2> QED BY Zenon, <1>5, <1>6
<1> QED BY Zenon, <1>1, <1>7

-----------------------------------------------------------------------------
(* Messages written and read back.                                         *)

\* The widths, as numbers.
LEMMA Widths ==
    /\ LenWidth \in Nat /\ IdWidth \in Nat /\ CountWidth \in Nat /\ FieldWidth \in Nat
    /\ LenWidth <= CountWidth /\ {0, 1, 2} \subseteq Byte
BY WireAssumption DEF Byte

\* A number that fits w bytes is kept.
LEMMA UintSmall ==
    ASSUME NEW v \in Nat, NEW w \in Nat, v < Power[w]
    PROVE  Uint(v, w) = v
<1>1. Power[w] \in Nat \ {0}
  BY Zenon, PowerFacts
<1> QED BY Zenon, <1>1, SmallDiv DEF Uint

\* What fits the shorter field fits the longer.
LEMMA PowerGrows ==
    ASSUME NEW w \in Nat, NEW k \in Nat, k <= w
    PROVE  Power[k] <= Power[w]
<1> DEFINE A == {n \in Nat : Power[k] <= Power[k + n]}
<1>1. 0 \in A
  BY PowerFacts
<1>2. ASSUME NEW n \in Nat, n \in A PROVE n + 1 \in A
  <2>1. k + n \in Nat /\ (k + n) + 1 = k + (n + 1)
    OBVIOUS
  <2>2. PICK x \in Nat \ {0} : x = Power[k + n] /\ Power[k + (n + 1)] = Base * x
    BY Zenon, <2>1, PowerFacts
  <2>3. x <= Base * x
    <3>1. Base \in Nat /\ Base >= 1
      BY WireAssumption
    <3>2. PICK d \in Nat : Base = 1 + d
      <4>1. Base - 1 \in Nat /\ Base = 1 + (Base - 1)
        BY <3>1
      <4> QED BY Zenon, <4>1
    <3>3. (1 + d) * x = x + d * x /\ d * x \in Nat
      BY Times
    <3> QED BY <3>2, <3>3
  <2>4. Power[k] \in Nat /\ Power[k] <= x
    BY <1>2, <2>2, PowerFacts
  <2>5. Base * x \in Nat
    BY WireAssumption
  <2>6. Power[k] <= Base * x
    BY <2>3, <2>4, <2>5
  <2> QED BY <2>2, <2>6
<1>3. w - k \in Nat /\ k + (w - k) = w
  OBVIOUS
<1>4. w - k \in A
  <2> HIDE DEF A
  <2> QED BY <1>1, <1>2, <1>3, Induction
<1> QED BY <1>3, <1>4

\* One byte in front.
LEMMA ByteInFront ==
    ASSUME NEW S, NEW x \in S, NEW s \in Seq(S)
    PROVE  /\ <<x>> \o s \in Seq(S) /\ <<x>> \o s # <<>> /\ Len(<<x>> \o s) = Len(s) + 1
           /\ Head(<<x>> \o s) = x /\ Tail(<<x>> \o s) = s
OBVIOUS

\* A field of w bytes, then t.
LEMMA Field ==
    ASSUME NEW v \in Nat, NEW w \in Nat, NEW t \in Bytes
    PROVE  /\ LittleEndian(v, w) \o t \in Bytes
           /\ Len(LittleEndian(v, w) \o t) = w + Len(t)
           /\ FromLittle(First(LittleEndian(v, w) \o t, w)) = Uint(v, w)
           /\ After(LittleEndian(v, w) \o t, w) = t
<1>1. PICK s \in Seq(Byte) : s = LittleEndian(v, w) /\ Len(s) = w
  BY Zenon, Endian
<1>2. s \o t \in Bytes /\ Len(s \o t) = w + Len(t)
  BY <1>1 DEF Bytes
<1>3. After(s \o t, w) = t
  BY Zenon, <1>1, CutAt DEF Bytes
<1>4. FromLittle(First(LittleEndian(v, w) \o t, w)) = Uint(v, w)
  <2>1. w <= w
    OBVIOUS
  <2> QED BY <2>1, LittleRead DEF Bytes
<1> QED BY Zenon, <1>1, <1>2, <1>3, <1>4

\* wire.WriteBytes and wire.ReadBytes.
LEMMA BytesRead ==
    ASSUME NEW b \in Bytes, Len(b) < Power[CountWidth]
    PROVE  /\ WriteBytes(b) \in Bytes /\ Len(WriteBytes(b)) = CountWidth + Len(b)
           /\ ReadBytesOK(WriteBytes(b)) /\ ReadBytes(WriteBytes(b)) = b
<1>1. Len(b) \in Nat /\ CountWidth \in Nat
  BY Widths DEF Bytes
<1> DEFINE s == WriteBytes(b)
<1>2. /\ s \in Bytes /\ Len(s) = CountWidth + Len(b) /\ After(s, CountWidth) = b
      /\ FromLittle(First(s, CountWidth)) = Uint(Len(b), CountWidth)
  BY Zenon, <1>1, Field DEF WriteBytes
<1> HIDE DEF s
<1>3. Uint(Len(b), CountWidth) = Len(b)
  BY Zenon, <1>1, UintSmall
<1>4. ReadBytesLen(s) = Len(b)
  BY Zenon, <1>2, <1>3 DEF ReadBytesLen
<1>5. CountWidth <= Len(s) /\ Len(b) <= Len(b)
  BY <1>1, <1>2
<1>6. ReadBytesOK(s)
  BY Zenon, <1>2, <1>4, <1>5 DEF ReadBytesOK, Fits
<1>7. First(b, Len(b)) = b
  BY <1>1, SubSeqFull DEF First, Bytes
<1>8. ReadBytes(s) = b
  BY Zenon, <1>2, <1>4, <1>7 DEF ReadBytes
<1> QED BY Zenon, <1>2, <1>6, <1>8 DEF s

\* wire.WriteHost and wire.ReadHost: the port loses what its field cannot hold.
LEMMA HostRead ==
    ASSUME NEW h \in [ip : Bytes, port : Nat], WriteHostOK(h)
    PROVE  /\ WriteHost(h) \in Bytes /\ ReadHostOK(WriteHost(h))
           /\ ReadHost(WriteHost(h)) = [h EXCEPT !.port = Uint(@, FieldWidth)]
<1> DEFINE L == LittleEndian(Len(h.ip), FieldWidth)
           P == LittleEndian(h.port, FieldWidth)
           n == Len(h.ip)
           s == WriteHost(h)
<1>1. h.ip \in Bytes /\ n \in Nat /\ h.port \in Nat /\ FieldWidth \in Nat /\ n < Power[FieldWidth]
  <2>1. h.ip \in Bytes /\ h.port \in Nat
    OBVIOUS
  <2>2. n \in Nat
    BY <2>1 DEF Bytes
  <2> QED BY Zenon, <2>1, <2>2, Widths DEF WriteHostOK
<1>2. L \in Bytes /\ Len(L) = FieldWidth /\ P \in Bytes /\ Len(P) = FieldWidth
  BY Zenon, <1>1, Endian DEF Bytes
<1>3. PICK t \in Bytes : t = h.ip \o P /\ Len(t) = n + FieldWidth
  <2> HIDE DEF P
  <2>1. h.ip \o P \in Bytes /\ Len(h.ip \o P) = Len(h.ip) + Len(P)
    BY <1>1, <1>2 DEF Bytes
  <2> QED BY Zenon, <1>2, <2>1
<1>4. s = L \o t
  <2>1. Associate(L, h.ip, P)
    BY Zenon, <1>1, <1>2, Associative DEF Bytes
  <2>2. s = (L \o h.ip) \o P
    BY Zenon DEF WriteHost
  <2> HIDE DEF L, P, s
  <2> QED BY Zenon, <1>3, <2>1, <2>2 DEF Associate
<1>5. /\ s \in Bytes /\ Len(s) = FieldWidth + Len(t) /\ After(s, FieldWidth) = t
      /\ FromLittle(First(s, FieldWidth)) = Uint(n, FieldWidth)
  <2> HIDE DEF s, n
  <2> QED BY Zenon, <1>1, <1>4, Field DEF n
<1>6. HostLen(s) = n
  <2>1. Uint(n, FieldWidth) = n
    BY Zenon, <1>1, UintSmall
  <2> HIDE DEF s, n
  <2> QED BY Zenon, <1>5, <2>1 DEF HostLen
<1>7. ReadHostOK(s)
  <2> HIDE DEF s, n
  <2>1. Len(t) \in Nat
    BY DEF Bytes
  <2>2. FieldWidth <= Len(s) /\ n + FieldWidth <= Len(t)
    BY <1>1, <1>3, <1>5, <2>1
  <2> QED BY Zenon, <1>5, <1>6, <2>2 DEF ReadHostOK, Fits
<1>8. First(After(s, FieldWidth), HostLen(s)) = h.ip
  <2>1. First(h.ip \o P, n) = h.ip
    BY Zenon, <1>1, <1>2, CutAt DEF Bytes
  <2> HIDE DEF s, n, P
  <2> QED BY Zenon, <1>3, <1>5, <1>6, <2>1
<1>9. FromLittle(First(After(s, FieldWidth + HostLen(s)), FieldWidth)) = Uint(h.port, FieldWidth)
  <2>1. PICK a \in Bytes : a = L \o h.ip /\ Len(a) = FieldWidth + n
    <3> HIDE DEF L
    <3>1. L \o h.ip \in Bytes /\ Len(L \o h.ip) = Len(L) + Len(h.ip)
      BY <1>1, <1>2 DEF Bytes
    <3> QED BY Zenon, <1>2, <3>1
  <2>2. s = a \o P
    BY Zenon, <2>1 DEF WriteHost
  <2>3. After(a \o P, Len(a)) = P
    BY Zenon, <1>2, CutAt DEF Bytes
  <2>4. After(s, FieldWidth + HostLen(s)) = P
    <3> HIDE DEF s, n, P
    <3> QED BY Zenon, <1>6, <2>1, <2>2, <2>3
  <2>5. <<>> \in Bytes /\ P \o <<>> = P
    <3> HIDE DEF P
    <3> QED BY <1>2 DEF Bytes
  <2>6. FromLittle(First(P \o <<>>, FieldWidth)) = Uint(h.port, FieldWidth)
    BY Zenon, <1>1, <2>5, Field
  <2> HIDE DEF s, P
  <2> QED BY Zenon, <2>4, <2>5, <2>6
<1>10. ReadHost(s) = [h EXCEPT !.port = Uint(@, FieldWidth)]
  <2>1. ReadHost(s) = [ip |-> h.ip, port |-> Uint(h.port, FieldWidth)]
    <3> HIDE DEF s
    <3> QED BY Zenon, <1>8, <1>9 DEF ReadHost
  <2>2. [h EXCEPT !.port = Uint(@, FieldWidth)] = [ip |-> h.ip, port |-> Uint(h.port, FieldWidth)]
    OBVIOUS
  <2> QED BY Zenon, <2>1, <2>2
<1> QED BY Zenon, <1>5, <1>7, <1>10

Message == [type : DOMAIN WireID, id : Nat, payload : Bytes]

\* What marshal writes.
LEMMA Marshalled ==
    ASSUME NEW m \in Message
    PROVE  /\ m.type \in Struct => marshal(m) = LittleEndian(m.id, SendWidth[m.type])
           /\ m.type = "gossip" => marshal(m) = GossipMarshal(m)
           /\ m.type = "foreign" => marshal(m) = m.payload
           /\ m.type \in Struct \/ m.type = "gossip" \/ m.type = "foreign"
<1>1. /\ "gossip" \notin Struct /\ "foreign" \notin Struct
      /\ m.type \in Struct \/ m.type = "gossip" \/ m.type = "foreign"
  BY WireAssumption DEF Message
<1>2. "gossip" # "foreign"
  OBVIOUS
<1>3. m.type \in Struct => m.type # "gossip" /\ m.type # "foreign"
  BY Zenon, <1>1
<1>4. m.type \in Struct => marshal(m) = LittleEndian(m.id, SendWidth[m.type])
  BY Zenon, <1>3 DEF marshal, BinaryMarshal
<1>5. m.type = "gossip" => marshal(m) = GossipMarshal(m)
  BY Zenon, <1>1, <1>2 DEF marshal
<1>6. m.type = "foreign" => marshal(m) = m.payload
  BY Zenon, <1>1, <1>2 DEF marshal
<1> QED BY Zenon, <1>1, <1>4, <1>5, <1>6

\* The gossip program's codec.
LEMMA GossipRead ==
    ASSUME NEW m \in Message, m.type = "gossip", Len(m.payload) < Power[CountWidth]
    PROVE  /\ marshal(m) \in Bytes
           /\ Len(marshal(m)) = IdWidth + (CountWidth + Len(m.payload))
           /\ unmarshalOK("gossip", marshal(m))
           /\ unmarshal("gossip", marshal(m)) = [m EXCEPT !.id = Uint(@, IdWidth)]
<1>1. m.payload \in Bytes /\ m.id \in Nat /\ IdWidth \in Nat /\ CountWidth \in Nat
  BY Widths DEF Message
<1> DEFINE w == WriteBytes(m.payload)
           s == LittleEndian(m.id, IdWidth) \o w
<1>2. w \in Bytes /\ Len(w) = CountWidth + Len(m.payload) /\ ReadBytesOK(w) /\ ReadBytes(w) = m.payload
  BY Zenon, <1>1, BytesRead
<1>3. marshal(m) = s
  BY Zenon, Marshalled DEF GossipMarshal
<1> HIDE DEF w
<1>4. /\ s \in Bytes /\ Len(s) = IdWidth + Len(w) /\ After(s, IdWidth) = w
      /\ FromLittle(First(s, IdWidth)) = Uint(m.id, IdWidth)
  BY Zenon, <1>1, <1>2, Field
<1> HIDE DEF s
<1>5. IdWidth <= Len(s)
  <2>1. Len(w) \in Nat
    BY <1>2 DEF Bytes
  <2> QED BY <1>1, <1>4, <2>1
<1>6. "gossip" \notin Struct
  BY WireAssumption
<1>7. unmarshalOK("gossip", s)
  BY Zenon, <1>2, <1>4, <1>5, <1>6 DEF unmarshalOK, Fits
<1>8. unmarshal("gossip", s) = [type |-> "gossip", id |-> Uint(m.id, IdWidth), payload |-> m.payload]
  BY Zenon, <1>2, <1>4 DEF unmarshal, GossipUnmarshal
<1>9. [m EXCEPT !.id = Uint(@, IdWidth)] =
        [type |-> "gossip", id |-> Uint(m.id, IdWidth), payload |-> m.payload]
  BY DEF Message
<1> QED BY Zenon, <1>2, <1>3, <1>4, <1>7, <1>8, <1>9

\* BinaryCodec between builds.
LEMMA StructRead ==
    ASSUME NEW m \in Message, m.type \in Struct, m.payload = <<>>
    PROVE  /\ marshal(m) \in Bytes
           /\ unmarshalOK(m.type, marshal(m)) <=> RecvWidth[m.type] <= SendWidth[m.type]
           /\ RecvWidth[m.type] <= SendWidth[m.type] =>
                unmarshal(m.type, marshal(m)) = [m EXCEPT !.id = Uint(@, RecvWidth[m.type])]
<1> DEFINE v == SendWidth[m.type]
           w == RecvWidth[m.type]
           s == LittleEndian(m.id, v)
<1>1. m.id \in Nat /\ v \in Nat /\ w \in Nat /\ m.type # "gossip"
  BY WireAssumption DEF Message
<1>2. marshal(m) = s
  BY Zenon, Marshalled
<1>3. s \in Bytes /\ Len(s) = v
  <2> HIDE DEF v
  <2> QED BY Zenon, <1>1, Endian DEF Bytes
<1>4. unmarshalOK(m.type, s) <=> w <= v
  <2>1. unmarshalOK(m.type, s) <=> Fits(s, w)
    <3> HIDE DEF s
    <3> QED BY Zenon, <1>1 DEF unmarshalOK
  <2> HIDE DEF s, v, w
  <2> QED BY Zenon, <1>3, <2>1 DEF Fits
<1>5. ASSUME w <= v PROVE unmarshal(m.type, s) = [m EXCEPT !.id = Uint(@, w)]
  <2>1. <<>> \in Seq(Byte) /\ s \o <<>> = s
    <3> HIDE DEF s
    <3> QED BY <1>3 DEF Bytes
  <2>2. FromLittle(First(s \o <<>>, w)) = Uint(m.id, w)
    <3> HIDE DEF v, w
    <3> QED BY Zenon, <1>1, <1>5, <2>1, LittleRead
  <2>3. FromLittle(First(s, w)) = Uint(m.id, w)
    <3> HIDE DEF s
    <3> QED BY Zenon, <2>1, <2>2
  <2>4. unmarshal(m.type, s) = [type |-> m.type, id |-> Uint(m.id, w), payload |-> <<>>]
    <3> HIDE DEF s
    <3> QED BY Zenon, <1>1, <2>3 DEF unmarshal, BinaryUnmarshal
  <2>5. [m EXCEPT !.id = Uint(@, w)] = [type |-> m.type, id |-> Uint(m.id, w), payload |-> <<>>]
    <3> HIDE DEF w
    <3> QED BY DEF Message
  <2> QED BY Zenon, <2>4, <2>5
<1> HIDE DEF s
<1> QED BY Zenon, <1>2, <1>3, <1>4, <1>5

\* A message's header and what the runtime makes of it.
LEMMA Header ==
    ASSUME NEW ty \in DOMAIN WireID, NEW body \in Bytes
    PROVE  LET s == LittleEndian(WireID[ty], IdWidth) \o body
           IN /\ s \in Bytes /\ Len(s) = IdWidth + Len(body)
              /\ ty \notin Registered => processMessage(s) = Dropped("unknown id")
              /\ ty \in Registered /\ unmarshalOK(ty, body) =>
                   processMessage(s) = App(unmarshal(ty, body))
              /\ ty \in Registered /\ ~unmarshalOK(ty, body) => processMessage(s) = Dropped("decode")
<1> DEFINE s == LittleEndian(WireID[ty], IdWidth) \o body
<1>1. /\ WireID[ty] \in Nat /\ WireID[ty] < Power[IdWidth] /\ IdWidth \in Nat
  <2>1. IdWidth \in Nat /\ WireID[ty] \in 0..(Power[IdWidth] - 1)
    BY WireAssumption
  <2>2. Power[IdWidth] \in Nat
    BY Zenon, <2>1, PowerFacts
  <2> QED BY <2>1, <2>2
<1>2. /\ s \in Bytes /\ Len(s) = IdWidth + Len(body) /\ After(s, IdWidth) = body
      /\ FromLittle(First(s, IdWidth)) = WireID[ty]
  <2>1. /\ s \in Bytes /\ Len(s) = IdWidth + Len(body) /\ After(s, IdWidth) = body
        /\ FromLittle(First(s, IdWidth)) = Uint(WireID[ty], IdWidth)
    BY Zenon, <1>1, Field
  <2>2. Uint(WireID[ty], IdWidth) = WireID[ty]
    BY Zenon, <1>1, UintSmall
  <2> HIDE DEF s
  <2> QED BY Zenon, <2>1, <2>2
<1> HIDE DEF s
<1>3. Fits(s, IdWidth)
  <2>1. Len(body) \in Nat
    BY DEF Bytes
  <2> QED BY <1>1, <1>2, <2>1 DEF Fits
<1>4. TypeOf(WireID[ty]) = {t \in {ty} : t \in Registered}
  <2>1. Registered \subseteq DOMAIN WireID
    BY WireAssumption DEF Registered
  <2>2. \A t \in DOMAIN WireID : WireID[t] = WireID[ty] => t = ty
    BY WireAssumption
  <2> QED BY Zenon, <2>1, <2>2 DEF TypeOf
<1>5. ty \notin Registered => processMessage(s) = Dropped("unknown id")
  <2>1. ty \notin Registered => TypeOf(WireID[ty]) = {}
    BY Zenon, <1>4
  <2> QED BY Zenon, <1>2, <1>3, <2>1 DEF processMessage
<1>6. ASSUME ty \in Registered
      PROVE  processMessage(s) = IF unmarshalOK(ty, body) THEN App(unmarshal(ty, body))
                                 ELSE Dropped("decode")
  <2>1. TypeOf(WireID[ty]) = {ty}
    BY Zenon, <1>4, <1>6
  <2>2. (CHOOSE t \in {ty} : TRUE) = ty
    BY Zenon
  <2>3. {ty} # {}
    OBVIOUS
  <2> DEFINE T == TypeOf(FromLittle(First(s, IdWidth)))
  <2>4. T # {} /\ (CHOOSE t \in T : TRUE) = ty
    <3>1. T = {ty}
      BY Zenon, <1>2, <2>1
    <3> HIDE DEF T
    <3> QED BY Zenon, <2>2, <2>3, <3>1
  <2>5. processMessage(s) =
          LET c == CHOOSE t \in T : TRUE
              b == After(s, IdWidth)
          IN IF unmarshalOK(c, b) THEN App(unmarshal(c, b)) ELSE Dropped("decode")
    BY Zenon, <1>3, <2>4 DEF processMessage
  <2> HIDE DEF T
  <2> QED BY Zenon, <1>2, <2>4, <2>5
<1> QED BY Zenon, <1>2, <1>5, <1>6 DEF s

\* The length of a gossip message.
LEMMA GossipBytes ==
    ASSUME NEW m \in Message, m.type = "gossip"
    PROVE  marshal(m) \in Bytes /\ Len(marshal(m)) = IdWidth + (CountWidth + Len(m.payload))
<1>1. /\ m.payload \in Bytes /\ m.id \in Nat /\ IdWidth \in Nat /\ CountWidth \in Nat
      /\ Len(m.payload) \in Nat
  BY Widths DEF Message, Bytes
<1>2. WriteBytes(m.payload) \in Bytes /\ Len(WriteBytes(m.payload)) = CountWidth + Len(m.payload)
  BY Zenon, <1>1, Field DEF WriteBytes
<1>3. marshal(m) = LittleEndian(m.id, IdWidth) \o WriteBytes(m.payload)
  BY Zenon, Marshalled DEF GossipMarshal
<1>4. PICK w \in Bytes : w = WriteBytes(m.payload)
  BY Zenon, <1>2
<1>5. /\ LittleEndian(m.id, IdWidth) \o w \in Bytes
      /\ Len(LittleEndian(m.id, IdWidth) \o w) = IdWidth + Len(w)
  BY Zenon, <1>1, Field
<1> QED BY Zenon, <1>2, <1>3, <1>4, <1>5

\* The layer byte tells the session layer's payloads from the application's.
LEMMA Layers ==
    ASSUME NEW s \in Bytes
    PROVE  /\ serializeMessage(Application, s) \in Bytes /\ serializeMessage(SessionLayer, s) \in Bytes
           /\ Len(serializeMessage(Application, s)) = Len(s) + 1
           /\ dispatch(serializeMessage(Application, s)) = processMessage(s)
           /\ dispatch(serializeMessage(SessionLayer, s)) = parseHandshakePayload(s)
<1>1. ASSUME NEW x \in {0, 1}
      PROVE  /\ <<x>> \o s \in Bytes /\ <<x>> \o s # <<>> /\ Head(<<x>> \o s) = x
             /\ Tail(<<x>> \o s) = s /\ Len(<<x>> \o s) = Len(s) + 1
  <2>1. x \in Byte
    BY Widths
  <2> QED BY Zenon, <2>1, ByteInFront DEF Bytes
<1>2. 0 \in {0, 1} /\ 1 \in {0, 1} /\ 0 # 1
  OBVIOUS
<1>3. dispatch(<<0>> \o s) = processMessage(s)
  BY Zenon, <1>1, <1>2 DEF dispatch, Application, SessionLayer
<1>4. dispatch(<<1>> \o s) = parseHandshakePayload(s)
  BY Zenon, <1>1, <1>2 DEF dispatch, Application, SessionLayer
<1> QED BY Zenon, <1>1, <1>2, <1>3, <1>4 DEF serializeMessage, Application, SessionLayer

\* The handshake's payloads.
LEMMA Handshake ==
    /\ encodeAck \in Bytes /\ parseHandshakePayload(encodeAck) = Ack
    /\ \A h \in [ip : Bytes, port : Nat] : WriteHostOK(h) =>
         /\ encodeHello(h) \in Bytes
         /\ parseHandshakePayload(encodeHello(h)) = Hello([h EXCEPT !.port = Uint(@, FieldWidth)])
<1>1. encodeAck \in Bytes /\ parseHandshakePayload(encodeAck) = Ack
  <2>1. <<2>> \in Bytes /\ <<2>> # <<>> /\ Head(<<2>>) = 2 /\ 2 # 1
    BY Widths DEF Bytes
  <2> QED BY Zenon, <2>1 DEF encodeAck, parseHandshakePayload, HandshakeAck, HandshakeHello
<1>2. ASSUME NEW h \in [ip : Bytes, port : Nat], WriteHostOK(h)
      PROVE  /\ encodeHello(h) \in Bytes
             /\ parseHandshakePayload(encodeHello(h)) = Hello([h EXCEPT !.port = Uint(@, FieldWidth)])
  <2>1. /\ WriteHost(h) \in Bytes /\ ReadHostOK(WriteHost(h))
        /\ ReadHost(WriteHost(h)) = [h EXCEPT !.port = Uint(@, FieldWidth)]
    BY Zenon, <1>2, HostRead
  <2>2. PICK w \in Bytes : w = WriteHost(h)
    BY Zenon, <2>1
  <2>3. PICK s \in Bytes : s = <<1, 1>> \o w
    <3>1. w \in Seq(Byte) /\ <<1, 1>> \in Seq(Byte)
      BY Widths DEF Bytes
    <3>2. <<1, 1>> \o w \in Seq(Byte)
      BY <3>1
    <3> QED BY Zenon, <3>2 DEF Bytes
  <2>4. s # <<>> /\ Head(s) = 1 /\ ~(Len(s) < 2) /\ s[2] = 1 /\ 1 # 2
    <3>1. w \in Seq(Byte) /\ <<1, 1>> \in Seq(Byte)
      BY Widths DEF Bytes
    <3> QED BY <2>3, <3>1
  <2>5. After(s, 2) = w
    <3>1. <<1, 1>> \in Seq(Byte) /\ Len(<<1, 1>>) = 2
      BY Widths
    <3>2. After(<<1, 1>> \o w, Len(<<1, 1>>)) = w
      BY Zenon, <3>1, CutAt DEF Bytes
    <3> QED BY Zenon, <2>3, <3>1, <3>2
  <2>6. encodeHello(h) = s
    BY Zenon, <2>2, <2>3 DEF encodeHello, HandshakeHello, ProtocolVersion
  <2>7. parseHandshakePayload(s) = Hello(ReadHost(After(s, 2)))
    BY Zenon, <2>1, <2>2, <2>4, <2>5
       DEF parseHandshakePayload, HandshakeAck, HandshakeHello, ProtocolVersion
  <2> QED BY Zenon, <2>1, <2>2, <2>5, <2>6, <2>7
<1> QED BY Zenon, <1>1, <1>2

\* What an item can be, and its payload.
LEMMA ItemCases ==
    ASSUME NEW i \in Items
    PROVE  \/ /\ i.kind = "app" /\ i = App(i.msg) /\ i.msg \in Message
              /\ i.msg.type \in Struct => i.msg.payload = <<>>
              /\ Payload(i) = serializeMessage(Application,
                                LittleEndian(WireID[i.msg.type], IdWidth) \o marshal(i.msg))
           \/ /\ i.kind = "hello" /\ i.msg \in [ip : Bytes, port : Nat]
              /\ Payload(i) = serializeMessage(SessionLayer, encodeHello(i.msg))
           \/ i.kind = "ack" /\ Payload(i) = serializeMessage(SessionLayer, encodeAck)
           \/ i.kind = "raw" /\ Payload(i) = i.bytes /\ i.bytes \in Bytes
<1>1. CASE /\ i.kind = "app"
           /\ i \in [kind : {"app"}, msg : [type : DOMAIN WireID, id : Nat, payload : Seq(Byte)]]
           /\ i.msg.type \in Struct => i.msg.payload = <<>>
  <2>1. i = App(i.msg) /\ i.msg \in Message
    BY <1>1 DEF App, Message, Bytes
  <2>2. "app" # "hello" /\ "app" # "ack" /\ "app" # "raw"
    OBVIOUS
  <2>3. Payload(i) = serializeMessage(Application,
                       LittleEndian(WireID[i.msg.type], IdWidth) \o marshal(i.msg))
    BY Zenon, <1>1, <2>2 DEF Payload
  <2> QED BY Zenon, <1>1, <2>1, <2>3
<1>2. CASE i.kind = "hello" /\ i \in [kind : {"hello"}, msg : [ip : Seq(Byte), port : Nat]]
  <2>1. i.msg \in [ip : Bytes, port : Nat]
    BY <1>2 DEF Bytes
  <2>2. "hello" # "app" /\ "hello" # "ack" /\ "hello" # "raw"
    OBVIOUS
  <2>3. Payload(i) = serializeMessage(SessionLayer, encodeHello(i.msg))
    BY Zenon, <1>2, <2>2 DEF Payload
  <2> QED BY Zenon, <1>2, <2>1, <2>3
<1>3. CASE i.kind = "ack"
  <2>1. "ack" # "app" /\ "ack" # "hello" /\ "ack" # "raw"
    OBVIOUS
  <2>2. Payload(i) = serializeMessage(SessionLayer, encodeAck)
    BY Zenon, <1>3, <2>1 DEF Payload
  <2> QED BY Zenon, <1>3, <2>2
<1>4. CASE i.kind = "raw" /\ i.bytes \in Seq(Byte)
  <2>1. "raw" # "app" /\ "raw" # "hello" /\ "raw" # "ack"
    OBVIOUS
  <2>2. Payload(i) = i.bytes
    BY Zenon, <1>4, <2>1 DEF Payload
  <2> QED BY Zenon, <1>4, <2>2 DEF Bytes
<1> QED BY Zenon, <1>1, <1>2, <1>3, <1>4, ItemsAssumption

\* A payload is a string of bytes.
LEMMA PayloadBytes ==
    ASSUME NEW i \in Items, Encodes(i)
    PROVE  Payload(i) \in Bytes
<1>1. ASSUME i.msg \in Message
      PROVE  LittleEndian(WireID[i.msg.type], IdWidth) \o marshal(i.msg) \in Bytes
  <2>1. marshal(i.msg) \in Bytes
    <3>1. ASSUME i.msg.type \in Struct PROVE marshal(i.msg) \in Bytes
      <4>1. i.msg.id \in Nat /\ SendWidth[i.msg.type] \in Nat
        BY <1>1, <3>1, WireAssumption DEF Message
      <4>2. LittleEndian(i.msg.id, SendWidth[i.msg.type]) \in Bytes
        BY Zenon, <4>1, Endian DEF Bytes
      <4> QED BY Zenon, <1>1, <3>1, <4>2, Marshalled
    <3>2. i.msg.payload \in Bytes
      BY <1>1 DEF Message
    <3> QED BY Zenon, <1>1, <3>1, <3>2, Marshalled, GossipBytes
  <2>2. i.msg.type \in DOMAIN WireID
    BY <1>1 DEF Message
  <2> QED BY Zenon, <2>1, <2>2, Header
<1>2. i.kind = "hello" => WriteHostOK(i.msg)
  BY Zenon DEF Encodes
<1>3. "app" # "hello"
  OBVIOUS
<1> QED BY Zenon, <1>1, <1>2, ItemCases, Layers, Handshake

\* What the receiver makes of an item that fits a frame is its meaning.
LEMMA ItemRead ==
    ASSUME NEW i \in Items, Encodes(i), encodeFrameOK(Payload(i))
    PROVE  dispatch(Payload(i)) = Meaning(i)
<1>0. /\ "app" # "hello" /\ "app" # "ack" /\ "app" # "raw" /\ "hello" # "ack" /\ "hello" # "raw"
      /\ "ack" # "raw" /\ "gossip" # "foreign"
  OBVIOUS
<1>1. ASSUME i.kind = "ack", Payload(i) = serializeMessage(SessionLayer, encodeAck)
      PROVE  dispatch(Payload(i)) = Meaning(i)
  <2>1. dispatch(Payload(i)) = Ack
    BY Zenon, <1>1, Layers, Handshake
  <2>2. Meaning(i) = Ack
    BY Zenon, <1>0, <1>1 DEF Meaning
  <2> QED BY Zenon, <2>1, <2>2
<1>2. ASSUME i.kind = "raw", Payload(i) = i.bytes
      PROVE  dispatch(Payload(i)) = Meaning(i)
  <2>1. dispatch(Payload(i)) = Dropped(i.why)
    BY Zenon, <1>2, RawAssumption
  <2>2. Meaning(i) = Dropped(i.why)
    BY Zenon, <1>0, <1>2 DEF Meaning
  <2> QED BY Zenon, <2>1, <2>2
<1>3. ASSUME i.kind = "hello", i.msg \in [ip : Bytes, port : Nat],
             Payload(i) = serializeMessage(SessionLayer, encodeHello(i.msg))
      PROVE  dispatch(Payload(i)) = Meaning(i)
  <2>1. WriteHostOK(i.msg)
    BY Zenon, <1>3 DEF Encodes
  <2>2. dispatch(Payload(i)) = Hello([i.msg EXCEPT !.port = Uint(@, FieldWidth)])
    <3>1. encodeHello(i.msg) \in Bytes /\ parseHandshakePayload(encodeHello(i.msg))
            = Hello([i.msg EXCEPT !.port = Uint(@, FieldWidth)])
      BY Zenon, <1>3, <2>1, Handshake
    <3>2. dispatch(Payload(i)) = parseHandshakePayload(encodeHello(i.msg))
      BY Zenon, <1>3, <3>1, Layers
    <3> QED BY Zenon, <3>1, <3>2
  <2>3. Meaning(i) = Hello([i.msg EXCEPT !.port = Uint(@, FieldWidth)])
    BY Zenon, <1>0, <1>3 DEF Meaning
  <2> QED BY Zenon, <2>2, <2>3
<1>4. ASSUME i.kind = "app", i = App(i.msg), i.msg \in Message,
             i.msg.type \in Struct => i.msg.payload = <<>>,
             Payload(i) = serializeMessage(Application,
                            LittleEndian(WireID[i.msg.type], IdWidth) \o marshal(i.msg))
      PROVE  dispatch(Payload(i)) = Meaning(i)
  <2> DEFINE m == i.msg
             s == LittleEndian(WireID[m.type], IdWidth) \o marshal(m)
  <2>1. m \in Message /\ m.type \in DOMAIN WireID /\ "gossip" \notin Struct /\ "foreign" \notin Struct
    <3>1. m.type \in DOMAIN WireID
      BY <1>4 DEF Message
    <3>2. "gossip" \notin Struct /\ "foreign" \notin Struct
      BY WireAssumption
    <3> QED BY Zenon, <1>4, <3>1, <3>2
  <2>2. ASSUME s \in Bytes PROVE dispatch(Payload(i)) = processMessage(s)
    BY Zenon, <1>4, <2>2, Layers
  <2>3. ASSUME m.type = "foreign" PROVE dispatch(Payload(i)) = Meaning(i)
    <3>1. marshal(m) \in Bytes
      <4>1. m.payload \in Bytes
        BY <2>1 DEF Message
      <4> QED BY Zenon, <2>1, <2>3, <4>1, Marshalled
    <3>2. m.type \notin Registered
      BY Zenon, <1>0, <2>1, <2>3 DEF Registered
    <3>3. s \in Bytes /\ processMessage(s) = Dropped("unknown id")
      BY Zenon, <2>1, <3>1, <3>2, Header
    <3>4. Meaning(i) = Dropped("unknown id")
      BY Zenon, <1>0, <1>4, <2>1, <2>3 DEF Meaning
    <3> QED BY Zenon, <2>2, <3>3, <3>4
  <2>4. ASSUME m.type = "gossip" PROVE dispatch(Payload(i)) = Meaning(i)
    <3>1. marshal(m) \in Bytes /\ Len(marshal(m)) = IdWidth + (CountWidth + Len(m.payload))
      BY Zenon, <2>1, <2>4, GossipBytes
    <3>2. s \in Bytes /\ Len(s) = IdWidth + Len(marshal(m))
      BY Zenon, <2>1, <3>1, Header
    <3>3. Len(s) + 1 < Power[LenWidth]
      <4>1. Len(Payload(i)) = Len(s) + 1
        BY Zenon, <1>4, <3>2, Layers
      <4> QED BY Zenon, <4>1 DEF encodeFrameOK
    <3>4. Len(m.payload) < Power[CountWidth]
      <4>1. Len(m.payload) \in Nat
        BY <2>1 DEF Message, Bytes
      <4>2. Power[LenWidth] \in Nat /\ Power[CountWidth] \in Nat /\ Power[LenWidth] <= Power[CountWidth]
        BY Zenon, Widths, PowerFacts, PowerGrows
      <4> HIDE DEF m, s
      <4> QED BY <3>1, <3>2, <3>3, <4>1, <4>2, Widths
    <3>5. /\ unmarshalOK("gossip", marshal(m))
          /\ unmarshal("gossip", marshal(m)) = [m EXCEPT !.id = Uint(@, IdWidth)]
      BY Zenon, <2>1, <2>4, <3>4, GossipRead
    <3>6. m.type \in Registered
      BY Zenon, <2>4 DEF Registered
    <3>7. processMessage(s) = App(unmarshal("gossip", marshal(m)))
      BY Zenon, <2>1, <2>4, <3>1, <3>5, <3>6, Header
    <3>8. Meaning(i) = App([m EXCEPT !.id = Uint(@, IdWidth)])
      BY Zenon, <1>0, <1>4, <2>1, <2>4 DEF Meaning
    <3> QED BY Zenon, <2>2, <3>2, <3>5, <3>7, <3>8
  <2>5. ASSUME m.type \in Struct PROVE dispatch(Payload(i)) = Meaning(i)
    <3> DEFINE v == SendWidth[m.type]
               w == RecvWidth[m.type]
    <3>1. /\ marshal(m) \in Bytes /\ (unmarshalOK(m.type, marshal(m)) <=> w <= v)
          /\ w <= v => unmarshal(m.type, marshal(m)) = [m EXCEPT !.id = Uint(@, w)]
      BY Zenon, <1>4, <2>1, <2>5, StructRead
    <3>2. (v < w) <=> ~(w <= v)
      <4>1. v \in Nat /\ w \in Nat
        BY <2>5, WireAssumption
      <4> HIDE DEF v, w
      <4> QED BY <4>1
    <3>3. m.type \in Registered /\ m.type # "foreign" /\ m.type # "gossip"
      BY Zenon, <2>1, <2>5 DEF Registered
    <3>4. /\ s \in Bytes
          /\ unmarshalOK(m.type, marshal(m)) => processMessage(s) = App(unmarshal(m.type, marshal(m)))
          /\ ~unmarshalOK(m.type, marshal(m)) => processMessage(s) = Dropped("decode")
      BY Zenon, <2>1, <3>1, <3>3, Header
    <3>5. Meaning(i) = IF v < w THEN Dropped("decode") ELSE App([m EXCEPT !.id = Uint(@, w)])
      BY Zenon, <1>0, <1>4, <2>5, <3>3 DEF Meaning
    <3> HIDE DEF s, v
    <3> QED BY Zenon, <2>2, <3>1, <3>2, <3>4, <3>5
  <2> QED BY Zenon, <2>1, <2>3, <2>4, <2>5, Marshalled
<1> QED BY Zenon, <1>1, <1>2, <1>3, <1>4, ItemCases

-----------------------------------------------------------------------------
(* The connection.                                                         *)

\* The payloads not yet handed up.
Left ==
    LET handed == Len(received) + Len(frames)
    IN [k \in 1..(Len(sent) - handed) |-> Payload(sent[handed + k])]

\* What is sent fits a frame, what was received is what dispatch makes of
\* the first payloads, the frames held are the next ones, and what is still
\* to be decoded is the stream of the others.
IInv ==
    /\ TypeOK
    /\ \A k \in 1..Len(sent) : Encodes(sent[k]) /\ encodeFrameOK(Payload(sent[k]))
    /\ \E n \in 0..Len(sent) : received = [k \in 1..n |-> dispatch(Payload(sent[k]))]
    /\ \A k \in 1..Len(frames) : frames[k] = Payload(sent[Len(received) + k])
    /\ reader = "reading" => recvBuf \o stream = Encoded(Left)
    /\ OversizeOnly

\* The numbers and payloads of a state.
LEMMA StateFacts ==
    ASSUME IInv
    PROVE  /\ Len(sent) \in Nat /\ Len(received) \in Nat /\ Len(frames) \in Nat
           /\ Len(received) + Len(frames) <= Len(sent)
           /\ received = [k \in 1..Len(received) |-> dispatch(Payload(sent[k]))]
           /\ \A k \in 1..Len(sent) : sent[k] \in Items /\ Payload(sent[k]) \in Bytes
           /\ Left \in Seq(Bytes) /\ Len(Left) = Len(sent) - (Len(received) + Len(frames))
           /\ \A k \in 1..Len(Left) : /\ (Len(received) + Len(frames)) + k \in 1..Len(sent)
                                      /\ Left[k] = Payload(sent[(Len(received) + Len(frames)) + k])
                                      /\ encodeFrameOK(Left[k])
<1>1. Len(sent) \in Nat /\ Len(frames) \in Nat /\ Len(received) + Len(frames) <= Len(sent)
  BY DEF IInv, TypeOK
<1>2. PICK n \in 0..Len(sent) : received = [k \in 1..n |-> dispatch(Payload(sent[k]))]
  BY Zenon DEF IInv
<1>3. Len(received) = n /\ n \in Nat
  BY <1>1, <1>2
<1>4. ASSUME NEW k \in 1..Len(sent) PROVE sent[k] \in Items /\ Payload(sent[k]) \in Bytes
  <2>1. sent[k] \in Items
    BY DEF IInv, TypeOK
  <2>2. Encodes(sent[k])
    BY Zenon DEF IInv
  <2> QED BY Zenon, <2>1, <2>2, PayloadBytes
<1> DEFINE h == Len(received) + Len(frames)
<1>5. h \in Nat /\ Len(sent) - h \in Nat /\ \A k \in 1..(Len(sent) - h) : h + k \in 1..Len(sent)
  BY <1>1, <1>3
<1>6. Left = [k \in 1..(Len(sent) - h) |-> Payload(sent[h + k])]
  BY Zenon DEF Left
<1> HIDE DEF h
<1>7. \A k \in 1..(Len(sent) - h) : Payload(sent[h + k]) \in Bytes /\ encodeFrameOK(Payload(sent[h + k]))
  BY Zenon, <1>4, <1>5 DEF IInv
<1>8. Left \in Seq(Bytes) /\ Len(Left) = Len(sent) - h
  <2>1. PICK m \in Nat : m = Len(sent) - h
    BY Zenon, <1>5
  <2>2. PICK f : f = [k \in 1..m |-> Payload(sent[h + k])]
    BY Zenon
  <2>3. f \in [1..m -> Bytes]
    BY Zenon, <1>7, <2>1, <2>2
  <2>4. f \in Seq(Bytes) /\ Len(f) = m
    BY <2>3
  <2> QED BY Zenon, <1>6, <2>1, <2>2, <2>4
<1>9. \A k \in 1..Len(Left) : h + k \in 1..Len(sent) /\ Left[k] = Payload(sent[h + k])
                              /\ encodeFrameOK(Left[k])
  BY Zenon, <1>5, <1>6, <1>7, <1>8
<1> QED BY Zenon, <1>1, <1>2, <1>3, <1>4, <1>8, <1>9 DEF h

\* The connection is right when it opens.
LEMMA InitInv == Init => IInv
<1> SUFFICES ASSUME Init PROVE IInv
  OBVIOUS
<1>1. /\ sent = <<>> /\ writer = "open" /\ stream = <<>> /\ recvBuf = <<>> /\ frames = <<>>
      /\ reader = "reading" /\ received = <<>>
  BY Zenon DEF Init
<1>2. TypeOK
  BY <1>1, WireAssumption DEF TypeOK, Bytes
<1>3. Len(sent) = 0 /\ Len(frames) = 0 /\ Len(received) = 0 /\ ~(\E k \in 1..0 : TRUE) /\ 0 \in 0..0
      /\ 0 - (0 + 0) = 0
  BY <1>1
<1>4. received = [k \in 1..0 |-> dispatch(Payload(sent[k]))]
  BY <1>1
<1>5. Left = <<>>
  <2>1. Left = [k \in 1..0 |-> Payload(sent[(0 + 0) + k])]
    BY Zenon, <1>3 DEF Left
  <2> QED BY <2>1
<1>6. recvBuf \o stream = Encoded(Left)
  <2>1. <<>> \o <<>> = <<>> /\ <<>> \in Seq(Bytes)
    OBVIOUS
  <2> QED BY Zenon, <1>1, <1>5, <2>1, EncodedParts
<1>7. OversizeOnly
  BY <1>1 DEF OversizeOnly
<1> QED BY Zenon, <1>2, <1>3, <1>4, <1>6, <1>7 DEF IInv

\* A payload written is the last of the stream.
LEMMA SendInv ==
    ASSUME IInv, NEW i \in Items, send(i)
    PROVE  IInv'
<1> DEFINE P == Payload(i)
<1>1. /\ UNCHANGED <<recvBuf, frames, reader, received>> /\ Len(sent) < MaxItems /\ Encodes(i)
      /\ writer = "open"
  BY Zenon DEF send
<1>2. CASE encodeFrameOK(P) /\ stream' = stream \o encodeFrame(P) /\ sent' = Append(sent, i)
           /\ UNCHANGED writer
  <2> DEFINE h == Len(received) + Len(frames)
  <2>1. P \in Bytes /\ encodeFrame(P) \in Bytes
    BY Zenon, <1>1, PayloadBytes, FrameBytes
  <2> HIDE DEF P
  <2>2. /\ sent' \in Seq(Items) /\ Len(sent') = Len(sent) + 1 /\ sent'[Len(sent) + 1] = i
        /\ \A k \in 1..Len(sent) : sent'[k] = sent[k]
    BY <1>2 DEF IInv, TypeOK
  <2>3. h' = h /\ frames' = frames /\ received' = received /\ recvBuf' = recvBuf /\ reader' = reader
    BY Zenon, <1>1
  <2>4. /\ Len(sent) \in Nat /\ Len(received) \in Nat /\ Len(frames) \in Nat /\ h <= Len(sent)
        /\ h \in Nat /\ Left \in Seq(Bytes) /\ Len(Left) = Len(sent) - h
        /\ \A k \in 1..Len(Left) : h + k \in 1..Len(sent) /\ Left[k] = Payload(sent[h + k])
    <3>1. /\ Len(sent) \in Nat /\ Len(received) \in Nat /\ Len(frames) \in Nat /\ h <= Len(sent)
          /\ Left \in Seq(Bytes) /\ Len(Left) = Len(sent) - h
          /\ \A k \in 1..Len(Left) : h + k \in 1..Len(sent) /\ Left[k] = Payload(sent[h + k])
      BY Zenon, StateFacts
    <3>2. h \in Nat
      BY <3>1
    <3> QED BY Zenon, <3>1, <3>2
  <2>5. TypeOK'
    <3>1. Len(sent') <= MaxItems /\ Len(received') + Len(frames') <= Len(sent')
      <4>1. /\ Len(sent) < MaxItems /\ Len(sent') = Len(sent) + 1 /\ Len(sent) \in Nat /\ h' = h
            /\ h \in Nat /\ h <= Len(sent)
        BY Zenon, <1>1, <2>2, <2>3, <2>4
      <4>2. MaxItems \in Nat
        BY Zenon, WireAssumption
      <4> HIDE DEF h
      <4>3. Len(sent') <= MaxItems /\ h' <= Len(sent')
        BY <4>1, <4>2
      <4> QED BY Zenon, <4>3 DEF h
    <3>2. stream' \in Bytes
      BY <1>2, <2>1 DEF IInv, TypeOK, Bytes
    <3> QED BY Zenon, <1>2, <2>2, <2>3, <3>1, <3>2 DEF IInv, TypeOK
  <2>6. ASSUME NEW k \in 1..Len(sent') PROVE Encodes(sent'[k]) /\ encodeFrameOK(Payload(sent'[k]))
    <3>1. k \in 1..Len(sent) \/ k = Len(sent) + 1
      BY <2>2, <2>4
    <3> QED BY Zenon, <1>1, <1>2, <2>2, <3>1 DEF IInv, P
  <2>7. received' = [k \in 1..Len(received) |-> dispatch(Payload(sent'[k]))] /\ Len(received) \in 0..Len(sent')
    <3>1. \A k \in 1..Len(received) : k \in 1..Len(sent)
      BY <2>4
    <3>2. received = [k \in 1..Len(received) |-> dispatch(Payload(sent[k]))]
      BY Zenon, StateFacts
    <3>3. Len(received) \in 0..Len(sent')
      BY <2>2, <2>4
    <3>4. [k \in 1..Len(received) |-> dispatch(Payload(sent[k]))]
            = [k \in 1..Len(received) |-> dispatch(Payload(sent'[k]))]
      BY Zenon, <2>2, <3>1
    <3> QED BY Zenon, <2>3, <3>2, <3>3, <3>4
  <2>8. ASSUME NEW k \in 1..Len(frames') PROVE frames'[k] = Payload(sent'[Len(received') + k])
    <3>1. k \in 1..Len(frames) /\ Len(received) + k \in 1..Len(sent)
      BY <2>3, <2>4
    <3> QED BY Zenon, <2>2, <2>3, <3>1 DEF IInv
  <2>9. ASSUME reader' = "reading" PROVE recvBuf' \o stream' = Encoded(Left')
    <3>1. Left' = Append(Left, P)
      <4>1. Left' = [k \in 1..(Len(sent') - h') |-> Payload(sent'[h' + k])]
        BY Zenon DEF Left
      <4>2. Left' = [k \in 1..(Len(sent') - h) |-> Payload(sent'[h + k])]
        <5> HIDE DEF h
        <5> QED BY Zenon, <2>3, <4>1
      <4> HIDE DEF h
      <4>3. Len(sent') - h = Len(Left) + 1 /\ h + (Len(Left) + 1) = Len(sent) + 1
        BY <2>2, <2>4
      <4>4. ASSUME NEW k \in 1..(Len(Left) + 1) PROVE Payload(sent'[h + k]) = Append(Left, P)[k]
        <5>1. k \in 1..Len(Left) \/ k = Len(Left) + 1
          <6>1. Len(Left) \in Nat
            BY Zenon, <2>4, LenProperties
          <6> QED BY <6>1
        <5>2. Append(Left, P)[Len(Left) + 1] = P /\ \A j \in 1..Len(Left) : Append(Left, P)[j] = Left[j]
          <6>1. PICK L \in Seq(Bytes) : L = Left
            BY Zenon, <2>4
          <6>2. Append(L, P)[Len(L) + 1] = P /\ \A j \in 1..Len(L) : Append(L, P)[j] = L[j]
            BY <2>1
          <6> QED BY Zenon, <6>1, <6>2
        <5> QED BY Zenon, <2>2, <2>4, <4>3, <5>1, <5>2 DEF P
      <4>5. Append(Left, P) \in Seq(Bytes) /\ Len(Append(Left, P)) = Len(Left) + 1
        BY Zenon, <2>1, <2>4, AppendProperties
      <4>6. Append(Left, P) = [k \in 1..(Len(Left) + 1) |-> Append(Left, P)[k]]
        <5>1. Append(Left, P) \in [1..(Len(Left) + 1) -> Bytes]
          BY Zenon, <4>5, LenProperties
        <5> QED BY Zenon, <5>1
      <4> QED BY Zenon, <4>2, <4>3, <4>4, <4>6
    <3>2. recvBuf \o stream = Encoded(Left)
      BY Zenon, <2>3, <2>9 DEF IInv
    <3>3. Associate(recvBuf, stream, encodeFrame(P))
      BY Zenon, <2>1, Associative DEF IInv, TypeOK, Bytes
    <3>4. Encoded(Append(Left, P)) = Encoded(Left) \o encodeFrame(P)
      BY Zenon, <2>1, <2>4, EncodedParts
    <3> QED BY Zenon, <1>2, <2>3, <3>1, <3>2, <3>3, <3>4 DEF Associate
  <2>10. OversizeOnly'
    <3>1. DOMAIN sent = 1..Len(sent) /\ DOMAIN sent' = 1..Len(sent') /\ 1..Len(sent) \subseteq 1..Len(sent')
      BY <2>2, <2>4 DEF IInv, TypeOK
    <3> QED BY Zenon, <2>2, <2>3, <3>1 DEF IInv, OversizeOnly
  <2> QED BY Zenon, <2>5, <2>6, <2>7, <2>8, <2>9, <2>10 DEF IInv
<1>3. CASE writer' = "closed" /\ UNCHANGED <<stream, sent>>
  <2>1. sent' = sent /\ stream' = stream /\ recvBuf' = recvBuf /\ frames' = frames
        /\ reader' = reader /\ received' = received
    BY Zenon, <1>1, <1>3
  <2>2. Left' = Left
    BY Zenon, <2>1 DEF Left
  <2>3. TypeOK'
    BY Zenon, <1>3, <2>1 DEF IInv, TypeOK
  <2>4. OversizeOnly'
    BY Zenon, <2>1 DEF IInv, OversizeOnly
  <2> QED BY Zenon, <2>1, <2>2, <2>3, <2>4 DEF IInv
<1> QED BY Zenon, <1>2, <1>3 DEF send

\* However many bytes a read returns, the frames decoded are the next
\* payloads, and what is left is the stream of the others.
LEMMA ReadInv ==
    ASSUME IInv, NEW n \in 1..ReadMax, readFrames(n)
    PROVE  IInv'
<1> DEFINE h == Len(received) + Len(frames)
           buf == recvBuf \o First(stream, n)
           t == After(stream, n)
<1>1. PICK d : /\ d = decodeFrames(buf) /\ recvBuf' = d.rest /\ frames' = frames \o d.frames
               /\ reader' = IF d.err THEN "failed" ELSE reader
  BY Zenon DEF readFrames
<1>2. /\ sent' = sent /\ writer' = writer /\ received' = received
      /\ reader = "reading" /\ n <= Len(stream) /\ stream' = t
  BY Zenon DEF readFrames
<1>3. /\ Len(sent) \in Nat /\ Len(received) \in Nat /\ Len(frames) \in Nat /\ h <= Len(sent)
      /\ Left \in Seq(Bytes) /\ Len(Left) = Len(sent) - h
      /\ \A k \in 1..Len(Left) : h + k \in 1..Len(sent) /\ Left[k] = Payload(sent[h + k])
                                 /\ encodeFrameOK(Left[k])
  BY Zenon, StateFacts
<1>4. h \in Nat
  BY <1>3
<1>5. PICK q \in Seq(Bytes) : q = Left
  BY Zenon, <1>3
<1>6. n \in Nat /\ recvBuf \in Seq(Byte) /\ stream \in Seq(Byte) /\ frames \in Seq(Bytes)
  <2>1. n \in Nat
    BY WireAssumption
  <2> QED BY Zenon, <2>1 DEF IInv, TypeOK, Bytes
<1>7. First(stream, n) \in Seq(Byte) /\ t \in Seq(Byte) /\ First(stream, n) \o t = stream
  BY Zenon, <1>2, <1>6, Cut
<1>8. buf \in Bytes /\ buf \o t = Encoded(q)
  <2>1. PICK x \in Seq(Byte) : x = First(stream, n)
    BY Zenon, <1>7
  <2>2. recvBuf \o x \in Seq(Byte)
    BY <1>6
  <2>3. Associate(recvBuf, x, t)
    BY Zenon, <1>6, <1>7, Associative
  <2>4. recvBuf \o stream = Encoded(q)
    BY Zenon, <1>2, <1>5 DEF IInv
  <2> HIDE DEF t
  <2> QED BY Zenon, <1>7, <2>1, <2>2, <2>3, <2>4 DEF Associate, Bytes
<1>9. \A k \in 1..Len(q) : encodeFrameOK(q[k])
  BY Zenon, <1>3, <1>5
<1>10. Right(d, q, t)
  <2>1. t \in Bytes
    BY Zenon, <1>7 DEF Bytes
  <2> HIDE DEF buf, t
  <2> QED BY Zenon, <1>1, <1>8, <1>9, <2>1, DecodeRight
<1> HIDE DEF buf, h
<1>11. d.frames \in Seq(Bytes) /\ d.rest \in Bytes /\ d.err \in BOOLEAN
  BY <1>10 DEF Right, Outcome
<1>12. PICK fs \in Seq(Bytes) : fs = d.frames /\ Len(fs) <= Len(q) /\ \A k \in 1..Len(fs) : fs[k] = q[k]
  BY Zenon, <1>10, <1>11 DEF Right
<1>13. Len(fs) \in Nat /\ Len(q) \in Nat /\ Len(q) = Len(sent) - h
  <2>1. Len(fs) \in Nat /\ Len(q) \in Nat
    OBVIOUS
  <2> QED BY Zenon, <1>3, <1>5, <2>1
<1>14. /\ frames' = frames \o fs /\ frames' \in Seq(Bytes) /\ Len(frames') = Len(frames) + Len(fs)
       /\ \A k \in 1..Len(frames) : frames'[k] = frames[k]
       /\ \A k \in 1..Len(fs) : frames'[Len(frames) + k] = fs[k]
  <2>1. frames' = frames \o fs
    BY Zenon, <1>1, <1>12
  <2> QED BY <1>6, <2>1
<1>15. Len(received') + Len(frames') = h + Len(fs) /\ h + Len(fs) <= Len(sent)
  <2>1. h = Len(received) + Len(frames)
    BY Zenon DEF h
  <2>2. Len(received') = Len(received) /\ Len(frames') = Len(frames) + Len(fs)
    BY Zenon, <1>2, <1>14
  <2>3. /\ Len(sent) \in Nat /\ Len(received) \in Nat /\ Len(frames) \in Nat
        /\ Len(fs) <= Len(q)
    BY Zenon, <1>3, <1>12
  <2>4. h + Len(fs) <= Len(sent)
    BY <1>4, <1>13, <2>3
  <2>5. Len(received) + (Len(frames) + Len(fs)) = h + Len(fs)
    BY <1>13, <2>1, <2>3
  <2> QED BY Zenon, <2>2, <2>4, <2>5
<1>16. TypeOK'
  <2>1. Len(received') + Len(frames') <= Len(sent')
    BY Zenon, <1>2, <1>15
  <2>2. reader' \in {"reading", "failed"}
    BY Zenon, <1>1, <1>2
  <2>3. stream' \in Bytes /\ recvBuf' \in Bytes
    <3> HIDE DEF t
    <3> QED BY Zenon, <1>1, <1>2, <1>7, <1>11 DEF Bytes
  <2> QED BY Zenon, <1>2, <1>14, <2>1, <2>2, <2>3 DEF IInv, TypeOK
<1>17. ASSUME NEW k \in 1..Len(frames') PROVE frames'[k] = Payload(sent'[Len(received') + k])
  <2>1. CASE k \in 1..Len(frames)
    BY Zenon, <1>2, <1>14, <2>1 DEF IInv
  <2>2. CASE ~(k \in 1..Len(frames))
    <3>1. PICK j \in 1..Len(fs) : k = Len(frames) + j /\ j \in 1..Len(q) /\ h + j = Len(received) + k
      <4>1. k - Len(frames) \in 1..Len(fs) /\ k = Len(frames) + (k - Len(frames))
        BY <1>3, <1>13, <1>14, <2>2
      <4>2. k - Len(frames) \in 1..Len(q)
        BY <1>3, <1>12, <1>13, <4>1
      <4>3. h + (k - Len(frames)) = Len(received) + k
        BY <1>3, <4>1 DEF h
      <4> QED BY Zenon, <4>1, <4>2, <4>3
    <3>2. frames'[k] = q[j] /\ q[j] = Payload(sent[h + j])
      BY Zenon, <1>3, <1>5, <1>12, <1>14, <3>1
    <3> QED BY Zenon, <1>2, <3>1, <3>2
  <2> QED BY <2>1, <2>2
<1>18. ASSUME reader' = "reading" PROVE recvBuf' \o stream' = Encoded(Left')
  <2>1. ~d.err
    <3>1. "failed" # "reading"
      OBVIOUS
    <3> QED BY Zenon, <1>1, <1>18, <3>1
  <2>2. d.rest \o t = Encoded(After(q, Len(fs)))
    <3> HIDE DEF t
    <3> QED BY Zenon, <1>10, <1>12, <2>1 DEF Right
  <2>3. Left' = After(q, Len(fs))
    <3> DEFINE g == h + Len(fs)
    <3>1. Left' = [k \in 1..(Len(sent) - g) |-> Payload(sent[g + k])]
      <4>1. Left' = [k \in 1..(Len(sent') - (Len(received') + Len(frames'))) |->
                       Payload(sent'[(Len(received') + Len(frames')) + k])]
        BY Zenon DEF Left
      <4> QED BY Zenon, <1>2, <1>15, <4>1
    <3>2. /\ After(q, Len(fs)) \in Seq(Bytes) /\ Len(After(q, Len(fs))) = Len(q) - Len(fs)
          /\ \A k \in 1..(Len(q) - Len(fs)) : After(q, Len(fs))[k] = q[Len(fs) + k]
      <4>1. Len(fs) \in Nat /\ Len(fs) <= Len(q)
        BY Zenon, <1>12, <1>13
      <4> QED BY Zenon, <4>1, Cut
    <3>3. Len(q) - Len(fs) = Len(sent) - g
      BY <1>3, <1>4, <1>13
    <3>4. ASSUME NEW k \in 1..(Len(sent) - g) PROVE After(q, Len(fs))[k] = Payload(sent[g + k])
      <4>1. Len(fs) + k \in 1..Len(q) /\ h + (Len(fs) + k) = g + k
        BY <1>3, <1>4, <1>13
      <4> QED BY Zenon, <1>3, <1>5, <3>2, <3>3, <4>1
    <3> HIDE DEF g
    <3>5. PICK a \in Seq(Bytes) : a = After(q, Len(fs)) /\ Len(a) = Len(sent) - g
      BY Zenon, <3>2, <3>3
    <3>6. a = [k \in 1..(Len(sent) - g) |-> a[k]]
      BY <3>5
    <3> QED BY Zenon, <3>1, <3>4, <3>5, <3>6
  <2> HIDE DEF t
  <2> QED BY Zenon, <1>1, <1>2, <2>2, <2>3
<1>19. OversizeOnly'
  <2> SUFFICES ASSUME reader' = "failed" PROVE \E k \in DOMAIN sent' : Len(Payload(sent'[k])) > MaxFrame
    BY Zenon DEF OversizeOnly
  <2>1. d.err
    <3>1. "failed" # "reading"
      OBVIOUS
    <3> QED BY Zenon, <1>1, <1>2, <3>1
  <2>2. PICK k \in 1..Len(q) : Len(q[k]) > MaxFrame
    <3> HIDE DEF t
    <3> QED BY Zenon, <1>10, <2>1 DEF Right
  <2>3. h + k \in 1..Len(sent) /\ Len(Payload(sent[h + k])) > MaxFrame
    BY Zenon, <1>3, <1>5, <2>2
  <2>4. DOMAIN sent = 1..Len(sent)
    BY DEF IInv, TypeOK
  <2> QED BY Zenon, <1>2, <2>3, <2>4
<1>20. /\ \A k \in 1..Len(sent') : Encodes(sent'[k]) /\ encodeFrameOK(Payload(sent'[k]))
       /\ \E m \in 0..Len(sent') : received' = [k \in 1..m |-> dispatch(Payload(sent'[k]))]
  BY Zenon, <1>2 DEF IInv
<1> QED BY Zenon, <1>16, <1>17, <1>18, <1>19, <1>20 DEF IInv

\* A payload dispatched is the next.
LEMMA DeliverInv ==
    ASSUME IInv, deliver
    PROVE  IInv'
<1>1. /\ frames # <<>> /\ received' = Append(received, dispatch(Head(frames)))
      /\ frames' = Tail(frames)
      /\ sent' = sent /\ writer' = writer /\ stream' = stream /\ recvBuf' = recvBuf /\ reader' = reader
  BY Zenon DEF deliver
<1> DEFINE V == {dispatch(Payload(sent[k])) : k \in 1..Len(sent)}
<1>2. /\ Len(sent) \in Nat /\ Len(received) \in Nat /\ Len(frames) \in Nat
      /\ Len(received) + Len(frames) <= Len(sent)
      /\ received = [k \in 1..Len(received) |-> dispatch(Payload(sent[k]))]
  BY Zenon, StateFacts
<1>3. frames \in Seq(Bytes)
  BY Zenon DEF IInv, TypeOK
<1>4. /\ Head(frames) = frames[1] /\ frames' \in Seq(Bytes) /\ Len(frames') + 1 = Len(frames)
      /\ Len(frames') \in Nat /\ 1 \in 1..Len(frames)
      /\ \A k \in 1..Len(frames') : k + 1 \in 1..Len(frames) /\ frames'[k] = frames[k + 1]
  BY <1>1, <1>3
<1> DEFINE n == Len(received)
<1>5. n + 1 \in 1..Len(sent) /\ n + 1 \in 0..Len(sent)
  BY <1>2, <1>4
<1>6. Head(frames) = Payload(sent[n + 1])
  BY Zenon, <1>4 DEF IInv
<1>7. received \in Seq(V) /\ dispatch(Payload(sent[n + 1])) \in V
  <2>1. \A k \in 1..n : k \in 1..Len(sent)
    BY <1>2
  <2>2. \A k \in 1..n : dispatch(Payload(sent[k])) \in V
    BY Zenon, <2>1
  <2>3. received \in [1..n -> V]
    <3> HIDE DEF V
    <3> QED BY Zenon, <1>2, <2>2
  <2>4. received \in Seq(V)
    <3> HIDE DEF V
    <3> QED BY <1>2, <2>3
  <2> QED BY Zenon, <1>5, <2>4
<1> HIDE DEF V
<1>8. PICK v \in V : v = dispatch(Payload(sent[n + 1])) /\ received' = Append(received, v)
  BY Zenon, <1>1, <1>6, <1>7
<1>9. /\ received' \in Seq(V) /\ Len(received') = n + 1 /\ received'[n + 1] = v
      /\ \A k \in 1..n : received'[k] = received[k]
  BY <1>7, <1>8
<1>10. received' = [k \in 1..(n + 1) |-> dispatch(Payload(sent'[k]))]
  <2>1. received' = [k \in 1..(n + 1) |-> received'[k]]
    BY <1>9
  <2>2. ASSUME NEW k \in 1..(n + 1) PROVE received'[k] = dispatch(Payload(sent[k]))
    <3>1. k \in 1..n \/ k = n + 1
      BY <1>2
    <3> QED BY Zenon, <1>2, <1>8, <1>9, <3>1
  <2> QED BY Zenon, <1>1, <2>1, <2>2
<1>11. Len(received') + Len(frames') = Len(received) + Len(frames)
  <2>1. Len(received') = n + 1 /\ Len(frames') + 1 = Len(frames) /\ Len(frames') \in Nat /\ n \in Nat
    BY Zenon, <1>2, <1>4, <1>9
  <2>2. (n + 1) + Len(frames') = n + Len(frames)
    BY <2>1
  <2> QED BY Zenon, <2>1, <2>2
<1>12. TypeOK'
  BY Zenon, <1>1, <1>4, <1>11 DEF IInv, TypeOK
<1>13. Left' = Left
  BY Zenon, <1>1, <1>11 DEF Left
<1>14. ASSUME NEW k \in 1..Len(frames') PROVE frames'[k] = Payload(sent'[Len(received') + k])
  <2>1. n + (k + 1) = (n + 1) + k
    BY <1>2
  <2>2. frames[k + 1] = Payload(sent[n + (k + 1)])
    BY Zenon, <1>4 DEF IInv
  <2>3. Len(received') = n + 1 /\ frames'[k] = frames[k + 1]
    BY Zenon, <1>4, <1>9
  <2> QED BY Zenon, <1>1, <2>1, <2>2, <2>3
<1>15. OversizeOnly'
  BY Zenon, <1>1 DEF IInv, OversizeOnly
<1> QED BY Zenon, <1>1, <1>5, <1>10, <1>12, <1>13, <1>14, <1>15 DEF IInv

\* Every step keeps the connection right.
LEMMA NextInv == IInv /\ [Next]_vars => IInv'
<1> SUFFICES ASSUME IInv, [Next]_vars PROVE IInv'
  OBVIOUS
<1>1. CASE UNCHANGED vars
  <2>1. /\ sent' = sent /\ writer' = writer /\ stream' = stream /\ recvBuf' = recvBuf
        /\ frames' = frames /\ reader' = reader /\ received' = received
    BY Zenon, <1>1 DEF vars
  <2>2. Left' = Left
    BY Zenon, <2>1 DEF Left
  <2>3. TypeOK' /\ OversizeOnly'
    BY Zenon, <2>1 DEF IInv, TypeOK, OversizeOnly
  <2> QED BY Zenon, <2>1, <2>2, <2>3 DEF IInv
<1>2. CASE Next
  BY Zenon, <1>2, SendInv, ReadInv, DeliverInv DEF Next
<1> QED BY Zenon, <1>1, <1>2

\* The stream, the frames held and what was received stay in step: for any
\* widths and limits, any messages, and however the stream is cut (tcp.go
\* 53-97 and its reader).
THEOREM WireInvariance == Spec => []IInv
BY InitInv, NextInv, PTL DEF Spec

\* The reader never hands up more than was sent (tcp.go 70-97).
THEOREM WireType == Spec => []TypeOK
<1>1. IInv => TypeOK
  BY Zenon DEF IInv
<1> QED BY <1>1, WireInvariance, PTL

\* What the receiver has got, or will have got once it has dispatched the
\* frames it holds, is the beginning of what was sent, every item with its
\* meaning: encoding, framing and reading undo each other (codec.go 107-154,
\* session.go 384-442, 685-712, host.go 29-64, tcp.go 53-97).
THEOREM PrefixIsDelivered == Spec => []PrefixDelivered
<1>1. ASSUME IInv PROVE PrefixDelivered
  <2> DEFINE V == {dispatch(Payload(sent[k])) : k \in 1..Len(sent)}
             fs == [k \in DOMAIN frames |-> dispatch(frames[k])]
             n == Len(received)
             all == Meanings(sent)
  <2>1. /\ Len(sent) \in Nat /\ n \in Nat /\ Len(frames) \in Nat /\ n + Len(frames) <= Len(sent)
        /\ received = [k \in 1..n |-> dispatch(Payload(sent[k]))]
        /\ \A k \in 1..Len(sent) : sent[k] \in Items
    BY Zenon, <1>1, StateFacts
  <2>2. \A k \in 1..Len(frames) : frames[k] = Payload(sent[n + k])
    BY Zenon, <1>1 DEF IInv
  <2>3. DOMAIN frames = 1..Len(frames) /\ DOMAIN sent = 1..Len(sent)
    BY <1>1 DEF IInv, TypeOK
  <2>4. \A k \in 1..Len(sent) : dispatch(Payload(sent[k])) = Meaning(sent[k])
    BY Zenon, <1>1, <2>1, ItemRead DEF IInv
  <2>5. \A k \in 1..Len(sent) : Meaning(sent[k]) \in V
    BY Zenon, <2>4
  <2>6. (\A k \in 1..n : k \in 1..Len(sent)) /\ \A k \in 1..Len(frames) : n + k \in 1..Len(sent)
    BY <2>1
  <2>7. \A k \in 1..Len(sent) : dispatch(Payload(sent[k])) \in V
    BY Zenon
  <2> HIDE DEF V
  <2>8. received \in Seq(V)
    <3>1. received \in [1..n -> V]
      BY Zenon, <2>1, <2>6, <2>7
    <3> QED BY <2>1, <3>1
  <2>9. fs \in Seq(V) /\ Len(fs) = Len(frames) /\ \A k \in 1..Len(frames) : fs[k] = Meaning(sent[n + k])
    <3>1. fs = [k \in 1..Len(frames) |-> dispatch(frames[k])]
      BY Zenon, <2>3
    <3>2. \A k \in 1..Len(frames) : dispatch(frames[k]) = Meaning(sent[n + k]) /\ dispatch(frames[k]) \in V
      BY Zenon, <2>2, <2>4, <2>6, <2>7
    <3>3. fs \in [1..Len(frames) -> V]
      BY Zenon, <3>1, <3>2
    <3>4. \A k \in 1..Len(frames) : fs[k] = Meaning(sent[n + k])
      BY Zenon, <3>1, <3>2
    <3> HIDE DEF fs
    <3>5. fs \in Seq(V) /\ Len(fs) = Len(frames)
      BY <2>1, <3>3
    <3> QED BY Zenon, <3>4, <3>5
  <2>10. all \in Seq(V) /\ Len(all) = Len(sent) /\ \A k \in 1..Len(sent) : all[k] = Meaning(sent[k])
    <3>1. all = [k \in 1..Len(sent) |-> Meaning(sent[k])]
      BY Zenon, <2>3 DEF Meanings
    <3>2. all \in [1..Len(sent) -> V]
      BY Zenon, <2>5, <3>1
    <3>3. \A k \in 1..Len(sent) : all[k] = Meaning(sent[k])
      BY Zenon, <3>1
    <3> HIDE DEF all
    <3>4. all \in Seq(V) /\ Len(all) = Len(sent)
      BY <2>1, <3>2
    <3> QED BY Zenon, <3>3, <3>4
  <2> HIDE DEF fs, all
  <2>11. PICK u \in Seq(V) : /\ u = received \o fs /\ Len(u) = n + Len(frames)
                             /\ \A k \in 1..n : u[k] = received[k]
                             /\ \A k \in 1..Len(frames) : u[n + k] = fs[k]
    <3>1. /\ received \o fs \in Seq(V) /\ Len(received \o fs) = n + Len(fs)
          /\ \A k \in 1..n : (received \o fs)[k] = received[k]
          /\ \A k \in 1..Len(fs) : (received \o fs)[n + k] = fs[k]
      BY <2>8, <2>9
    <3> QED BY Zenon, <2>9, <3>1
  <2>12. ASSUME NEW k \in 1..Len(u) PROVE u[k] = all[k]
    <3>1. k \in 1..Len(sent)
      BY <2>1, <2>11
    <3>2. CASE k \in 1..n
      <4>1. received[k] = dispatch(Payload(sent[k]))
        BY Zenon, <2>1, <3>2
      <4> QED BY Zenon, <2>4, <2>10, <2>11, <3>1, <3>2, <4>1
    <3>3. CASE ~(k \in 1..n)
      <4>1. PICK j \in 1..Len(frames) : k = n + j
        <5>1. k - n \in 1..Len(frames) /\ k = n + (k - n)
          BY <2>1, <2>11, <3>3
        <5> QED BY Zenon, <5>1
      <4> QED BY Zenon, <2>9, <2>10, <2>11, <3>1, <4>1
    <3> QED BY <3>2, <3>3
  <2>13. Len(u) <= Len(all)
    BY Zenon, <2>1, <2>10, <2>11
  <2>14. u = SubSeq(all, 1, Len(u))
    <3>1. PICK a \in Seq(V) : a = all /\ Len(u) <= Len(a)
      BY Zenon, <2>10, <2>13
    <3>2. /\ SubSeq(a, 1, Len(u)) \in Seq(V) /\ Len(SubSeq(a, 1, Len(u))) = Len(u)
          /\ \A k \in 1..Len(u) : SubSeq(a, 1, Len(u))[k] = a[k]
      BY <3>1
    <3> QED BY Zenon, <2>12, <3>1, <3>2, SeqEqual
  <2>15. Len(u) \in 0..Len(sent)
    BY <2>1, <2>11
  <2> QED BY Zenon, <2>11, <2>14, <2>15 DEF PrefixDelivered, fs, all
<1> QED BY <1>1, WireInvariance, PTL

\* Until the reader fails, no byte is lost, consumed twice or taken for
\* another frame's, wherever conn.Read cuts the stream (tcp.go 70-97).
THEOREM BytesAreAccounted == Spec => []BytesAccounted
<1>1. ASSUME IInv PROVE BytesAccounted
  <2> DEFINE h == Len(received) + Len(frames)
             rest == [k \in 1..(Len(sent) - h) |-> encodeFrame(Payload(sent[h + k]))]
  <2> SUFFICES ASSUME reader = "reading" PROVE recvBuf \o stream = Joined(rest)
    BY Zenon DEF BytesAccounted
  <2>1. recvBuf \o stream = Encoded(Left)
    BY Zenon, <1>1 DEF IInv
  <2>2. /\ Len(Left) = Len(sent) - h
        /\ \A k \in 1..Len(Left) : Left[k] = Payload(sent[h + k])
    BY Zenon, <1>1, StateFacts
  <2>3. rest = [k \in 1..Len(Left) |-> encodeFrame(Left[k])]
    <3> HIDE DEF h
    <3> QED BY Zenon, <2>2
  <2> HIDE DEF rest
  <2> QED BY Zenon, <2>1, <2>3 DEF Encoded
<1> QED BY <1>1, WireInvariance, PTL

\* The reader fails only on a frame longer than maxFrameSize that was sent
\* (tcp.go 53-57, 78-80).
THEOREM FailsOnOversizeOnly == Spec => []OversizeOnly
<1>1. IInv => OversizeOnly
  BY Zenon DEF IInv
<1> QED BY <1>1, WireInvariance, PTL
=============================================================================
