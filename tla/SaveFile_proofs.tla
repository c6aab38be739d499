--------------------------- MODULE SaveFile_proofs ---------------------------
(***************************************************************************)
(* Proofs about SaveFile, for EEPROMs, chunks, queues and files of any     *)
(* size: a load reports what it stored, a lost byte is never made up, and  *)
(* the host reads back what was stored.                                    *)
(***************************************************************************)
EXTENDS SaveFile, SequenceTheorems, WellFoundedInduction, TLAPS

-----------------------------------------------------------------------------
(* Sizes, byte by byte.                                                    *)

\* Induction over the natural numbers, for sets: a set that lacks one of them
\* lacks a least one.
LEMMA SetInduction ==
    ASSUME NEW T, 0 \in T, \A n \in T : n \in Nat => n + 1 \in T
    PROVE  Nat \subseteq T
<1> DEFINE R == Nat \ T
<1> SUFFICES ASSUME R # {} PROVE FALSE
  OBVIOUS
<1>1. R \subseteq Nat /\ \A n \in R : n # 0 /\ n \in Nat
  OBVIOUS
<1>2. PICK x \in R : \A y \in R : ~(<<y, x>> \in OpToRel(<, Nat))
  <2> HIDE DEF R
  <2> QED
    BY <1>1, NatLessThanWellFounded, WFMin
<1>3. x - 1 \in Nat /\ x - 1 \in T
  <2>1. x \in Nat /\ x # 0
    BY <1>1
  <2>2. x - 1 \in Nat /\ x - 1 < x
    BY <2>1
  <2>3. x - 1 \notin R
    BY <1>2, <2>1, <2>2 DEF OpToRel
  <2> QED
    BY <2>2, <2>3
<1>4. (x - 1) + 1 = x
  BY <1>1
<1>5. (x - 1) + 1 \in T
  BY <1>3
<1> QED
  BY <1>4, <1>5

\* A function on 0..n whose value is multiplied by c and increased by d[k] at k.
Grows(f, a, c, d, n) == /\ f \in [0..n -> Nat] /\ f[0] = a
                        /\ \A k \in 1..n : f[k] = c * f[k - 1] + d[k]

\* There is such a function, whatever the increments.
LEMMA GrowingExists ==
    ASSUME NEW N \in Nat, NEW a \in Nat, NEW c \in Nat, NEW d \in [1..N -> Nat]
    PROVE  \E f : Grows(f, a, c, d, N)
<1> DEFINE T == {n \in Nat : n <= N => \E f : Grows(f, a, c, d, n)}
<1>1. 0 \in T
  <2>1. Grows([k \in 0..0 |-> a], a, c, d, 0)
    BY DEF Grows
  <2> QED
    BY <2>1
<1>2. ASSUME NEW n \in T, n + 1 <= N PROVE \E f : Grows(f, a, c, d, n + 1)
  <2>1. PICK f : Grows(f, a, c, d, n)
    BY <1>2
  <2> DEFINE v == c * f[n] + d[n + 1]
             g == [k \in 0..(n + 1) |-> IF k = n + 1 THEN v ELSE f[k]]
  <2>2. n \in Nat /\ n + 1 \in 1..N
    BY <1>2
  <2>3. v \in Nat
    <3>1. f[n] \in Nat /\ d[n + 1] \in Nat
      BY <2>1, <2>2 DEF Grows
    <3>2. \A x, y, z \in Nat : x * y + z \in Nat
      OBVIOUS
    <3> QED
      BY <3>1, <3>2
  <2> HIDE DEF v
  <2>4. g \in [0..(n + 1) -> Nat] /\ g[0] = a
    BY <2>1, <2>2, <2>3 DEF Grows
  <2>5. ASSUME NEW k \in 1..(n + 1) PROVE g[k] = c * g[k - 1] + d[k]
    <3>1. k - 1 \in 0..n /\ g[k - 1] = f[k - 1]
      BY <2>2
    <3>2. CASE k = n + 1
      <4>1. g[k] = v /\ k - 1 = n
        BY <2>2, <3>2
      <4> QED
        BY <3>1, <3>2, <4>1 DEF v
    <3>3. CASE k # n + 1
      <4>1. k \in 1..n /\ g[k] = f[k]
        BY <2>2, <3>3
      <4> QED
        BY <2>1, <3>1, <4>1 DEF Grows
    <3> QED
      BY <3>2, <3>3
  <2>6. Grows(g, a, c, d, n + 1)
    BY <2>4, <2>5 DEF Grows
  <2> QED
    BY <2>6
<1>3. N \in T
  <2> HIDE DEF T
  <2>1. \A n \in T : n \in Nat => n + 1 \in T
    BY <1>2 DEF T
  <2> QED
    BY <1>1, <2>1, SetInduction
<1> QED
  BY <1>3

LEMMA Sizes ==
    /\ Base \in Nat \ {0, 1} /\ Byte = 0..(Base - 1) /\ SizeBytes \in Nat \ {0}
    /\ FifoSize \in Nat \ {0} /\ BUFSIZE \in Nat \ {0} /\ ReadBuf \in Nat \ {0}
    /\ EEPROM_SIZE \in Nat \ {0} /\ U16 \in Nat /\ EEPROM_SIZE <= U16 /\ ReadBuf < EEPROM_SIZE
  BY SaveAssumption, StoreAssumption

\* The powers of Base that are the values of the bytes of a size.
LEMMA Powers ==
    /\ Power[0] = 1
    /\ \A k \in 0..SizeBytes : Power[k] \in Nat \ {0}
    /\ \A k \in 1..SizeBytes : Power[k] = Base * Power[k - 1]
    /\ USize \in Nat \ {0}
<1> DEFINE N == SizeBytes
           d == [k \in 1..N |-> 0]
           At(f) == [k \in 0..N |-> IF k = 0 THEN 1 ELSE Base * f[k - 1]]
           h == CHOOSE f : f = At(f)
<1>1. N \in Nat \ {0} /\ Base \in Nat \ {0}
  BY Sizes
<1>2. PICK f : Grows(f, 1, Base, d, N)
  <2>1. d \in [1..N -> Nat]
    OBVIOUS
  <2> HIDE DEF d, N
  <2> QED
    BY <1>1, <2>1, GrowingExists
<1>3. f \in [0..N -> Nat] /\ f[0] = 1 /\ \A k \in 1..N : f[k] = Base * f[k - 1]
  <2>1. ASSUME NEW k \in 1..N PROVE f[k] = Base * f[k - 1]
    <3>1. k - 1 \in 0..N /\ d[k] = 0
      BY <1>1
    <3>2. f[k] = Base * f[k - 1] + d[k] /\ f[k - 1] \in Nat
      BY <1>2, <3>1 DEF Grows
    <3> HIDE DEF d, N
    <3> QED
      BY <1>1, <3>1, <3>2
  <2> QED
    BY <1>2, <2>1 DEF Grows
<1>4. f = At(f)
  <2> HIDE DEF N
  <2>1. \A k \in 0..N : k # 0 => k \in 1..N
    BY <1>1
  <2> QED
    BY <1>3, <2>1
<1>5. h = At(h)
  BY <1>4
<1>6. Power = h
  BY DEF Power
<1> HIDE DEF h
<1>7. Power[0] = 1 /\ \A k \in 1..N : Power[k] = Base * Power[k - 1]
  <2> HIDE DEF N
  <2>1. 0 \in 0..N /\ \A k \in 1..N : k \in 0..N /\ k # 0
    BY <1>1
  <2> QED
    BY <1>5, <1>6, <2>1
<1> DEFINE T == {n \in Nat : n <= N => Power[n] \in Nat \ {0}}
<1>8. Nat \subseteq T
  <2>1. 0 \in T
    BY <1>7
  <2>2. ASSUME NEW n \in T, n \in Nat PROVE n + 1 \in T
    <3> SUFFICES ASSUME n + 1 <= N PROVE Power[n + 1] \in Nat \ {0}
      OBVIOUS
    <3>1. n + 1 \in 1..N /\ (n + 1) - 1 = n /\ n <= N
      BY <1>1, <2>2
    <3>2. Power[n + 1] = Base * Power[n] /\ Power[n] \in Nat \ {0}
      BY <1>7, <2>2, <3>1
    <3>3. \A x, y \in Nat \ {0} : x * y \in Nat \ {0}
      OBVIOUS
    <3> QED
      BY <1>1, <3>2, <3>3
  <2> HIDE DEF T
  <2> QED
    BY <2>1, <2>2, SetInduction
<1>9. \A k \in 0..N : Power[k] \in Nat \ {0}
  BY <1>1, <1>8
<1>10. USize \in Nat \ {0}
  BY <1>1, <1>9 DEF USize
<1> QED
  BY <1>7, <1>9, <1>10

\* The value of the first bytes of a size, and of all of them.
LEMMA NumberSteps ==
    ASSUME NEW s, \A k \in 1..SizeBytes : s[k] \in Byte
    PROVE  \E u \in [0..SizeBytes -> Nat] :
              /\ u[0] = 0 /\ \A k \in 1..SizeBytes : u[k] = u[k - 1] + s[k] * Power[k - 1]
              /\ Number(s) = Signed(u[SizeBytes])
<1> DEFINE N == SizeBytes
           d == [k \in 1..N |-> s[k] * Power[k - 1]]
           At(f) == [k \in 0..N |-> IF k = 0 THEN 0 ELSE f[k - 1] + s[k] * Power[k - 1]]
           h == CHOOSE f : f = At(f)
<1>1. N \in Nat \ {0} /\ N \in 0..N
  BY Sizes
<1>2. \A k \in 1..N : s[k] \in Nat /\ Power[k - 1] \in Nat /\ k - 1 \in 0..N /\ k \in 0..N /\ k # 0
  <2> SUFFICES ASSUME NEW k \in 1..N
               PROVE  s[k] \in Nat /\ Power[k - 1] \in Nat /\ k - 1 \in 0..N /\ k \in 0..N /\ k # 0
    OBVIOUS
  <2>1. k - 1 \in 0..N /\ k \in 0..N /\ k # 0
    BY <1>1
  <2> QED
    BY <2>1, Sizes, Powers
<1>3. d \in [1..N -> Nat]
  <2>1. \A x, y \in Nat : x * y \in Nat
    OBVIOUS
  <2> QED
    BY <1>2, <2>1
<1>4. PICK f : Grows(f, 0, 1, d, N)
  <2> HIDE DEF d, N
  <2> QED
    BY <1>1, <1>3, GrowingExists
<1>5. f \in [0..N -> Nat] /\ f[0] = 0 /\ \A k \in 1..N : f[k] = f[k - 1] + s[k] * Power[k - 1]
  <2>1. ASSUME NEW k \in 1..N PROVE f[k] = f[k - 1] + s[k] * Power[k - 1]
    <3>1. d[k] = s[k] * Power[k - 1]
      OBVIOUS
    <3>2. f[k] = 1 * f[k - 1] + d[k] /\ f[k - 1] \in Nat
      BY <1>2, <1>4 DEF Grows
    <3> HIDE DEF d, N
    <3> QED
      BY <3>1, <3>2
  <2> QED
    BY <1>4, <2>1 DEF Grows
<1>6. f = At(f)
  <2> HIDE DEF N
  <2>1. \A k \in 0..N : k # 0 => k \in 1..N
    BY <1>1
  <2> QED
    BY <1>5, <2>1
<1>7. h = At(h)
  BY <1>6
<1>8. Number(s) = Signed(h[N])
  BY DEF Number
<1> HIDE DEF h
<1>9. h \in [0..N -> Nat] /\ h[0] = 0 /\ \A k \in 1..N : h[k] = h[k - 1] + s[k] * Power[k - 1]
  <2>1. h[0] = 0 /\ 0 \in 0..N
    BY <1>1, <1>7
  <2>2. \A k \in 1..N : h[k] = h[k - 1] + s[k] * Power[k - 1]
    <3> HIDE DEF N
    <3> QED
      BY <1>2, <1>7
  <2> DEFINE T == {n \in Nat : n <= N => h[n] \in Nat}
  <2>3. Nat \subseteq T
    <3>1. 0 \in T
      BY <2>1
    <3>2. ASSUME NEW n \in T, n \in Nat PROVE n + 1 \in T
      <4> SUFFICES ASSUME n + 1 <= N PROVE h[n + 1] \in Nat
        OBVIOUS
      <4>1. n + 1 \in 1..N /\ (n + 1) - 1 = n /\ n <= N
        BY <1>1, <3>2
      <4>2. h[n + 1] = h[n] + s[n + 1] * Power[n] /\ h[n] \in Nat
        BY <2>2, <3>2, <4>1
      <4>3. s[n + 1] \in Nat /\ Power[n] \in Nat
        BY <1>2, <4>1
      <4>4. \A x, y, z \in Nat : x + y * z \in Nat
        OBVIOUS
      <4> QED
        BY <4>2, <4>3, <4>4
    <3> HIDE DEF T
    <3> QED
      BY <3>1, <3>2, SetInduction
  <2>4. h = [k \in 0..N |-> h[k]]
    BY <1>7
  <2>5. \A k \in 0..N : h[k] \in Nat
    BY <1>1, <2>3
  <2> HIDE DEF N
  <2> QED
    BY <2>1, <2>2, <2>4, <2>5
<1> HIDE DEF N
<1> QED
  BY <1>8, <1>9 DEF N

\* A size of any bytes is a number of its width.
LEMMA NumberRange ==
    ASSUME NEW s, \A k \in 1..SizeBytes : s[k] \in Byte
    PROVE  Number(s) \in -USize..(USize - 1)
<1>1. PICK u \in [0..SizeBytes -> Nat] :
              /\ u[0] = 0 /\ \A k \in 1..SizeBytes : u[k] = u[k - 1] + s[k] * Power[k - 1]
              /\ Number(s) = Signed(u[SizeBytes])
  BY NumberSteps
<1> DEFINE N == SizeBytes
           T == {n \in Nat : n <= N => u[n] < Power[n]}
<1>2. N \in Nat \ {0} /\ Base \in Nat \ {0}
  BY Sizes
<1>3. Nat \subseteq T
  <2>1. 0 \in T
    BY <1>1, Powers
  <2>2. ASSUME NEW n \in T, n \in Nat PROVE n + 1 \in T
    <3> SUFFICES ASSUME n + 1 <= N PROVE u[n + 1] < Power[n + 1]
      OBVIOUS
    <3>1. n + 1 \in 1..N /\ (n + 1) - 1 = n /\ n <= N /\ n \in 0..N
      BY <1>2, <2>2
    <3>2. u[n + 1] = u[n] + s[n + 1] * Power[n] /\ u[n] < Power[n] /\ u[n] \in Nat
      BY <1>1, <2>2, <3>1
    <3>3. Power[n + 1] = Base * Power[n] /\ Power[n] \in Nat \ {0}
      BY <3>1, Powers
    <3>4. s[n + 1] \in 0..(Base - 1)
      BY <3>1, Sizes
    <3>5. \A b, x, p, c \in Nat : x < p /\ b <= c - 1 => x + b * p < c * p
      <4> SUFFICES ASSUME NEW b \in Nat, NEW x \in Nat, NEW p \in Nat, NEW c \in Nat, x < p, b <= c - 1
                   PROVE  x + b * p < c * p
        OBVIOUS
      <4>1. PICK e \in Nat : c = b + 1 + e
        <5>1. c - 1 - b \in Nat /\ c = b + 1 + (c - 1 - b)
          OBVIOUS
        <5> QED
          BY <5>1
      <4>2. (b + 1 + e) * p = b * p + p + e * p /\ e * p \in Nat /\ b * p \in Nat
        OBVIOUS
      <4> QED
        BY <4>1, <4>2
    <3>6. s[n + 1] \in Nat /\ s[n + 1] <= Base - 1 /\ Base \in Nat /\ Power[n] \in Nat
      BY <1>2, <3>3, <3>4
    <3>7. u[n] + s[n + 1] * Power[n] < Base * Power[n]
      BY <3>2, <3>5, <3>6, Zenon
    <3> QED
      BY <3>2, <3>3, <3>7
  <2> HIDE DEF T
  <2> QED
    BY <2>1, <2>2, SetInduction
<1>4. u[N] < USize /\ u[N] \in Nat
  BY <1>1, <1>2, <1>3 DEF USize
<1> HIDE DEF N
<1> QED
  BY <1>1, <1>4, Powers DEF Signed, N

\* Dividing by a product is dividing by its factors.
LEMMA Quotients ==
    ASSUME NEW n \in Nat, NEW p \in Nat \ {0}, NEW b \in Nat \ {0}
    PROVE  /\ n \div (b * p) = (n \div p) \div b
           /\ n \div p = b * ((n \div p) \div b) + ((n \div p) % b)
           /\ (n \div p) % b \in 0..(b - 1) /\ n \div (b * p) \in Nat /\ n \div p \in Nat
<1> DEFINE q == n \div p
           r == n % p
           v == q \div b
           w == q % b
<1>1. q \in Nat /\ r \in 0..(p - 1) /\ n = q * p + r
  OBVIOUS
<1> HIDE DEF q, r
<1>2. v \in Nat /\ w \in 0..(b - 1) /\ q = v * b + w /\ q = b * v + w
  BY <1>1
<1> HIDE DEF v, w
<1>3. n = v * (b * p) + (w * p + r)
  <2>1. (v * b + w) * p = v * (b * p) + w * p
    BY <1>2
  <2>2. v * (b * p) \in Nat /\ w * p \in Nat
    BY <1>2
  <2> QED
    BY <1>1, <1>2, <2>1, <2>2
<1>4. w * p + r \in 0..(b * p - 1) /\ b * p \in Nat \ {0}
  <2>1. PICK e \in Nat : b = w + 1 + e
    <3>1. b - 1 - w \in Nat /\ b = w + 1 + (b - 1 - w)
      BY <1>2
    <3> QED
      BY <3>1
  <2>2. (w + 1 + e) * p = w * p + p + e * p /\ e * p \in Nat /\ w * p \in Nat
    BY <1>2
  <2> QED
    BY <1>1, <1>2, <2>1, <2>2
<1>5. \A a \in Nat, c \in Nat \ {0}, x \in Int : x \in 0..(c - 1) => (a * c + x) \div c = a
  <2> SUFFICES ASSUME NEW a \in Nat, NEW c \in Nat \ {0}, NEW x \in 0..(c - 1)
               PROVE  (a * c + x) \div c = a
    OBVIOUS
  <2> QED
    OBVIOUS
<1>6. n \div (b * p) = v
  <2> DEFINE c == b * p
             x == w * p + r
  <2>1. c \in Nat \ {0} /\ x \in 0..(c - 1) /\ n = v * c + x
    BY <1>3, <1>4
  <2> HIDE DEF c, x
  <2>2. n \div c = v
    BY <1>2, <1>5, <2>1
  <2> QED
    BY <2>2 DEF c
<1> QED
  BY <1>1, <1>2, <1>6 DEF q, v, w

\* The size that was sent is the size that is read.
LEMMA SizeRoundTrip ==
    ASSUME NEW n \in Nat, 2 * n < USize, NEW s, \A k \in 1..SizeBytes : s[k] = Bytes(n)[k]
    PROVE  Number(s) = n
<1> DEFINE N == SizeBytes
<1>1. N \in Nat \ {0} /\ Base \in Nat \ {0}
  BY Sizes
<1>2. \A k \in 1..N : k - 1 \in 0..N /\ k \in 0..N
  BY <1>1
<1>3. \A k \in 1..N : s[k] = (n \div Power[k - 1]) % Base
  BY DEF Bytes
<1>4. \A k \in 1..N : s[k] \in Byte
  <2> SUFFICES ASSUME NEW k \in 1..N PROVE s[k] \in Byte
    OBVIOUS
  <2>1. Power[k - 1] \in Nat \ {0}
    BY <1>2, Powers
  <2>2. (n \div Power[k - 1]) % Base \in 0..(Base - 1)
    BY <1>1, <2>1, Quotients
  <2> QED
    BY <1>3, <2>2, Sizes
<1>5. PICK u \in [0..SizeBytes -> Nat] :
              /\ u[0] = 0 /\ \A k \in 1..SizeBytes : u[k] = u[k - 1] + s[k] * Power[k - 1]
              /\ Number(s) = Signed(u[SizeBytes])
  BY <1>4, NumberSteps
<1> DEFINE T == {m \in Nat : m <= N => u[m] + Power[m] * (n \div Power[m]) = n}
<1>6. Nat \subseteq T
  <2>1. 0 \in T
    <3>1. n \div 1 = n
      OBVIOUS
    <3> QED
      BY <1>5, <3>1, Powers
  <2>2. ASSUME NEW m \in T, m \in Nat PROVE m + 1 \in T
    <3> SUFFICES ASSUME m + 1 <= N PROVE u[m + 1] + Power[m + 1] * (n \div Power[m + 1]) = n
      OBVIOUS
    <3>1. m + 1 \in 1..N /\ (m + 1) - 1 = m /\ m <= N /\ m \in 0..N
      BY <1>1, <2>2
    <3> DEFINE p == Power[m]
               q == n \div p
               v == q \div Base
               w == q % Base
    <3>2. u[m] + p * q = n /\ u[m] \in Nat
      BY <1>5, <2>2, <3>1
    <3>3. p \in Nat \ {0} /\ Power[m + 1] = Base * p
      BY <3>1, Powers
    <3>4. u[m + 1] = u[m] + w * p
      BY <1>3, <1>5, <3>1
    <3> HIDE DEF p
    <3>5. n \div (Base * p) = v /\ q = Base * v + w /\ w \in 0..(Base - 1) /\ v \in Nat
      <4>1. p \in Nat \ {0} /\ Base \in Nat \ {0}
        BY <1>1, <3>3
      <4>2. /\ n \div (Base * p) = (n \div p) \div Base
            /\ n \div p = Base * ((n \div p) \div Base) + ((n \div p) % Base)
            /\ (n \div p) % Base \in 0..(Base - 1) /\ n \div (Base * p) \in Nat
        BY <4>1, Quotients
      <4> QED
        BY <4>2
    <3> HIDE DEF q, v, w
    <3>6. p * (Base * v + w) = (Base * p) * v + w * p
      BY <1>1, <3>3, <3>5
    <3>7. w * p \in Nat /\ (Base * p) * v \in Nat
      BY <1>1, <3>3, <3>5
    <3>8. \A x, b, c, y, r \in Nat : y = b + c /\ x + y = r => (x + c) + b = r
      OBVIOUS
    <3>9. p * q = (Base * p) * v + w * p /\ p * q \in Nat
      BY <3>5, <3>6, <3>7
    <3>10. (u[m] + w * p) + (Base * p) * v = n
      BY <3>2, <3>7, <3>8, <3>9
    <3> QED
      BY <3>3, <3>4, <3>5, <3>10
  <2> HIDE DEF T
  <2> QED
    BY <2>1, <2>2, SetInduction
<1>7. u[N] + USize * (n \div USize) = n
  BY <1>1, <1>6 DEF USize
<1>8. n \div USize = 0 /\ u[N] \in Nat
  <2>1. \A x \in Nat, y \in Nat \ {0} : 2 * x < y => x \div y = 0
    OBVIOUS
  <2>2. u[N] \in Nat
    BY <1>1, <1>5
  <2> QED
    BY <2>1, <2>2, Powers
<1>9. u[N] = n
  <2>1. USize * 0 = 0
    BY Powers
  <2> QED
    BY <1>7, <1>8, <2>1
<1> QED
  BY <1>5, <1>9 DEF Signed

-----------------------------------------------------------------------------
(* Bytes on their way.                                                     *)

\* The sequence s is what comes in S after the first o elements.
Part(s, S, o) == \A k \in 1..Len(s) : s[k] = S[o + k]

\* m has the first n bytes of s from address a on.
Kept(m, a, s, n) == \A k \in 1..n : m[a + k - 1] = s[k]

\* One element goes from the front of a sequence to the end of the one before it.
LEMMA Passed ==
    ASSUME NEW S, NEW q \in Seq(Byte), NEW l \in Seq(Byte), l # <<>>
    PROVE  LET q1 == Append(q, Head(l))
               l1 == Tail(l)
           IN  /\ q1 \in Seq(Byte) /\ Len(q1) = Len(q) + 1
               /\ l1 \in Seq(Byte) /\ Len(l1) = Len(l) - 1
               /\ \A o \in Nat : Part(q, S, o) /\ Part(l, S, o + Len(q)) =>
                                    Part(q1, S, o) /\ Part(l1, S, o + Len(q) + 1)
<1> DEFINE q1 == Append(q, Head(l))
           l1 == Tail(l)
<1>1. Head(l) \in Byte /\ l1 \in Seq(Byte) /\ Len(l1) = Len(l) - 1 /\ \A k \in 1..Len(l1) : l1[k] = l[k + 1]
  BY HeadTailProperties
<1>2. /\ q1 \in Seq(Byte) /\ Len(q1) = Len(q) + 1
      /\ \A k \in 1..Len(q) : q1[k] = q[k]
      /\ q1[Len(q) + 1] = Head(l)
  BY <1>1, AppendProperties
<1>3. Len(q) \in Nat /\ Len(l) \in Nat \ {0} /\ Head(l) = l[1]
  BY LenProperties, EmptySeq
<1> HIDE DEF q1, l1
<1>4. ASSUME NEW o \in Nat, Part(q, S, o), Part(l, S, o + Len(q))
      PROVE  Part(q1, S, o) /\ Part(l1, S, o + Len(q) + 1)
  <2> DEFINE n == Len(q)
             m == Len(l)
  <2>1. n \in Nat /\ m \in Nat \ {0} /\ Len(q1) = n + 1 /\ Len(l1) = m - 1
    BY <1>1, <1>2, <1>3
  <2>2. (\A k \in 1..n : q[k] = S[o + k]) /\ (\A k \in 1..m : l[k] = S[o + n + k])
    BY <1>4 DEF Part
  <2>3. /\ \A k \in 1..n : q1[k] = q[k]
        /\ q1[n + 1] = l[1]
        /\ \A k \in 1..(m - 1) : l1[k] = l[k + 1]
    BY <1>1, <1>2, <1>3
  <2> HIDE DEF n, m
  <2>4. ASSUME NEW k \in 1..(n + 1) PROVE q1[k] = S[o + k]
    <3>1. CASE k \in 1..n
      BY <2>2, <2>3, <3>1
    <3>2. CASE k = n + 1
      <4>1. l[1] = S[o + n + 1] /\ o + k = o + n + 1
        BY <2>1, <2>2, <3>2
      <4> QED
        BY <2>3, <3>2, <4>1
    <3> QED
      BY <2>1, <3>1, <3>2
  <2>5. ASSUME NEW k \in 1..(m - 1) PROVE l1[k] = S[o + n + 1 + k]
    <3>1. k + 1 \in 1..m /\ o + n + (k + 1) = o + n + 1 + k
      BY <2>1
    <3> QED
      BY <2>2, <2>3, <3>1
  <2>6. Part(q1, S, o)
    BY <2>1, <2>4 DEF Part
  <2>7. Part(l1, S, o + n + 1)
    BY <2>1, <2>5 DEF Part
  <2> QED
    BY <2>6, <2>7 DEF n
<1> QED
  BY <1>1, <1>2, <1>4 DEF q1, l1

\* What the sender sends of a file: its size, and its contents.
Message(f) == Bytes(Len(f)) \o f

LEMMA Messages ==
    ASSUME NEW f \in Files \cup {<<>>}
    PROVE  /\ f \in Seq(Byte) /\ Len(f) \in Nat /\ 2 * Len(f) < USize
           /\ Message(f) \in Seq(Byte) /\ Len(Message(f)) = SizeBytes + Len(f)
           /\ \A k \in 1..SizeBytes : Message(f)[k] = Bytes(Len(f))[k]
           /\ \A k \in 1..Len(f) : Message(f)[SizeBytes + k] = f[k]
<1> DEFINE n == Len(f)
           b == Bytes(n)
<1>1. f \in Seq(Byte)
  BY SaveAssumption, EmptySeq
<1>2. n \in Nat /\ 2 * n < USize
  BY <1>1, LenProperties, EmptySeq, FilesAssumption, Powers
<1>3. SizeBytes \in Nat \ {0}
  BY Sizes
<1> HIDE DEF n
<1>4. b \in [1..SizeBytes -> Byte]
  <2>1. ASSUME NEW k \in 1..SizeBytes PROVE (n \div Power[k - 1]) % Base \in Byte
    <3>1. Power[k - 1] \in Nat \ {0}
      <4>1. k - 1 \in 0..SizeBytes
        BY <1>3
      <4> QED
        BY <4>1, Powers
    <3>2. (n \div Power[k - 1]) % Base \in 0..(Base - 1)
      BY <1>2, <3>1, Quotients, Sizes
    <3> QED
      BY <3>2, Sizes
  <2> QED
    BY <2>1 DEF Bytes
<1>5. b \in Seq(Byte) /\ Len(b) = SizeBytes
  <2>1. b \in UNION {[1..m -> Byte] : m \in Nat}
    BY <1>3, <1>4
  <2>2. b \in Seq(Byte)
    BY <2>1, SeqDef, Zenon
  <2>3. DOMAIN b = 1..SizeBytes
    BY <1>4
  <2>4. Len(b) \in Nat /\ DOMAIN b = 1..Len(b)
    BY <2>2, LenProperties
  <2> HIDE DEF b
  <2> QED
    BY <1>3, <2>2, <2>3, <2>4
<1> HIDE DEF b
<1>6. /\ b \o f \in Seq(Byte) /\ Len(b \o f) = SizeBytes + n
      /\ \A k \in 1..(SizeBytes + n) : (b \o f)[k] = IF k <= SizeBytes THEN b[k] ELSE f[k - SizeBytes]
  BY <1>1, <1>5, ConcatProperties DEF n
<1>7. \A k \in 1..SizeBytes : (b \o f)[k] = b[k]
  <2> TAKE k \in 1..SizeBytes
  <2>1. k \in 1..(SizeBytes + n) /\ k <= SizeBytes
    BY <1>2, <1>3
  <2> QED
    BY <1>6, <2>1
<1>8. \A k \in 1..n : (b \o f)[SizeBytes + k] = f[k]
  <2> TAKE k \in 1..n
  <2>1. SizeBytes + k \in 1..(SizeBytes + n) /\ ~(SizeBytes + k <= SizeBytes) /\ (SizeBytes + k) - SizeBytes = k
    BY <1>2, <1>3
  <2> QED
    BY <1>6, <2>1
<1> QED
  BY <1>1, <1>2, <1>6, <1>7, <1>8 DEF n, b, Message

\* Some more bytes of a write are stored behind those that were.
LEMMA WriteOn ==
    ASSUME NEW m \in [0..(EEPROM_SIZE - 1) -> Byte], NEW d \in Seq(Byte), NEW a \in Nat,
           NEW j \in Nat, NEW n \in (j + 1)..Len(d), a + Len(d) <= EEPROM_SIZE - 1, Kept(m, a, d, j)
    PROVE  /\ Write(m, a, d, j, n) \in [0..(EEPROM_SIZE - 1) -> Byte]
           /\ Kept(Write(m, a, d, j, n), a, d, n)
           /\ \A f : Kept(m, 0, f, a) => Kept(Write(m, a, d, j, n), 0, f, a)
<1> DEFINE w == Write(m, a, d, j, n)
           E == EEPROM_SIZE
           l == Len(d)
<1>1. E \in Nat \ {0} /\ l \in Nat /\ n \in (j + 1)..l /\ a + l <= E - 1
  BY Sizes, LenProperties
<1>2. w = [x \in 0..(E - 1) |-> IF x \in (a + j)..(a + n - 1) THEN d[x - a + 1] ELSE m[x]]
  BY DEF Write
<1>3. \A k \in 1..l : d[k] \in Byte
  BY ElementOfSeq
<1> HIDE DEF w, E, l
<1>4. w \in [0..(E - 1) -> Byte]
  <2>1. ASSUME NEW x \in 0..(E - 1), x \in (a + j)..(a + n - 1) PROVE d[x - a + 1] \in Byte
    <3>1. x - a + 1 \in 1..l
      BY <1>1, <2>1
    <3> QED
      BY <1>3, <3>1
  <2>2. \A x \in 0..(E - 1) : m[x] \in Byte
    BY DEF E
  <2> QED
    BY <1>2, <2>1, <2>2
<1>5. ASSUME NEW k \in 1..n PROVE w[a + k - 1] = d[k]
  <2>1. a + k - 1 \in 0..(E - 1)
    BY <1>1
  <2>2. CASE k <= j
    <3>1. a + k - 1 \notin (a + j)..(a + n - 1) /\ k \in 1..j
      BY <1>1, <2>2
    <3> QED
      BY <1>2, <2>1, <3>1 DEF Kept
  <2>3. CASE ~(k <= j)
    <3>1. a + k - 1 \in (a + j)..(a + n - 1) /\ (a + k - 1) - a + 1 = k
      BY <1>1, <2>3
    <3> QED
      BY <1>2, <2>1, <3>1
  <2> QED
    BY <2>2, <2>3
<1>6. ASSUME NEW f, Kept(m, 0, f, a), NEW k \in 1..a PROVE w[0 + k - 1] = f[k]
  <2>1. 0 + k - 1 \in 0..(E - 1) /\ 0 + k - 1 \notin (a + j)..(a + n - 1)
    BY <1>1
  <2> QED
    BY <1>2, <1>6, <2>1 DEF Kept
<1> QED
  BY <1>4, <1>5, <1>6 DEF Kept, w, E

\* A file of which one part is stored and then the next.
LEMMA Joined ==
    ASSUME NEW f \in Files \cup {<<>>}, NEW m, NEW b \in Seq(Byte), NEW a \in Nat,
           Kept(m, 0, f, a), Kept(m, a, b, Len(b)), Part(b, Message(f), SizeBytes + a),
           a + Len(b) <= Len(f)
    PROVE  Kept(m, 0, f, a + Len(b))
<1> DEFINE n == Len(b)
           l == Len(f)
<1>1. n \in Nat /\ l \in Nat /\ SizeBytes \in Nat /\ a + n <= l
  BY LenProperties, Messages, Sizes
<1>2. \A k \in 1..l : Message(f)[SizeBytes + k] = f[k]
  BY Messages
<1>3. /\ \A k \in 1..n : m[a + k - 1] = b[k]
      /\ \A k \in 1..n : b[k] = Message(f)[SizeBytes + a + k]
      /\ \A k \in 1..a : m[0 + k - 1] = f[k]
  BY DEF Kept, Part
<1> HIDE DEF n, l
<1>4. ASSUME NEW k \in 1..(a + n) PROVE m[0 + k - 1] = f[k]
  <2>1. CASE k \in 1..a
    BY <1>3, <2>1
  <2>2. CASE k \notin 1..a
    <3>1. k - a \in 1..n /\ a + (k - a) - 1 = 0 + k - 1 /\ k \in 1..l
      BY <1>1, <2>2
    <3>2. SizeBytes + a + (k - a) = SizeBytes + k
      BY <1>1
    <3>3. m[0 + k - 1] = b[k - a] /\ b[k - a] = Message(f)[SizeBytes + k]
      BY <1>3, <3>1, <3>2
    <3> QED
      BY <1>2, <3>1, <3>3
  <2> QED
    BY <2>1, <2>2
<1> QED
  BY <1>4 DEF Kept, n

\* What is read behind what was read before.
LEMMA ReadOn ==
    ASSUME NEW m \in [0..(EEPROM_SIZE - 1) -> Byte], NEW a \in Nat, NEW n \in Nat, a + n <= EEPROM_SIZE - 1
    PROVE  /\ Read(m, a, n) \in Seq(Byte) /\ Len(Read(m, a, n)) = n
           /\ \A k \in 1..n : Read(m, a, n)[k] = m[a + k - 1]
<1> DEFINE r == Read(m, a, n)
<1>1. r = [k \in 1..n |-> m[a + k - 1]]
  BY DEF Read
<1>2. \A k \in 1..n : m[a + k - 1] \in Byte
  <2> TAKE k \in 1..n
  <2>1. a + k - 1 \in 0..(EEPROM_SIZE - 1)
    BY Sizes
  <2> QED
    BY <2>1
<1> HIDE DEF r
<1>3. r \in [1..n -> Byte]
  BY <1>1, <1>2
<1>4. r \in UNION {[1..k -> Byte] : k \in Nat}
  BY <1>3
<1>5. r \in Seq(Byte)
  BY <1>4, SeqDef, Zenon
<1>6. Len(r) \in Nat /\ DOMAIN r = 1..Len(r)
  BY <1>5, LenProperties
<1>7. Len(r) = n
  <2>1. DOMAIN r = 1..n
    BY <1>3
  <2>2. \A x, y \in Nat : 1..x = 1..y => x = y
    OBVIOUS
  <2>3. 1..Len(r) = 1..n
    BY <1>6, <2>1
  <2> QED
    BY <1>6, <2>2, <2>3
<1> QED
  BY <1>1, <1>5, <1>7 DEF r

\* The same with a byte that an abandoned read may have left behind.
LEMMA ReadAfterOn ==
    ASSUME NEW m \in [0..(EEPROM_SIZE - 1) -> Byte], NEW a \in Nat, NEW n \in Nat, a + n <= EEPROM_SIZE - 1,
           NEW k \in Byte \cup {NoByte}
    PROVE  /\ ReadAfter(k, m, a, n) \in Seq(Byte) /\ Len(ReadAfter(k, m, a, n)) = n
           /\ k = NoByte => \A j \in 1..n : ReadAfter(k, m, a, n)[j] = m[a + j - 1]
<1> DEFINE r == ReadAfter(k, m, a, n)
<1>1. r = [j \in 1..n |-> Nth(k, m, a, j)]
  BY DEF ReadAfter
<1>2. \A j \in 1..n : Nth(k, m, a, j) \in Byte /\ (k = NoByte => Nth(k, m, a, j) = m[a + j - 1])
  <2> TAKE j \in 1..n
  <2>1. a + j - 1 \in 0..(EEPROM_SIZE - 1) /\ (j # 1 => a + j - 2 \in 0..(EEPROM_SIZE - 1))
    BY Sizes
  <2>2. m[a + j - 1] \in Byte /\ (j # 1 => m[a + j - 2] \in Byte)
    BY <2>1
  <2> QED
    BY <2>2 DEF Nth
<1> HIDE DEF r
<1>3. r \in [1..n -> Byte] /\ (k = NoByte => \A j \in 1..n : r[j] = m[a + j - 1])
  BY <1>1, <1>2
<1>4. r \in UNION {[1..l -> Byte] : l \in Nat}
  BY <1>3
<1>5. r \in Seq(Byte)
  BY <1>4, SeqDef, Zenon
<1>6. Len(r) \in Nat /\ DOMAIN r = 1..Len(r)
  BY <1>5, LenProperties
<1>7. Len(r) = n
  <2>1. DOMAIN r = 1..n
    BY <1>3
  <2>2. \A x, y \in Nat : 1..x = 1..y => x = y
    OBVIOUS
  <2>3. 1..Len(r) = 1..n
    BY <1>6, <2>1
  <2> QED
    BY <1>6, <2>2, <2>3
<1> QED
  BY <1>3, <1>5, <1>7 DEF r

-----------------------------------------------------------------------------
(* The invariant.                                                          *)

\* A write is in progress exactly while a piece is being stored, and it is the
\* piece that was read; how it ended says whether the piece is in the EEPROM.
CallInv ==
    /\ call = NoCall => stored = 0
    /\ pc # "store" => call = NoCall
    /\ pc = "store" =>
        /\ stage # "size" /\ Len(buf) = Want
        /\ \/ /\ call = [op |-> "write", addr |-> addr, data |-> buf]
              /\ stored \in 0..Len(buf) /\ Kept(mem, addr, buf, stored)
           \/ /\ call = NoCall /\ result = Written
              /\ Len(buf) + addr <= EEPROM_SIZE - 1 /\ Kept(mem, addr, buf, Len(buf))
           \/ call = NoCall /\ result = Refused /\ Len(buf) + addr > EEPROM_SIZE - 1

\* The address and what remains add up to the size that was read.
SizeInv ==
    /\ pc \in Loading /\ stage = "size" => addr = 0
    /\ pc \in Loading /\ stage # "size" =>
         /\ addr < EEPROM_SIZE /\ filesize = addr + remaining /\ stage = StageFor(remaining)
    /\ pc = "ask" => filesize \in -1..(EEPROM_SIZE - 1)
    /\ filesize < USize

\* An overrun is cleared before an empty queue is polled.
QueueInv == pc = "poll" /\ fifo = <<>> => ~oerr

\* Of the message: what was stored, and what is on its way.
Taken == IF stage = "size" THEN 0 ELSE SizeBytes + addr
Left == Len(buf) + Len(fifo) + Len(line)

\* A message sent to a load that waited for it goes through the line, the
\* queue and the buffer into the EEPROM, in order; a loss leaves it too short.
SingleInv ==
    single /\ pc \in Loading =>
        /\ Taken + Left <= SizeBytes + Len(file)
        /\ lost => Taken + Left < SizeBytes + Len(file)
        /\ stage = "size" => ~lost /\ ~oerr
        /\ stage # "size" => filesize = Len(file)
        /\ ~lost => /\ Taken + Left = SizeBytes + Len(file)
                    /\ Part(buf, Message(file), Taken)
                    /\ Part(fifo, Message(file), Taken + Len(buf))
                    /\ Part(line, Message(file), Taken + Len(buf) + Len(fifo))
                    /\ stage # "size" => Kept(mem, 0, file, addr)

\* What such a load has reported.
AskInv ==
    single /\ pc = "ask" =>
        \/ filesize = -1 /\ (lost \/ Len(file) >= EEPROM_SIZE)
        \/ /\ filesize = Len(file) /\ filesize < EEPROM_SIZE /\ ~lost /\ line = <<>>
           /\ Kept(mem, 0, file, Len(file))

\* What was sent back is what the EEPROM holds, if no byte was left over before
\* it; and the buffer is whole once there was a first read.
BackInv ==
    pc = "back" =>
        /\ remaining \in 0..USize
        /\ \/ addr = 0 /\ back = <<>> /\ buf = <<>>
           \/ Len(buf) = ReadBuf
        /\ filesize \in -1..(EEPROM_SIZE - 1)
        /\ filesize >= 0 => Len(back) = addr /\ filesize = addr + remaining
        /\ filesize >= 0 /\ clean => kept = NoByte /\ Kept(mem, 0, back, addr)

SaveInv == TypeOK /\ CallInv /\ SizeInv /\ QueueInv /\ SingleInv /\ AskInv /\ BackInv

\* Lengths are natural numbers, and only the empty sequence has none.
LEMMA Counted ==
    ASSUME TypeOK
    PROVE  /\ Len(buf) \in Nat /\ Len(fifo) \in Nat /\ Len(line) \in Nat /\ Len(back) \in Nat
           /\ Len(file) \in Nat /\ addr \in Nat /\ filesize \in Int /\ remaining \in Int
           /\ Len(line) = 0 => line = <<>>
           /\ Taken \in Nat /\ Left \in Nat
<1>1. buf \in Seq(Byte) /\ fifo \in Seq(Byte) /\ line \in Seq(Byte) /\ back \in Seq(Byte)
  BY DEF TypeOK
<1>2. Len(buf) \in Nat /\ Len(fifo) \in Nat /\ Len(line) \in Nat /\ Len(back) \in Nat
  BY <1>1, LenProperties
<1>3. Len(file) \in Nat
  BY Messages DEF TypeOK
<1>4. addr \in Nat /\ filesize \in Int /\ remaining \in Int
  BY Powers, Sizes DEF TypeOK
<1>5. Len(line) = 0 => line = <<>>
  BY <1>1, EmptySeq
<1> QED
  BY <1>2, <1>3, <1>4, <1>5, Sizes DEF Taken, Left

LEMMA SaveInit == ASSUME Init PROVE SaveInv
<1> USE DEF Init, SInit
<1>1. TypeOK
  <2>1. 0 \in -USize..USize /\ 0 \in 0..(U16 - 1) /\ 0 \in 0..MaxSends
    BY Powers, Sizes, SaveAssumption
  <2>2. <<>> \in Seq(Byte) /\ Len(<<>>) = 0 /\ 0 <= FifoSize
    BY Sizes
  <2>3. mem \in [0..(EEPROM_SIZE - 1) -> Byte]
    BY StoreAssumption
  <2> QED
    BY <2>1, <2>2, <2>3 DEF TypeOK, Loading
<1>2. CallInv /\ QueueInv /\ SingleInv /\ AskInv /\ BackInv
  BY DEF CallInv, QueueInv, SingleInv, AskInv, BackInv, Loading
<1>3. SizeInv
  BY Powers DEF SizeInv, Loading
<1> QED
  BY <1>1, <1>2, <1>3 DEF SaveInv

-----------------------------------------------------------------------------
(* The host and the line.                                                  *)

LEMMA SendStep == ASSUME SaveInv, NEW f \in Files, Send(f) PROVE SaveInv'
<1> USE DEF Send, svars, board, queue
<1>1. TypeOK'
  <2>1. line' \in Seq(Byte)
    BY Messages DEF Message
  <2>2. sends' \in 0..MaxSends
    BY SaveAssumption DEF SaveInv, TypeOK
  <2>3. single' \in BOOLEAN /\ lost' \in BOOLEAN /\ clean' = clean
    OBVIOUS
  <2> QED
    BY <2>1, <2>2, <2>3 DEF SaveInv, TypeOK, Loading
<1>2. CallInv' /\ QueueInv' /\ BackInv'
  BY DEF SaveInv, CallInv, QueueInv, BackInv, Want
<1>3. SizeInv'
  BY DEF SaveInv, SizeInv
<1>4. ASSUME single' PROVE SingleInv'
  <2>1. pc = "poll" /\ stage = "size" /\ buf = <<>> /\ fifo = <<>> /\ ~oerr /\ ~lost'
    BY <1>4 DEF SaveInv, QueueInv
  <2>2. line' = Message(f) /\ file' = f /\ Len(line') = SizeBytes + Len(f) /\ Len(f) \in Nat
    BY Messages DEF Message
  <2>3. Taken' = 0 /\ Left' = SizeBytes + Len(file')
    BY <2>1, <2>2, Sizes DEF Taken, Left
  <2>4. Part(buf', Message(file'), 0) /\ Part(fifo', Message(file'), 0)
    BY <2>1 DEF Part
  <2>5. Part(line', Message(file'), 0)
    BY <2>2, Sizes DEF Part
  <2>6. Len(buf') = 0 /\ Len(fifo') = 0 /\ stage' = "size" /\ ~oerr'
    BY <2>1
  <2> QED
    BY <2>1, <2>2, <2>3, <2>4, <2>5, <2>6, Sizes DEF SingleInv
<1>5. SingleInv'
  BY <1>4 DEF SingleInv
<1>6. AskInv'
  BY DEF AskInv
<1> QED
  BY <1>1, <1>2, <1>3, <1>5, <1>6 DEF SaveInv

LEMMA ByteStep == ASSUME SaveInv, ByteArrives PROVE SaveInv'
<1> USE DEF ByteArrives, svars, board
<1>1. line \in Seq(Byte) /\ fifo \in Seq(Byte) /\ line # <<>>
  BY DEF SaveInv, TypeOK
<1> DEFINE F == Append(fifo, Head(line))
           L == Tail(line)
<1>2. /\ F \in Seq(Byte) /\ Len(F) = Len(fifo) + 1 /\ L \in Seq(Byte) /\ Len(L) = Len(line) - 1
      /\ \A o \in Nat : Part(fifo, Message(file), o) /\ Part(line, Message(file), o + Len(fifo)) =>
                           Part(F, Message(file), o) /\ Part(L, Message(file), o + Len(fifo) + 1)
  BY <1>1, Passed
<1>3. line' = L /\ \/ oerr' = TRUE /\ lost' = TRUE /\ fifo' = fifo /\ (oerr \/ Len(fifo) = FifoSize)
                   \/ fifo' = F /\ oerr' = oerr /\ lost' = lost /\ ~oerr /\ Len(fifo) # FifoSize
  OBVIOUS
<1> HIDE DEF F, L
<1>4. /\ TypeOK /\ Len(buf) \in Nat /\ Len(fifo) \in Nat /\ Len(line) \in Nat /\ Len(file) \in Nat
      /\ Taken \in Nat /\ SizeBytes + Len(file) \in Nat
  BY Counted, Sizes DEF SaveInv
<1>5. TypeOK'
  <2>2. fifo' \in Seq(Byte) /\ Len(fifo') <= FifoSize
    <3>1. fifo \in Seq(Byte) /\ Len(fifo) <= FifoSize /\ Len(fifo) \in Nat /\ FifoSize \in Nat
      BY <1>4, Counted, Sizes DEF TypeOK
    <3>2. Len(fifo) # FifoSize => Len(fifo) + 1 <= FifoSize
      BY <3>1
    <3> QED
      BY <1>2, <1>3, <3>1, <3>2
  <2>3. oerr' \in BOOLEAN /\ lost' \in BOOLEAN /\ line' \in Seq(Byte)
    BY <1>2, <1>3, <1>4 DEF TypeOK
  <2> QED
    BY <1>4, <2>2, <2>3 DEF TypeOK
<1>6. CallInv' /\ BackInv' /\ SizeInv'
  BY DEF SaveInv, CallInv, BackInv, SizeInv, Want
<1>7. QueueInv'
  <2>1. F # <<>>
    BY <1>2, <1>4, Counted
  <2>2. pc = "poll" => Len(fifo) # FifoSize
    BY <1>4, Counted, Sizes
  <2> QED
    BY <1>3, <2>1, <2>2 DEF SaveInv, QueueInv
<1>8. ASSUME single, pc \in Loading PROVE SingleInv'
  <2>1. Taken' = Taken /\ Left' = Len(buf) + Len(fifo') + Len(line')
    BY DEF Taken, Left
  <2>2. CASE lost'
    <3>1. stage # "size"
      <4>1. pc # "store" => Len(fifo) # FifoSize
        BY <1>4, <1>8, Counted, Sizes DEF Loading
      <4>2. pc = "store" => stage # "size"
        BY DEF SaveInv, CallInv
      <4>3. stage = "size" => ~lost /\ ~oerr
        BY <1>8 DEF SaveInv, SingleInv
      <4> QED
        BY <1>3, <2>2, <4>1, <4>2, <4>3
    <3>2. lost \/ Len(fifo') + Len(line') < Len(fifo) + Len(line)
      <4>1. Len(fifo) \in Nat /\ Len(line) \in Nat /\ Len(line') = Len(line) - 1
        BY <1>2, <1>3, <1>4
      <4>2. lost \/ fifo' = fifo
        BY <1>3, <2>2
      <4>3. CASE fifo' = fifo
        BY <4>1, <4>3
      <4> QED
        BY <4>2, <4>3
    <3>3. Len(fifo') + Len(line') <= Len(fifo) + Len(line)
      <4>1. Len(fifo) \in Nat /\ Len(line) \in Nat /\ Len(line') = Len(line) - 1
        BY <1>2, <1>3, <1>4
      <4>2. Len(fifo') = Len(fifo) \/ Len(fifo') = Len(fifo) + 1
        BY <1>2, <1>3
      <4> QED
        BY <4>1, <4>2
    <3>4. Taken + Left <= SizeBytes + Len(file) /\ (lost => Taken + Left < SizeBytes + Len(file))
          /\ filesize = Len(file)
      BY <1>8, <3>1 DEF SaveInv, SingleInv
    <3>5. Len(fifo') \in Nat /\ Len(line') \in Nat
      BY <1>2, <1>3, <1>4
    <3>6. Taken' + Left' < SizeBytes + Len(file)
      <4>1. \A t, b, x, y, u, v, s \in Nat :
               /\ t + (b + x + y) <= s /\ u + v <= x + y
               /\ t + (b + x + y) < s \/ u + v < x + y
               => t + (b + u + v) < s
        OBVIOUS
      <4>2. /\ Taken \in Nat /\ Len(buf) \in Nat /\ Len(fifo) \in Nat /\ Len(line) \in Nat
            /\ SizeBytes + Len(file) \in Nat
        BY <1>4
      <4>3. /\ Taken + (Len(buf) + Len(fifo) + Len(line)) <= SizeBytes + Len(file)
            /\ \/ Taken + (Len(buf) + Len(fifo) + Len(line)) < SizeBytes + Len(file)
               \/ Len(fifo') + Len(line') < Len(fifo) + Len(line)
        BY <3>2, <3>4 DEF Left
      <4>4. Taken + (Len(buf) + Len(fifo') + Len(line')) < SizeBytes + Len(file)
        BY <3>5, <3>3, <4>1, <4>2, <4>3
      <4> QED
        BY <2>1, <4>4
    <3>7. Taken' + Left' <= SizeBytes + Len(file)
      <4>1. Taken' + Left' \in Nat
        BY <1>4, <2>1, <3>5
      <4> QED
        BY <1>4, <3>6, <4>1
    <3> QED
      BY <2>2, <3>1, <3>4, <3>6, <3>7 DEF SingleInv
  <2>3. CASE ~lost'
    <3>1. fifo' = F /\ line' = L /\ ~lost /\ ~oerr'
      BY <1>3, <2>3
    <3>2. /\ Taken + Left = SizeBytes + Len(file)
          /\ Part(buf, Message(file), Taken)
          /\ Part(fifo, Message(file), Taken + Len(buf))
          /\ Part(line, Message(file), Taken + Len(buf) + Len(fifo))
          /\ stage # "size" => Kept(mem, 0, file, addr)
          /\ stage # "size" => filesize = Len(file)
      BY <1>8, <3>1 DEF SaveInv, SingleInv
    <3>3. Left' = Left /\ Len(fifo') = Len(fifo) + 1
      <4>1. Len(fifo') = Len(fifo) + 1 /\ Len(line') = Len(line) - 1
        BY <1>2, <3>1
      <4>2. Len(buf) \in Nat /\ Len(fifo) \in Nat /\ Len(line) \in Nat
        BY <1>4
      <4> QED
        BY <2>1, <4>1, <4>2 DEF Left
    <3>4. Taken + Len(buf) \in Nat
      BY <1>4
    <3>5. Part(F, Message(file), Taken + Len(buf)) /\ Part(L, Message(file), Taken + Len(buf) + Len(fifo) + 1)
      BY <1>2, <3>2, <3>4
    <3>6. Taken + Len(buf) + Len(fifo) + 1 = Taken + Len(buf) + Len(fifo')
      BY <1>4, <3>3
    <3>7. Taken' + Left' = SizeBytes + Len(file)
      BY <2>1, <3>2, <3>3
    <3>8. Taken' + Left' <= SizeBytes + Len(file)
      BY <1>4, <3>7
    <3> QED
      BY <2>1, <2>3, <3>1, <3>2, <3>5, <3>6, <3>7, <3>8 DEF SingleInv
  <2> QED
    BY <2>2, <2>3
<1>9. SingleInv'
  BY <1>8 DEF SingleInv
<1>10. AskInv'
  BY <1>1, <1>3 DEF SaveInv, AskInv
<1> QED
  BY <1>5, <1>6, <1>7, <1>9, <1>10 DEF SaveInv

-----------------------------------------------------------------------------
(* uart_direct_read_n.                                                     *)

LEMMA CheckStep == ASSUME SaveInv, Check PROVE SaveInv'
<1> USE DEF Check, Receiving, svars, host, hist
<1>1. TypeOK'
  BY DEF SaveInv, TypeOK, Loading
<1>2. CallInv' /\ SizeInv' /\ QueueInv' /\ AskInv' /\ BackInv'
  BY DEF SaveInv, CallInv, SizeInv, QueueInv, AskInv, BackInv, Loading
<1>3. Taken' = Taken /\ Left' = Left /\ pc \in Loading /\ (~oerr => ~oerr')
  BY DEF Taken, Left, Loading
<1>4. SingleInv'
  BY <1>3 DEF SaveInv, SingleInv
<1> QED
  BY <1>1, <1>2, <1>4 DEF SaveInv

LEMMA PollStep == ASSUME SaveInv, Poll PROVE SaveInv'
<1> USE DEF Poll, Receiving, svars, host, hist
<1>1. TypeOK /\ buf \in Seq(Byte) /\ fifo \in Seq(Byte) /\ fifo # <<>>
  BY DEF SaveInv, TypeOK
<1> DEFINE B == Append(buf, Head(fifo))
           F == Tail(fifo)
<1>2. /\ B \in Seq(Byte) /\ Len(B) = Len(buf) + 1 /\ F \in Seq(Byte) /\ Len(F) = Len(fifo) - 1
      /\ \A o \in Nat : Part(buf, Message(file), o) /\ Part(fifo, Message(file), o + Len(buf)) =>
                           Part(B, Message(file), o) /\ Part(F, Message(file), o + Len(buf) + 1)
  BY <1>1, Passed
<1>3. buf' = B /\ fifo' = F
  OBVIOUS
<1> HIDE DEF B, F
<1>4. Len(buf) \in Nat /\ Len(fifo) \in Nat /\ Len(line) \in Nat /\ Taken \in Nat
  BY <1>1, Counted
<1>5. TypeOK'
  <2>1. Len(fifo') <= FifoSize
    <3>1. Len(fifo) <= FifoSize
      BY <1>1 DEF TypeOK
    <3> QED
      BY <1>2, <1>3, <1>4, <3>1, Sizes
  <2> QED
    BY <1>1, <1>2, <1>3, <2>1 DEF TypeOK, Loading
<1>6. CallInv' /\ SizeInv' /\ QueueInv' /\ AskInv' /\ BackInv'
  BY DEF SaveInv, CallInv, SizeInv, QueueInv, AskInv, BackInv, Loading
<1>7. pc \in Loading /\ Taken' = Taken
  BY DEF Loading, Taken
<1>8. Left' = Left
  BY <1>2, <1>3, <1>4 DEF Left
<1>9. ASSUME single, ~lost PROVE /\ Part(buf', Message(file), Taken)
                                 /\ Part(fifo', Message(file), Taken + Len(buf'))
                                 /\ Part(line, Message(file), Taken + Len(buf') + Len(fifo'))
  <2>1. /\ Part(buf, Message(file), Taken)
        /\ Part(fifo, Message(file), Taken + Len(buf))
        /\ Part(line, Message(file), Taken + Len(buf) + Len(fifo))
    BY <1>7, <1>9 DEF SaveInv, SingleInv
  <2>2. Part(B, Message(file), Taken) /\ Part(F, Message(file), Taken + Len(buf) + 1)
    BY <1>2, <1>4, <2>1
  <2>3. /\ Taken + Len(buf') = Taken + Len(buf) + 1
        /\ Taken + Len(buf') + Len(fifo') = Taken + Len(buf) + Len(fifo)
    BY <1>2, <1>3, <1>4
  <2> QED
    BY <1>3, <2>1, <2>2, <2>3
<1>10. SingleInv'
  BY <1>7, <1>8, <1>9 DEF SaveInv, SingleInv
<1> QED
  BY <1>5, <1>6, <1>10 DEF SaveInv

-----------------------------------------------------------------------------
(* receive_and_store.                                                      *)

LEMMA LoadStep == ASSUME SaveInv, Load PROVE SaveInv'
<1> USE DEF Load, NoLocals, svars, queue, host
<1>1. TypeOK'
  <2>1. 0 \in -USize..USize /\ 0 \in 0..(U16 - 1)
    BY Powers, Sizes
  <2>2. <<>> \in Seq(Byte)
    OBVIOUS
  <2> QED
    BY <2>1, <2>2 DEF SaveInv, TypeOK, Loading
<1>2. CallInv' /\ QueueInv' /\ SingleInv' /\ AskInv' /\ BackInv'
  BY DEF SaveInv, CallInv, QueueInv, SingleInv, AskInv, BackInv, Loading
<1>3. SizeInv'
  BY Powers DEF SizeInv, Loading
<1> QED
  BY <1>1, <1>2, <1>3 DEF SaveInv

\* The next step reads a size, of which every byte may be any.
LEMMA SizeStep == ASSUME SaveInv, SizeRead PROVE SaveInv'
<1> USE DEF SizeRead, svars, queue, host, hist
<1>1. TypeOK /\ buf \in Seq(Byte) /\ Len(buf) = SizeBytes /\ stage = "size" /\ pc = "check" /\ pc' = "check"
  BY DEF SaveInv, TypeOK, Want
<1>2. \A k \in 1..SizeBytes : buf[k] \in Byte
  BY <1>1, ElementOfSeq
<1>3. filesize' \in -USize..(USize - 1) /\ remaining' = filesize'
  BY <1>2, NumberRange
<1>4. addr = 0 /\ addr' = 0
  BY <1>1 DEF SaveInv, SizeInv, Loading
<1>5. stage' = StageFor(remaining') /\ stage' # "size" /\ stage' \in {"chunk", "rest"}
  BY DEF StageFor
<1>6. buf' = <<>> /\ Len(buf') = 0 /\ buf' \in Seq(Byte)
  OBVIOUS
<1>7. TypeOK'
  <2>1. filesize' \in -USize..USize /\ remaining' \in -USize..USize
    BY <1>3, Powers
  <2> QED
    BY <1>1, <1>5, <1>6, <2>1 DEF TypeOK
<1>8. SizeInv'
  BY <1>1, <1>3, <1>4, <1>5, Powers, Sizes DEF SizeInv
<1>9. CallInv' /\ QueueInv' /\ AskInv' /\ BackInv'
  BY <1>1 DEF SaveInv, CallInv, QueueInv, AskInv, BackInv
<1>10. ASSUME single PROVE SingleInv'
  <2>1. /\ Taken + Left = SizeBytes + Len(file) /\ ~lost
        /\ Part(buf, Message(file), Taken)
        /\ Part(fifo, Message(file), Taken + Len(buf))
        /\ Part(line, Message(file), Taken + Len(buf) + Len(fifo))
    BY <1>1, <1>10 DEF SaveInv, SingleInv, Loading
  <2>2. Taken = 0 /\ Taken' = SizeBytes /\ SizeBytes \in Nat
    BY <1>1, <1>4, <1>5, Sizes DEF Taken
  <2>3. Len(fifo) \in Nat /\ Len(line) \in Nat /\ Len(file) \in Nat
    BY <1>1, Counted
  <2>4. Len(fifo) + Len(line) = Len(file)
    BY <1>1, <2>1, <2>2, <2>3 DEF Left
  <2>5. Left' = Len(file)
    BY <1>6, <2>3, <2>4 DEF Left
  <2>6. \A k \in 1..SizeBytes : buf[k] = Bytes(Len(file))[k]
    <3>1. \A k \in 1..SizeBytes : Message(file)[k] = Bytes(Len(file))[k]
      BY <1>1, Messages DEF TypeOK
    <3>2. \A k \in 1..SizeBytes : buf[k] = Message(file)[0 + k] /\ 0 + k = k
      BY <1>1, <2>1, <2>2 DEF Part
    <3> QED
      BY <3>1, <3>2
  <2>7. filesize' = Len(file)
    <3>1. 2 * Len(file) < USize
      BY <1>1, Messages DEF TypeOK
    <3> QED
      BY <2>3, <2>6, <3>1, SizeRoundTrip
  <2>8. /\ Part(buf', Message(file), Taken')
        /\ Part(fifo', Message(file), Taken' + Len(buf'))
        /\ Part(line', Message(file), Taken' + Len(buf') + Len(fifo'))
    <3>1. Part(buf', Message(file), Taken')
      BY <1>6 DEF Part
    <3>2. Taken' + Len(buf') = Taken + Len(buf) /\ Taken' + Len(buf') + Len(fifo) = Taken + Len(buf) + Len(fifo)
      BY <1>1, <1>6, <2>2, <2>3
    <3> QED
      BY <2>1, <3>1, <3>2
  <2>9. Kept(mem', 0, file', addr')
    BY <1>4 DEF Kept
  <2>10. Taken' + Left' = SizeBytes + Len(file) /\ SizeBytes + Len(file) <= SizeBytes + Len(file)
    BY <2>2, <2>3, <2>5
  <2> QED
    BY <1>5, <2>1, <2>7, <2>8, <2>9, <2>10 DEF SingleInv
<1>11. SingleInv'
  BY <1>10 DEF SingleInv
<1> QED
  BY <1>7, <1>8, <1>9, <1>11 DEF SaveInv

LEMMA NegativeStep == ASSUME SaveInv, NegativeSize PROVE SaveInv'
<1> USE DEF NegativeSize, Receiving, svars, queue, host, hist
<1>1. TypeOK'
  BY DEF SaveInv, TypeOK, Loading
<1>2. CallInv' /\ SizeInv' /\ QueueInv' /\ SingleInv' /\ AskInv' /\ BackInv'
  BY DEF SaveInv, CallInv, SizeInv, QueueInv, SingleInv, AskInv, BackInv, Loading
<1> QED
  BY <1>1, <1>2 DEF SaveInv

LEMMA ChunkStep == ASSUME SaveInv, StoreChunk PROVE SaveInv'
<1> USE DEF StoreChunk, svars, queue, host, hist
<1>1. TypeOK'
  BY DEF SaveInv, TypeOK, Loading
<1>2. CallInv'
  <2>1. stored' = 0 /\ Len(buf) \in Nat
    BY Counted DEF SaveInv, CallInv
  <2>2. Kept(mem', addr', buf', 0)
    BY DEF Kept
  <2>3. call' # NoCall
    BY DEF NoCall
  <2>4. Want' = Want
    BY DEF Want
  <2> QED
    BY <2>1, <2>2, <2>3, <2>4 DEF CallInv
<1>3. SizeInv' /\ QueueInv' /\ AskInv' /\ BackInv'
  BY DEF SaveInv, SizeInv, QueueInv, AskInv, BackInv, Loading
<1>4. Taken' = Taken /\ Left' = Left /\ pc \in Loading
  BY DEF Taken, Left, Loading
<1>5. SingleInv'
  BY <1>4 DEF SaveInv, SingleInv
<1> QED
  BY <1>1, <1>2, <1>3, <1>5 DEF SaveInv

\* eeprom_write works on the piece, and changes nothing else.
LEMMA WriteStep == ASSUME SaveInv, EepromWrites PROVE SaveInv'
<1> USE DEF EepromWrites, board, queue, host, hist
<1>1. TypeOK /\ CallInv /\ pc = "store" /\ stage # "size" /\ Len(buf) = Want
  BY DEF SaveInv, CallInv
<1>2. Want' = Want /\ Taken' = Taken /\ Left' = Left /\ pc' = "store"
  BY <1>1 DEF Want, Taken, Left
<1>3. QueueInv' /\ AskInv' /\ BackInv' /\ SizeInv'
  BY <1>1 DEF SaveInv, QueueInv, AskInv, BackInv, SizeInv
<1>4. Len(buf) \in Nat /\ addr \in Nat /\ buf \in Seq(Byte) /\ EEPROM_SIZE \in Nat
      /\ mem \in [0..(EEPROM_SIZE - 1) -> Byte]
  BY <1>1, Counted, Sizes DEF TypeOK
<1>5. call = [op |-> "write", addr |-> addr, data |-> buf] =>
        Size(call) = Len(buf) /\ call.op = "write" /\ call # NoCall
        /\ (OutOfRange(call) <=> Len(buf) + addr > EEPROM_SIZE - 1)
  BY <1>4 DEF Size, OutOfRange, NoCall
<1>6. call # NoCall \/ call.op = "write" =>
        /\ call = [op |-> "write", addr |-> addr, data |-> buf]
        /\ stored \in 0..Len(buf) /\ Kept(mem, addr, buf, stored)
  BY <1>1 DEF CallInv, NoCall
<1>7. ASSUME SRefuse \/ SWritten PROVE TypeOK' /\ CallInv' /\ SingleInv'
  <2>1. call' = NoCall /\ stored' = 0 /\ mem' = mem /\ kept' = kept
    BY <1>7 DEF SRefuse, SWritten, SReturn
  <2>2. TypeOK'
    BY <1>1, <1>2, <2>1 DEF TypeOK, Loading
  <2>3. CASE SRefuse
    <3>1. result' = Refused /\ Len(buf) + addr > EEPROM_SIZE - 1
      BY <1>5, <1>6, <2>3 DEF SRefuse, SReturn
    <3> QED
      BY <1>1, <1>2, <2>1, <2>2, <3>1 DEF CallInv, SaveInv, SingleInv
  <2>4. CASE SWritten
    <3>1. call.op = "write" /\ result' = Written /\ ~OutOfRange(call) /\ stored = Size(call)
      BY <2>4 DEF SWritten, SReturn
    <3>2. stored = Len(buf) /\ Kept(mem, addr, buf, Len(buf)) /\ ~(Len(buf) + addr > EEPROM_SIZE - 1)
      BY <1>5, <1>6, <3>1
    <3>3. Len(buf) + addr <= EEPROM_SIZE - 1
      BY <1>4, <3>2
    <3> QED
      BY <1>1, <1>2, <2>1, <2>2, <3>1, <3>2, <3>3 DEF CallInv, SaveInv, SingleInv
  <2> QED
    BY <1>7, <2>3, <2>4
<1>8. ASSUME SStore PROVE TypeOK' /\ CallInv' /\ SingleInv'
  <2>1. call.op = "write" /\ ~OutOfRange(call) /\ call' = call /\ result' = result /\ kept' = kept
    BY <1>8 DEF SStore
  <2>2. PICK n \in (stored + 1)..Len(buf) : mem' = Write(mem, addr, buf, stored, n) /\ stored' = n
    BY <1>5, <1>6, <1>8 DEF SStore
  <2>3. addr + Len(buf) <= EEPROM_SIZE - 1 /\ stored \in Nat /\ n \in 0..Len(buf)
    BY <1>4, <1>5, <1>6, <2>1
  <2>4. /\ mem' \in [0..(EEPROM_SIZE - 1) -> Byte] /\ Kept(mem', addr, buf, n)
        /\ \A f : Kept(mem, 0, f, addr) => Kept(mem', 0, f, addr)
    BY <1>4, <1>6, <2>1, <2>2, <2>3, WriteOn
  <2>5. TypeOK'
    BY <1>1, <1>2, <2>1, <2>4 DEF TypeOK, Loading
  <2>6. CallInv'
    BY <1>1, <1>2, <1>5, <1>6, <2>1, <2>2, <2>3, <2>4 DEF CallInv
  <2>7. SingleInv'
    BY <1>1, <1>2, <2>4 DEF SaveInv, SingleInv
  <2> QED
    BY <2>5, <2>6, <2>7
<1> QED
  BY <1>3, <1>7, <1>8 DEF SaveInv

\* A whole chunk is stored: the next one goes behind it.
LEMMA StoredStep == ASSUME SaveInv, Stored PROVE SaveInv'
<1> USE DEF Stored, svars, queue, host, hist
<1>1. TypeOK /\ pc = "store" /\ call = NoCall /\ result = Written /\ stage = "chunk" /\ pc' = "check"
  BY DEF SaveInv
<1>2. Len(buf) = BUFSIZE /\ Len(buf) + addr <= EEPROM_SIZE - 1 /\ Kept(mem, addr, buf, Len(buf))
  BY <1>1 DEF SaveInv, CallInv, Want, NoCall, Written, Refused
<1>3. addr < EEPROM_SIZE /\ filesize = addr + remaining /\ stage = StageFor(remaining)
  BY <1>1 DEF SaveInv, SizeInv, Loading
<1>4. addr \in Nat /\ remaining \in Int /\ filesize \in Int /\ buf \in Seq(Byte)
  BY <1>1, Counted DEF TypeOK
<1>5. remaining >= BUFSIZE /\ remaining' = remaining - BUFSIZE
  BY <1>1, <1>3, <1>4, Sizes DEF StageFor
<1>6. addr' = addr + BUFSIZE
  <2>1. \A x, u \in Nat : x < u => x % u = x
    OBVIOUS
  <2>2. addr + BUFSIZE \in Nat /\ addr + BUFSIZE < U16
    BY <1>2, <1>4, Sizes
  <2> QED
    BY <2>1, <2>2, Sizes
<1>7. stage' = StageFor(remaining') /\ stage' # "size" /\ stage' \in {"chunk", "rest"}
  BY DEF StageFor
<1>8. buf' = <<>> /\ Len(buf') = 0 /\ buf' \in Seq(Byte)
  OBVIOUS
<1>9. TypeOK'
  <2>1. remaining' \in -USize..USize
    <3>1. remaining \in -USize..USize
      BY <1>1 DEF TypeOK
    <3> QED
      BY <1>5, <3>1, Powers, Sizes
  <2>2. addr' \in 0..(U16 - 1)
    BY <1>2, <1>4, <1>6, Sizes
  <2> QED
    BY <1>1, <1>7, <1>8, <2>1, <2>2 DEF TypeOK, Loading
<1>10. SizeInv'
  <2>1. addr' < EEPROM_SIZE /\ filesize = addr' + remaining'
    BY <1>2, <1>3, <1>4, <1>5, <1>6, Sizes
  <2> QED
    BY <1>1, <1>7, <2>1 DEF SaveInv, SizeInv
<1>11. CallInv' /\ QueueInv' /\ AskInv' /\ BackInv'
  BY <1>1 DEF SaveInv, CallInv, QueueInv, AskInv, BackInv
<1>12. ASSUME single PROVE SingleInv'
  <2>1. /\ Taken + Left <= SizeBytes + Len(file) /\ filesize = Len(file)
        /\ lost => Taken + Left < SizeBytes + Len(file)
        /\ ~lost => /\ Taken + Left = SizeBytes + Len(file)
                    /\ Part(buf, Message(file), Taken)
                    /\ Part(fifo, Message(file), Taken + Len(buf))
                    /\ Part(line, Message(file), Taken + Len(buf) + Len(fifo))
                    /\ Kept(mem, 0, file, addr)
    BY <1>1, <1>12 DEF SaveInv, SingleInv, Loading
  <2>2. Len(fifo) \in Nat /\ Len(line) \in Nat /\ Len(file) \in Nat
    BY <1>1, Counted
  <2>3. Taken = SizeBytes + addr /\ Taken' = SizeBytes + addr + BUFSIZE /\ SizeBytes \in Nat /\ BUFSIZE \in Nat
    BY <1>1, <1>4, <1>6, <1>7, Sizes DEF Taken
  <2>4. Left = BUFSIZE + Len(fifo) + Len(line) /\ Left' = 0 + Len(fifo) + Len(line)
    BY <1>2, <1>8 DEF Left
  <2>5. Taken' + Left' = Taken + Left
    BY <1>4, <2>2, <2>3, <2>4
  <2>6. ASSUME ~lost PROVE /\ Part(buf', Message(file), Taken')
                           /\ Part(fifo', Message(file), Taken' + Len(buf'))
                           /\ Part(line', Message(file), Taken' + Len(buf') + Len(fifo'))
                           /\ Kept(mem', 0, file', addr')
    <3>1. Part(buf', Message(file), Taken')
      BY <1>8 DEF Part
    <3>2. Taken' + Len(buf') = Taken + Len(buf) /\ Taken' + Len(buf') + Len(fifo) = Taken + Len(buf) + Len(fifo)
      BY <1>2, <1>4, <1>8, <2>2, <2>3
    <3>3. Kept(mem, 0, file, addr + Len(buf))
      <4>1. addr + Len(buf) <= Len(file)
        BY <1>2, <1>3, <1>4, <1>5, <2>1, <2>2, Sizes
      <4>2. Part(buf, Message(file), SizeBytes + addr)
        BY <2>1, <2>3, <2>6
      <4>3. file \in Files \cup {<<>>}
        BY <1>1 DEF TypeOK
      <4> QED
        BY <1>2, <1>4, <2>1, <2>6, <4>1, <4>2, <4>3, Joined
    <3> QED
      BY <1>2, <1>6, <2>1, <2>6, <3>1, <3>2, <3>3
  <2> QED
    BY <1>7, <2>1, <2>5, <2>6 DEF SingleInv
<1>13. SingleInv'
  BY <1>12 DEF SingleInv
<1> QED
  BY <1>9, <1>10, <1>11, <1>13 DEF SaveInv

\* receive_and_store returns: a piece did not fit, or it was the last one.
LEMMA ReturnStep == ASSUME SaveInv, Return PROVE SaveInv'
<1> USE DEF Return, svars, queue, host, hist
<1>1. TypeOK /\ pc = "store" /\ call = NoCall /\ pc' = "ask" /\ stage # "size" /\ Len(buf) = Want
  BY DEF SaveInv, CallInv
<1>2. \/ result = Written /\ Len(buf) + addr <= EEPROM_SIZE - 1 /\ Kept(mem, addr, buf, Len(buf))
      \/ result = Refused /\ Len(buf) + addr > EEPROM_SIZE - 1
  BY <1>1 DEF SaveInv, CallInv, NoCall
<1>3. \/ filesize' = -1 /\ Len(buf) + addr > EEPROM_SIZE - 1
      \/ /\ filesize' = filesize /\ stage = "rest"
         /\ Len(buf) + addr <= EEPROM_SIZE - 1 /\ Kept(mem, addr, buf, Len(buf))
  BY <1>2 DEF Written, Refused
<1>4. addr < EEPROM_SIZE /\ filesize = addr + remaining /\ stage = StageFor(remaining)
  BY <1>1 DEF SaveInv, SizeInv, Loading
<1>5. addr \in Nat /\ remaining \in Int /\ filesize \in Int /\ buf \in Seq(Byte) /\ Len(buf) \in Nat
  BY <1>1, Counted DEF TypeOK
<1>6. Len(buf) <= remaining /\ (stage = "rest" => Len(buf) = remaining)
  BY <1>1, <1>4, <1>5, Sizes DEF StageFor, Want
<1>7. stage = "rest" => filesize = Len(buf) + addr
  BY <1>4, <1>5, <1>6
<1>8. filesize' \in -1..(EEPROM_SIZE - 1) /\ filesize' \in Int
  BY <1>3, <1>5, <1>7, Sizes
<1>9. filesize' < USize
  <2>1. filesize < USize
    BY DEF SaveInv, SizeInv
  <2> QED
    BY <1>3, <2>1, Powers
<1>10. TypeOK'
  <2>1. filesize' \in -USize..USize
    BY <1>8, <1>9, Powers
  <2> QED
    BY <1>1, <2>1 DEF TypeOK
<1>11. CallInv' /\ SizeInv' /\ QueueInv' /\ SingleInv' /\ BackInv'
  BY <1>1, <1>8, <1>9 DEF SaveInv, CallInv, SizeInv, QueueInv, SingleInv, BackInv, Loading
<1>12. ASSUME single PROVE AskInv'
  <2>1. /\ filesize = Len(file)
        /\ lost => Taken + Left < SizeBytes + Len(file)
        /\ ~lost => /\ Taken + Left = SizeBytes + Len(file)
                    /\ Part(buf, Message(file), Taken)
                    /\ Kept(mem, 0, file, addr)
    BY <1>1, <1>12 DEF SaveInv, SingleInv, Loading
  <2>2. Len(fifo) \in Nat /\ Len(line) \in Nat /\ Len(file) \in Nat /\ (Len(line) = 0 => line = <<>>)
    BY <1>1, Counted
  <2>3. Taken = SizeBytes + addr /\ Left = Len(buf) + Len(fifo) + Len(line) /\ SizeBytes \in Nat
    BY <1>1, Sizes DEF Taken, Left
  <2>4. CASE filesize' = -1 /\ Len(buf) + addr > EEPROM_SIZE - 1
    <3>1. Len(file) >= EEPROM_SIZE
      BY <1>4, <1>5, <1>6, <2>1, <2>2, <2>4, Sizes
    <3> QED
      BY <2>4, <3>1 DEF AskInv
  <2>5. CASE /\ filesize' = filesize /\ stage = "rest"
             /\ Len(buf) + addr <= EEPROM_SIZE - 1 /\ Kept(mem, addr, buf, Len(buf))
    <3>1. Len(file) = Len(buf) + addr /\ Len(file) = addr + Len(buf) /\ Len(file) < EEPROM_SIZE
      BY <1>5, <1>7, <2>1, <2>2, <2>5, Sizes
    <3>2. Taken + Left = SizeBytes + Len(file) + (Len(fifo) + Len(line))
      BY <1>5, <2>2, <2>3, <3>1
    <3>3. ~lost
      <4>1. ~(Taken + Left < SizeBytes + Len(file))
        BY <2>2, <2>3, <3>2
      <4> QED
        BY <2>1, <4>1
    <3>4. line = <<>>
      <4>1. SizeBytes + Len(file) + (Len(fifo) + Len(line)) = SizeBytes + Len(file)
        BY <2>1, <3>2, <3>3
      <4> QED
        BY <2>2, <2>3, <4>1
    <3>5. Kept(mem, 0, file, addr + Len(buf))
      <4>1. addr + Len(buf) <= Len(file)
        BY <2>2, <3>1
      <4>2. Part(buf, Message(file), SizeBytes + addr)
        BY <2>1, <2>3, <3>3
      <4>3. file \in Files \cup {<<>>}
        BY <1>1 DEF TypeOK
      <4> QED
        BY <1>5, <2>1, <2>5, <3>3, <4>1, <4>2, <4>3, Joined
    <3> QED
      BY <2>1, <2>5, <3>1, <3>3, <3>4, <3>5 DEF AskInv
  <2> QED
    BY <1>3, <2>4, <2>5
<1>13. AskInv'
  BY <1>12 DEF AskInv
<1> QED
  BY <1>10, <1>11, <1>13 DEF SaveInv

-----------------------------------------------------------------------------
(* The rest of test_savefile.                                              *)

LEMMA QuitStep == ASSUME SaveInv, Quit PROVE SaveInv'
<1> USE DEF Quit, NoLocals, svars, queue, host, hist
<1>1. TypeOK'
  <2>1. 0 \in -USize..USize /\ 0 \in 0..(U16 - 1)
    BY Powers, Sizes
  <2>2. <<>> \in Seq(Byte)
    OBVIOUS
  <2> QED
    BY <2>1, <2>2 DEF SaveInv, TypeOK, Loading
<1>2. CallInv' /\ QueueInv' /\ SingleInv' /\ AskInv' /\ BackInv'
  BY DEF SaveInv, CallInv, QueueInv, SingleInv, AskInv, BackInv, Loading
<1>3. SizeInv'
  BY Powers DEF SizeInv, Loading
<1> QED
  BY <1>1, <1>2, <1>3 DEF SaveInv

\* The jump of timers_handle_t3: nothing is left but the byte of a read.
LEMMA AbandonStep == ASSUME SaveInv, Abandon PROVE SaveInv'
<1> USE DEF Abandon, NoLocals, SReturn, queue, host
<1>1. TypeOK'
  <2>1. 0 \in -USize..USize /\ 0 \in 0..(U16 - 1)
    BY Powers, Sizes
  <2>2. <<>> \in Seq(Byte)
    OBVIOUS
  <2>3. kept' \in Byte \cup {NoByte}
    <3> DEFINE c == BackRead
    <3>1. CASE pc = "back" /\ ~OutOfRange(c)
      <4>1. c.addr = addr /\ c.len = BackSize /\ Size(c) = BackSize
        BY DEF BackRead, Size
      <4>2. BackSize \in Nat /\ addr \in Nat
        BY <3>1, Counted, Sizes, Powers DEF SaveInv, BackInv, BackSize
      <4>3. addr + BackSize <= EEPROM_SIZE - 1
        BY <3>1, <4>1, <4>2, Sizes DEF OutOfRange
      <4>4. \A x \in addr..(addr + BackSize - 1) : mem[x] \in Byte
        BY <4>2, <4>3, Sizes DEF SaveInv, TypeOK
      <4>5. LeftBy(c) \subseteq Byte \cup {NoByte}
        BY <4>1, <4>4 DEF LeftBy
      <4> QED
        BY <3>1, <4>5 DEF SaveInv, TypeOK
    <3>2. CASE ~(pc = "back" /\ ~OutOfRange(c))
      BY <3>2 DEF SaveInv, TypeOK, LeftBy
    <3> QED
      BY <3>1, <3>2
  <2> QED
    BY <2>1, <2>2, <2>3 DEF SaveInv, TypeOK, Loading
<1>2. CallInv' /\ QueueInv' /\ SingleInv' /\ AskInv' /\ BackInv'
  BY DEF SaveInv, CallInv, QueueInv, SingleInv, AskInv, BackInv, Loading
<1>3. SizeInv'
  BY Powers DEF SizeInv, Loading
<1> QED
  BY <1>1, <1>2, <1>3 DEF SaveInv

LEMMA ReadBackStep == ASSUME SaveInv, ReadBack PROVE SaveInv'
<1> USE DEF ReadBack, svars, queue, host, hist
<1>1. filesize \in -1..(EEPROM_SIZE - 1) /\ filesize < USize /\ USize \in Nat \ {0}
  BY Powers DEF SaveInv, SizeInv
<1>2. remaining' \in 0..USize /\ (filesize >= 0 => remaining' = filesize)
  <2>1. \A x \in Int, u \in Nat \ {0} : x % u \in 0..u /\ (x >= 0 /\ x < u => x % u = x)
    OBVIOUS
  <2>2. filesize \in Int
    BY <1>1, Sizes
  <2> QED
    BY <1>1, <2>1, <2>2
<1>3. TypeOK'
  <2>1. remaining' \in -USize..USize /\ addr' \in 0..(U16 - 1)
    BY <1>1, <1>2, Sizes
  <2>2. buf' \in Seq(Byte) /\ back' \in Seq(Byte)
    OBVIOUS
  <2> QED
    BY <2>1, <2>2 DEF SaveInv, TypeOK, Loading
<1>4. BackInv'
  <2>1. filesize >= 0 => Len(back') = addr' /\ filesize = addr' + remaining' /\ Kept(mem', 0, back', addr')
    BY <1>1, <1>2, Sizes DEF Kept
  <2> QED
    BY <1>1, <1>2, <2>1 DEF BackInv
<1>5. CallInv' /\ SizeInv' /\ QueueInv' /\ SingleInv' /\ AskInv'
  BY DEF SaveInv, CallInv, SizeInv, QueueInv, SingleInv, AskInv, Loading
<1> QED
  BY <1>3, <1>4, <1>5 DEF SaveInv

\* One piece more is sent back; the last one completes the file.
LEMMA BackStep ==
    ASSUME SaveInv, BackChunk
    PROVE  /\ SaveInv'
           /\ pc' = "menu" /\ filesize >= 0 /\ clean => Len(back') = filesize /\ Kept(mem, 0, back', filesize)
<1> USE DEF svars, queue, host, hist
<1> DEFINE n == BackSize
           c == BackRead
<1>1. /\ pc = "back" /\ buf' = (IF OutOfRange(c) THEN buf ELSE ReadAfter(kept, mem, addr, n))
      /\ kept' \in {kept, NoByte}
      /\ back' = back \o SubSeq(buf', 1, n)
      /\ remaining' = remaining - n
      /\ addr' = (addr + n) % U16
      /\ pc' = (IF remaining > ReadBuf THEN "back" ELSE "menu")
      /\ UNCHANGED <<mem, call, stored, result, stage, filesize, queue, host, hist>>
  BY DEF BackChunk, ReadPiece
<1>2. OutOfRange(c) <=> n + addr > EEPROM_SIZE - 1
  BY DEF OutOfRange, Size, BackRead
<1> HIDE DEF c
<1>3. TypeOK /\ BackInv
  BY DEF SaveInv
<1>4. /\ remaining \in 0..USize
      /\ \/ addr = 0 /\ back = <<>> /\ buf = <<>>
         \/ Len(buf) = ReadBuf
      /\ filesize \in -1..(EEPROM_SIZE - 1)
      /\ filesize >= 0 => Len(back) = addr /\ filesize = addr + remaining
      /\ filesize >= 0 /\ clean => kept = NoByte /\ Kept(mem, 0, back, addr)
  BY <1>1, <1>3 DEF BackInv
<1>5. /\ addr \in Nat /\ remaining \in Nat /\ buf \in Seq(Byte) /\ back \in Seq(Byte)
      /\ Len(back) \in Nat /\ filesize \in Int /\ mem \in [0..(EEPROM_SIZE - 1) -> Byte]
  BY <1>3, <1>4, Counted, Powers DEF TypeOK
<1>6. n \in Nat /\ n <= ReadBuf /\ n <= remaining /\ (remaining > ReadBuf => n = ReadBuf) /\ ReadBuf \in Nat
      /\ (~(remaining > ReadBuf) => n = remaining)
  BY <1>5, Sizes DEF BackSize
<1> HIDE DEF n
<1>7. ASSUME ~OutOfRange(c)
      PROVE  /\ addr + n <= EEPROM_SIZE - 1 /\ buf' \in Seq(Byte) /\ Len(buf') = n
             /\ kept = NoByte => \A k \in 1..n : buf'[k] = mem[addr + k - 1]
  <2>1. addr + n <= EEPROM_SIZE - 1
    BY <1>2, <1>5, <1>6, <1>7, Sizes
  <2>2. buf' = ReadAfter(kept, mem, addr, n)
    BY <1>1, <1>7
  <2>3. kept \in Byte \cup {NoByte} /\ addr + n <= EEPROM_SIZE - 1
    BY <1>3, <2>1 DEF TypeOK
  <2> QED
    <3>1. /\ ReadAfter(kept, mem, addr, n) \in Seq(Byte) /\ Len(ReadAfter(kept, mem, addr, n)) = n
          /\ kept = NoByte => \A k \in 1..n : ReadAfter(kept, mem, addr, n)[k] = mem[addr + k - 1]
      BY <1>5, <1>6, <2>1, <2>3, ReadAfterOn
    <3> QED
      BY <2>1, <2>2, <3>1, Zenon
<1>8. ASSUME OutOfRange(c)
      PROVE  buf' = buf /\ Len(buf) = ReadBuf /\ n + addr > EEPROM_SIZE - 1
  <2>1. addr # 0
    BY <1>2, <1>6, <1>8, Sizes
  <2> QED
    BY <1>1, <1>2, <1>4, <1>8, <2>1
<1>9. buf' \in Seq(Byte) /\ n <= Len(buf')
  BY <1>5, <1>6, <1>7, <1>8
<1> DEFINE p == SubSeq(buf', 1, n)
<1>10. p \in Seq(Byte) /\ Len(p) = n /\ \A k \in 1..n : p[k] = buf'[k]
  <2>1. Len(buf') \in Nat
    BY <1>9, LenProperties
  <2>2. \A i \in 1..n : i \in 1..Len(buf')
    BY <1>6, <1>9, <2>1
  <2>3. /\ p \in Seq(Byte)
        /\ Len(p) = IF 1 <= n THEN n - 1 + 1 ELSE 0
        /\ \A i \in 1..n : p[i] = buf'[i]
    BY <1>6, <1>9, <2>1, <2>2, SubSeqProperties
  <2>4. Len(p) = n
    <3> HIDE DEF p
    <3> QED
      BY <1>6, <2>3
  <2> QED
    BY <2>3, <2>4
<1> HIDE DEF p
<1>11. /\ back' \in Seq(Byte) /\ Len(back') = Len(back) + n
       /\ \A k \in 1..(Len(back) + n) : back'[k] = IF k <= Len(back) THEN back[k] ELSE p[k - Len(back)]
  <2>1. back' = back \o p
    BY <1>1 DEF p
  <2>2. /\ back \o p \in Seq(Byte) /\ Len(back \o p) = Len(back) + Len(p)
        /\ \A k \in 1..(Len(back) + Len(p)) : (back \o p)[k] = IF k <= Len(back) THEN back[k] ELSE p[k - Len(back)]
    BY <1>5, <1>10, ConcatProperties
  <2> QED
    BY <1>10, <2>1, <2>2, Zenon
<1>12. ASSUME filesize >= 0
       PROVE  /\ addr' = addr + n /\ Len(back') = addr' /\ filesize = addr' + remaining'
              /\ clean => kept' = NoByte /\ Kept(mem, 0, back', addr')
  <2>1. Len(back) = addr /\ filesize = addr + remaining /\ (clean => kept = NoByte /\ Kept(mem, 0, back, addr))
    BY <1>4, <1>12
  <2>2. addr + n <= EEPROM_SIZE - 1 /\ ~OutOfRange(c)
    BY <1>2, <1>4, <1>5, <1>6, <2>1, Sizes
  <2>3. addr' = addr + n
    <3>1. \A x, u \in Nat : x < u => x % u = x
      OBVIOUS
    <3>2. addr + n \in Nat /\ addr + n < U16
      BY <1>5, <1>6, <2>2, Sizes
    <3> QED
      BY <1>1, <3>1, <3>2, Sizes
  <2>4. filesize = addr' + remaining'
    BY <1>1, <1>5, <1>6, <2>1, <2>3
  <2>5. ASSUME clean, NEW k \in 1..(addr + n) PROVE mem[0 + k - 1] = back'[k]
    <3>1. CASE k <= addr
      <4>1. k \in 1..addr /\ back'[k] = back[k]
        BY <1>5, <1>11, <2>1, <3>1
      <4> QED
        BY <2>1, <2>5, <4>1 DEF Kept
    <3>2. CASE ~(k <= addr)
      <4>1. k - addr \in 1..n /\ addr + (k - addr) - 1 = 0 + k - 1
        BY <1>5, <1>6, <3>2
      <4>2. back'[k] = p[k - addr]
        BY <1>11, <2>1, <3>2
      <4>3. p[k - addr] = mem[addr + (k - addr) - 1]
        BY <1>7, <1>10, <2>1, <2>2, <2>5, <4>1
      <4> QED
        BY <4>1, <4>2, <4>3
    <3> QED
      BY <3>1, <3>2
  <2> QED
    BY <1>1, <1>11, <2>1, <2>3, <2>4, <2>5 DEF Kept
<1>13. remaining' \in 0..USize /\ remaining' \in -USize..USize
  BY <1>1, <1>4, <1>5, <1>6, Powers
<1>14. TypeOK'
  <2>1. addr' \in 0..(U16 - 1)
    <3>1. \A x, u \in Nat : u # 0 => x % u \in 0..(u - 1)
      OBVIOUS
    <3>2. addr + n \in Nat /\ U16 \in Nat /\ U16 # 0
      BY <1>5, <1>6, Sizes
    <3> QED
      BY <1>1, <3>1, <3>2
  <2>2. pc' \in {"menu", "back"}
    BY <1>1
  <2> QED
    BY <1>1, <1>3, <1>9, <1>11, <1>13, <2>1, <2>2 DEF TypeOK, Loading
<1>15. BackInv'
  <2>1. pc' = "back" => Len(buf') = ReadBuf
    BY <1>1, <1>6, <1>7, <1>8
  <2> QED
    BY <1>1, <1>4, <1>12, <1>13, <2>1 DEF BackInv
<1>16. CallInv' /\ SizeInv' /\ QueueInv' /\ SingleInv' /\ AskInv'
  BY <1>1 DEF SaveInv, CallInv, SizeInv, QueueInv, SingleInv, AskInv, Loading
<1>17. ASSUME pc' = "menu", filesize >= 0, clean PROVE Len(back') = filesize /\ Kept(mem, 0, back', filesize)
  <2>1. remaining' = 0
    BY <1>1, <1>5, <1>6, <1>17
  <2>2. addr' = filesize
    BY <1>5, <1>6, <1>12, <1>17, <2>1
  <2> QED
    BY <1>12, <1>17, <2>2
<1> QED
  BY <1>14, <1>15, <1>16, <1>17 DEF SaveInv

\* The reset button.
LEMMA ResetStep == ASSUME SaveInv, Reset PROVE SaveInv'
<1> USE DEF Reset, NoLocals, SReset, SReturn, host
<1>1. TypeOK'
  <2>1. 0 \in -USize..USize /\ 0 \in 0..(U16 - 1)
    BY Powers, Sizes
  <2>2. <<>> \in Seq(Byte) /\ Len(<<>>) = 0 /\ 0 <= FifoSize
    BY Sizes
  <2> QED
    BY <2>1, <2>2 DEF SaveInv, TypeOK
<1>2. CallInv' /\ QueueInv' /\ SingleInv' /\ AskInv' /\ BackInv'
  BY DEF CallInv, QueueInv, SingleInv, AskInv, BackInv, Loading
<1>3. SizeInv'
  BY Powers DEF SizeInv, Loading
<1> QED
  BY <1>1, <1>2, <1>3 DEF SaveInv

LEMMA SaveStutter == ASSUME SaveInv, UNCHANGED vars PROVE SaveInv'
<1> USE DEF vars, svars, board, queue, host, hist
<1>1. TypeOK'
  BY DEF SaveInv, TypeOK
<1>2. CallInv'
  BY DEF SaveInv, CallInv, Want
<1>3. SizeInv' /\ QueueInv'
  BY DEF SaveInv, SizeInv, QueueInv
<1>4. SingleInv' /\ AskInv' /\ BackInv'
  BY DEF SaveInv, SingleInv, AskInv, BackInv, Taken, Left
<1> QED
  BY <1>1, <1>2, <1>3, <1>4 DEF SaveInv

-----------------------------------------------------------------------------

LEMMA SaveSteps == ASSUME SaveInv, [Next]_vars PROVE SaveInv'
<1>1. CASE Board
  BY <1>1, CheckStep, PollStep, SizeStep, NegativeStep, ChunkStep, WriteStep, StoredStep,
     ReturnStep, BackStep DEF Board
<1>2. CASE ByteArrives
  BY <1>2, ByteStep
<1>3. CASE \E f \in Files : Send(f)
  BY <1>3, SendStep
<1>4. CASE Load \/ Quit \/ ReadBack \/ Abandon \/ Reset
  BY <1>4, LoadStep, QuitStep, ReadBackStep, AbandonStep, ResetStep
<1>5. CASE UNCHANGED vars
  BY <1>5, SaveStutter
<1> QED
  BY <1>1, <1>2, <1>3, <1>4, <1>5 DEF Next

LEMMA SaveSafe == Spec => []SaveInv
<1>1. Init => SaveInv
  BY SaveInit
<1>2. SaveInv /\ [Next]_vars => SaveInv'
  BY SaveSteps
<1> QED
  BY <1>1, <1>2, PTL DEF Spec

\* Every reachable state of a load and a read-back is well formed: in
\* particular addr, filesize and what remains never leave their types, and the
\* queue never holds more than its size (savefile.c:9-25, tests.c:364-387).
THEOREM SaveTypes == Spec => []TypeOK
<1>1. SaveInv => TypeOK
  BY DEF SaveInv
<1> QED
  BY <1>1, SaveSafe, PTL

\* A load for which one file was sent and no byte lost reports that file, and
\* the EEPROM holds it; it reports -1 exactly if the file does not fit
\* (savefile.c:9-25, uart.c:109-118).
THEOREM LoadsFile == Spec => []LoadedFile
<1>1. SaveInv => LoadedFile
  <2> SUFFICES ASSUME SaveInv, pc = "ask", single, ~lost
               PROVE  IF Len(file) < EEPROM_SIZE
                      THEN filesize = Len(file) /\ Read(mem, 0, Len(file)) = file
                      ELSE filesize = -1
    BY DEF LoadedFile
  <2>1. \/ filesize = -1 /\ Len(file) >= EEPROM_SIZE
        \/ filesize = Len(file) /\ filesize < EEPROM_SIZE /\ Kept(mem, 0, file, Len(file))
    BY DEF SaveInv, AskInv
  <2>2. Len(file) \in Nat /\ file \in Seq(Byte) /\ mem \in [0..(EEPROM_SIZE - 1) -> Byte]
    BY Messages DEF SaveInv, TypeOK
  <2>3. CASE Len(file) >= EEPROM_SIZE
    BY <2>1, <2>2, <2>3, Sizes
  <2>4. CASE filesize = Len(file) /\ filesize < EEPROM_SIZE /\ Kept(mem, 0, file, Len(file))
    <3> DEFINE r == Read(mem, 0, Len(file))
    <3>1. 0 + Len(file) <= EEPROM_SIZE - 1
      BY <2>2, <2>4, Sizes
    <3>2. r \in Seq(Byte) /\ Len(r) = Len(file) /\ \A k \in 1..Len(file) : r[k] = mem[0 + k - 1]
      BY <2>2, <3>1, ReadOn
    <3> HIDE DEF r
    <3>3. \A k \in 1..Len(r) : r[k] = file[k]
      BY <2>4, <3>2 DEF Kept
    <3>4. r = file
      BY <2>2, <3>2, <3>3, SeqEqual
    <3> QED
      BY <2>4, <3>4 DEF r
  <2> QED
    BY <2>1, <2>3, <2>4
<1> QED
  BY <1>1, SaveSafe, PTL

\* A load that lost a byte of the file it was sent waits for more, and does not
\* report a file made of the bytes that came (uart.c:109-118).
THEOREM LossIsNotReported == Spec => []LossNotReported
<1>1. SaveInv => LossNotReported
  BY DEF SaveInv, AskInv, LossNotReported
<1> QED
  BY <1>1, SaveSafe, PTL

\* The read-back sends what the EEPROM holds of the file, whatever the file's
\* size, though addr is a u16 and the last read is shorter (tests.c:378-387), unless
\* a read before it was abandoned.
THEOREM ReadsBackFaithfully == Spec => ReadBackFaithful
<1> DEFINE Sent == (pc = "back" /\ pc' = "menu" /\ clean' /\ filesize >= 0)
                       => back' = Read(mem, 0, filesize)
<1>1. SaveInv /\ SaveInv' /\ [Next]_vars => [Sent]_vars
  <2> SUFFICES ASSUME SaveInv, SaveInv', [Next]_vars, pc = "back", pc' = "menu",
                      clean', filesize >= 0
               PROVE  back' = Read(mem, 0, filesize)
    OBVIOUS
  <2>1. /\ filesize \in -1..(EEPROM_SIZE - 1) /\ mem \in [0..(EEPROM_SIZE - 1) -> Byte]
        /\ back' \in Seq(Byte)
    BY DEF SaveInv, TypeOK, BackInv
  <2>2. BackChunk /\ clean
    BY DEF Next, Board, BackChunk, Check, Poll, SizeRead, NegativeSize, StoreChunk, EepromWrites,
           Stored, Return, ByteArrives, Send, Load, Quit, ReadBack,
           Abandon, Reset, hist, board, vars
  <2>3. Len(back') = filesize /\ Kept(mem, 0, back', filesize)
    BY <2>2, BackStep
  <2> DEFINE r == Read(mem, 0, filesize)
  <2>4. filesize \in Nat /\ 0 + filesize <= EEPROM_SIZE - 1
    BY <2>1, Sizes
  <2>5. r \in Seq(Byte) /\ Len(r) = filesize /\ \A k \in 1..filesize : r[k] = mem[0 + k - 1]
    BY <2>1, <2>4, ReadOn
  <2> HIDE DEF r
  <2>6. \A k \in 1..Len(back') : back'[k] = r[k]
    BY <2>3, <2>5 DEF Kept
  <2>7. back' = r
    BY <2>1, <2>3, <2>5, <2>6, SeqEqual
  <2> QED
    BY <2>7 DEF r
<1> QED
  BY <1>1, SaveSafe, PTL DEF Spec, ReadBackFaithful

=============================================================================
