-------------------------- MODULE NovaParcelProofs --------------------------
(***************************************************************************)
(* Proofs about NovaParcel, a part of NovaNatives, for bytes and words of any *)
(* size, any numbers and contents, and any number of writes: what is written   *)
(* is read back, and parcel_grow ends.                                      *)
(***************************************************************************)
EXTENDS NovaNatives, SequenceTheorems, WellFoundedInduction, TLAPS

-----------------------------------------------------------------------------
(* Induction over numbers, and functions defined by recursion.  A set takes  *)
(* the place of the predicate, a function that of the step.                  *)

\* What holds of 0, and of n + 1 if of n, holds of every number.
LEMMA Induction ==
  ASSUME NEW S, 0 \in S, \A n \in Nat : n \in S => n + 1 \in S
  PROVE  Nat \subseteq S
<1> SUFFICES ASSUME ~(Nat \subseteq S) PROVE FALSE  OBVIOUS
<1> DEFINE R == OpToRel(<, Nat)
           T == {n \in Nat : n \notin S}
<1>1. PICK x \in T : \A y \in T : <<y, x>> \notin R
  <2>1. T # {} /\ T \subseteq Nat  OBVIOUS
  <2> QED  BY <2>1, NatLessThanWellFounded, WFMin
<1>2. x \in Nat /\ x # 0 /\ x - 1 \in Nat /\ x - 1 < x  OBVIOUS
<1>3. x - 1 \notin T  BY <1>1, <1>2 DEF OpToRel
<1>4. x - 1 \in S  BY <1>2, <1>3
<1>5. (x - 1) + 1 \in S  BY <1>2, <1>4
<1>6. (x - 1) + 1 = x  BY <1>2
<1> QED  BY <1>1, <1>5, <1>6

\* A set of numbers that has a member has a least one.
LEMMA Least ==
  ASSUME NEW S \in SUBSET Nat, S # {}
  PROVE  \E x \in S : \A y \in S : x <= y
<1> DEFINE R == OpToRel(<, Nat)
<1>1. PICK x \in S : \A y \in S : <<y, x>> \notin R
  BY NatLessThanWellFounded, WFMin
<1>2. ASSUME NEW y \in S PROVE x <= y
  <2>1. <<y, x>> \notin R  BY <1>1
  <2>2. ~(y < x)  BY <2>1 DEF OpToRel
  <2> QED  BY <2>2
<1> QED  BY <1>2

\* From a on, each value a step h from the one before it.
Iterations(S, a, h) ==
  {f \in [Nat -> S] : f[0] = a /\ \A n \in Nat : f[n + 1] = h[<<n, f[n]>>]}

LEMMA Recursion ==
  ASSUME NEW S, NEW a \in S, NEW h \in [Nat \X S -> S]
  PROVE  Iterations(S, a, h) # {}
<1> DEFINE Ok(n, g) == g[0] = a /\ \A k \in 0..(n - 1) : g[k + 1] = h[<<k, g[k]>>]
           Some == {n \in Nat : \E g \in [0..n -> S] : Ok(n, g)}
<1>1. 0 \in Some
  <2> DEFINE g == [k \in 0..0 |-> a]
  <2>1. g \in [0..0 -> S] /\ Ok(0, g)  OBVIOUS
  <2> QED  BY <2>1
<1>2. ASSUME NEW n \in Nat, n \in Some PROVE n + 1 \in Some
  <2>1. PICK g \in [0..n -> S] : Ok(n, g)  BY <1>2
  <2> DEFINE f == [k \in 0..(n + 1) |-> IF k = n + 1 THEN h[<<n, g[n]>>] ELSE g[k]]
  <2>2. g[n] \in S /\ h[<<n, g[n]>>] \in S  BY <2>1
  <2>3. f \in [0..(n + 1) -> S]  BY <2>1, <2>2
  <2>4. f[0] = a  BY <2>1
  <2>5. ASSUME NEW k \in 0..n PROVE f[k + 1] = h[<<k, f[k]>>]
    <3>1. f[k] = g[k]  OBVIOUS
    <3>2. CASE k = n
      <4>1. f[n + 1] = h[<<n, g[n]>>]  OBVIOUS
      <4> QED  BY <3>1, <3>2, <4>1
    <3>3. CASE k # n
      <4>1. k \in 0..(n - 1) /\ k + 1 \in 0..(n + 1) /\ k + 1 # n + 1  BY <3>3
      <4>2. f[k + 1] = g[k + 1]  BY <4>1
      <4> QED  BY <2>1, <3>1, <4>1, <4>2
    <3> QED  BY <3>2, <3>3
  <2> HIDE DEF f
  <2>6. Ok(n + 1, f)  BY <2>4, <2>5
  <2> QED  BY <2>3, <2>6
<1> DEFINE g == [n \in Nat |-> CHOOSE g \in [0..n -> S] : Ok(n, g)]
<1>3. \A n \in Nat : g[n] \in [0..n -> S] /\ Ok(n, g[n])
  <2>1. Nat \subseteq Some
    <3> HIDE DEF Some
    <3> QED  BY <1>1, <1>2, Induction
  <2> QED  BY <2>1
<1> HIDE DEF g
<1>4. ASSUME NEW n \in Nat PROVE \A k \in 0..n : g[n + 1][k] = g[n][k]
  <2> DEFINE T == {k \in Nat : k <= n => g[n + 1][k] = g[n][k]}
  <2>1. 0 \in T  BY <1>3
  <2>2. ASSUME NEW k \in Nat, k \in T PROVE k + 1 \in T
    <3> SUFFICES ASSUME k + 1 <= n PROVE g[n + 1][k + 1] = g[n][k + 1]  OBVIOUS
    <3>1. k \in 0..(n - 1) /\ k \in 0..((n + 1) - 1)  OBVIOUS
    <3>2. g[n + 1][k] = g[n][k]  BY <2>2, <3>1
    <3>3. g[n][k + 1] = h[<<k, g[n][k]>>] /\ g[n + 1][k + 1] = h[<<k, g[n + 1][k]>>]  BY <1>3, <3>1
    <3> QED  BY <3>2, <3>3
  <2>3. Nat \subseteq T
    <3> HIDE DEF T
    <3> QED  BY <2>1, <2>2, Induction
  <2> QED  BY <2>3
<1> DEFINE f == [n \in Nat |-> g[n][n]]
<1>5. f \in [Nat -> S]  BY <1>3
<1>6. f[0] = a  BY <1>3
<1>7. ASSUME NEW n \in Nat PROVE f[n + 1] = h[<<n, f[n]>>]
  <2>1. g[n + 1][n + 1] = h[<<n, g[n + 1][n]>>]
    <3>1. n \in 0..((n + 1) - 1) /\ n + 1 \in Nat  OBVIOUS
    <3> QED  BY <1>3, <3>1
  <2>2. g[n + 1][n] = g[n][n]  BY <1>4
  <2>3. f[n + 1] = g[n + 1][n + 1] /\ f[n] = g[n][n]  OBVIOUS
  <2> HIDE DEF f
  <2> QED  BY <2>1, <2>2, <2>3
<1> HIDE DEF f
<1> QED  BY <1>5, <1>6, <1>7 DEF Iterations

\* The powers of b and the capacities of the loop in parcel_grow are what their
\* definitions say.
LEMMA PowerIs ==
  ASSUME NEW b \in Nat \ {0}
  PROVE  /\ Parcel!Power(b) \in [Nat -> Nat \ {0}] /\ Parcel!Power(b)[0] = 1
         /\ \A k \in Nat : Parcel!Power(b)[k + 1] = b * Parcel!Power(b)[k]
<1> DEFINE h == [x \in Nat \X (Nat \ {0}) |-> b * x[2]]
           P == Parcel!Power(b)
<1>1. h \in [Nat \X (Nat \ {0}) -> Nat \ {0}]
  <2>1. ASSUME NEW x \in Nat \X (Nat \ {0}) PROVE b * x[2] \in Nat \ {0}
    <3>1. x[2] \in Nat \ {0}  OBVIOUS
    <3> QED  BY <3>1
  <2> QED  BY <2>1
<1>2. PICK f \in Iterations(Nat \ {0}, 1, h) : TRUE
  <2> DEFINE S == Nat \ {0}
  <2>1. 1 \in S /\ h \in [Nat \X S -> S]  BY <1>1
  <2> HIDE DEF h, S
  <2>2. Iterations(S, 1, h) # {}  BY <2>1, Recursion
  <2> QED  BY <2>2 DEF S
<1>3. f \in [Nat -> Nat \ {0}] /\ f[0] = 1 /\ \A n \in Nat : f[n + 1] = b * f[n]
  <2>1. f \in [Nat -> Nat \ {0}] /\ f[0] = 1 /\ \A n \in Nat : f[n + 1] = h[<<n, f[n]>>]  BY DEF Iterations
  <2>2. \A n \in Nat : h[<<n, f[n]>>] = b * f[n]  BY <2>1
  <2> QED  BY <2>1, <2>2
<1>4. ASSUME NEW k \in Nat PROVE f[k] = IF k = 0 THEN 1 ELSE b * f[k - 1]
  <2>1. CASE k = 0  BY <1>3, <2>1
  <2>2. CASE k # 0
    <3>1. k - 1 \in Nat /\ (k - 1) + 1 = k  BY <2>2
    <3>2. f[(k - 1) + 1] = b * f[k - 1]  BY <1>3, <3>1
    <3> QED  BY <2>2, <3>1, <3>2
  <2> QED  BY <2>1, <2>2
<1>5. f = [k \in Nat |-> IF k = 0 THEN 1 ELSE b * f[k - 1]]  BY <1>3, <1>4
<1>6. P = [k \in Nat |-> IF k = 0 THEN 1 ELSE b * P[k - 1]]  BY <1>5 DEF Parcel!Power
<1> HIDE DEF P
<1>7. P[0] = 1  BY <1>6
<1>8. \A k \in Nat : P[k + 1] = b * P[k]  
  <2> TAKE k \in Nat
  <2>1. k + 1 \in Nat /\ k + 1 # 0 /\ (k + 1) - 1 = k  OBVIOUS
  <2> QED  BY <1>6, <2>1
<1>9. P \in [Nat -> Nat \ {0}]
  <2> DEFINE T == {k \in Nat : P[k] \in Nat \ {0}}
  <2>1. 0 \in T  BY <1>7
  <2>2. \A k \in Nat : k \in T => k + 1 \in T  BY <1>8
  <2>3. Nat \subseteq T
    <3> HIDE DEF T
    <3> QED  BY <2>1, <2>2, Induction
  <2> QED  BY <1>6, <2>3
<1> QED  BY <1>7, <1>8, <1>9 DEF P

\* The types of the constants, and of what is computed from them.
LEMMA Constants ==
  /\ Base \in Nat /\ Base > 1 /\ WordBytes \in Nat \ {0} /\ MinCap \in Nat \ {0}
  /\ Parcel!Word \in Nat \ {0} /\ Parcel!Word = Parcel!Power(Base)[WordBytes]
<1>1. Base \in Nat \ {0, 1} /\ {WordBytes, MinCap, MaxItems} \subseteq Nat \ {0}  BY NativesAssumption
<1>2. Base \in Nat \ {0} /\ Base > 1 /\ WordBytes \in Nat \ {0} /\ MinCap \in Nat \ {0}  BY <1>1
<1>3. Parcel!Power(Base)[WordBytes] \in Nat \ {0}  BY <1>2, PowerIs
<1> QED  BY <1>2, <1>3 DEF Parcel!Word

LEMMA DoubledIs ==
  ASSUME NEW c \in Nat
  PROVE  /\ Parcel!Doubled(c) \in [Nat -> Nat] /\ Parcel!Doubled(c)[0] = c
         /\ \A k \in Nat : Parcel!Doubled(c)[k + 1] = Parcel!U(2 * Parcel!Doubled(c)[k])
<1> DEFINE h == [x \in Nat \X Nat |-> Parcel!U(2 * x[2])]
           D == Parcel!Doubled(c)
<1>0. \A n \in Nat : Parcel!U(n) \in Nat  BY Constants DEF Parcel!U
<1>1. h \in [Nat \X Nat -> Nat]  
  <2>1. ASSUME NEW x \in Nat \X Nat PROVE Parcel!U(2 * x[2]) \in Nat
    <3>1. x[2] \in Nat /\ 2 * x[2] \in Nat  OBVIOUS
    <3> QED  BY <1>0, <3>1
  <2> QED  BY <2>1
<1>2. PICK f \in Iterations(Nat, c, h) : TRUE
  <2> HIDE DEF h
  <2>1. Iterations(Nat, c, h) # {}  BY <1>1, Recursion
  <2> QED  BY <2>1
<1>3. f \in [Nat -> Nat] /\ f[0] = c /\ \A n \in Nat : f[n + 1] = Parcel!U(2 * f[n])
  <2>1. f \in [Nat -> Nat] /\ f[0] = c /\ \A n \in Nat : f[n + 1] = h[<<n, f[n]>>]  BY DEF Iterations
  <2>2. \A n \in Nat : h[<<n, f[n]>>] = Parcel!U(2 * f[n])  BY <2>1
  <2> QED  BY <2>1, <2>2
<1>4. ASSUME NEW k \in Nat PROVE f[k] = IF k = 0 THEN c ELSE Parcel!U(2 * f[k - 1])
  <2>1. CASE k = 0  BY <1>3, <2>1
  <2>2. CASE k # 0
    <3>1. k - 1 \in Nat /\ (k - 1) + 1 = k  BY <2>2
    <3>2. f[(k - 1) + 1] = Parcel!U(2 * f[k - 1])  BY <1>3, <3>1
    <3> QED  BY <2>2, <3>1, <3>2
  <2> QED  BY <2>1, <2>2
<1>5. f = [k \in Nat |-> IF k = 0 THEN c ELSE Parcel!U(2 * f[k - 1])]  BY <1>3, <1>4
<1>6. D = [k \in Nat |-> IF k = 0 THEN c ELSE Parcel!U(2 * D[k - 1])]  BY <1>5 DEF Parcel!Doubled
<1> HIDE DEF D
<1>7. D[0] = c  BY <1>6
<1>8. \A k \in Nat : D[k + 1] = Parcel!U(2 * D[k])
  <2> TAKE k \in Nat
  <2>1. k + 1 \in Nat /\ k + 1 # 0 /\ (k + 1) - 1 = k  OBVIOUS
  <2> QED  BY <1>6, <2>1
<1>9. D \in [Nat -> Nat]
  <2> DEFINE T == {k \in Nat : D[k] \in Nat}
  <2>1. 0 \in T  BY <1>7
  <2>2. \A k \in Nat : k \in T => k + 1 \in T  BY <1>0, <1>8
  <2>3. Nat \subseteq T
    <3> HIDE DEF T
    <3> QED  BY <2>1, <2>2, Induction
  <2> QED  BY <1>6, <2>3
<1> QED  BY <1>7, <1>8, <1>9 DEF D

\* Value sums up the bytes from the highest down.
LEMMA ValueIs ==
  ASSUME NEW s \in [1..WordBytes -> Nat]
  PROVE  \E v : /\ v[0] = 0 /\ Parcel!Value(s) = v[WordBytes]
                /\ \A i \in 0..(WordBytes - 1) : v[i + 1] = s[WordBytes - i] + Base * v[i]
<1> DEFINE h == [x \in Nat \X Nat |-> IF x[1] < WordBytes THEN s[WordBytes - x[1]] + Base * x[2] ELSE 0]
<1>1. h \in [Nat \X Nat -> Nat]
  <2>1. ASSUME NEW x \in Nat \X Nat PROVE h[x] \in Nat
    <3>1. x[1] \in Nat /\ x[2] \in Nat  OBVIOUS
    <3>2. CASE x[1] < WordBytes
      <4>1. WordBytes - x[1] \in 1..WordBytes  BY <3>1, <3>2, Constants
      <4>2. s[WordBytes - x[1]] \in Nat /\ Base * x[2] \in Nat  BY <3>1, <4>1, Constants
      <4> QED  BY <3>2, <4>2
    <3>3. CASE ~(x[1] < WordBytes)  BY <3>3
    <3> QED  BY <3>2, <3>3
  <2> QED  BY <2>1
<1>2. PICK f \in Iterations(Nat, 0, h) : TRUE
  <2> HIDE DEF h
  <2>1. Iterations(Nat, 0, h) # {}  BY <1>1, Recursion
  <2> QED  BY <2>1
<1>3. f \in [Nat -> Nat] /\ f[0] = 0 /\ \A n \in 0..(WordBytes - 1) : f[n + 1] = s[WordBytes - n] + Base * f[n]
  <2>1. f \in [Nat -> Nat] /\ f[0] = 0 /\ \A n \in Nat : f[n + 1] = h[<<n, f[n]>>]  BY DEF Iterations
  <2>2. ASSUME NEW n \in 0..(WordBytes - 1) PROVE n \in Nat /\ h[<<n, f[n]>>] = s[WordBytes - n] + Base * f[n]
    <3>1. n \in Nat /\ n < WordBytes  BY Constants
    <3>2. <<n, f[n]>> \in Nat \X Nat  BY <2>1, <3>1
    <3> QED  BY <3>1, <3>2
  <2> QED  BY <2>1, <2>2
<1> DEFINE g == [i \in 0..WordBytes |-> f[i]]
<1>4. ASSUME NEW i \in 0..WordBytes PROVE g[i] = IF i = 0 THEN 0 ELSE s[WordBytes + 1 - i] + Base * g[i - 1]
  <2>1. CASE i = 0  BY <1>3, <2>1
  <2>2. CASE i # 0
    <3>1. i - 1 \in 0..(WordBytes - 1) /\ (i - 1) + 1 = i /\ WordBytes - (i - 1) = WordBytes + 1 - i  BY <2>2, Constants
    <3> DEFINE j == i - 1
    <3>2. f[j + 1] = s[WordBytes - j] + Base * f[j]
      <4>1. j \in 0..(WordBytes - 1)  BY <3>1
      <4> HIDE DEF j
      <4> QED  BY <1>3, <4>1
    <3>3. g[i] = f[i] /\ g[i - 1] = f[i - 1]  BY <3>1, Constants
    <3> QED  BY <2>2, <3>1, <3>2, <3>3
  <2> QED  BY <2>1, <2>2
<1>5. g = [i \in 0..WordBytes |-> IF i = 0 THEN 0 ELSE s[WordBytes + 1 - i] + Base * g[i - 1]]
  <2>1. g = [i \in 0..WordBytes |-> g[i]]  OBVIOUS
  <2> HIDE DEF g
  <2> QED  BY <1>4, <2>1
<1> HIDE DEF g
<1> DEFINE v == CHOOSE v : v = [i \in 0..WordBytes |-> IF i = 0 THEN 0 ELSE s[WordBytes + 1 - i] + Base * v[i - 1]]
<1>6. v = [i \in 0..WordBytes |-> IF i = 0 THEN 0 ELSE s[WordBytes + 1 - i] + Base * v[i - 1]]  BY <1>5
<1>7. Parcel!Value(s) = v[WordBytes]  BY DEF Parcel!Value
<1> HIDE DEF v
<1>8. v[0] = 0  BY <1>6, Constants
<1>9. ASSUME NEW i \in 0..(WordBytes - 1) PROVE v[i + 1] = s[WordBytes - i] + Base * v[i]
  <2>1. i + 1 \in 0..WordBytes /\ i + 1 # 0 /\ (i + 1) - 1 = i /\ WordBytes + 1 - (i + 1) = WordBytes - i  BY Constants
  <2> QED  BY <1>6, <2>1
<1> QED  BY <1>7, <1>8, <1>9

-----------------------------------------------------------------------------
(* Words.                                                                   *)

\* A product with a factor that is no smaller is no smaller.
LEMMA TimesMonotone ==
  ASSUME NEW a \in Nat, NEW b \in Nat, NEW c \in Nat, a <= b
  PROVE  c * a \in Nat /\ c * a <= c * b
<1> DEFINE d == b - a
<1>1. d \in Nat /\ b = a + d  OBVIOUS
<1> HIDE DEF d
<1>2. c * b = c * a + c * d /\ c * d \in Nat /\ c * a \in Nat  BY <1>1
<1> QED  BY <1>2

\* The quotient is the only one that leaves a remainder below the divisor.
LEMMA Quotient ==
  ASSUME NEW n \in Nat, NEW b \in Nat \ {0}
  PROVE  /\ n \div b \in Nat /\ n % b \in 0..(b - 1) /\ n = b * (n \div b) + (n % b)
         /\ \A q, r \in Nat : n = b * q + r /\ r < b => n \div b = q
OBVIOUS

\* To divide by a product, divide by one factor after the other.
LEMMA DivideTwice ==
  ASSUME NEW n \in Nat, NEW q \in Nat \ {0}, NEW b \in Nat \ {0}
  PROVE  (n \div q) \div b = n \div (b * q)
<1> DEFINE x == n \div q
           r == n % q
           y == x \div b
           t == x % b
<1>1. x \in Nat /\ r \in 0..(q - 1) /\ n = q * x + r  BY Quotient
<1>2. y \in Nat /\ t \in 0..(b - 1) /\ x = b * y + t
  <2> HIDE DEF x
  <2> QED  BY <1>1, Quotient
<1> HIDE DEF x, r, y, t
<1>3. q * t \in Nat /\ q * t <= q * (b - 1)  BY <1>2, TimesMonotone
<1>4. q * (b - 1) = b * q - q  OBVIOUS
<1>5. q * t + r \in Nat /\ q * t + r < b * q  BY <1>1, <1>3, <1>4
<1>6. q * (b * y + t) = (b * q) * y + q * t
  <2>1. q * (b * y + t) = q * (b * y) + q * t  BY <1>2
  <2>2. q * (b * y) = (b * q) * y  BY <1>2
  <2> QED  BY <2>1, <2>2
<1>7. n = (b * q) * y + (q * t + r)  BY <1>1, <1>2, <1>3, <1>6
<1>8. b * q \in Nat \ {0}  OBVIOUS
<1> DEFINE c == b * q
           z == q * t + r
<1>9. c \in Nat \ {0} /\ z \in Nat /\ z < c /\ n = c * y + z  BY <1>5, <1>7, <1>8
<1>10. n \div c = y
  <2> HIDE DEF c, z
  <2> QED  BY <1>2, <1>9, Quotient
<1> QED  BY <1>10 DEF x, y

\* A function on 1..n is a sequence of n.
LEMMA FunctionIsSeq ==
  ASSUME NEW S, NEW n \in Nat, NEW s \in [1..n -> S]
  PROVE  s \in Seq(S) /\ Len(s) = n
OBVIOUS

\* A word is WordBytes bytes.
LEMMA WordIsBytes ==
  ASSUME NEW n \in Nat
  PROVE  /\ Parcel!WordOf(n) \in Seq(0..(Base - 1)) /\ Len(Parcel!WordOf(n)) = WordBytes
         /\ Parcel!WordOf(n) \in [1..WordBytes -> Nat]
<1>1. ASSUME NEW i \in 1..WordBytes PROVE (n \div Parcel!Power(Base)[i - 1]) % Base \in 0..(Base - 1)
  <2>1. Parcel!Power(Base)[i - 1] \in Nat \ {0}
    <3>1. i - 1 \in Nat /\ Base \in Nat \ {0}  BY Constants
    <3> QED  BY <3>1, PowerIs
  <2> DEFINE x == n \div Parcel!Power(Base)[i - 1]
  <2>2. x \in Nat  BY <2>1, Quotient
  <2>3. Base \in Nat \ {0}  BY Constants
  <2>4. x % Base \in 0..(Base - 1)
    <3> HIDE DEF x
    <3> QED  BY <2>2, <2>3
  <2> QED  BY <2>4
<1>2. Parcel!WordOf(n) \in [1..WordBytes -> 0..(Base - 1)]  BY <1>1 DEF Parcel!WordOf
<1>3. 0..(Base - 1) \subseteq Nat /\ WordBytes \in Nat  BY Constants
<1>4. Parcel!WordOf(n) \in Seq(0..(Base - 1)) /\ Len(Parcel!WordOf(n)) = WordBytes  BY <1>2, <1>3, FunctionIsSeq
<1> QED  BY <1>2, <1>3, <1>4

\* A length that is encoded as a word is decoded as itself.
LEMMA WordRoundTrip ==
  ASSUME NEW n \in 0..(Parcel!Word - 1)
  PROVE  Parcel!Value(Parcel!WordOf(n)) = n
<1> DEFINE P == Parcel!Power(Base)
           s == Parcel!WordOf(n)
           W == WordBytes
<1>1. W \in Nat \ {0} /\ Base \in Nat \ {0} /\ n \in Nat /\ n < P[W] /\ P[W] \in Nat \ {0}  BY Constants
<1>2. P \in [Nat -> Nat \ {0}] /\ P[0] = 1 /\ \A k \in Nat : P[k + 1] = Base * P[k]  BY <1>1, PowerIs
<1>3. s \in [1..W -> Nat]  BY <1>1, WordIsBytes
<1>4. PICK v : /\ v[0] = 0 /\ Parcel!Value(s) = v[W]
               /\ \A i \in 0..(W - 1) : v[i + 1] = s[W - i] + Base * v[i]
  BY <1>3, ValueIs
<1>5. \A i \in 1..W : s[i] = (n \div P[i - 1]) % Base  BY DEF Parcel!WordOf
<1> HIDE DEF P, s, W
<1> DEFINE T == {i \in Nat : i <= W => v[i] = n \div P[W - i]}
<1>6. 0 \in T
  <2>1. n = P[W] * 0 + n  BY <1>1
  <2>2. n \div P[W] = 0  BY <1>1, <2>1, Quotient
  <2> QED  BY <1>1, <1>4, <2>2
<1>7. ASSUME NEW i \in Nat, i \in T PROVE i + 1 \in T
  <2> SUFFICES ASSUME i + 1 <= W PROVE v[i + 1] = n \div P[W - (i + 1)]  OBVIOUS
  <2> DEFINE k == W - (i + 1)
  <2>1. k \in Nat /\ k + 1 = W - i /\ i \in 0..(W - 1) /\ k + 1 \in 1..W /\ (k + 1) - 1 = k  BY <1>1
  <2>2. v[i] = n \div P[W - i]  BY <1>1, <1>7
  <2>3. v[i + 1] = s[W - i] + Base * v[i]  BY <1>4, <2>1
  <2> HIDE DEF k
  <2>4. s[k + 1] = (n \div P[k]) % Base
    <3>1. s[k + 1] = (n \div P[(k + 1) - 1]) % Base  BY <1>5, <2>1
    <3> QED  BY <2>1, <3>1
  <2> DEFINE x == n \div P[k]
  <2>5. x \in Nat  BY <1>1, <1>2, <2>1, Quotient
  <2>6. x \div Base = n \div P[k + 1]
    <3>1. P[k] \in Nat \ {0} /\ P[k + 1] = Base * P[k]  BY <1>2, <2>1
    <3>2. (n \div P[k]) \div Base = n \div (Base * P[k])  BY <1>1, <3>1, DivideTwice
    <3> QED  BY <3>1, <3>2
  <2>7. v[i + 1] = (x % Base) + Base * (x \div Base)  BY <2>1, <2>2, <2>3, <2>4, <2>6
  <2>8. x = Base * (x \div Base) + (x % Base) /\ x \div Base \in Nat /\ x % Base \in Nat
    <3> HIDE DEF x
    <3> QED  BY <1>1, <2>5
  <2>9. v[i + 1] = x
    <3> HIDE DEF x
    <3> QED  BY <1>1, <2>7, <2>8
  <2> QED  BY <2>9 DEF k
<1>8. W \in T
  <2> HIDE DEF T
  <2> QED  BY <1>1, <1>6, <1>7, Induction
<1>9. v[W] = n \div P[0]  BY <1>1, <1>8
<1>10. n = 1 * n + 0  BY <1>1
<1>11. n \div 1 = n  BY <1>1, <1>10, Quotient
<1> QED  BY <1>2, <1>4, <1>9, <1>11 DEF s

-----------------------------------------------------------------------------
(* Capacities.                                                              *)

Half == Parcel!Word \div 2
Caps == {0} \cup {c \in 1..Half : \E i \in Nat : c = MinCap * Parcel!Power(2)[i]}

\* The doublings of the first allocation grow.
LEMMA DoublingsGrow ==
  ASSUME NEW i \in Nat, NEW j \in Nat, i <= j
  PROVE  /\ MinCap * Parcel!Power(2)[i] \in Nat /\ MinCap * Parcel!Power(2)[j] \in Nat
         /\ MinCap * Parcel!Power(2)[i] <= MinCap * Parcel!Power(2)[j]
<1> DEFINE P == Parcel!Power(2)
<1>1. P \in [Nat -> Nat \ {0}] /\ \A k \in Nat : P[k + 1] = 2 * P[k]  BY PowerIs
<1> HIDE DEF P
<1> DEFINE T == {d \in Nat : P[i] <= P[i + d]}
<1>2. 0 \in T  BY <1>1
<1>3. ASSUME NEW d \in Nat, d \in T PROVE d + 1 \in T
  <2>1. i + d \in Nat /\ i + (d + 1) = (i + d) + 1  OBVIOUS
  <2>2. P[(i + d) + 1] = 2 * P[i + d] /\ P[i + d] \in Nat /\ P[i] \in Nat  BY <1>1, <2>1
  <2> QED  BY <1>3, <2>1, <2>2
<1> DEFINE e == j - i
<1>4. e \in Nat /\ i + e = j  OBVIOUS
<1>5. e \in T
  <2> HIDE DEF T, e
  <2> QED  BY <1>2, <1>3, <1>4, Induction
<1>6. P[i] <= P[j] /\ P[i] \in Nat /\ P[j] \in Nat  BY <1>1, <1>4, <1>5
<1> QED  BY <1>6, Constants, TimesMonotone DEF P

\* Half of the range of lengths is one of the capacities, the last.
LEMMA HalfIs ==
  \E k \in Nat : /\ Half = MinCap * Parcel!Power(2)[k] /\ Half \in Nat \ {0} /\ Parcel!Word = 2 * Half
                 /\ \A i \in Nat : MinCap * Parcel!Power(2)[i] <= Half => i <= k
<1> DEFINE P == Parcel!Power(2)
<1>1. P \in [Nat -> Nat \ {0}] /\ P[0] = 1 /\ \A k \in Nat : P[k + 1] = 2 * P[k]  BY PowerIs
<1>2. PICK m \in 1..Parcel!Word : MinCap * P[m] = Parcel!Word  BY LengthAssumption
<1> HIDE DEF P
<1> DEFINE k == m - 1
<1>3. k \in Nat /\ k + 1 = m  BY Constants
<1> HIDE DEF k
<1> DEFINE h == MinCap * P[k]
<1>4. P[k + 1] = 2 * P[k] /\ P[k] \in Nat \ {0}  BY <1>1, <1>3
<1>5. h \in Nat \ {0} /\ MinCap * P[k + 1] = 2 * h  BY <1>4, Constants
<1>6. Parcel!Word = 2 * h  BY <1>2, <1>3, <1>5
<1>7. Half = h
  <2> HIDE DEF h
  <2> QED  BY <1>5, <1>6 DEF Half
<1>8. ASSUME NEW i \in Nat, i > k PROVE MinCap * P[i] > h
  <2>1. k + 1 \in Nat /\ k + 1 <= i  BY <1>3, <1>8
  <2>2. MinCap * P[k + 1] <= MinCap * P[i] /\ MinCap * P[i] \in Nat  BY <2>1, DoublingsGrow DEF P
  <2> HIDE DEF h
  <2> QED  BY <1>5, <2>2
<1>9. ASSUME NEW i \in Nat, MinCap * P[i] <= h PROVE i <= k
  <2>1. P[i] \in Nat /\ MinCap * P[i] \in Nat  BY <1>1, Constants
  <2> HIDE DEF h
  <2> QED  BY <1>3, <1>5, <1>8, <1>9, <2>1
<1> QED  BY <1>3, <1>5, <1>6, <1>7, <1>9 DEF P

\* The first allocation and every doubling of a capacity are capacities; half
\* the range of lengths doubles to 0, and every other to twice itself.
LEMMA CapsDouble ==
  /\ 0 \in Caps /\ MinCap \in Caps /\ Half \in Nat \ {0} /\ Parcel!Word = 2 * Half
  /\ \A c \in Caps : c \in 0..Half /\ Parcel!U(2 * c) \in Caps /\ (c < Half => Parcel!U(2 * c) = 2 * c)
<1> DEFINE P == Parcel!Power(2)
<1>1. P \in [Nat -> Nat \ {0}] /\ P[0] = 1 /\ \A k \in Nat : P[k + 1] = 2 * P[k]  BY PowerIs
<1>2. PICK k \in Nat : /\ Half = MinCap * P[k] /\ Half \in Nat \ {0} /\ Parcel!Word = 2 * Half
                       /\ \A i \in Nat : MinCap * P[i] <= Half => i <= k
  BY HalfIs
<1> HIDE DEF P
<1>3. ASSUME NEW i \in Nat, i < k PROVE MinCap * P[i + 1] <= Half
  <2>1. i + 1 \in Nat /\ i + 1 <= k  BY <1>3
  <2> QED  BY <1>2, <2>1, DoublingsGrow DEF P
<1>4. MinCap \in Caps
  <2>1. MinCap = MinCap * P[0] /\ MinCap \in Nat \ {0}  BY <1>1, Constants
  <2>2. MinCap <= Half
    <3>1. MinCap * P[0] <= MinCap * P[k]  BY DoublingsGrow DEF P
    <3> QED  BY <1>2, <2>1, <3>1
  <2>3. MinCap \in 1..Half  BY <1>2, <2>1, <2>2
  <2> QED  BY <2>1, <2>3 DEF Caps, P
<1>5. ASSUME NEW c \in Caps
      PROVE  c \in 0..Half /\ Parcel!U(2 * c) \in Caps /\ (c < Half => Parcel!U(2 * c) = 2 * c)
  <2>1. CASE c = 0
    <3>1. Parcel!U(2 * c) = 0  BY <1>2, <2>1 DEF Parcel!U
    <3> QED  BY <1>2, <2>1, <3>1 DEF Caps
  <2>2. CASE c # 0
    <3>1. PICK i \in Nat : c = MinCap * P[i]  BY <2>2 DEF Caps, P
    <3>2. c \in 1..Half  BY <2>2 DEF Caps
    <3>3. i <= k  BY <1>2, <3>1, <3>2
    <3>4. CASE i = k
      <4>1. c = Half  BY <1>2, <3>1, <3>4
      <4>2. Parcel!U(2 * c) = 0  BY <1>2, <4>1 DEF Parcel!U
      <4> QED  BY <3>2, <4>1, <4>2, <1>2 DEF Caps
    <3>5. CASE i # k
      <4>1. i < k /\ P[i + 1] = 2 * P[i] /\ P[i] \in Nat  BY <1>1, <3>3, <3>5
      <4>2. MinCap * P[i + 1] = 2 * c  BY <3>1, <4>1, Constants
      <4>3. 2 * c <= Half  BY <1>3, <4>1, <4>2
      <4>4. Parcel!U(2 * c) = 2 * c  BY <1>2, <3>2, <4>3 DEF Parcel!U
      <4>5. 2 * c \in 1..Half /\ i + 1 \in Nat  BY <1>2, <3>2, <4>3
      <4> QED  BY <3>2, <4>2, <4>4, <4>5 DEF Caps, P
    <3> QED  BY <3>4, <3>5
  <2> QED  BY <2>1, <2>2
<1> QED  BY <1>2, <1>4, <1>5 DEF Caps

\* Whatever the loop in parcel_grow starts from, it stays within the capacities.
LEMMA DoublingsAreCaps ==
  ASSUME NEW c \in Caps
  PROVE  \A k \in Nat : Parcel!Doubled(c)[k] \in Caps
<1> DEFINE D == Parcel!Doubled(c)
           T == {k \in Nat : D[k] \in Caps}
<1>1. c \in Nat  BY CapsDouble
<1>2. D[0] = c /\ \A k \in Nat : D[k + 1] = Parcel!U(2 * D[k])  BY <1>1, DoubledIs
<1> HIDE DEF D
<1>3. 0 \in T  BY <1>2
<1>4. ASSUME NEW k \in Nat, k \in T PROVE k + 1 \in T
  <2>1. Parcel!U(2 * D[k]) \in Caps  BY <1>4, CapsDouble
  <2> QED  BY <1>2, <2>1
<1>5. Nat \subseteq T
  <2> HIDE DEF T
  <2> QED  BY <1>3, <1>4, Induction
<1> QED  BY <1>5 DEF D

\* From a capacity that is not 0, the doublings reach everything up to half the
\* range of lengths.
LEMMA DoublingsReach ==
  ASSUME NEW c \in Caps \ {0}, NEW m \in 0..Half
  PROVE  \E i \in 0..Half : Parcel!Doubled(c)[i] >= m
<1> SUFFICES ASSUME \A i \in 0..Half : ~(Parcel!Doubled(c)[i] >= m) PROVE FALSE  OBVIOUS
<1> DEFINE D == Parcel!Doubled(c)
           T == {k \in Nat : k <= Half => D[k] >= k + 1}
<1>1. c \in Nat /\ c # 0 /\ Half \in Nat  BY CapsDouble
<1>2. D[0] = c /\ \A k \in Nat : D[k + 1] = Parcel!U(2 * D[k])  BY <1>1, DoubledIs
<1>3. \A k \in Nat : D[k] \in Caps /\ D[k] \in 0..Half  BY DoublingsAreCaps, CapsDouble
<1>4. \A i \in 0..Half : D[i] < m  BY <1>1, <1>3
<1> HIDE DEF D
<1>5. 0 \in T  BY <1>1, <1>2
<1>6. ASSUME NEW k \in Nat, k \in T PROVE k + 1 \in T
  <2> SUFFICES ASSUME k + 1 <= Half PROVE D[k + 1] >= (k + 1) + 1  OBVIOUS
  <2>1. k \in 0..Half /\ D[k] >= k + 1 /\ D[k] \in 0..Half  BY <1>1, <1>3, <1>6
  <2>2. D[k] < Half  BY <1>1, <1>4, <2>1
  <2>3. D[k + 1] = 2 * D[k]  BY <1>2, <1>3, <2>2, CapsDouble
  <2> QED  BY <2>1, <2>3
<1>7. Half \in T
  <2> HIDE DEF T
  <2> QED  BY <1>1, <1>5, <1>6, Induction
<1> QED  BY <1>1, <1>3, <1>7

\* What parcel_grow comes to is a capacity and is enough, if the loop ends; it
\* ends whenever half the range of lengths is enough.
LEMMA NewCapIs ==
  ASSUME NEW n \in 0..(Half - 1), data \in Seq(0..Base), Len(data) \in Caps, len \in 0..Len(data)
  PROVE  /\ Parcel!U(len + n) = len + n /\ Parcel!NewCap(n) \in Caps
         /\ Parcel!NewCap(n) # 0 => Parcel!NewCap(n) >= len + n
         /\ ~Parcel!Fits(n) /\ Parcel!NewCap(n) = 0 => len + n > Half
<1> DEFINE c == Parcel!FirstCap
           D == Parcel!Doubled(c)
           enough == {k \in 0..Parcel!Word : D[k] >= Parcel!U(len + n)}
<1>1. Half \in Nat \ {0} /\ Parcel!Word = 2 * Half /\ Len(data) \in 0..Half  BY CapsDouble
<1>2. len \in 0..Half /\ len + n \in 0..(Parcel!Word - 1)  BY <1>1
<1>3. Parcel!U(len + n) = len + n  BY <1>1, <1>2 DEF Parcel!U
<1>4. c \in Caps  BY CapsDouble DEF Parcel!FirstCap
<1>5. \A k \in Nat : D[k] \in Caps  BY <1>4, DoublingsAreCaps
<1>6. Parcel!NewCap(n) = IF enough = {} THEN 0 ELSE D[CHOOSE k \in enough : \A j \in enough : k <= j]
  BY DEF Parcel!NewCap
<1>7. CASE enough = {}
  <2>1. Parcel!NewCap(n) = 0  BY <1>6, <1>7
  <2>2. ASSUME ~Parcel!Fits(n), len + n <= Half PROVE FALSE
    <3>1. ~(len + n <= Len(data))  BY <1>3, <2>2 DEF Parcel!Fits
    <3>2. Len(data) < Half  BY <1>1, <1>2, <2>2, <3>1
    <3>3. c # 0
      <4>1. CASE data = <<>>  BY <4>1, Constants DEF Parcel!FirstCap
      <4>2. CASE data # <<>>
        <5>1. Len(data) # 0  BY <4>2, EmptySeq
        <5>2. c = 2 * Len(data)  BY <3>2, <4>2, CapsDouble DEF Parcel!FirstCap
        <5> QED  BY <1>1, <5>1, <5>2
      <4> QED  BY <4>1, <4>2
    <3> HIDE DEF c
    <3>4. PICK i \in 0..Half : D[i] >= len + n
      <4>1. len + n \in 0..Half  BY <1>2, <2>2
      <4> QED  BY <1>4, <3>3, <4>1, DoublingsReach
    <3>5. i \in 0..Parcel!Word  BY <1>1
    <3>6. i \in enough  BY <1>3, <3>4, <3>5
    <3> QED  BY <1>7, <3>6
  <2> QED  BY <1>1, <1>2, <1>3, <2>1, <2>2, CapsDouble
<1>8. CASE enough # {}
  <2> DEFINE k == CHOOSE k \in enough : \A j \in enough : k <= j
  <2>1. enough \in SUBSET Nat  BY <1>1
  <2>2. k \in enough
    <3> HIDE DEF enough
    <3>1. \E x \in enough : \A j \in enough : x <= j  BY <1>8, <2>1, Least
    <3> QED  BY <3>1
  <2>3. Parcel!NewCap(n) = D[k]  BY <1>6, <1>8
  <2> HIDE DEF k
  <2>4. D[k] >= len + n /\ k \in Nat  BY <1>1, <1>3, <2>2
  <2>5. D[k] \in Caps  BY <1>5, <2>4
  <2>6. ASSUME D[k] = 0, ~Parcel!Fits(n) PROVE FALSE
    <3>1. len + n = 0  BY <1>2, <2>4, <2>6
    <3> QED  BY <1>1, <1>3, <2>6, <3>1 DEF Parcel!Fits
  <2> QED  BY <1>3, <2>3, <2>4, <2>5, <2>6
<1> QED  BY <1>7, <1>8

-----------------------------------------------------------------------------
(* The invariant of the parcel: its lengths do not wrap, and the items stand  *)
(* one after the other from the start to the end, but for what the write      *)
(* that is running has still to append; the cursor is behind those taken.     *)

Piece == {s \in Seq(0..(Base - 1)) : Len(s) < Half}
Written == {w \in [kind : {"u32", "str", "bytes"}, value : Piece] : w.kind = "u32" => Len(w.value) = WordBytes}

ParcelLengths ==
  /\ data \in Seq(0..Base) /\ Len(data) \in Caps /\ len \in 0..Len(data)
  /\ todo \in Seq(Piece) /\ items \in Seq(Written)

GrowEnds == hung => todo # <<>> /\ len + Len(Head(todo)) > Half

\* The bytes s stand from p on.
Holds(p, s) == p + Len(s) <= len /\ \A i \in 1..Len(s) : data[p + i] = s[i]

\* The whole of an item stands from p to q.
StandsAt(item, p, q) ==
  LET v == item.value IN
    IF item.kind = "str"
    THEN q = p + WordBytes + Len(v) /\ Holds(p, Parcel!WordOf(Len(v))) /\ Holds(p + WordBytes, v)
    ELSE q = p + Len(v) /\ Holds(p, v)

\* What is to be appended are the pieces of an item from p on that do not yet
\* stand there.
ToAppend(item, p) ==
  LET v == item.value  w == Parcel!WordOf(Len(v)) IN
    IF item.kind = "str"
    THEN \/ p = len /\ todo = (IF v = <<>> THEN <<w>> ELSE <<w, v>>)
         \/ p + WordBytes = len /\ Holds(p, w) /\ todo = <<v>>
    ELSE p = len /\ todo = <<v>>

Whole == IF todo = <<>> THEN Len(items) ELSE Len(items) - 1

\* Item i stands from at[i - 1] to at[i].
LaidOut(at) ==
  /\ at[0] = 0 /\ taken \in 0..Whole /\ at[taken] = pos
  /\ \A i \in 1..Whole : StandsAt(items[i], at[i - 1], at[i])
  /\ IF todo = <<>> THEN at[Whole] = len ELSE ToAppend(items[Len(items)], at[Whole])

Faithful ==
  /\ agree
  /\ todo # <<>> => items # <<>>
  /\ \E at \in [Nat -> Nat] : LaidOut(at)

ParcelInv == ParcelLengths /\ GrowEnds /\ (failed \/ Faithful)

\* The sequences of one and two pieces.
LEMMA OneOrTwo ==
  ASSUME NEW v, NEW w
  PROVE  /\ <<v>> # <<>> /\ Head(<<v>>) = v /\ Tail(<<v>>) = <<>>
         /\ <<w, v>> # <<>> /\ Head(<<w, v>>) = w /\ Tail(<<w, v>>) = <<v>>
OBVIOUS

\* A word is a piece, and so is a content.
LEMMA Pieces ==
  /\ <<>> \in Piece
  /\ \A n \in Nat : Parcel!WordOf(n) \in Piece /\ Len(Parcel!WordOf(n)) = WordBytes
  /\ Contents \subseteq Piece
<1>1. Half \in Nat \ {0}  BY CapsDouble
<1>2. WordBytes < Half /\ (\A s \in Contents : Len(s) < Half)  BY LengthAssumption DEF Half
<1>3. Contents \subseteq Seq(0..(Base - 1))  BY NativesAssumption
<1>4. <<>> \in Seq(0..(Base - 1)) /\ Len(<<>>) = 0  OBVIOUS
<1> QED  BY <1>1, <1>2, <1>3, <1>4, WordIsBytes DEF Piece

\* What stands is read, and the lengths of what is read do not wrap.
LEMMA HeldIsRead ==
  ASSUME ParcelLengths, NEW p \in Nat, NEW s \in Piece, Holds(p, s)
  PROVE  /\ Parcel!Readable(p, Len(s)) /\ Parcel!U(p + Len(s)) = p + Len(s)
         /\ Parcel!Cells(p, Len(s)) = s
<1>1. Len(s) \in Nat /\ s \in Seq(0..(Base - 1))  BY DEF Piece
<1>2. len \in Nat /\ len <= Len(data) /\ Len(data) \in Nat /\ Len(data) <= Half /\ Parcel!Word = 2 * Half /\ Half \in Nat \ {0}
  BY CapsDouble DEF ParcelLengths
<1>3. p + Len(s) <= len  BY DEF Holds
<1>4. Parcel!U(p + Len(s)) = p + Len(s)  BY <1>1, <1>2, <1>3 DEF Parcel!U
<1>5. ASSUME NEW i \in 1..Len(s) PROVE p + i \in DOMAIN data /\ data[p + i] = s[i]
  <2>1. p + i \in 1..Len(data)  BY <1>1, <1>2, <1>3
  <2>2. DOMAIN data = 1..Len(data)  BY DEF ParcelLengths
  <2> QED  BY <2>1, <2>2 DEF Holds
<1>6. s = [i \in 1..Len(s) |-> s[i]]  BY <1>1
<1>7. Parcel!Cells(p, Len(s)) = [i \in 1..Len(s) |-> s[i]]  BY <1>5 DEF Parcel!Cells
<1> QED  BY <1>3, <1>4, <1>6, <1>7 DEF Parcel!Readable

\* What a step keeps of the first len cells keeps what stands there.
LEMMA HeldIsKept ==
  ASSUME ParcelLengths, len' \in Nat, len <= len', \A i \in 1..len : data'[i] = data[i],
         NEW p \in Nat, NEW s \in Piece, Holds(p, s)
  PROVE  Holds(p, s)'
<1>1. Len(s) \in Nat /\ len \in Nat /\ p + Len(s) <= len
  <2>1. Len(data) \in Nat  BY DEF ParcelLengths
  <2> QED  BY <2>1 DEF Piece, Holds, ParcelLengths
<1>2. \A i \in 1..Len(s) : p + i \in 1..len  BY <1>1
<1>3. \A i \in 1..Len(s) : data'[p + i] = s[i]  BY <1>2 DEF Holds
<1>4. p + Len(s) <= len'  BY <1>1
<1> QED  BY <1>3, <1>4 DEF Holds

LEMMA StandingIsKept ==
  ASSUME ParcelLengths, len' \in Nat, len <= len', \A i \in 1..len : data'[i] = data[i],
         NEW p \in Nat, NEW q \in Nat, NEW w \in Written, StandsAt(w, p, q)
  PROVE  StandsAt(w, p, q)'
<1>1. w.value \in Piece /\ Len(w.value) \in Nat  BY DEF Written, Piece
<1>2. Parcel!WordOf(Len(w.value)) \in Piece /\ p + WordBytes \in Nat  BY <1>1, Pieces, Constants
<1>3. Parcel!WordOf(Len(w.value))' = Parcel!WordOf(Len(w.value))  BY DEF Parcel!WordOf
<1>4. CASE w.kind = "str"
  <2>1. Holds(p, Parcel!WordOf(Len(w.value))) /\ Holds(p + WordBytes, w.value)
        /\ q = p + WordBytes + Len(w.value)  BY <1>4 DEF StandsAt
  <2>2. Holds(p, Parcel!WordOf(Len(w.value)))'  BY <1>2, <2>1, HeldIsKept
  <2>3. Holds(p + WordBytes, w.value)'  BY <1>1, <1>2, <2>1, HeldIsKept
  <2> QED  BY <1>3, <1>4, <2>1, <2>2, <2>3 DEF StandsAt
<1>5. CASE w.kind # "str"
  <2>1. Holds(p, w.value) /\ q = p + Len(w.value)  BY <1>5 DEF StandsAt
  <2>2. Holds(p, w.value)'  BY <1>1, <2>1, HeldIsKept
  <2> QED  BY <1>5, <2>1, <2>2 DEF StandsAt
<1> QED  BY <1>4, <1>5

\* A sequence copied over another from place l + 1 on.
LEMMA CopiedOver ==
  ASSUME NEW S, NEW l \in Nat, NEW d \in Seq(S), NEW s \in Seq(S), NEW m \in Nat, m = Len(s), l + m <= Len(d),
         NEW f, f = [i \in 1..Len(d) |-> IF i \in (l + 1)..(l + m) THEN s[i - l] ELSE d[i]]
  PROVE  /\ f \in Seq(S) /\ Len(f) = Len(d)
         /\ \A i \in 1..l : f[i] = d[i]
         /\ \A i \in 1..m : f[l + i] = s[i]
<1> DEFINE n == Len(d)
<1>1. n \in Nat /\ l + m <= n  OBVIOUS
<1>2. (\A i \in 1..m : s[i] \in S) /\ (\A i \in 1..n : d[i] \in S)  BY ElementOfSeq
<1> HIDE DEF n
<1>3. f = [i \in 1..n |-> IF i \in (l + 1)..(l + m) THEN s[i - l] ELSE d[i]]  BY DEF n
<1>4. ASSUME NEW i \in 1..n PROVE f[i] \in S
  <2>1. CASE i \in (l + 1)..(l + m)
    <3> DEFINE j == i - l
    <3>1. j \in 1..m  BY <1>1, <2>1
    <3>2. f[i] = s[j]  BY <1>3, <2>1
    <3> HIDE DEF j
    <3> QED  BY <1>2, <3>1, <3>2
  <2>2. CASE i \notin (l + 1)..(l + m)
    <3>1. f[i] = d[i]  BY <1>3, <2>2
    <3> QED  BY <1>2, <3>1
  <2> QED  BY <2>1, <2>2
<1>5. f \in [1..n -> S]  BY <1>3, <1>4
<1>6. f \in Seq(S) /\ Len(f) = n  BY <1>1, <1>5, FunctionIsSeq
<1>7. ASSUME NEW i \in 1..l PROVE f[i] = d[i]
  <2>1. i \in 1..n /\ i \notin (l + 1)..(l + m)  BY <1>1
  <2> QED  BY <1>3, <2>1
<1>8. ASSUME NEW i \in 1..m PROVE f[l + i] = s[i]
  <2> DEFINE j == l + i
  <2>1. j \in 1..n /\ j \in (l + 1)..(l + m) /\ j - l = i  BY <1>1
  <2> HIDE DEF j
  <2>2. f[j] = s[i]  BY <1>3, <2>1
  <2> QED  BY <2>2 DEF j
<1> QED  BY <1>6, <1>7, <1>8 DEF n

\* A piece goes behind the len cells, which stay as they are.
Appended ==
  /\ data' \in Seq(0..Base) /\ len' \in 0..Len(data') /\ len' = len + Len(Head(todo))
  /\ \A i \in 1..len : data'[i] = data[i]
  /\ \A i \in 1..Len(Head(todo)) : data'[len + i] = Head(todo)[i]
  /\ todo' = Tail(todo)

LEMMA PutAppends ==
  ASSUME ParcelLengths, todo # <<>>, NEW d \in Seq(0..Base), Len(d) \in Caps,
         len + Len(Head(todo)) <= Len(d), \A i \in 1..len : d[i] = data[i],
         Parcel!Put(Head(todo), d)
  PROVE  Appended /\ Len(data') = Len(d)
<1> DEFINE s == Head(todo)
           m == Len(s)
<1>1. s \in Seq(0..Base) /\ m \in Nat
  <2>1. s \in Piece  BY HeadTailProperties DEF ParcelLengths
  <2> HIDE DEF s
  <2>2. s \in Seq(0..(Base - 1)) /\ 0..(Base - 1) \subseteq 0..Base  BY <2>1, Constants DEF Piece
  <2>3. s \in Seq(0..Base)  BY <2>2, SeqMonotonic
  <2> QED  BY <2>3
<1>2. Len(data) \in Nat /\ Len(d) \in 0..Half /\ Parcel!Word = 2 * Half /\ Half \in Nat \ {0}
  BY CapsDouble DEF ParcelLengths
<1>3. len \in Nat  BY <1>2 DEF ParcelLengths
<1>4. data' = Parcel!Copied(d, s) /\ len' = Parcel!U(len + m) /\ todo' = Tail(todo)  BY DEF Parcel!Put
<1>5. data' = [i \in 1..Len(d) |-> IF i \in (len + 1)..(len + m) THEN s[i - len] ELSE d[i]]
  BY <1>4 DEF Parcel!Copied
<1>6. len + m <= Len(d)  OBVIOUS
<1> HIDE DEF s, m
<1>7. len + m \in 0..(Parcel!Word - 1)  BY <1>1, <1>2, <1>3, <1>6
<1>8. len' = len + m
  <2> DEFINE x == len + m
  <2>1. x \in 0..(Parcel!Word - 1) /\ len' = x % Parcel!Word  BY <1>4, <1>7 DEF Parcel!U
  <2> HIDE DEF x
  <2>2. len' = x  BY <1>2, <2>1
  <2> QED  BY <2>2 DEF x
<1>9. m = Len(s)  BY DEF m
<1>10. /\ data' \in Seq(0..Base) /\ Len(data') = Len(d)
       /\ \A i \in 1..len : data'[i] = d[i]
       /\ \A i \in 1..m : data'[len + i] = s[i]
  <2> DEFINE S == 0..Base
             f == data'
  <2>1. d \in Seq(S) /\ s \in Seq(S)  BY <1>1
  <2>2. f = [i \in 1..Len(d) |-> IF i \in (len + 1)..(len + m) THEN s[i - len] ELSE d[i]]  BY <1>5
  <2> HIDE DEF S, f
  <2>3. /\ f \in Seq(S) /\ Len(f) = Len(d)
        /\ \A i \in 1..len : f[i] = d[i]
        /\ \A i \in 1..m : f[len + i] = s[i]
    BY <1>1, <1>3, <1>6, <1>9, <2>1, <2>2, CopiedOver
  <2> QED  BY <2>3 DEF S, f
<1>11. \A i \in 1..len : data'[i] = data[i]  BY <1>10
<1>12. len' \in 0..Len(data')  BY <1>1, <1>2, <1>3, <1>6, <1>8, <1>10
<1> QED  BY <1>4, <1>8, <1>9, <1>10, <1>11, <1>12 DEF Appended, s, m

\* The last item is whole once its last piece stands.
LEMMA ItemFinished ==
  ASSUME ParcelLengths, Faithful, todo # <<>>, Appended, UNCHANGED <<pos, items, taken, agree>>,
         NEW at \in [Nat -> Nat], LaidOut(at),
         todo' = <<>>, StandsAt(items[Len(items)], at[Len(items) - 1], len)'
  PROVE  Faithful'
<1> DEFINE n == Len(items)
<1>1. n \in Nat \ {0}
  <2>1. items # <<>> /\ items \in Seq(Written)  BY DEF ParcelLengths, Faithful
  <2> QED  BY <2>1, EmptySeq
<1>2. len \in Nat /\ len' \in Nat /\ len <= len'
  <2> DEFINE s == Head(todo)
             m == Len(s)
  <2>1. s \in Piece /\ Len(data) \in Nat /\ len' = len + m  BY HeadTailProperties DEF ParcelLengths, Appended
  <2> HIDE DEF n, s
  <2>2. m \in Nat /\ len \in Nat  BY <2>1 DEF Piece, ParcelLengths
  <2> HIDE DEF m
  <2> QED  BY <2>1, <2>2
<1>3. Whole = n - 1 /\ Whole' = n  BY DEF Whole
<1>4. PICK to \in [Nat -> Nat] : to[n] = len' /\ \A i \in Nat : i # n => to[i] = at[i]
  <2> DEFINE f == [at EXCEPT ![n] = len']
  <2>1. f \in [Nat -> Nat] /\ f[n] = len' /\ \A i \in Nat : i # n => f[i] = at[i]  BY <1>1, <1>2
  <2> HIDE DEF f
  <2> QED  BY <2>1
<1>5. ASSUME NEW i \in 1..n PROVE StandsAt(items[i], to[i - 1], to[i])'
  <2> DEFINE j == i - 1
  <2>1. j \in Nat /\ j # n /\ i \in Nat  BY <1>1
  <2> HIDE DEF j
  <2>2. to[j] = at[j] /\ at[j] \in Nat /\ at[i] \in Nat  BY <1>4, <2>1
  <2>3. CASE i = n
    <3>1. StandsAt(items[n], at[n - 1], len)' /\ items' = items  OBVIOUS
    <3>2. n' = n  BY <3>1
    <3> HIDE DEF n
    <3>3. to[i - 1] = at[n - 1]  BY <2>2, <2>3 DEF j
    <3>4. to[i] = len'  BY <1>4, <2>3
    <3> QED  BY <2>3, <3>1, <3>2, <3>3, <3>4
  <2>4. CASE i # n
    <3>1. i \in 1..Whole /\ to[i] = at[i]
      <4> HIDE DEF n
      <4> QED  BY <1>1, <1>3, <1>4, <2>1, <2>4
    <3>2. StandsAt(items[i], at[j], at[i])  BY <3>1 DEF LaidOut, j
    <3>3. items[i] \in Written  BY ElementOfSeq DEF ParcelLengths
    <3>4. \A x \in Written, y \in Nat, z \in Nat : StandsAt(x, y, z) => StandsAt(x, y, z)'
      BY <1>2, StandingIsKept DEF Appended
    <3>5. \A x \in Written, y \in Nat, z \in Nat : x = items[i] /\ y = at[j] /\ z = at[i] => StandsAt(x, y, z)'
      BY <3>2, <3>4
    <3>6. StandsAt(items[i], at[j], at[i])'  BY <2>2, <3>3, <3>5
    <3> QED  BY <2>2, <3>1, <3>6 DEF j
  <2> QED  BY <2>3, <2>4
<1>6. to[0] = 0 /\ taken' \in 0..n /\ to[taken'] = pos'
  <2>1. at[0] = 0 /\ taken \in 0..(n - 1) /\ at[taken] = pos /\ taken' = taken /\ pos' = pos  BY <1>3 DEF LaidOut
  <2> HIDE DEF n
  <2>2. taken \in Nat /\ taken # n /\ 0 # n /\ taken \in 0..n  BY <1>1, <2>1
  <2> QED  BY <1>4, <2>1, <2>2
<1>7. LaidOut(to)'
  <2>1. todo' = <<>>  OBVIOUS
  <2> QED  BY <1>3, <1>4, <1>5, <1>6, <2>1 DEF LaidOut
<1>8. agree'  BY DEF Faithful
<1> QED  BY <1>4, <1>7, <1>8 DEF Faithful

\* A piece that is appended lets the items stand one after the other.
LEMMA AppendLays ==
  ASSUME ParcelLengths, Faithful, todo # <<>>, Appended, UNCHANGED <<pos, items, taken, agree>>
  PROVE  Faithful'
<1>1. PICK at \in [Nat -> Nat] : LaidOut(at)  BY DEF Faithful
<1> DEFINE n == Len(items)
           w == items[n]
           v == w.value
           word == Parcel!WordOf(Len(v))
           p == at[n - 1]
<1>2. n \in Nat \ {0}
  <2>1. items # <<>> /\ items \in Seq(Written)  BY DEF ParcelLengths, Faithful
  <2> QED  BY <2>1, EmptySeq
<1>3. w \in Written /\ items \in Seq(Written)  BY <1>2, ElementOfSeq DEF ParcelLengths
<1>4. v \in Piece /\ Len(v) \in Nat
  <2> HIDE DEF w
  <2>1. v \in Piece  BY <1>3 DEF Written
  <2> HIDE DEF v
  <2> QED  BY <2>1 DEF Piece
<1>5. word \in Piece /\ Len(word) = WordBytes  BY <1>4, Pieces
<1>6. Whole = n - 1 /\ p \in Nat /\ ToAppend(w, p)  BY <1>1, <1>2 DEF Whole, LaidOut
<1>7. items' = items /\ n' = n /\ w' = w /\ v' = v /\ word' = word /\ p' = p  BY DEF Parcel!WordOf
<1> HIDE DEF n, w, v, word, p
<1>8. len \in Nat /\ len' \in Nat /\ len <= len'
  <2> DEFINE s == Head(todo)
             m == Len(s)
  <2>1. s \in Piece /\ Len(data) \in Nat /\ len' = len + m  BY HeadTailProperties DEF ParcelLengths, Appended
  <2> HIDE DEF s
  <2>2. m \in Nat /\ len \in Nat  BY <2>1 DEF Piece, ParcelLengths
  <2> HIDE DEF m
  <2> QED  BY <2>1, <2>2
<1>9. \A q \in Nat, s \in Piece : Holds(q, s) => Holds(q, s)'  BY <1>8, HeldIsKept DEF Appended
<1>10. ASSUME NEW s \in Piece, Head(todo) = s, NEW q \in Nat, q = len
       PROVE  len' = q + Len(s) /\ Holds(q, s)'
  <2>1. len' = len + Len(s) /\ \A i \in 1..Len(s) : data'[len + i] = s[i]  BY <1>10 DEF Appended
  <2>2. Len(s) \in Nat  BY DEF Piece
  <2> QED  BY <1>8, <1>10, <2>1, <2>2 DEF Holds
<1>11. todo' = Tail(todo)  BY DEF Appended
<1>12. ASSUME todo' = <<>>, StandsAt(w, p, len)' PROVE Faithful'
  <2>1. StandsAt(items[Len(items)], at[Len(items) - 1], len)'  BY <1>12 DEF w, n, p
  <2> QED  BY <1>1, <1>12, <2>1, ItemFinished
<1>13. CASE w.kind # "str"
  <2>1. p = len /\ todo = <<v>>  BY <1>6, <1>13 DEF ToAppend, v
  <2>2. Head(todo) = v /\ todo' = <<>>  BY <1>11, <2>1, OneOrTwo
  <2>3. len' = p + Len(v) /\ Holds(p, v)'  BY <1>4, <1>6, <1>7, <1>10, <2>1, <2>2
  <2>4. StandsAt(w, p, len)'  BY <1>7, <1>13, <2>3 DEF StandsAt, v
  <2> QED  BY <1>12, <2>2, <2>4
<1>14. CASE w.kind = "str"
  <2>1. CASE p = len /\ v = <<>> /\ todo = <<word>>
    <3>1. Head(todo) = word /\ todo' = <<>>  BY <1>11, <2>1, OneOrTwo
    <3>2. len' = p + WordBytes /\ Holds(p, word)'  BY <1>5, <1>6, <1>7, <1>10, <2>1, <3>1
    <3>3. Len(v) = 0  BY <2>1
    <3>4. Holds(p + WordBytes, v)'  BY <1>7, <1>8, <3>2, <3>3 DEF Holds
    <3>5. len' = p + WordBytes + Len(v)  BY <1>8, <3>2, <3>3
    <3>6. StandsAt(w, p, len)'  BY <1>7, <1>14, <3>2, <3>4, <3>5 DEF StandsAt, v, word
    <3> QED  BY <1>12, <3>1, <3>6
  <2>2. CASE p = len /\ v # <<>> /\ todo = <<word, v>>
    <3>1. Head(todo) = word /\ todo' = <<v>> /\ <<v>> # <<>>  BY <1>11, <2>2, OneOrTwo
    <3>2. len' = p + WordBytes /\ Holds(p, word)'  BY <1>5, <1>6, <1>7, <1>10, <2>2, <3>1
    <3>3. ToAppend(w, p)'  BY <1>7, <1>14, <3>1, <3>2 DEF ToAppend, v, word
    <3>4. Whole' = n - 1 /\ Whole = n - 1  BY <1>6, <1>7, <3>1 DEF Whole, n
    <3>5. ASSUME NEW i \in 1..(n - 1) PROVE StandsAt(items[i], at[i - 1], at[i])'
      <4>1. i \in 1..n /\ i \in Nat /\ i - 1 \in Nat  BY <1>2
      <4>2. items[i] \in Written /\ at[i - 1] \in Nat /\ at[i] \in Nat  BY <1>3, <4>1, ElementOfSeq DEF n
      <4>3. StandsAt(items[i], at[i - 1], at[i])  BY <1>1, <3>4 DEF LaidOut
      <4>4. \A x \in Written, y \in Nat, z \in Nat : StandsAt(x, y, z) => StandsAt(x, y, z)'
        BY <1>8, StandingIsKept DEF Appended
      <4>5. \A x \in Written, y \in Nat, z \in Nat : x = items[i] /\ y = at[i - 1] /\ z = at[i] => StandsAt(x, y, z)'
        BY <4>3, <4>4
      <4> QED  BY <1>7, <4>2, <4>5
    <3>6. at[0] = 0 /\ taken' \in 0..Whole' /\ at[taken'] = pos'  BY <1>1, <3>4 DEF LaidOut
    <3>7. LaidOut(at)'  BY <1>7, <3>1, <3>3, <3>4, <3>5, <3>6 DEF LaidOut, w, n, p
    <3> QED  BY <1>7, <3>1, <3>7 DEF Faithful
  <2>3. CASE p + WordBytes = len /\ Holds(p, word) /\ todo = <<v>>
    <3>1. Head(todo) = v /\ todo' = <<>>  BY <1>11, <2>3, OneOrTwo
    <3>2. p + WordBytes \in Nat  BY <1>6, Constants
    <3>3. len' = p + WordBytes + Len(v) /\ Holds(p + WordBytes, v)'  BY <1>4, <1>7, <1>10, <2>3, <3>1, <3>2
    <3>4. Holds(p, word)'  BY <1>5, <1>6, <1>7, <1>9, <2>3
    <3>5. StandsAt(w, p, len)'  BY <1>7, <1>14, <3>3, <3>4 DEF StandsAt, v, word
    <3> QED  BY <1>12, <3>1, <3>5
  <2> QED  BY <1>6, <1>14, <2>1, <2>2, <2>3 DEF ToAppend, v, word
<1> QED  BY <1>13, <1>14

LEMMA AppendPieceKeeps ==
  ASSUME ParcelInv, Parcel!AppendPiece
  PROVE  ParcelInv'
<1> DEFINE s == Head(todo)
           n == Len(s)
<1>1. todo # <<>> /\ ~hung /\ UNCHANGED <<pos, items, taken, agree>>  BY DEF Parcel!AppendPiece
<1>2. ParcelLengths /\ (failed \/ Faithful)  BY DEF ParcelInv
<1>3. data \in Seq(0..Base) /\ Len(data) \in Caps /\ len \in 0..Len(data) /\ todo \in Seq(Piece) /\ items \in Seq(Written)
  BY <1>2 DEF ParcelLengths
<1>4. s \in Piece /\ Tail(todo) \in Seq(Piece)  BY <1>1, <1>3, HeadTailProperties
<1>5. n \in 0..(Half - 1)
  <2> HIDE DEF s
  <2> QED  BY <1>4, CapsDouble DEF Piece
<1>6. \/ Parcel!Fits(n) /\ Parcel!Put(s, data) /\ UNCHANGED <<hung, failed>>
      \/ /\ ~Parcel!Fits(n) /\ Parcel!NewCap(n) # 0
         /\ Parcel!Put(s, data \o [i \in 1..(Parcel!NewCap(n) - Len(data)) |-> Parcel!Junk])
         /\ UNCHANGED <<hung, failed>>
      \/ ~Parcel!Fits(n) /\ Parcel!NewCap(n) = 0 /\ hung' = TRUE /\ UNCHANGED <<data, len, todo, failed>>
      \/ ~Parcel!Fits(n) /\ Parcel!NewCap(n) # 0 /\ failed' = TRUE /\ todo' = Tail(todo)
         /\ UNCHANGED <<data, len, hung>>
  BY DEF Parcel!AppendPiece
<1>7. /\ Parcel!U(len + n) = len + n /\ Parcel!NewCap(n) \in Caps
      /\ Parcel!NewCap(n) # 0 => Parcel!NewCap(n) >= len + n
      /\ ~Parcel!Fits(n) /\ Parcel!NewCap(n) = 0 => len + n > Half
  <2> HIDE DEF n
  <2> QED  BY <1>3, <1>5, NewCapIs
<1>8. ASSUME NEW d \in Seq(0..Base), Len(d) \in Caps, len + n <= Len(d), \A i \in 1..len : d[i] = data[i],
             Parcel!Put(s, d), UNCHANGED <<hung, failed>>
      PROVE  ParcelInv'
  <2>1. Appended /\ Len(data') = Len(d)  BY <1>1, <1>2, <1>8, PutAppends
  <2>2. ParcelLengths'
    <3>1. todo' \in Seq(Piece)  BY <1>4, <2>1 DEF Appended
    <3> QED  BY <1>1, <1>3, <1>8, <2>1, <3>1 DEF ParcelLengths, Appended
  <2>3. GrowEnds'  BY <1>1, <1>8 DEF GrowEnds
  <2>4. failed' \/ Faithful'  BY <1>1, <1>2, <1>8, <2>1, AppendLays
  <2> QED  BY <2>2, <2>3, <2>4 DEF ParcelInv
<1>9. CASE Parcel!Fits(n) /\ Parcel!Put(s, data) /\ UNCHANGED <<hung, failed>>
  <2>1. len + n <= Len(data)  BY <1>7, <1>9 DEF Parcel!Fits
  <2> QED  BY <1>3, <1>8, <1>9, <2>1
<1>10. CASE /\ ~Parcel!Fits(n) /\ Parcel!NewCap(n) # 0
            /\ Parcel!Put(s, data \o [i \in 1..(Parcel!NewCap(n) - Len(data)) |-> Parcel!Junk])
            /\ UNCHANGED <<hung, failed>>
  <2> DEFINE c == Parcel!NewCap(n)
             e == [i \in 1..(c - Len(data)) |-> Parcel!Junk]
             d == data \o e
  <2>1. c \in Nat /\ Len(data) \in Nat /\ len \in Nat /\ n \in Nat /\ Base \in Nat
        /\ len <= Len(data) /\ Len(data) < len + n /\ len + n <= c
    <3>1. ~(len + n <= Len(data))  BY <1>7, <1>10 DEF Parcel!Fits
    <3>2. c \in Caps /\ c >= len + n  BY <1>7, <1>10
    <3> HIDE DEF n, c
    <3>3. Half \in Nat /\ Base \in Nat /\ c \in 0..Half /\ Len(data) \in 0..Half
      BY <1>3, <3>2, CapsDouble, Constants
    <3>4. n \in Nat  BY <1>5, <3>3
    <3> QED  BY <1>3, <3>1, <3>2, <3>3, <3>4
  <2> HIDE DEF c, s, n
  <2>2. e \in Seq(0..Base) /\ Len(e) = c - Len(data)
    <3>1. c - Len(data) \in Nat  BY <2>1
    <3>2. e \in [1..(c - Len(data)) -> 0..Base]  BY <2>1 DEF Parcel!Junk
    <3> HIDE DEF e
    <3> QED  BY <3>1, <3>2, FunctionIsSeq
  <2> HIDE DEF e
  <2>3. d \in Seq(0..Base) /\ Len(d) = Len(data) + Len(e)
        /\ \A i \in 1..(Len(data) + Len(e)) : d[i] = IF i <= Len(data) THEN data[i] ELSE e[i - Len(data)]
    BY <1>3, <2>2, ConcatProperties
  <2>4. Parcel!Put(s, d)  BY <1>10 DEF c, e
  <2> HIDE DEF d
  <2>5. Len(d) = c  BY <2>1, <2>2, <2>3
  <2>6. \A i \in 1..len : d[i] = data[i]
    <3> TAKE i \in 1..len
    <3>1. i \in 1..(Len(data) + Len(e)) /\ i <= Len(data)  BY <2>1, <2>2
    <3> QED  BY <2>3, <3>1
  <2>7. Len(d) \in Caps /\ len + n <= Len(d)  BY <1>7, <2>1, <2>5 DEF c
  <2> QED  BY <1>8, <1>10, <2>3, <2>4, <2>6, <2>7
<1>11. CASE ~Parcel!Fits(n) /\ Parcel!NewCap(n) = 0 /\ hung' = TRUE /\ UNCHANGED <<data, len, todo, failed>>
  <2>1. ParcelLengths'  BY <1>1, <1>3, <1>11 DEF ParcelLengths
  <2>2. GrowEnds'
    <3>1. len + Len(Head(todo)) > Half  BY <1>7, <1>11
    <3> QED  BY <1>1, <1>11, <3>1 DEF GrowEnds
  <2>3. failed' \/ Faithful'
    <3>1. ASSUME Faithful PROVE Faithful'
      <4>1. PICK at \in [Nat -> Nat] : LaidOut(at)  BY <3>1 DEF Faithful
      <4>2. LaidOut(at)'
        <5>1. UNCHANGED <<data, len, pos, todo, items, taken>>  BY <1>1, <1>11
        <5>2. \A x, y, z : StandsAt(x, y, z)' <=> StandsAt(x, y, z)  BY <5>1 DEF StandsAt, Holds, Parcel!WordOf
        <5>3. \A x, y : ToAppend(x, y)' <=> ToAppend(x, y)  BY <5>1 DEF ToAppend, Holds, Parcel!WordOf
        <5>4. Whole' = Whole  BY <5>1 DEF Whole
        <5> QED  BY <4>1, <5>1, <5>2, <5>3, <5>4 DEF LaidOut
      <4> QED  BY <1>1, <1>11, <3>1, <4>2 DEF Faithful
    <3> QED  BY <1>2, <1>11, <3>1
  <2> QED  BY <2>1, <2>2, <2>3 DEF ParcelInv
<1>12. CASE ~Parcel!Fits(n) /\ Parcel!NewCap(n) # 0 /\ failed' = TRUE /\ todo' = Tail(todo)
            /\ UNCHANGED <<data, len, hung>>
  <2>1. ParcelLengths'  BY <1>1, <1>3, <1>4, <1>12 DEF ParcelLengths
  <2>2. GrowEnds'  BY <1>1, <1>12 DEF GrowEnds
  <2> QED  BY <1>12, <2>1, <2>2 DEF ParcelInv
<1> QED  BY <1>6, <1>9, <1>10, <1>11, <1>12

\* The shapes that a write gives its pieces.
LEMMA WriteKeeps ==
  ASSUME ParcelInv, NEW w \in Written, NEW ps \in Seq(Piece), Parcel!Write(w, ps),
         \/ ps = <<>> /\ w.kind = "bytes" /\ w.value = <<>>
         \/ ps = IF w.kind # "str" THEN <<w.value>>
                 ELSE IF w.value = <<>> THEN <<Parcel!WordOf(Len(w.value))>>
                 ELSE <<Parcel!WordOf(Len(w.value)), w.value>>
  PROVE  ParcelInv'
<1>1. /\ todo = <<>> /\ ~hung /\ items' = Append(items, w) /\ todo' = ps
      /\ UNCHANGED <<data, len, pos, taken, hung, failed, agree>>
  BY DEF Parcel!Write
<1>2. ParcelLengths /\ (failed \/ Faithful)  BY DEF ParcelInv
<1>3. items' \in Seq(Written) /\ items \in Seq(Written)  BY <1>1, <1>2, AppendProperties DEF ParcelLengths
<1>4. ParcelLengths'  BY <1>1, <1>2, <1>3 DEF ParcelLengths
<1>5. GrowEnds'  BY <1>1 DEF GrowEnds
<1>6. ASSUME Faithful PROVE Faithful'
  <2>1. PICK at \in [Nat -> Nat] : LaidOut(at)  BY <1>6 DEF Faithful
  <2>0. PICK m : m = Len(items)  OBVIOUS
  <2>2. m \in Nat /\ Len(items') = m + 1 /\ items'[m + 1] = w /\ \A i \in 1..m : items'[i] = items[i]
    <3>1. /\ Len(Append(items, w)) = m + 1 /\ Append(items, w)[m + 1] = w
          /\ \A i \in 1..m : Append(items, w)[i] = items[i]
      BY <1>3, <2>0, AppendProperties
    <3>2. items' = Append(items, w) /\ m \in Nat  BY <1>1, <1>3, <2>0
    <3> QED  BY <3>1, <3>2
  <2>3. /\ at[0] = 0 /\ taken \in 0..m /\ at[taken] = pos
        /\ at[m] = len /\ \A i \in 1..m : StandsAt(items[i], at[i - 1], at[i])
    BY <1>1, <2>0, <2>1 DEF LaidOut, Whole
  <2>4. len \in Nat /\ len' = len  BY <2>1, <2>2, <2>3, <1>1
  <2>5. PICK to \in [Nat -> Nat] : to[m + 1] = len /\ \A i \in 0..m : to[i] = at[i]
    <3> DEFINE f == [at EXCEPT ![m + 1] = len]
    <3>1. m + 1 \in Nat /\ len \in Nat /\ \A i \in 0..m : i \in Nat /\ i # m + 1  BY <2>2, <2>4
    <3>2. f \in [Nat -> Nat] /\ f[m + 1] = len  BY <3>1
    <3>3. \A i \in 0..m : f[i] = at[i]  BY <3>1
    <3> HIDE DEF f
    <3> QED  BY <3>2, <3>3
  <2>6. ASSUME NEW i \in 1..m PROVE StandsAt(items[i], to[i - 1], to[i])'
    <3>1. i \in 0..m /\ i - 1 \in 0..m /\ i \in Nat /\ i - 1 \in Nat  BY <2>2
    <3>2. to[i - 1] = at[i - 1] /\ to[i] = at[i] /\ at[i - 1] \in Nat /\ at[i] \in Nat  BY <2>5, <3>1
    <3>3. items[i] \in Written  BY <1>3, <2>0, ElementOfSeq
    <3>4. \A x \in Written, y \in Nat, z \in Nat : StandsAt(x, y, z) => StandsAt(x, y, z)'
      BY <1>1, <1>2, <2>4, StandingIsKept
    <3>5. \A x \in Written, y \in Nat, z \in Nat : x = items[i] /\ y = at[i - 1] /\ z = at[i] => StandsAt(x, y, z)'
      BY <2>3, <3>4
    <3> QED  BY <2>2, <3>2, <3>3, <3>5
  <2>7. Parcel!WordOf(Len(w.value))' = Parcel!WordOf(Len(w.value))  BY DEF Parcel!WordOf
  <2>8. to[0] = 0 /\ taken' \in 0..m /\ taken' \in 0..(m + 1) /\ to[taken'] = pos'  BY <1>1, <2>2, <2>3, <2>5
  <2>9. CASE ps = <<>> /\ w.kind = "bytes" /\ w.value = <<>>
    <3>1. Whole' = m + 1  BY <1>1, <2>2, <2>9 DEF Whole
    <3>2. to[m + 1] = len /\ to[m] = len  BY <2>2, <2>3, <2>5
    <3>3. StandsAt(w, len, len)'
      <4>1. Len(w.value) = 0 /\ w.kind # "str"  BY <2>9
      <4>2. Holds(len, w.value)'  BY <2>4, <4>1 DEF Holds
      <4> QED  BY <2>4, <4>1, <4>2 DEF StandsAt
    <3>4. ASSUME NEW i \in 1..(m + 1) PROVE StandsAt(items[i], to[i - 1], to[i])'
      <4>1. CASE i = m + 1
        <5>1. to[i] = len' /\ to[i - 1] = len' /\ items'[i] = w  BY <2>2, <2>4, <3>2, <4>1
        <5> QED  BY <3>3, <5>1
      <4>2. CASE i # m + 1
        <5>1. i \in 1..m  BY <2>2, <4>2
        <5> QED  BY <2>6, <5>1
      <4> QED  BY <4>1, <4>2
    <3>5. LaidOut(to)'  BY <1>1, <2>4, <2>8, <2>9, <3>1, <3>2, <3>4 DEF LaidOut
    <3> QED  BY <1>1, <1>6, <2>5, <2>9, <3>5 DEF Faithful
  <2>10. CASE ps = IF w.kind # "str" THEN <<w.value>>
                   ELSE IF w.value = <<>> THEN <<Parcel!WordOf(Len(w.value))>>
                   ELSE <<Parcel!WordOf(Len(w.value)), w.value>>
    <3>1. ps # <<>>  BY <2>10, OneOrTwo
    <3>2. Whole' = m /\ to[m] = len' /\ items'[Len(items')] = w /\ items' # <<>>
      <4>1. Len(items') = m + 1 /\ (m + 1) - 1 = m /\ todo' # <<>>  BY <1>1, <2>2, <3>1
      <4>2. items' # <<>>
        <5>1. Len(<<>>) = 0 /\ m + 1 # 0  BY <2>2
        <5> QED  BY <2>2, <5>1
      <4>3. to[m] = len'  BY <2>2, <2>3, <2>4, <2>5
      <4> QED  BY <2>2, <4>1, <4>2, <4>3 DEF Whole
    <3>3. ToAppend(w, len)'  BY <1>1, <2>7, <2>10 DEF ToAppend
    <3>4. ToAppend(items[Len(items)], to[m])'  BY <3>2, <3>3
    <3>5. LaidOut(to)'  BY <1>1, <2>6, <2>8, <3>1, <3>2, <3>4 DEF LaidOut
    <3> QED  BY <1>1, <1>6, <2>5, <3>2, <3>5 DEF Faithful
  <2> QED  BY <2>9, <2>10
<1> QED  BY <1>1, <1>2, <1>4, <1>5, <1>6 DEF ParcelInv

\* The writes of the code are of these shapes.
LEMMA WritesKeep ==
  ASSUME ParcelInv, Parcel!WriteU32 \/ Parcel!WriteStr \/ Parcel!WriteBytes
  PROVE  ParcelInv'
<1>1. \A k, v : Parcel!Item(k, v).kind = k /\ Parcel!Item(k, v).value = v  BY DEF Parcel!Item
<1>2. \A k \in {"str", "bytes"}, v \in Piece : Parcel!Item(k, v) \in Written  BY DEF Parcel!Item, Written
<1>3. CASE Parcel!WriteU32
  <2>1. PICK n \in Numbers : Parcel!Write(Parcel!Item("u32", Parcel!WordOf(n)), <<Parcel!WordOf(n)>>)
    BY <1>3 DEF Parcel!WriteU32
  <2>2. n \in Nat  BY NativesAssumption
  <2> DEFINE v == Parcel!WordOf(n)
             w == Parcel!Item("u32", v)
  <2>3. v \in Piece /\ Len(v) = WordBytes  BY <2>2, Pieces
  <2>4. w \in Written /\ w.kind = "u32" /\ w.value = v  
    <3> HIDE DEF v
    <3> QED  BY <2>3 DEF Parcel!Item, Written
  <2>5. Parcel!Write(w, <<v>>)  BY <2>1
  <2> HIDE DEF v, w
  <2>6. <<v>> \in Seq(Piece)  BY <2>3
  <2> QED  BY <2>4, <2>5, <2>6, WriteKeeps
<1>4. CASE Parcel!WriteStr
  <2>1. PICK s \in Contents :
          Parcel!Write(Parcel!Item("str", s),
                       IF s = <<>> THEN <<Parcel!WordOf(0)>> ELSE <<Parcel!WordOf(Len(s)), s>>)
    BY <1>4 DEF Parcel!WriteStr
  <2>2. s \in Piece /\ Len(s) \in Nat  BY Pieces DEF Piece
  <2> DEFINE v == Parcel!WordOf(Len(s))
             w == Parcel!Item("str", s)
             ps == IF s = <<>> THEN <<v>> ELSE <<v, s>>
  <2>3. v \in Piece  BY <2>2, Pieces
  <2>4. w \in Written /\ w.kind = "str" /\ w.value = s  BY <1>1, <1>2, <2>2
  <2>5. s = <<>> => v = Parcel!WordOf(0)
    <3>1. s = <<>> => Len(s) = 0  OBVIOUS
    <3> QED  BY <3>1
  <2>6. Parcel!Write(w, ps)  BY <2>1, <2>5
  <2> HIDE DEF v, w
  <2>7. ps \in Seq(Piece)  BY <2>2, <2>3
  <2>8. ps = IF w.kind # "str" THEN <<w.value>>
             ELSE IF w.value = <<>> THEN <<Parcel!WordOf(Len(w.value))>>
             ELSE <<Parcel!WordOf(Len(w.value)), w.value>>
    BY <2>4 DEF v
  <2> HIDE DEF ps
  <2> QED  BY <2>4, <2>6, <2>7, <2>8, WriteKeeps
<1>5. CASE Parcel!WriteBytes
  <2>1. PICK s \in Contents : Parcel!Write(Parcel!Item("bytes", s), IF s = <<>> THEN <<>> ELSE <<s>>)
    BY <1>5 DEF Parcel!WriteBytes
  <2> DEFINE w == Parcel!Item("bytes", s)
             ps == IF s = <<>> THEN <<>> ELSE <<s>>
  <2>2. s \in Piece  BY Pieces
  <2>3. w \in Written /\ w.kind = "bytes" /\ w.value = s  BY <1>1, <1>2, <2>2
  <2>4. ps \in Seq(Piece)  BY <2>2
  <2>5. Parcel!Write(w, ps)  BY <2>1
  <2> HIDE DEF w
  <2>6. \/ ps = <<>> /\ w.kind = "bytes" /\ w.value = <<>>
        \/ ps = IF w.kind # "str" THEN <<w.value>>
                ELSE IF w.value = <<>> THEN <<Parcel!WordOf(Len(w.value))>>
                ELSE <<Parcel!WordOf(Len(w.value)), w.value>>
    BY <2>3
  <2> HIDE DEF ps
  <2> QED  BY <2>3, <2>4, <2>5, <2>6, WriteKeeps
<1> QED  BY <1>3, <1>4, <1>5

\* A read that gives what was written, and leaves the cursor behind it, leaves
\* the items where they stand.
LEMMA ReadKeeps ==
  ASSUME ParcelInv, NEW k, Parcel!Read(k),
         Faithful => agree' /\ \A q \in Nat : StandsAt(Parcel!Wanted, pos, q) => pos' = q
  PROVE  ParcelInv'
<1>1. /\ todo = <<>> /\ ~hung /\ taken < Len(items) /\ taken' = taken + 1
      /\ UNCHANGED <<data, len, todo, items, hung, failed>>
  BY DEF Parcel!Read
<1>2. ParcelLengths /\ (failed \/ Faithful)  BY DEF ParcelInv
<1>3. ParcelLengths'  BY <1>1, <1>2 DEF ParcelLengths
<1>4. GrowEnds'  BY <1>1 DEF GrowEnds
<1>5. ASSUME Faithful PROVE Faithful'
  <2>1. PICK at \in [Nat -> Nat] : LaidOut(at)  BY <1>5 DEF Faithful
  <2>2. PICK m : m = Len(items)  OBVIOUS
  <2>3. m \in Nat  BY <1>2, <2>2 DEF ParcelLengths
  <2>4. /\ at[0] = 0 /\ taken \in 0..m /\ at[taken] = pos
        /\ at[m] = len /\ \A i \in 1..m : StandsAt(items[i], at[i - 1], at[i])
    BY <1>1, <2>1, <2>2 DEF LaidOut, Whole
  <2>5. PICK j : j = taken + 1  OBVIOUS
  <2>6. j \in 1..m /\ j - 1 = taken /\ j \in Nat /\ j \in 0..m  BY <1>1, <2>2, <2>3, <2>4, <2>5
  <2>7. pos' = at[j] /\ agree'
    <3>1. StandsAt(items[j], at[j - 1], at[j])  BY <2>4, <2>6
    <3>2. items[j] = Parcel!Wanted /\ at[j - 1] = pos /\ at[j] \in Nat  BY <2>4, <2>5, <2>6 DEF Parcel!Wanted
    <3>3. StandsAt(Parcel!Wanted, pos, at[j])  BY <3>1, <3>2
    <3> QED  BY <1>5, <3>2, <3>3
  <2>8. \A x, y, z : StandsAt(x, y, z)' <=> StandsAt(x, y, z)  BY <1>1 DEF StandsAt, Holds, Parcel!WordOf
  <2>9. Whole' = m  BY <1>1, <2>2 DEF Whole
  <2>10. LaidOut(at)'  BY <1>1, <2>4, <2>5, <2>6, <2>7, <2>8, <2>9 DEF LaidOut
  <2> QED  BY <1>1, <2>7, <2>10 DEF Faithful
<1> QED  BY <1>1, <1>2, <1>3, <1>4, <1>5 DEF ParcelInv

\* The item that is next stands at the cursor.
LEMMA WantedStands ==
  ASSUME ParcelInv, Faithful, todo = <<>>, taken < Len(items)
  PROVE  /\ Parcel!Wanted \in Written /\ pos \in Nat
         /\ \E q \in Nat : StandsAt(Parcel!Wanted, pos, q)
<1>1. PICK at \in [Nat -> Nat] : LaidOut(at)  BY DEF Faithful
<1>2. items \in Seq(Written) /\ Len(items) \in Nat  BY DEF ParcelInv, ParcelLengths
<1>3. /\ taken \in 0..Len(items) /\ at[taken] = pos
      /\ \A i \in 1..Len(items) : StandsAt(items[i], at[i - 1], at[i])
  BY <1>1 DEF LaidOut, Whole
<1>4. PICK j : j = taken + 1  OBVIOUS
<1>5. j \in 1..Len(items) /\ j - 1 = taken /\ at[j] \in Nat /\ pos \in Nat
  <2> DEFINE m == Len(items)
  <2>1. m \in Nat /\ taken \in 0..m /\ taken < m  BY <1>2, <1>3
  <2> HIDE DEF m
  <2>2. j \in 1..m /\ j - 1 = taken /\ j \in Nat /\ taken \in Nat  BY <1>4, <2>1
  <2> QED  BY <1>3, <2>2 DEF m
<1>6. items[j] \in Written  BY <1>2, <1>5, ElementOfSeq
<1>7. StandsAt(items[j], at[j - 1], at[j])  BY <1>3, <1>5
<1> QED  BY <1>3, <1>4, <1>5, <1>6, <1>7 DEF Parcel!Wanted

LEMMA ReadU32Keeps ==
  ASSUME ParcelInv, Parcel!ReadU32
  PROVE  ParcelInv'
<1>1. /\ Parcel!Read("u32")
      /\ IF Parcel!Readable(pos, WordBytes)
         THEN Parcel!Answer(TRUE, Parcel!Cells(pos, WordBytes) = Parcel!Wanted.value, Parcel!U(pos + WordBytes))
         ELSE Parcel!Answer(FALSE, FALSE, pos)
  BY DEF Parcel!ReadU32
<1>2. todo = <<>> /\ taken < Len(items) /\ Parcel!Wanted.kind = "u32"  BY <1>1 DEF Parcel!Read
<1>3. ASSUME Faithful PROVE agree' /\ \A q \in Nat : StandsAt(Parcel!Wanted, pos, q) => pos' = q
  <2> DEFINE w == Parcel!Wanted
             v == w.value
  <2>1. w \in Written /\ pos \in Nat /\ \E q \in Nat : StandsAt(w, pos, q)  BY <1>2, <1>3, WantedStands
  <2> HIDE DEF w
  <2>2. v \in Piece /\ Len(v) = WordBytes /\ w.kind = "u32"  BY <1>2, <2>1 DEF Written, w
  <2>3. \A q \in Nat : StandsAt(w, pos, q) => q = pos + Len(v) /\ Holds(pos, v)  BY <2>2 DEF StandsAt
  <2> HIDE DEF v
  <2>4. Holds(pos, v)  BY <2>1, <2>3
  <2>5. /\ Parcel!Readable(pos, WordBytes) /\ Parcel!U(pos + WordBytes) = pos + WordBytes
        /\ Parcel!Cells(pos, WordBytes) = v
    BY <2>1, <2>2, <2>4, HeldIsRead DEF ParcelInv
  <2>6. agree' = (agree /\ TRUE /\ Parcel!Cells(pos, WordBytes) = v) /\ pos' = pos + WordBytes
    BY <1>1, <2>5 DEF Parcel!Answer, v, w
  <2>7. agree' /\ pos' = pos + WordBytes  BY <1>3, <2>5, <2>6 DEF Faithful
  <2> QED  BY <2>2, <2>3, <2>7 DEF w
<1> QED  BY <1>1, <1>3, ReadKeeps

LEMMA ReadBytesKeeps ==
  ASSUME ParcelInv, Parcel!ReadBytes
  PROVE  ParcelInv'
<1> DEFINE w == Parcel!Wanted
           v == w.value
<1>1. /\ Parcel!Read("bytes")
      /\ IF Parcel!Readable(pos, Len(v))
         THEN Parcel!Answer(TRUE, Parcel!Cells(pos, Len(v)) = v, Parcel!U(pos + Len(v)))
         ELSE Parcel!Answer(FALSE, FALSE, pos)
  BY DEF Parcel!ReadBytes
<1>2. todo = <<>> /\ taken < Len(items) /\ w.kind = "bytes"  BY <1>1 DEF Parcel!Read
<1>3. ASSUME Faithful PROVE agree' /\ \A q \in Nat : StandsAt(w, pos, q) => pos' = q
  <2>1. w \in Written /\ pos \in Nat /\ \E q \in Nat : StandsAt(w, pos, q)  BY <1>2, <1>3, WantedStands
  <2> HIDE DEF w
  <2>2. v \in Piece  BY <2>1 DEF Written
  <2>3. \A q \in Nat : StandsAt(w, pos, q) => q = pos + Len(v) /\ Holds(pos, v)  BY <1>2 DEF StandsAt
  <2> HIDE DEF v
  <2>4. Holds(pos, v)  BY <2>1, <2>3
  <2>5. /\ Parcel!Readable(pos, Len(v)) /\ Parcel!U(pos + Len(v)) = pos + Len(v)
        /\ Parcel!Cells(pos, Len(v)) = v
    BY <2>1, <2>2, <2>4, HeldIsRead DEF ParcelInv
  <2>6. agree' = (agree /\ TRUE /\ Parcel!Cells(pos, Len(v)) = v) /\ pos' = pos + Len(v)
    BY <1>1, <2>5 DEF Parcel!Answer
  <2>7. agree' /\ pos' = pos + Len(v)  BY <1>3, <2>5, <2>6 DEF Faithful
  <2> QED  BY <2>3, <2>7
<1> QED  BY <1>1, <1>3, ReadKeeps

\* The length is read as it was written, so that the body is read whole, and is
\* skipped whole when the buffer takes less of it.
LEMMA ReadStrKeeps ==
  ASSUME ParcelInv, Parcel!ReadStr
  PROVE  ParcelInv'
<1> DEFINE w == Parcel!Wanted
           v == w.value
           p == Parcel!U(pos + WordBytes)
           n == Parcel!ReadWord
<1>1. /\ Parcel!Read("str")
      /\ IF ~Parcel!Readable(pos, WordBytes) THEN Parcel!Answer(FALSE, FALSE, pos)
         ELSE IF ~Parcel!Readable(p, n) THEN Parcel!Answer(FALSE, FALSE, p)
         ELSE \E b \in BufSizes :
                Parcel!Answer(TRUE, Parcel!Prefix(Parcel!Cells(p, n), b) = Parcel!Prefix(v, b), Parcel!U(p + n))
  BY DEF Parcel!ReadStr
<1>2. todo = <<>> /\ taken < Len(items) /\ w.kind = "str"  BY <1>1 DEF Parcel!Read
<1>3. ASSUME Faithful PROVE agree' /\ \A q \in Nat : StandsAt(w, pos, q) => pos' = q
  <2>1. w \in Written /\ pos \in Nat /\ \E q \in Nat : StandsAt(w, pos, q)  BY <1>2, <1>3, WantedStands
  <2> HIDE DEF w
  <2>2. v \in Piece  BY <2>1 DEF Written
  <2> DEFINE word == Parcel!WordOf(Len(v))
  <2>3. \A q \in Nat : StandsAt(w, pos, q) =>
          q = pos + WordBytes + Len(v) /\ Holds(pos, word) /\ Holds(pos + WordBytes, v)
    BY <1>2 DEF StandsAt
  <2> HIDE DEF v
  <2>4. Len(v) \in Nat /\ Len(v) \in 0..(Parcel!Word - 1)  BY <2>2, CapsDouble DEF Piece
  <2>5. word \in Piece /\ Len(word) = WordBytes  BY <2>4, Pieces
  <2>6. Parcel!Value(word) = Len(v)  BY <2>4, WordRoundTrip
  <2> HIDE DEF word
  <2>7. Holds(pos, word) /\ Holds(pos + WordBytes, v)  BY <2>1, <2>3
  <2>8. /\ Parcel!Readable(pos, WordBytes) /\ p = pos + WordBytes
        /\ Parcel!Cells(pos, WordBytes) = word
    BY <2>1, <2>5, <2>7, HeldIsRead DEF ParcelInv
  <2>9. n = Len(v)  BY <2>6, <2>8 DEF Parcel!ReadWord
  <2> HIDE DEF p, n
  <2>10. p \in Nat  BY <2>1, <2>8, Constants
  <2>11. /\ Parcel!Readable(p, n) /\ Parcel!U(p + n) = p + n
         /\ Parcel!Cells(p, n) = v
    BY <2>2, <2>7, <2>8, <2>9, <2>10, HeldIsRead DEF ParcelInv
  <2>12. PICK b \in BufSizes :
           Parcel!Answer(TRUE, Parcel!Prefix(Parcel!Cells(p, n), b) = Parcel!Prefix(v, b), Parcel!U(p + n))
    BY <1>1, <2>8, <2>11
  <2>13. agree' = (agree /\ TRUE /\ Parcel!Prefix(v, b) = Parcel!Prefix(v, b)) /\ pos' = p + n
    BY <2>11, <2>12 DEF Parcel!Answer
  <2>14. agree' /\ pos' = pos + WordBytes + Len(v)  BY <1>3, <2>8, <2>9, <2>13 DEF Faithful
  <2> QED  BY <2>3, <2>14
<1> QED  BY <1>1, <1>3, ReadKeeps

LEMMA StartIsFaithful ==
  ASSUME data = <<>>, len = 0, pos = 0, todo = <<>>, items = <<>>, taken = 0, ~hung, agree
  PROVE  ParcelInv
<1>1. ParcelLengths
  <2>1. Len(data) = 0  OBVIOUS
  <2>2. data \in Seq(0..Base) /\ todo \in Seq(Piece) /\ items \in Seq(Written)  OBVIOUS
  <2> QED  BY <2>1, <2>2, CapsDouble DEF ParcelLengths
<1>2. Faithful
  <2> DEFINE at == [i \in Nat |-> 0]
  <2>1. at \in [Nat -> Nat] /\ at[0] = 0  OBVIOUS
  <2> HIDE DEF at
  <2>2. Whole = 0  BY DEF Whole
  <2>3. LaidOut(at)  BY <2>1, <2>2 DEF LaidOut
  <2> QED  BY <2>1, <2>3 DEF Faithful
<1> QED  BY <1>1, <1>2 DEF ParcelInv, GrowEnds

LEMMA FreeKeeps ==
  ASSUME ParcelInv, Parcel!Free
  PROVE  ParcelInv'
<1>1. /\ data' = <<>> /\ len' = 0 /\ pos' = 0 /\ todo' = <<>> /\ items' = <<>> /\ taken' = 0 /\ ~hung' /\ agree'
  BY DEF Parcel!Free
<1>2. ParcelLengths'
  <2>1. Len(data') = 0  BY <1>1
  <2>2. data' \in Seq(0..Base) /\ todo' \in Seq(Piece) /\ items' \in Seq(Written)  BY <1>1
  <2> QED  BY <1>1, <2>1, <2>2, CapsDouble DEF ParcelLengths
<1>3. Faithful'
  <2>1. PICK at \in [Nat -> Nat] : at[0] = 0
    <3> DEFINE f == [i \in Nat |-> 0]
    <3>1. f \in [Nat -> Nat] /\ f[0] = 0  OBVIOUS
    <3> HIDE DEF f
    <3> QED  BY <3>1
  <2>2. Whole' = 0  BY <1>1 DEF Whole
  <2>3. LaidOut(at)'  BY <1>1, <2>1, <2>2 DEF LaidOut
  <2> QED  BY <1>1, <2>1, <2>3 DEF Faithful
<1> QED  BY <1>1, <1>2, <1>3 DEF ParcelInv, GrowEnds

LEMMA ResetReadKeeps ==
  ASSUME ParcelInv, Parcel!ResetRead
  PROVE  ParcelInv'
<1>1. /\ todo = <<>> /\ ~hung /\ pos' = 0 /\ taken' = 0
      /\ UNCHANGED <<data, len, todo, items, hung, failed, agree>>
  BY DEF Parcel!ResetRead
<1>2. ParcelLengths' /\ GrowEnds'  BY <1>1 DEF ParcelInv, ParcelLengths, GrowEnds
<1>3. ASSUME Faithful PROVE Faithful'
  <2>1. PICK at \in [Nat -> Nat] : LaidOut(at)  BY <1>3 DEF Faithful
  <2>2. \A x, y, z : StandsAt(x, y, z)' <=> StandsAt(x, y, z)  BY <1>1 DEF StandsAt, Holds, Parcel!WordOf
  <2>3. Whole' = Whole  BY <1>1 DEF Whole
  <2>4. taken \in 0..Whole /\ at[0] = 0 /\ Whole = Len(items)  BY <1>1, <2>1 DEF LaidOut, Whole
  <2>5. Len(items) \in Nat  BY DEF ParcelInv, ParcelLengths
  <2>6. 0 \in 0..Whole  BY <2>4, <2>5
  <2>7. LaidOut(at)'  BY <1>1, <2>1, <2>2, <2>3, <2>6 DEF LaidOut
  <2> QED  BY <1>1, <1>3, <2>7 DEF Faithful
<1> QED  BY <1>1, <1>2, <1>3 DEF ParcelInv

-----------------------------------------------------------------------------

LEMMA ParcelStart == Init => ParcelInv
<1> SUFFICES ASSUME Init PROVE ParcelInv  OBVIOUS
<1>1. Parcel!Init  BY DEF Init
<1> QED  BY <1>1, StartIsFaithful DEF Parcel!Init

LEMMA ParcelStep == ParcelInv /\ [Next]_vars => ParcelInv'
<1> SUFFICES ASSUME ParcelInv, [Next]_vars PROVE ParcelInv'  OBVIOUS
<1>1. Parcel!Next \/ UNCHANGED parcelVars  BY DEF Next, vars
<1>2. CASE UNCHANGED parcelVars
  <2>1. UNCHANGED <<data, len, pos, todo, items, taken, hung, failed, agree>>  BY <1>2 DEF parcelVars
  <2>2. \A x, y, z : StandsAt(x, y, z)' <=> StandsAt(x, y, z)  BY <2>1 DEF StandsAt, Holds, Parcel!WordOf
  <2>3. \A x, y : ToAppend(x, y)' <=> ToAppend(x, y)  BY <2>1 DEF ToAppend, Holds, Parcel!WordOf
  <2>4. Whole' = Whole  BY <2>1 DEF Whole
  <2>5. \A at : LaidOut(at) => LaidOut(at)'  BY <2>1, <2>2, <2>3, <2>4 DEF LaidOut
  <2>6. Faithful => Faithful'  BY <2>1, <2>5 DEF Faithful
  <2>7. ParcelLengths' /\ GrowEnds'  BY <2>1 DEF ParcelInv, ParcelLengths, GrowEnds
  <2> QED  BY <2>1, <2>6, <2>7 DEF ParcelInv
<1>3. CASE Parcel!Next
  BY <1>3, AppendPieceKeeps, WritesKeep, ReadU32Keeps, ReadStrKeeps, ReadBytesKeeps, ResetReadKeeps, FreeKeeps DEF Parcel!Next
<1> QED  BY <1>1, <1>2, <1>3

-----------------------------------------------------------------------------
(* The types, whether or not an allocation failed.                          *)

Cursor == {hung, failed, agree} \subseteq BOOLEAN /\ pos \in 0..len /\ taken \in 0..Len(items)

\* A word that is read is a number, whatever the cells hold.
LEMMA WordReadIsNumber ==
  ASSUME ParcelLengths, NEW p \in Nat
  PROVE  Parcel!Value(Parcel!Cells(p, WordBytes)) \in Nat
<1> DEFINE s == Parcel!Cells(p, WordBytes)
           W == WordBytes
<1>1. W \in Nat /\ Base \in Nat  BY Constants
<1>2. ASSUME NEW i \in 1..W PROVE (IF p + i \in DOMAIN data THEN data[p + i] ELSE Parcel!Junk) \in Nat
  <2>1. CASE p + i \in DOMAIN data
    <3> DEFINE j == p + i
    <3>1. j \in 1..Len(data) /\ data \in Seq(0..Base)  BY <2>1 DEF ParcelLengths
    <3> HIDE DEF j
    <3>2. data[j] \in 0..Base  BY <3>1, ElementOfSeq
    <3> QED  BY <1>1, <2>1, <3>2 DEF j
  <2>2. CASE p + i \notin DOMAIN data  BY <1>1, <2>2 DEF Parcel!Junk
  <2> QED  BY <2>1, <2>2
<1>3. s \in [1..W -> Nat]  BY <1>2 DEF Parcel!Cells
<1>4. PICK v : /\ v[0] = 0 /\ Parcel!Value(s) = v[W]
               /\ \A i \in 0..(W - 1) : v[i + 1] = s[W - i] + Base * v[i]
  BY <1>3, ValueIs
<1> HIDE DEF s, W
<1> DEFINE T == {i \in Nat : i <= W => v[i] \in Nat}
<1>5. 0 \in T  BY <1>4
<1>6. ASSUME NEW i \in Nat, i \in T PROVE i + 1 \in T
  <2> SUFFICES ASSUME i + 1 <= W PROVE v[i + 1] \in Nat  OBVIOUS
  <2>1. i \in 0..(W - 1) /\ W - i \in 1..W /\ v[i] \in Nat  BY <1>1, <1>6
  <2>2. s[W - i] \in Nat  BY <1>3, <2>1
  <2>3. Base * v[i] \in Nat  BY <1>1, <2>1
  <2> QED  BY <1>4, <2>1, <2>2, <2>3
<1>7. W \in T
  <2> HIDE DEF T
  <2> QED  BY <1>1, <1>5, <1>6, Induction
<1> QED  BY <1>1, <1>4, <1>7 DEF s, W

LEMMA ReadsKeepCursor ==
  ASSUME ParcelLengths, Cursor, Parcel!ReadU32 \/ Parcel!ReadStr \/ Parcel!ReadBytes
  PROVE  Cursor'
<1>1. len \in Nat /\ pos \in Nat /\ pos <= len
  <2>1. Len(data) \in Nat  BY DEF ParcelLengths
  <2> QED  BY <2>1 DEF ParcelLengths, Cursor
<1>2. \A n \in Nat : Parcel!U(n) \in Nat  BY Constants DEF Parcel!U
<1>3. \A p, n \in Nat : Parcel!Readable(p, n) => Parcel!U(p + n) \in 0..len
  BY <1>1, <1>2 DEF Parcel!Readable
<1>4. UNCHANGED <<len, items, hung, failed>> /\ taken' \in 0..Len(items) /\ taken + 1 \in 1..Len(items)
  <2>1. UNCHANGED <<len, items, hung, failed>> /\ taken < Len(items) /\ taken' = taken + 1
    BY DEF Parcel!ReadU32, Parcel!ReadStr, Parcel!ReadBytes, Parcel!Read
  <2> DEFINE m == Len(items)
  <2>2. m \in Nat /\ taken \in 0..m  BY DEF ParcelLengths, Cursor
  <2> HIDE DEF m
  <2>3. taken < m  BY <2>1 DEF m
  <2>4. taken + 1 \in 0..m /\ taken + 1 \in 1..m  BY <2>2, <2>3
  <2> QED  BY <2>1, <2>4 DEF m
<1>5. ASSUME NEW ok \in BOOLEAN, NEW got \in BOOLEAN, NEW p \in 0..len, Parcel!Answer(ok, got, p) PROVE Cursor'
  <2>1. agree' \in BOOLEAN /\ pos' = p  BY <1>5 DEF Parcel!Answer, Cursor
  <2> QED  BY <1>4, <2>1 DEF Cursor
<1>6. FALSE \in BOOLEAN /\ TRUE \in BOOLEAN /\ WordBytes \in Nat /\ pos \in 0..len  BY <1>1, Constants
<1>7. CASE Parcel!ReadU32
  <2>1. CASE Parcel!Readable(pos, WordBytes)
    <3>1. Parcel!Answer(TRUE, Parcel!Cells(pos, WordBytes) = Parcel!Wanted.value, Parcel!U(pos + WordBytes))
      BY <1>7, <2>1 DEF Parcel!ReadU32
    <3>2. Parcel!U(pos + WordBytes) \in 0..len  BY <1>1, <1>3, <1>6, <2>1
    <3>3. (Parcel!Cells(pos, WordBytes) = Parcel!Wanted.value) \in BOOLEAN  OBVIOUS
    <3> QED  BY <1>5, <1>6, <3>1, <3>2, <3>3
  <2>2. CASE ~Parcel!Readable(pos, WordBytes)
    <3>1. Parcel!Answer(FALSE, FALSE, pos)  BY <1>7, <2>2 DEF Parcel!ReadU32
    <3> QED  BY <1>5, <1>6, <3>1
  <2> QED  BY <2>1, <2>2
<1>8. CASE Parcel!ReadBytes
  <2> DEFINE v == Parcel!Wanted.value
  <2>0. Len(v) \in Nat
    <3>1. Parcel!Wanted \in Written  BY <1>4, ElementOfSeq DEF Parcel!Wanted, ParcelLengths
    <3>2. v \in Piece  BY <3>1 DEF Written
    <3> HIDE DEF v
    <3> QED  BY <3>2 DEF Piece
  <2>1. CASE Parcel!Readable(pos, Len(v))
    <3>1. Parcel!Answer(TRUE, Parcel!Cells(pos, Len(v)) = v, Parcel!U(pos + Len(v)))
      BY <1>8, <2>1 DEF Parcel!ReadBytes
    <3>2. Parcel!U(pos + Len(v)) \in 0..len  BY <1>1, <1>3, <2>0, <2>1
    <3>3. (Parcel!Cells(pos, Len(v)) = v) \in BOOLEAN  OBVIOUS
    <3> QED  BY <1>5, <1>6, <3>1, <3>2, <3>3
  <2>2. CASE ~Parcel!Readable(pos, Len(v))
    <3>1. Parcel!Answer(FALSE, FALSE, pos)  BY <1>8, <2>2 DEF Parcel!ReadBytes
    <3> QED  BY <1>5, <1>6, <3>1
  <2> QED  BY <2>1, <2>2
<1>9. CASE Parcel!ReadStr
  <2> DEFINE p == Parcel!U(pos + WordBytes)
             n == Parcel!ReadWord
  <2>0. n \in Nat  BY <1>1, WordReadIsNumber DEF Parcel!ReadWord
  <2>1. CASE ~Parcel!Readable(pos, WordBytes)
    <3>1. Parcel!Answer(FALSE, FALSE, pos)  BY <1>9, <2>1 DEF Parcel!ReadStr
    <3> QED  BY <1>5, <1>6, <3>1
  <2>2. CASE Parcel!Readable(pos, WordBytes) /\ ~Parcel!Readable(p, n)
    <3>1. Parcel!Answer(FALSE, FALSE, p)  BY <1>9, <2>2 DEF Parcel!ReadStr
    <3>2. p \in 0..len  BY <1>1, <1>3, <1>6, <2>2
    <3> QED  BY <1>5, <1>6, <3>1, <3>2
  <2>3. CASE Parcel!Readable(pos, WordBytes) /\ Parcel!Readable(p, n)
    <3>1. PICK b \in BufSizes :
            Parcel!Answer(TRUE, Parcel!Prefix(Parcel!Cells(p, n), b) = Parcel!Prefix(Parcel!Wanted.value, b),
                          Parcel!U(p + n))
      BY <1>9, <2>3 DEF Parcel!ReadStr
    <3>2. p \in 0..len  BY <1>1, <1>3, <1>6, <2>3
    <3> HIDE DEF p, n
    <3>3. Parcel!U(p + n) \in 0..len  BY <1>1, <1>3, <2>0, <2>3, <3>2
    <3>4. (Parcel!Prefix(Parcel!Cells(p, n), b) = Parcel!Prefix(Parcel!Wanted.value, b)) \in BOOLEAN  OBVIOUS
    <3> QED  BY <1>5, <1>6, <3>1, <3>3, <3>4
  <2> QED  BY <2>1, <2>2, <2>3
<1> QED  BY <1>7, <1>8, <1>9

LEMMA AppendKeepsCursor ==
  ASSUME ParcelLengths, Cursor, Parcel!AppendPiece
  PROVE  Cursor'
<1> DEFINE s == Head(todo)
           n == Len(s)
<1>1. UNCHANGED <<pos, items, taken, agree>> /\ {hung', failed'} \subseteq BOOLEAN
  BY DEF Parcel!AppendPiece, Cursor
<1>2. len' = len \/ len' = Parcel!U(len + n)  BY DEF Parcel!AppendPiece, Parcel!Put
<1>3. todo # <<>>  BY DEF Parcel!AppendPiece
<1>4. s \in Piece  BY <1>3, HeadTailProperties DEF ParcelLengths
<1> HIDE DEF s
<1>5. n \in 0..(Half - 1)  BY <1>4, CapsDouble DEF Piece
<1> HIDE DEF n
<1>6. Len(data) \in Nat /\ len \in Nat /\ n \in Nat  BY <1>5, CapsDouble DEF ParcelLengths
<1>7. Parcel!U(len + n) = len + n  BY <1>5, NewCapIs DEF ParcelLengths
<1>8. pos \in 0..len'  BY <1>2, <1>6, <1>7 DEF Cursor
<1> QED  BY <1>1, <1>8 DEF Cursor

LEMMA WriteKeepsCursor ==
  ASSUME ParcelLengths, Cursor, Parcel!WriteU32 \/ Parcel!WriteStr \/ Parcel!WriteBytes
  PROVE  Cursor'
<1>1. PICK w : items' = Append(items, w) /\ UNCHANGED <<len, pos, taken, hung, failed, agree>>
  BY DEF Parcel!WriteU32, Parcel!WriteStr, Parcel!WriteBytes, Parcel!Write
<1>2. Len(items) \in Nat /\ Len(items') = Len(items) + 1
  <2>1. items \in Seq(Written)  BY DEF ParcelLengths
  <2> QED  BY <1>1, <2>1
<1>3. taken \in 0..Len(items')  BY <1>2 DEF Cursor
<1> QED  BY <1>1, <1>3 DEF Cursor

LEMMA CursorStart == Init => Cursor
<1> SUFFICES ASSUME Init PROVE Cursor  OBVIOUS
<1>1. Parcel!Init  BY DEF Init
<1>2. len = 0 /\ pos = 0 /\ taken = 0 /\ Len(items) = 0 /\ {hung, failed, agree} \subseteq BOOLEAN
  BY <1>1 DEF Parcel!Init
<1> QED  BY <1>2 DEF Cursor

LEMMA CursorStep == ParcelLengths /\ Cursor /\ [Next]_vars => Cursor'
<1> SUFFICES ASSUME ParcelLengths, Cursor, [Next]_vars PROVE Cursor'  OBVIOUS
<1>1. Parcel!Next \/ UNCHANGED parcelVars  BY DEF Next, vars
<1>2. CASE UNCHANGED parcelVars  BY <1>2 DEF parcelVars, Cursor
<1>3. CASE Parcel!ResetRead
  <2>1. pos' = 0 /\ taken' = 0 /\ UNCHANGED <<len, items, hung, failed, agree>>  BY <1>3 DEF Parcel!ResetRead
  <2>2. Len(data) \in Nat /\ Len(items) \in Nat  BY DEF ParcelLengths
  <2>3. len \in Nat  BY <2>2 DEF ParcelLengths
  <2> QED  BY <2>1, <2>2, <2>3 DEF Cursor
<1>4. CASE Parcel!Free
  <2>1. len' = 0 /\ pos' = 0 /\ taken' = 0 /\ items' = <<>> /\ {hung', failed', agree'} \subseteq BOOLEAN
    BY <1>4 DEF Parcel!Free, Cursor
  <2>2. Len(items') = 0  BY <2>1
  <2> QED  BY <2>1, <2>2 DEF Cursor
<1>5. CASE Parcel!Next
  BY <1>3, <1>4, <1>5, AppendKeepsCursor, WriteKeepsCursor, ReadsKeepCursor DEF Parcel!Next
<1> QED  BY <1>1, <1>2, <1>5

-----------------------------------------------------------------------------

\* The length of a parcel stays within its allocation and does not wrap, and the
\* cursor stays within what was written, whatever is written and read in
\* whatever order, after a realloc that failed too.
THEOREM ParcelTypes == Spec => []Parcel!TypeOK
<1>1. ParcelInv /\ Cursor => Parcel!TypeOK
  <2> SUFFICES ASSUME ParcelInv, Cursor PROVE Parcel!TypeOK  OBVIOUS
  <2>1. ParcelLengths  BY DEF ParcelInv
  <2>2. Len(data) < Parcel!Word
    <3>1. Len(data) \in 0..Half /\ Half \in Nat \ {0} /\ Parcel!Word = 2 * Half
      BY <2>1, CapsDouble DEF ParcelLengths
    <3> QED  BY <3>1
  <2> QED  BY <2>1, <2>2 DEF Parcel!TypeOK, ParcelLengths, Cursor
<1>2. ParcelInv => ParcelLengths  BY DEF ParcelInv
<1> QED  BY <1>1, <1>2, ParcelStart, ParcelStep, CursorStart, CursorStep, PTL DEF Spec

\* What nova_parcel_write_u32, _str and _bytes append is what the reads give, in
\* the order of the writes, the first time and after every
\* nova_parcel_reset_read, whatever parcel_grow did in between, unless one of its
\* reallocs failed; and the loop in parcel_grow ends as long as half the range of
\* lengths is enough: for words and bytes of any size, any first capacity whose
\* doublings end at the range of lengths, any contents shorter than half of it,
\* and any number of writes.
THEOREM ParcelReadsBack == Spec => []ReadsBack
<1>1. ParcelInv => ReadsBack
  <2>1. ParcelInv => (~agree => failed)  BY DEF ParcelInv, Faithful
  <2>2. ParcelInv => (hung => len + Len(Head(todo)) > Parcel!Word \div 2)  BY DEF ParcelInv, GrowEnds, Half
  <2> QED  BY <2>1, <2>2 DEF ReadsBack, Parcel!ReadsBack
<1> QED  BY <1>1, ParcelStart, ParcelStep, PTL DEF Spec
=============================================================================
