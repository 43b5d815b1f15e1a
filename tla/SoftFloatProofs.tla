-------------------------- MODULE SoftFloatProofs --------------------------
(***************************************************************************)
(* The floating-point helpers compute what they should, for every width of *)
(* exponent and fraction that the assumptions of SoftFloat admit, 11 and   *)
(* 52 among them.                                                          *)
(*                                                                         *)
(* Comparison: the key that df_cmp3way computes from a bit pattern grows   *)
(* with the value the pattern stands for.                                  *)
(*                                                                         *)
(* Arithmetic: the exact result is cut to an integer number of units, with *)
(* a guard bit and a sticky bit that say where in the unit it lies         *)
(* (IsCut).  Cutting further keeps that true, so that what df_pack has     *)
(* before it rounds is the exact result cut to the units of the pattern it *)
(* returns; the pattern is a nearest one because patterns next to each     *)
(* other stand for numbers a unit apart (AmountStep), across the borders   *)
(* between binades, of the subnormal range and of infinity.                *)
(*                                                                         *)
(* Conversions: the same argument in the format of floats, in the units of *)
(* doubles.                                                                *)
(***************************************************************************)
EXTENDS SoftFloat, WellFoundedInduction, TLAPS

(* The powers of two. *)
Pow(k) == 2 ^ k

(* The largest exponent of two that is used. *)
Top == 2 * Pow(X) + 4 * F

(* Pow doubles, from 1. *)
LEMMA Powers ==
  /\ X \in Nat /\ F \in Nat /\ X > 0 /\ F > 0
  /\ Pow(0) = 1
  /\ Pow(X) \in Nat /\ Top \in Nat /\ X + F < Pow(X) /\ Pow(X) <= Top
  /\ \A k \in 0 .. Top : Pow(k) \in Nat /\ Pow(k + 1) = 2 * Pow(k)
  /\ \A k \in 0 .. X + F : Pow(k) \in Nat /\ Pow(k + 1) = 2 * Pow(k)
  /\ \A k \in 0 .. Pow(X) : Pow(k) \in Nat /\ Pow(k + 1) = 2 * Pow(k)
  <1>1. X \in Nat /\ F \in Nat /\ X > 0 /\ F > 0 /\ WB \in Nat
    BY FormatAssumption
  <1>2. /\ Pow(0) = 1
        /\ \A k \in 0 .. Top : Pow(k) \in Nat /\ Pow(k + 1) = 2 * Pow(k)
    BY PowersAssumption, Zenon DEF Pow, Top
  <1>3. X + F < WB /\ WB <= Pow(X)
    BY RangeAssumption DEF Pow
  <1>4. Pow(X) \in Nat
    BY PowersAssumption DEF Pow
  <1>5. Top \in Nat /\ X + F < Pow(X) /\ Pow(X) <= Top
    BY <1>1, <1>3, <1>4 DEF Top
  <1>6. 0 .. X + F \subseteq 0 .. Top /\ 0 .. Pow(X) \subseteq 0 .. Top
    BY <1>1, <1>4, <1>5
  <1> QED
    BY <1>1, <1>2, <1>4, <1>5, <1>6

(* Every nonempty set of numbers has a least one. *)
LEMMA LeastNumber ==
  ASSUME NEW S \in SUBSET Nat, S # {}
  PROVE  \E m \in S : \A i \in S : m <= i
  <1>1. PICK m \in S : \A i \in S : ~ (<<i, m>> \in OpToRel(<, Nat))
    BY NatLessThanWellFounded, WFMin, Zenon
  <1>2. ASSUME NEW i \in S PROVE m <= i
    <2>1. m \in Nat /\ i \in Nat
      OBVIOUS
    <2>2. ~ (i < m)
      BY <1>1, <2>1 DEF OpToRel
    <2> QED
      BY <2>1, <2>2
  <1> QED
    BY <1>2

(* Powers multiply. *)
LEMMA PowersMultiply ==
  ASSUME NEW i \in Nat, NEW j \in Nat, i + j <= Top
  PROVE  Pow(i + j) = Pow(i) * Pow(j)
  <1> DEFINE bad == {e \in Nat : i + e <= Top /\ Pow(i + e) # Pow(i) * Pow(e)}
  <1> SUFFICES ASSUME bad # {} PROVE FALSE
    OBVIOUS
  <1>0. Top \in Nat /\ \A e \in 0 .. Top : Pow(e) \in Nat
    BY Powers
  <1>1. PICK m \in bad : \A e \in bad : m <= e
    BY LeastNumber
  <1>2. CASE m = 0
    <2>1. i + m = i /\ Pow(m) = 1 /\ i \in 0 .. Top
      BY <1>0, <1>2, Powers
    <2>2. Pow(i) * 1 = Pow(i)
      BY <1>0, <2>1
    <2> QED
      BY <1>1, <2>1, <2>2
  <1>3. CASE m # 0
    <2>1. m - 1 \in Nat /\ i + (m - 1) <= Top /\ m - 1 \notin bad
      BY <1>0, <1>1, <1>3
    <2>2. Pow(i + (m - 1)) = Pow(i) * Pow(m - 1)
      BY <2>1
    <2>3. i + (m - 1) \in 0 .. Top /\ m - 1 \in 0 .. Top /\ i \in 0 .. Top
      BY <1>0, <1>1, <2>1
    <2>4. (i + (m - 1)) + 1 = i + m /\ (m - 1) + 1 = m
      BY <2>1
    <2>5. Pow((i + (m - 1)) + 1) = 2 * Pow(i + (m - 1)) /\ Pow((m - 1) + 1) = 2 * Pow(m - 1)
      BY <2>3, Powers
    <2>6. Pow(m - 1) \in Nat /\ Pow(i) \in Nat
      BY <1>0, <2>3
    <2>7. 2 * (Pow(i) * Pow(m - 1)) = Pow(i) * (2 * Pow(m - 1))
      BY <2>6
    <2>8. Pow(i + m) = 2 * Pow(i + (m - 1)) /\ Pow(m) = 2 * Pow(m - 1)
      BY <2>4, <2>5
    <2> QED
      BY <1>1, <2>2, <2>7, <2>8
  <1> QED
    BY <1>2, <1>3

(* No power is zero. *)
LEMMA PowersPositive ==
  ASSUME NEW n \in Nat, \A k \in 0 .. n : Pow(k) \in Nat /\ Pow(k + 1) = 2 * Pow(k),
         NEW k \in 0 .. n
  PROVE  Pow(k) \in Nat /\ Pow(k) > 0
  <1> DEFINE bad == {e \in Nat : e <= n /\ Pow(e) = 0}
  <1>1. bad = {}
    <2> SUFFICES ASSUME bad # {} PROVE FALSE
      OBVIOUS
    <2>1. PICK m \in bad : \A e \in bad : m <= e
      BY LeastNumber
    <2>2. m # 0
      BY <2>1, Powers
    <2>3. m - 1 \in 0 .. n /\ (m - 1) + 1 = m /\ m - 1 \notin bad
      BY <2>1, <2>2
    <2>4. Pow((m - 1) + 1) = 2 * Pow(m - 1) /\ Pow(m - 1) \in Nat
      BY <2>3
    <2>5. Pow(m - 1) # 0
      BY <2>1, <2>3
    <2> QED
      BY <2>1, <2>3, <2>4, <2>5
  <1> QED
    BY <1>1

(* Powers grow with the exponent. *)
LEMMA PowersGrow ==
  ASSUME NEW n \in Nat, \A k \in 0 .. n : Pow(k) \in Nat /\ Pow(k + 1) = 2 * Pow(k),
         NEW i \in 0 .. n, NEW j \in 0 .. n, i <= j
  PROVE  Pow(i) <= Pow(j)
  <1> DEFINE bad == {e \in Nat : i <= e /\ e <= n /\ Pow(e) < Pow(i)}
  <1> SUFFICES ASSUME bad # {} PROVE FALSE
    <2>1. Pow(i) \in Nat /\ Pow(j) \in Nat
      OBVIOUS
    <2> QED
      BY <2>1
  <1>1. PICK m \in bad : \A e \in bad : m <= e
    BY LeastNumber
  <1>2. CASE m = i
    BY <1>1, <1>2
  <1>3. CASE m # i
    <2>1. m - 1 \in 0 .. n /\ (m - 1) + 1 = m /\ m - 1 \notin bad /\ i <= m - 1
      BY <1>1, <1>3
    <2>2. Pow((m - 1) + 1) = 2 * Pow(m - 1) /\ Pow(m - 1) \in Nat /\ Pow(i) \in Nat
      BY <2>1
    <2>3. Pow(m - 1) >= Pow(i)
      BY <2>1, <2>2
    <2>4. Pow(m) = 2 * Pow(m - 1)
      BY <2>1, <2>2
    <2> QED
      BY <1>1, <2>2, <2>3, <2>4
  <1> QED
    BY <1>2, <1>3

-----------------------------------------------------------------------------
(* Quotient and remainder of a number. *)
LEMMA Divided ==
  ASSUME NEW v \in Nat, NEW q \in Nat, q > 0
  PROVE  /\ v \div q \in Nat /\ v % q \in Nat /\ v % q < q /\ v = (v \div q) * q + (v % q)
  BY Z3

(* They are known by what they make up. *)
LEMMA DividedUnique ==
  ASSUME NEW c \in Nat, NEW q \in Nat, NEW r \in Nat, q > 0, r < q
  PROVE  (c * q + r) \div q = c /\ (c * q + r) % q = r
  BY Z3

(* A quotient below a bound, and not below one. *)
LEMMA QuotientBounds ==
  ASSUME NEW v \in Nat, NEW q \in Nat, q > 0, NEW p \in Nat
  PROVE  /\ v < p * q => v \div q < p
         /\ v >= p * q => v \div q >= p
  <1> DEFINE c == v \div q
             r == v % q
  <1>1. c \in Nat /\ r \in Nat /\ r < q /\ v = c * q + r
    BY Divided
  <1> HIDE DEF c, r
  <1>2. ASSUME v < p * q PROVE c < p
    <2>1. CASE c >= p
      <3>1. c * q >= p * q /\ c * q \in Nat /\ p * q \in Nat
        BY <1>1, <2>1
      <3> QED
        BY <1>1, <1>2, <3>1
    <2> QED
      BY <1>1, <2>1
  <1>3. ASSUME v >= p * q PROVE c >= p
    <2>1. CASE c < p
      <3>1. (c + 1) * q <= p * q /\ (c + 1) * q = c * q + q /\ c * q \in Nat /\ p * q \in Nat
        BY <1>1, <2>1
      <3> QED
        BY <1>1, <1>3, <3>1
    <2> QED
      BY <1>1, <2>1
  <1> QED
    BY <1>2, <1>3 DEF c

(* Sign, exponent and fraction of a pattern are Pow(X) exponents of D_IMPL *)
(* fractions.                                                              *)
LEMMA Format ==
  /\ Pow(X) \in Nat /\ Pow(X) > 0 /\ D_IMPL \in Nat /\ D_IMPL > 0
  /\ D_SIGN = Pow(X) * D_IMPL /\ D_SIGN \in Nat /\ D_SIGN > 0
  /\ D_EXP = (Pow(X) - 1) * D_IMPL /\ D_EXP \in Nat /\ D_EXP < D_SIGN
  <1> DEFINE e == Pow(X)
             f == Pow(F)
  <1>0. X \in Nat /\ F \in Nat /\ X + F \in Nat /\ X \in 0 .. X + F /\ F \in 0 .. X + F
    BY Powers
  <1>1. \A k \in 0 .. X + F : Pow(k) \in Nat /\ Pow(k + 1) = 2 * Pow(k)
    BY Powers
  <1>2. e \in Nat /\ e > 0 /\ f \in Nat /\ f > 0
    BY <1>0, <1>1, PowersPositive
  <1>3. Pow(X + F) = e * f
    BY <1>0, Powers, PowersMultiply
  <1>4. D_IMPL = f /\ D_SIGN = Pow(X + F) /\ D_EXP = (e - 1) * f
    BY DEF D_IMPL, D_SIGN, D_EXP, Pow
  <1> HIDE DEF e, f
  <1>5. e * f \in Nat /\ e * f > 0 /\ (e - 1) * f \in Nat /\ (e - 1) * f = e * f - f
    BY <1>2
  <1>6. (e - 1) * f < e * f
    BY <1>2, <1>5
  <1> QED
    BY <1>2, <1>3, <1>4, <1>5, <1>6 DEF e

(* The powers that exponents stand for. *)
LEMMA ExponentPowers ==
  ASSUME NEW i \in 0 .. Pow(X)
  PROVE  /\ Pow(i) \in Nat /\ Pow(i) > 0 /\ Pow(i + 1) = 2 * Pow(i)
         /\ \A j \in 0 .. Pow(X) : i <= j => Pow(i) <= Pow(j)
  BY Format, Powers, PowersPositive, PowersGrow

(* The magnitude of a pattern m, from its exponent e and fraction f. *)
LEMMA AmountParts ==
  ASSUME NEW m \in Nat, m >= D_IMPL, m <= D_EXP, NEW e, e = m \div D_IMPL, NEW f, f = m % D_IMPL
  PROVE  /\ e \in 1 .. Pow(X) - 1 /\ f \in Nat /\ f < D_IMPL /\ m = e * D_IMPL + f
         /\ Amount(m, F) = (f + D_IMPL) * Pow(e - 1)
         /\ Pow(e - 1) \in Nat /\ Pow(e - 1) > 0
         /\ Amount(m, F) \in Nat
         /\ Amount(m, F) >= D_IMPL * Pow(e - 1) /\ Amount(m, F) < D_IMPL * Pow(e)
  <1>0. Pow(X) \in Nat /\ Pow(X) > 0 /\ D_IMPL \in Nat /\ D_IMPL > 0
        /\ D_EXP = (Pow(X) - 1) * D_IMPL
    BY Format
  <1>1. e \in Nat /\ f \in Nat /\ f < D_IMPL /\ m = e * D_IMPL + f
    BY <1>0, Divided
  <1>2. e >= 1
    <2>1. m >= 1 * D_IMPL
      BY <1>0
    <2> QED
      BY <1>0, <2>1, QuotientBounds
  <1>3. e < Pow(X)
    <2> DEFINE p == Pow(X)
    <2>1. m < p * D_IMPL
      <3>1. (p - 1) * D_IMPL = p * D_IMPL - D_IMPL /\ p * D_IMPL \in Nat
        BY <1>0
      <3> QED
        BY <1>0, <3>1
    <2> QED
      BY <1>0, <2>1, QuotientBounds
  <1>4. e \in 1 .. Pow(X) - 1 /\ e - 1 \in 0 .. Pow(X) /\ (e - 1) + 1 = e
    BY <1>0, <1>1, <1>2, <1>3
  <1> DEFINE g == Pow(e - 1)
  <1>5. g \in Nat /\ g > 0 /\ Pow(e) = 2 * g
    <2>1. Pow((e - 1) + 1) = 2 * g /\ g \in Nat /\ g > 0
      BY <1>4, ExponentPowers
    <2> QED
      BY <1>4, <2>1
  <1>6. Amount(m, F) = (f + D_IMPL) * g
    BY <1>0 DEF Amount, D_IMPL, Pow
  <1> HIDE DEF g
  <1>7. (f + D_IMPL) * g \in Nat /\ (f + D_IMPL) * g >= D_IMPL * g
    BY <1>0, <1>1, <1>5
  <1>8. (f + D_IMPL) * g < (2 * D_IMPL) * g /\ (2 * D_IMPL) * g = D_IMPL * (2 * g)
    BY <1>0, <1>1, <1>5
  <1> QED
    BY <1>1, <1>4, <1>5, <1>6, <1>7, <1>8 DEF g

(* Below the normal numbers a pattern is its own magnitude. *)
LEMMA AmountSmall ==
  ASSUME NEW m \in Nat, m < D_IMPL
  PROVE  Amount(m, F) = m
  BY DEF Amount, D_IMPL

(* A larger pattern, up to that of infinity, has a larger magnitude. *)
LEMMA AmountGrows ==
  ASSUME NEW m \in Nat, NEW k \in Nat, m < k, k <= D_EXP
  PROVE  Amount(m, F) < Amount(k, F)
  <1> DEFINE e == m \div D_IMPL
             f == m % D_IMPL
             d == k \div D_IMPL
             g == k % D_IMPL
  <1>0. Pow(X) \in Nat /\ Pow(X) > 0 /\ D_IMPL \in Nat /\ D_IMPL > 0 /\ D_EXP \in Nat
    BY Format
  <1>1. CASE k < D_IMPL
    BY <1>0, <1>1, AmountSmall
  <1>2. CASE m < D_IMPL /\ k >= D_IMPL
    <2>1. Amount(m, F) = m
      BY <1>2, AmountSmall
    <2>2. Amount(k, F) \in Nat /\ Amount(k, F) >= D_IMPL * Pow(d - 1)
          /\ Pow(d - 1) \in Nat /\ Pow(d - 1) > 0
      BY <1>2, AmountParts
    <2>3. D_IMPL * Pow(d - 1) >= D_IMPL * 1 /\ D_IMPL * 1 = D_IMPL
      BY <1>0, <2>2
    <2>4. D_IMPL * Pow(d - 1) \in Nat
      BY <1>0, <2>2
    <2> QED
      BY <1>0, <1>2, <2>1, <2>2, <2>3, <2>4
  <1>3. CASE m >= D_IMPL
    <2>0. k >= D_IMPL /\ m <= D_EXP
      BY <1>0, <1>3
    <2>1. /\ e \in 1 .. Pow(X) - 1 /\ f \in Nat /\ f < D_IMPL /\ m = e * D_IMPL + f
          /\ Amount(m, F) = (f + D_IMPL) * Pow(e - 1) /\ Pow(e - 1) \in Nat /\ Pow(e - 1) > 0
          /\ Amount(m, F) \in Nat /\ Amount(m, F) < D_IMPL * Pow(e)
      BY <1>3, <2>0, AmountParts
    <2>2. /\ d \in 1 .. Pow(X) - 1 /\ g \in Nat /\ g < D_IMPL /\ k = d * D_IMPL + g
          /\ Amount(k, F) = (g + D_IMPL) * Pow(d - 1) /\ Amount(k, F) \in Nat
          /\ Amount(k, F) >= D_IMPL * Pow(d - 1)
      BY <2>0, AmountParts
    <2> HIDE DEF e, f, d, g
    <2>3. e <= d
      <3>1. CASE e > d
        <4>1. (d + 1) * D_IMPL <= e * D_IMPL /\ (d + 1) * D_IMPL = d * D_IMPL + D_IMPL
              /\ d * D_IMPL \in Nat /\ e * D_IMPL \in Nat
          BY <1>0, <2>1, <2>2, <3>1
        <4> QED
          BY <1>0, <2>1, <2>2, <4>1
      <3> QED
        BY <1>0, <2>1, <2>2, <3>1
    <2>4. CASE e = d
      <3>1. f < g
        BY <1>0, <2>1, <2>2, <2>4
      <3> DEFINE p == Pow(e - 1)
      <3>2. p \in Nat /\ p > 0
        BY <2>1
      <3> HIDE DEF p
      <3>3. (f + D_IMPL) * p < (g + D_IMPL) * p
        BY <1>0, <2>1, <2>2, <3>1, <3>2
      <3> QED
        BY <2>1, <2>2, <2>4, <3>3 DEF p
    <2>5. CASE e < d
      <3> DEFINE p == Pow(e)
                 q == Pow(d - 1)
      <3>1. e \in 0 .. Pow(X) /\ d - 1 \in 0 .. Pow(X) /\ e <= d - 1
        BY <1>0, <2>1, <2>2, <2>5
      <3>2. p \in Nat /\ q \in Nat /\ p <= q
        BY <3>1, ExponentPowers
      <3> HIDE DEF p, q
      <3>3. D_IMPL * p <= D_IMPL * q /\ D_IMPL * p \in Nat /\ D_IMPL * q \in Nat
        BY <1>0, <3>2
      <3>4. Amount(m, F) < D_IMPL * p /\ Amount(k, F) >= D_IMPL * q
        BY <2>1, <2>2 DEF p, q
      <3> QED
        BY <2>1, <2>2, <3>3, <3>4
    <2> QED
      BY <1>0, <2>1, <2>2, <2>3, <2>4, <2>5
  <1> QED
    BY <1>0, <1>1, <1>2, <1>3

-----------------------------------------------------------------------------
(* A pattern without its sign bit. *)
Plain(v) == v % D_SIGN

(* A pattern is its sign bit and the rest. *)
LEMMA PlainIs ==
  ASSUME NEW v \in Double
  PROVE  /\ v \in Nat /\ Plain(v) \in Nat /\ Plain(v) < D_SIGN
         /\ v = IF Negative(v) THEN D_SIGN + Plain(v) ELSE Plain(v)
  <1>0. v \in Nat /\ v < 2 * D_SIGN /\ D_SIGN \in Nat /\ D_SIGN > 0
    BY Format DEF Double
  <1>1. CASE Negative(v)
    <2> DEFINE r == v - D_SIGN
    <2>1. r \in Nat /\ r < D_SIGN /\ v = D_SIGN + r
      BY <1>0, <1>1 DEF Negative
    <2>2. (1 * D_SIGN + r) % D_SIGN = r /\ 1 * D_SIGN = D_SIGN
      BY <1>0, <2>1, DividedUnique
    <2>3. Plain(v) = r
      BY <2>1, <2>2 DEF Plain
    <2> QED
      BY <1>0, <1>1, <2>1, <2>3
  <1>2. CASE ~ Negative(v)
    <2>1. v < D_SIGN
      BY <1>0, <1>2 DEF Negative
    <2>2. (0 * D_SIGN + v) % D_SIGN = v /\ 0 * D_SIGN + v = v
      BY <1>0, <2>1, DividedUnique
    <2>3. Plain(v) = v
      BY <2>2 DEF Plain
    <2> QED
      BY <1>0, <1>2, <2>1, <2>3
  <1> QED
    BY <1>1, <1>2

(* What is no NaN has a pattern up to that of infinity. *)
LEMMA OrderedIsSmall ==
  ASSUME NEW v \in Double, ~ df_is_nan(v)
  PROVE  Plain(v) <= D_EXP
  <1> DEFINE p == Pow(X)
             b == D_IMPL
             u == Plain(v)
             e == u \div b
             f == u % b
             s == IF Negative(v) THEN p ELSE 0
  <1>0. p \in Nat /\ p > 0 /\ b \in Nat /\ b > 0 /\ D_SIGN = p * b /\ D_EXP = (p - 1) * b
        /\ D_SIGN \in Nat /\ D_EXP \in Nat
    BY Format
  <1>1. v \in Nat /\ u \in Nat /\ u < D_SIGN /\ v = IF Negative(v) THEN D_SIGN + u ELSE u
    BY PlainIs
  <1> HIDE DEF p, b, u
  <1>2. e \in Nat /\ f \in Nat /\ f < b /\ u = e * b + f /\ e < p
    <2>1. u < p * b
      BY <1>0, <1>1
    <2> QED
      BY <1>0, <1>1, <2>1, Divided, QuotientBounds
  <1> HIDE DEF e, f
  <1>3. v = (s + e) * b + f /\ s + e \in Nat
    <2>1. (p + e) * b = p * b + e * b /\ p * b \in Nat /\ e * b \in Nat
      BY <1>0, <1>2
    <2> QED
      BY <1>0, <1>1, <1>2, <2>1
  <1>4. v \div b = s + e /\ v % b = f
    <2>1. ((s + e) * b + f) \div b = s + e /\ ((s + e) * b + f) % b = f
      <3> HIDE DEF s
      <3> QED
        BY <1>0, <1>2, <1>3, DividedUnique
    <2> QED
      BY <1>3, <2>1
  <1>5. (s + e) % p = e
    <2>1. (1 * p + e) % p = e /\ (0 * p + e) % p = e
      BY <1>0, <1>2, DividedUnique
    <2>2. 1 * p = p /\ 0 * p = 0
      BY <1>0
    <2> QED
      BY <2>1, <2>2
  <1>6. Field(v) = e /\ Fraction(v) = f
    BY <1>4, <1>5 DEF Field, Fraction, p, b, Pow
  <1>7. e # p - 1 \/ f = 0
    BY <1>6 DEF df_is_nan, p, Pow
  <1>8. CASE e # p - 1
    <2>1. e + 1 <= p - 1
      BY <1>0, <1>2, <1>8
    <2>2. (e + 1) * b <= (p - 1) * b /\ (e + 1) * b = e * b + b /\ e * b \in Nat
          /\ (p - 1) * b \in Nat
      BY <1>0, <1>2, <2>1
    <2>3. u <= D_EXP
      BY <1>0, <1>2, <2>2
    <2> QED
      BY <2>3 DEF u
  <1>9. CASE e = p - 1 /\ f = 0
    <2>1. u = D_EXP
      BY <1>0, <1>2, <1>9
    <2> QED
      BY <1>0, <2>1 DEF u
  <1> QED
    BY <1>7, <1>8, <1>9

(* The key that df_cmp3way compares. *)
KeyOf(v) == Key(Unsigned(v))

(* Key and value of a pattern, from its sign and magnitude. *)
LEMMA KeyAndValue ==
  ASSUME NEW v \in Double, ~ df_is_nan(v)
  PROVE  /\ Plain(v) \in Nat /\ Plain(v) <= D_EXP /\ D_SIGN \in Nat
         /\ Amount(Plain(v), F) \in Nat
         /\ Plain(v) > 0 => Amount(Plain(v), F) > 0
         /\ Plain(v) = 0 => Amount(Plain(v), F) = 0
         /\ \/ KeyOf(v) = D_SIGN + Plain(v) /\ DoubleValue(v) = Amount(Plain(v), F)
            \/ /\ Plain(v) > 0 /\ KeyOf(v) = D_SIGN - 1 - Plain(v)
               /\ DoubleValue(v) = - Amount(Plain(v), F)
  <1> DEFINE u == Plain(v)
             m == Amount(u, F)
  <1>0. D_SIGN \in Nat /\ D_SIGN > 0 /\ D_IMPL \in Nat /\ D_IMPL > 0 /\ D_EXP \in Nat
    BY Format
  <1>1. v \in Nat /\ u \in Nat /\ u < D_SIGN /\ v = IF Negative(v) THEN D_SIGN + u ELSE u
    BY PlainIs
  <1>2. u <= D_EXP
    BY OrderedIsSmall
  <1>3. Amount(0, F) = 0
    BY <1>0, AmountSmall
  <1>4. m \in Nat
    <2> HIDE DEF u
    <2>1. CASE u < D_IMPL
      BY <1>1, <2>1, AmountSmall
    <2>2. CASE u >= D_IMPL
      BY <1>1, <1>2, <2>2, AmountParts
    <2> QED
      BY <1>0, <1>1, <2>1, <2>2
  <1>5. u > 0 => m > 0
    <2>1. u > 0 => Amount(0, F) < m
      BY <1>1, <1>2, AmountGrows
    <2> QED
      BY <1>3, <2>1
  <1>6. DoubleValue(v) = IF Negative(v) THEN - m ELSE m
    BY DEF DoubleValue, DoubleAmount, Plain
  <1> HIDE DEF u, m
  <1>7. u = 0 => m = 0
    BY <1>3 DEF m
  <1>8. CASE ~ Negative(v)
    <2>1. v = u /\ v # D_SIGN
      BY <1>0, <1>1, <1>8
    <2>2. Unsigned(v) = v /\ Key(v) = v + D_SIGN
      BY <1>8, <2>1 DEF Unsigned, Key
    <2>3. KeyOf(v) = D_SIGN + u
      BY <1>0, <1>1, <2>1, <2>2 DEF KeyOf
    <2> QED
      BY <1>0, <1>1, <1>2, <1>4, <1>5, <1>6, <1>7, <1>8, <2>3 DEF u, m
  <1>9. CASE Negative(v) /\ u = 0
    <2>1. v = D_SIGN
      BY <1>0, <1>1, <1>9
    <2>2. Unsigned(v) = 0 /\ Key(0) = D_SIGN
      BY <1>0, <2>1 DEF Unsigned, Key, Negative
    <2>3. KeyOf(v) = D_SIGN + u
      BY <1>0, <1>9, <2>2 DEF KeyOf
    <2>4. DoubleValue(v) = m
      <3>1. m = 0
        BY <1>7, <1>9, Zenon
      <3>2. DoubleValue(v) = - m
        BY <1>6, <1>9, Zenon
      <3>3. \A i \in Int : i + i = 0 => - i = i
        OBVIOUS
      <3>4. - m = m
        <4>1. m \in Int /\ m + m = 0
          BY <3>1
        <4> QED
          BY <3>3, <4>1, Zenon
      <3> QED
        BY <3>2, <3>4, Zenon
    <2> QED
      BY <1>0, <1>1, <1>2, <1>4, <1>5, <1>7, <2>3, <2>4 DEF u, m
  <1>10. CASE Negative(v) /\ u > 0
    <2>1. v = D_SIGN + u /\ v # D_SIGN
      BY <1>0, <1>1, <1>10
    <2>2. Unsigned(v) = v /\ Key(v) = 2 * D_SIGN - 1 - v
      BY <1>10, <2>1 DEF Unsigned, Key
    <2>3. KeyOf(v) = D_SIGN - 1 - u
      BY <1>0, <1>1, <2>1, <2>2 DEF KeyOf
    <2> QED
      BY <1>0, <1>1, <1>2, <1>4, <1>5, <1>6, <1>7, <1>10, <2>3 DEF u, m
  <1> QED
    BY <1>1, <1>8, <1>9, <1>10

(* The key orders patterns by value. *)
LEMMA KeyOrders ==
  ASSUME NEW a \in Double, NEW b \in Double, ~ df_is_nan(a), ~ df_is_nan(b)
  PROVE  /\ KeyOf(a) \in Int /\ KeyOf(b) \in Int
         /\ DoubleValue(a) \in Int /\ DoubleValue(b) \in Int
         /\ KeyOf(a) < KeyOf(b) => DoubleValue(a) < DoubleValue(b)
         /\ KeyOf(b) < KeyOf(a) => DoubleValue(b) < DoubleValue(a)
         /\ KeyOf(a) = KeyOf(b) => DoubleValue(a) = DoubleValue(b)
  <1> DEFINE u == Plain(a)
             w == Plain(b)
             m == Amount(u, F)
             k == Amount(w, F)
  <1>1. /\ u \in Nat /\ u <= D_EXP /\ D_SIGN \in Nat /\ m \in Nat
        /\ u > 0 => m > 0
        /\ \/ KeyOf(a) = D_SIGN + u /\ DoubleValue(a) = m
           \/ u > 0 /\ KeyOf(a) = D_SIGN - 1 - u /\ DoubleValue(a) = - m
    BY KeyAndValue
  <1>2. /\ w \in Nat /\ w <= D_EXP /\ k \in Nat
        /\ w > 0 => k > 0
        /\ \/ KeyOf(b) = D_SIGN + w /\ DoubleValue(b) = k
           \/ w > 0 /\ KeyOf(b) = D_SIGN - 1 - w /\ DoubleValue(b) = - k
    BY KeyAndValue
  <1> HIDE DEF u, w
  <1>3. (u < w => m < k) /\ (w < u => k < m) /\ (u = w => m = k)
    BY <1>1, <1>2, AmountGrows
  <1> HIDE DEF m, k
  <1> QED
    BY <1>1, <1>2, <1>3

(* What each comparison helper returns, read as compiled code reads it. *)
LEMMA ComparisonIsByValue ==
  ASSUME NEW o \in Comparison, NEW a \in Double, NEW b \in Double, Compare(o, a, b)
  PROVE  ComparesByValue'
  <1> DEFINE ordered == ~ df_is_nan(a) /\ ~ df_is_nan(b)
             s == Bit(KeyOf(a) > KeyOf(b)) - Bit(KeyOf(a) < KeyOf(b))
  <1>0. op' = o /\ x' = a /\ y' = b /\ result' = Compared(o, a, b)
    BY DEF Compare, Called
  <1>1. ordered => /\ s \in Int
                   /\ s < 0 <=> DoubleValue(a) < DoubleValue(b)
                   /\ s = 0 <=> DoubleValue(a) = DoubleValue(b)
                   /\ s > 0 <=> DoubleValue(a) > DoubleValue(b)
                   /\ DoubleValue(a) \in Int /\ DoubleValue(b) \in Int
    BY KeyOrders DEF Bit
  <1>2. \A n : df_cmp3way(a, b, n) = IF ordered THEN s ELSE n
    BY DEF df_cmp3way, KeyOf
  <1>3. /\ o \in {"eq", "ne", "lt", "le"} => result' = IF ordered THEN s ELSE 1
        /\ o \in {"gt", "ge"} => result' = IF ordered THEN s ELSE -1
        /\ o = "unord" => result' = IF ordered THEN 0 ELSE 1
    BY <1>0, <1>2 DEF Compared, Equality, Less, Greater, Bit
  <1> HIDE DEF s
  <1>4. CASE o = "eq"
    <2>1. (result' = 0) <=> (ordered /\ DoubleValue(a) = DoubleValue(b))
      BY <1>1, <1>3, <1>4
    <2> QED
      BY <1>0, <1>4, <2>1 DEF ComparesByValue
  <1>5. CASE o = "ne"
    <2>1. (result' # 0) <=> ~ (ordered /\ DoubleValue(a) = DoubleValue(b))
      BY <1>1, <1>3, <1>5
    <2> QED
      BY <1>0, <1>5, <2>1 DEF ComparesByValue
  <1>6. CASE o = "lt"
    <2>1. (result' < 0) <=> (ordered /\ DoubleValue(a) < DoubleValue(b))
      BY <1>1, <1>3, <1>6
    <2> QED
      BY <1>0, <1>6, <2>1 DEF ComparesByValue
  <1>7. CASE o = "le"
    <2>1. (result' <= 0) <=> (ordered /\ DoubleValue(a) <= DoubleValue(b))
      BY <1>1, <1>3, <1>7
    <2> QED
      BY <1>0, <1>7, <2>1 DEF ComparesByValue
  <1>8. CASE o = "gt"
    <2>1. (result' > 0) <=> (ordered /\ DoubleValue(a) > DoubleValue(b))
      BY <1>1, <1>3, <1>8
    <2> QED
      BY <1>0, <1>8, <2>1 DEF ComparesByValue
  <1>9. CASE o = "ge"
    <2>1. (result' >= 0) <=> (ordered /\ DoubleValue(a) >= DoubleValue(b))
      BY <1>1, <1>3, <1>9
    <2> QED
      BY <1>0, <1>9, <2>1 DEF ComparesByValue
  <1>10. CASE o = "unord"
    <2>1. (result' # 0) <=> ~ ordered
      BY <1>1, <1>3, <1>10
    <2> QED
      BY <1>0, <1>10, <2>1 DEF ComparesByValue
  <1> QED
    BY <1>4, <1>5, <1>6, <1>7, <1>8, <1>9, <1>10 DEF Comparison, Equality, Less, Greater

(* ComparesByValue: the comparison helpers order doubles by value, with    *)
(* equal zeros and unordered NaNs, for every width of exponent and         *)
(* fraction.                                                               *)
THEOREM ComparisonsAreByValue == Spec => []ComparesByValue
  <1>0. /\ Arithmetic \cap Comparison = {} /\ Conversion \cap Comparison = {}
        /\ "none" \notin Comparison
    BY DEF Arithmetic, Conversion, Comparison, Equality, Less, Greater
  <1>1. Init => ComparesByValue
    BY <1>0 DEF Init, ComparesByValue
  <1>2. ASSUME ComparesByValue, [Next]_vars PROVE ComparesByValue'
    <2>1. CASE UNCHANGED vars
      BY <1>2, <2>1 DEF vars, ComparesByValue, df_is_nan, Field, Fraction, DoubleValue,
                        DoubleAmount, Negative
    <2>2. CASE op' \notin Comparison
      BY <2>2 DEF ComparesByValue
    <2>3. ASSUME NEW o \in Comparison, NEW a \in Double, NEW b \in Double, Compare(o, a, b)
          PROVE  ComparesByValue'
      BY <2>3, ComparisonIsByValue
    <2>4. CASE Return
      BY <1>0, <2>2, <2>4 DEF Return
    <2>5. CASE Call
      <3>1. \/ \E o \in Comparison, a, b \in Double : Compare(o, a, b)
            \/ op' \in Arithmetic \cup Conversion
        BY <2>5 DEF Call, Called, Add, Subtract, Multiply, Divide, Extend, Truncate, FromInt,
                    FromUnsigned, ToInt, ToUnsigned, Arithmetic, Conversion
      <3> QED
        BY <1>0, <2>2, <2>3, <3>1
    <2> QED
      BY <1>2, <2>1, <2>4, <2>5 DEF Next
  <1> QED
    BY <1>1, <1>2, PTL DEF Spec

-----------------------------------------------------------------------------
(* The powers in use are positive and ordered as their exponents. *)
LEMMA PowersInUse ==
  ASSUME NEW i \in 0 .. Top
  PROVE  /\ Pow(i) \in Nat /\ Pow(i) > 0 /\ Pow(i + 1) = 2 * Pow(i)
         /\ \A j \in 0 .. Top : i <= j => Pow(i) <= Pow(j)
  BY Powers, PowersPositive, PowersGrow

(* The widths in terms of the largest exponent. *)
LEMMA Widths ==
  /\ F \in Nat /\ X \in Nat /\ FS \in Nat /\ XS \in Nat /\ G \in Nat /\ WB \in Nat /\ FAR \in Nat
  /\ IB \in Nat /\ Pow(X) \in Nat /\ Top \in Nat /\ Top = 2 * Pow(X) + 4 * F
  /\ FS > 0 /\ F > FS /\ XS > 1 /\ X > XS /\ G > 1 /\ WB >= F + G + 2 /\ FAR >= WB
  /\ IB > 1 /\ X + F < WB /\ WB <= Pow(X) /\ Pow(X) < 32767
  /\ Pow(XS - 1) + FS <= Pow(X - 1) /\ IB <= F + 1 /\ IB <= Pow(X - 1)
  <1>1. /\ F \in Nat /\ X \in Nat /\ FS \in Nat /\ XS \in Nat /\ G \in Nat /\ WB \in Nat
        /\ FAR \in Nat /\ IB \in Nat
        /\ FS > 0 /\ F > FS /\ XS > 1 /\ X > XS /\ G > 1 /\ WB >= F + G + 2 /\ FAR >= WB
        /\ IB > 1
    BY FormatAssumption
  <1>2. /\ X + F < WB /\ WB <= Pow(X) /\ Pow(X) < 32767
        /\ Pow(XS - 1) + FS <= Pow(X - 1) /\ IB <= F + 1 /\ IB <= Pow(X - 1)
    BY RangeAssumption DEF Pow
  <1>3. Pow(X) \in Nat /\ Top \in Nat /\ Top = 2 * Pow(X) + 4 * F
    BY Powers DEF Top
  <1> QED
    BY <1>1, <1>2, <1>3

(* Half of a power. *)
LEMMA PowersHalve ==
  ASSUME NEW i \in Nat, i > 0, i <= Top
  PROVE  /\ Pow(i - 1) \in Nat /\ Pow(i - 1) > 0 /\ Pow(i) = 2 * Pow(i - 1)
  <1>1. i - 1 \in 0 .. Top /\ (i - 1) + 1 = i
    BY Widths
  <1>2. Pow(i - 1) \in Nat /\ Pow(i - 1) > 0 /\ Pow((i - 1) + 1) = 2 * Pow(i - 1)
    BY <1>1, PowersInUse
  <1> QED
    BY <1>1, <1>2

(* An exponent is below its power. *)
LEMMA PowersExceed ==
  ASSUME NEW i \in 0 .. Top
  PROVE  i < Pow(i)
  <1> DEFINE bad == {e \in Nat : e <= Top /\ ~ (e < Pow(e))}
  <1> SUFFICES ASSUME bad # {} PROVE FALSE
    <2>1. i \in Nat /\ i <= Top
      BY Widths
    <2> QED
      BY <2>1
  <1>1. PICK m \in bad : \A e \in bad : m <= e
    BY LeastNumber
  <1>2. m # 0
    BY <1>1, Powers
  <1>3. m - 1 \in Nat /\ m - 1 <= Top /\ m - 1 \notin bad /\ Top \in Nat
    BY <1>1, <1>2, Widths
  <1>4. m - 1 < Pow(m - 1)
    BY <1>3
  <1>5. Pow(m - 1) \in Nat /\ Pow(m) = 2 * Pow(m - 1)
    BY <1>1, <1>2, PowersHalve
  <1> QED
    BY <1>1, <1>3, <1>4, <1>5

-----------------------------------------------------------------------------
(* df_msb finds the highest bit. *)
LEMMA HighestBit ==
  ASSUME NEW v \in Nat, v > 0, v < Pow(2 * WB + 1)
  PROVE  /\ df_msb(v) \in 0 .. 2 * WB
         /\ Pow(df_msb(v)) <= v /\ v < Pow(df_msb(v) + 1)
  <1> DEFINE above == {t \in Nat : t <= 2 * WB /\ v < Pow(t + 1)}
  <1>0. WB \in Nat /\ 2 * WB \in Nat /\ 2 * WB < Top /\ Top \in Nat
    BY Widths
  <1>1. 2 * WB \in above
    BY <1>0
  <1>2. PICK t \in above : \A e \in above : t <= e
    BY <1>1, LeastNumber
  <1>3. t \in 0 .. 2 * WB /\ v < Pow(t + 1)
    BY <1>0, <1>2
  <1>4. Pow(t) <= v
    <2>1. CASE t = 0
      BY <2>1, Powers
    <2>2. CASE t # 0
      <3>1. t - 1 \in Nat /\ t - 1 <= 2 * WB /\ t - 1 \notin above /\ (t - 1) + 1 = t
        BY <1>0, <1>2, <1>3, <2>2
      <3>2. ~ (v < Pow(t))
        BY <3>1
      <3>3. Pow(t) \in Nat
        BY <1>0, <1>3, PowersInUse
      <3> QED
        BY <3>2, <3>3
    <2> QED
      BY <2>1, <2>2
  <1>5. \E u \in 0 .. 2 * WB : Pow(u) <= v /\ v < Pow(u + 1)
    BY <1>3, <1>4
  <1> HIDE DEF above
  <1>6. df_msb(v) = CHOOSE u \in 0 .. 2 * WB : Pow(u) <= v /\ v < Pow(u + 1)
    <2>1. v # 0
      OBVIOUS
    <2> QED
      BY <2>1, Zenon DEF df_msb, Pow
  <1> QED
    BY <1>5, <1>6, Zenon

(* It is known by the powers around v. *)
LEMMA HighestBitIs ==
  ASSUME NEW v \in Nat, NEW t \in 0 .. 2 * WB, Pow(t) <= v, v < Pow(t + 1)
  PROVE  df_msb(v) = t
  <1> DEFINE u == df_msb(v)
  <1>0. WB \in Nat /\ 2 * WB \in Nat /\ 2 * WB + 1 \in 0 .. Top /\ Top \in Nat
    BY Widths
  <1>1. t \in 0 .. Top /\ t + 1 \in 0 .. Top /\ t + 1 <= 2 * WB + 1
    BY <1>0
  <1>2. Pow(t) \in Nat /\ Pow(t) > 0 /\ Pow(t + 1) \in Nat /\ Pow(t + 1) <= Pow(2 * WB + 1)
        /\ Pow(2 * WB + 1) \in Nat
    BY <1>0, <1>1, PowersInUse
  <1>3. v > 0 /\ v < Pow(2 * WB + 1)
    BY <1>2
  <1>4. u \in 0 .. 2 * WB /\ Pow(u) <= v /\ v < Pow(u + 1)
    BY <1>3, HighestBit
  <1> HIDE DEF u
  <1>5. u \in 0 .. Top /\ u + 1 \in 0 .. Top
    BY <1>0, <1>4
  <1>6. Pow(u) \in Nat /\ Pow(u + 1) \in Nat
    BY <1>5, PowersInUse
  <1>7. CASE u < t
    <2>1. u + 1 <= t
      BY <1>0, <1>4, <1>7
    <2>2. Pow(u + 1) <= Pow(t)
      BY <1>1, <1>5, <2>1, PowersInUse
    <2> QED
      BY <1>2, <1>4, <1>6, <2>2
  <1>8. CASE t < u
    <2>1. t + 1 <= u
      BY <1>0, <1>4, <1>8
    <2>2. Pow(t + 1) <= Pow(u)
      BY <1>1, <1>5, <2>1, PowersInUse
    <2> QED
      BY <1>2, <1>4, <1>6, <2>2
  <1>9. CASE u = t
    BY <1>9 DEF u
  <1> QED
    BY <1>0, <1>4, <1>7, <1>8, <1>9

-----------------------------------------------------------------------------
(* v is n / d cut to an integer, and s says whether anything was cut off. *)
IsCut(n, d, v, s) ==
  /\ n \in Nat /\ d \in Nat /\ d > 0 /\ v \in Nat /\ s \in {0, 1}
  /\ v * d <= n /\ n < (v + 1) * d
  /\ s = 0 <=> n = v * d

(* Products are ordered as their first factors are. *)
LEMMA ProductsOrder ==
  ASSUME NEW a \in Nat, NEW b \in Nat, NEW c \in Nat
  PROVE  /\ a * c \in Nat /\ b * c \in Nat
         /\ a <= b => a * c <= b * c
         /\ a < b /\ c > 0 => a * c < b * c
         /\ a * c < b * c => a < b
  OBVIOUS

(* A number and its lowest bit. *)
LEMMA Halved ==
  ASSUME NEW v \in Nat
  PROVE  v \div 2 \in Nat /\ v % 2 \in {0, 1} /\ v = 2 * (v \div 2) + (v % 2)
  BY Z3

(* A common factor changes nothing. *)
LEMMA CutReduced ==
  ASSUME NEW n \in Nat, NEW d \in Nat, NEW c \in Nat, c > 0, NEW v, NEW s, d > 0
  PROVE  IsCut(n * c, d * c, v, s) <=> IsCut(n, d, v, s)
  <1> SUFFICES ASSUME v \in Nat, s \in {0, 1}
               PROVE  IsCut(n * c, d * c, v, s) <=> IsCut(n, d, v, s)
    BY DEF IsCut
  <1>1. n * c \in Nat /\ d * c \in Nat /\ d * c > 0
    OBVIOUS
  <1> DEFINE a == v * d
             b == (v + 1) * d
  <1>2. v * (d * c) = a * c /\ (v + 1) * (d * c) = b * c /\ a \in Nat /\ b \in Nat
    OBVIOUS
  <1> HIDE DEF a, b
  <1>3. (a * c <= n * c) <=> (a <= n)
    BY <1>2
  <1>4. (n * c < b * c) <=> (n < b)
    BY <1>2
  <1>5. (n * c = a * c) <=> (n = a)
    BY <1>2
  <1> QED
    BY <1>1, <1>2, <1>3, <1>4, <1>5 DEF IsCut, a, b

(* Cutting off more: by a whole number of units. *)
LEMMA CutFurther ==
  ASSUME NEW n, NEW d, NEW v, NEW s, IsCut(n, d, v, s), NEW k \in Nat, k > 0
  PROVE  IsCut(n, d * k, v \div k, Bit(s = 1 \/ v % k # 0))
  <1> DEFINE c == v \div k
             r == v % k
             t == Bit(s = 1 \/ r # 0)
  <1>0. /\ n \in Nat /\ d \in Nat /\ d > 0 /\ v \in Nat /\ s \in {0, 1}
        /\ v * d <= n /\ n < (v + 1) * d /\ (s = 0 <=> n = v * d)
    BY DEF IsCut
  <1>1. c \in Nat /\ r \in Nat /\ r < k /\ v = c * k + r
    BY <1>0, Divided
  <1>2. t \in {0, 1} /\ (t = 0 <=> s = 0 /\ r = 0)
    BY <1>0 DEF Bit
  <1> HIDE DEF c, r, t
  <1> DEFINE a == c * (d * k)
             e == r * d
             z == d * k
  <1>3. v * d = a + e /\ a \in Nat /\ e \in Nat
    <2>1. (c * k + r) * d = (c * k) * d + r * d /\ (c * k) * d = c * (d * k)
      BY <1>0, <1>1
    <2> QED
      BY <1>0, <1>1, <2>1
  <1>4. (v + 1) * d = v * d + d /\ (c + 1) * (d * k) = a + z /\ z \in Nat /\ z > 0
    BY <1>0, <1>1
  <1>5. e + d <= z
    <2>1. (r + 1) * d <= k * d /\ (r + 1) * d = r * d + d /\ k * d = d * k
      BY <1>0, <1>1
    <2> QED
      BY <1>0, <1>1, <2>1
  <1>6. e = 0 <=> r = 0
    BY <1>0, <1>1
  <1>7. z = d * k /\ a = c * z
    OBVIOUS
  <1> HIDE DEF a, e, z
  <1>8. a <= n /\ n < a + z
    BY <1>0, <1>3, <1>4, <1>5
  <1>9. t = 0 <=> n = a
    BY <1>0, <1>2, <1>3, <1>6
  <1>10. (c + 1) * z = a + z
    BY <1>4, <1>7
  <1>11. IsCut(n, z, c, t)
    BY <1>0, <1>1, <1>2, <1>4, <1>7, <1>8, <1>9, <1>10 DEF IsCut
  <1> QED
    BY <1>7, <1>11 DEF c, t, r

(* Cut takes n bits off a number that is itself cut, and keeps the highest *)
(* of them apart.                                                          *)
LEMMA CutKeepsGuard ==
  ASSUME NEW a, NEW d, NEW q, NEW s, IsCut(a, d, q, s), NEW n \in Nat, n > 0, n <= Top
  PROVE  LET c == Cut(q, n, s)
         IN  /\ c.q \in Nat /\ c.g \in {0, 1} /\ c.s \in {0, 1} /\ c.q = q \div Pow(n)
             /\ IsCut(a, d * Pow(n - 1), 2 * c.q + c.g, c.s)
  <1> DEFINE p == Pow(n - 1)
             c == Cut(q, n, s)
             h == q \div p
  <1>0. q \in Nat /\ s \in {0, 1}
    BY DEF IsCut
  <1>1. p \in Nat /\ p > 0 /\ Pow(n) = 2 * p
    BY PowersHalve
  <1>2. c.q = q \div Pow(n) /\ c.g = h % 2 /\ c.s = Bit(s = 1 \/ q % p # 0)
    BY DEF Cut, Pow
  <1> HIDE DEF p, c
  <1>3. IsCut(a, d * p, h, Bit(s = 1 \/ q % p # 0))
    BY <1>1, CutFurther
  <1>4. h \in Nat /\ q % p \in Nat /\ q % p < p /\ q = h * p + (q % p)
    BY <1>0, <1>1, Divided
  <1>5. h \div 2 \in Nat /\ h % 2 \in {0, 1} /\ h = 2 * (h \div 2) + (h % 2)
    BY <1>4, Halved
  <1>6. q \div (2 * p) = h \div 2
    <2> DEFINE u == h \div 2
               w == h % 2
               r == q % p
    <2>1. u \in Nat /\ w \in {0, 1} /\ h = 2 * u + w /\ r \in Nat /\ r < p /\ q = h * p + r
      BY <1>4, <1>5
    <2> HIDE DEF u, w, r, h
    <2>2. (2 * u + w) * p = u * (2 * p) + w * p /\ w * p \in Nat /\ w * p <= p
      BY <1>1, <2>1
    <2>3. q = u * (2 * p) + (w * p + r)
      BY <1>1, <2>1, <2>2
    <2>4. w * p + r \in Nat /\ w * p + r < 2 * p /\ 2 * p \in Nat /\ 2 * p > 0
      BY <1>1, <2>1, <2>2
    <2>5. (u * (2 * p) + (w * p + r)) \div (2 * p) = u
      BY <2>1, <2>4, DividedUnique
    <2> QED
      BY <2>3, <2>5 DEF u
  <1>7. c.q = h \div 2 /\ 2 * c.q + c.g = h
    BY <1>1, <1>2, <1>5, <1>6
  <1>8. Bit(s = 1 \/ q % p # 0) \in {0, 1}
    BY DEF Bit
  <1> QED
    BY <1>2, <1>3, <1>5, <1>7, <1>8 DEF p, c

-----------------------------------------------------------------------------
(* The pattern m, of f fraction bits, stands for q * 2^E. *)
Placed(m, f, E, q) ==
  /\ f \in Nat /\ f > 0 /\ f < Top /\ E \in Nat /\ E < Top /\ q \in Nat
  /\ q < 2 * Pow(f) /\ (E = 0 \/ q >= Pow(f))
  /\ m = E * Pow(f) + q

(* The magnitude of a pattern with these parts, and with q one past them. *)
LEMMA AmountAt ==
  ASSUME NEW f \in Nat, f < Top, NEW E \in Nat, E < Top, NEW q \in Nat, q <= 2 * Pow(f),
         E = 0 \/ q >= Pow(f)
  PROVE  Amount(E * Pow(f) + q, f) = q * Pow(E)
  <1> DEFINE p == Pow(f)
             e == Pow(E)
             m == E * p + q
  <1>0. f \in 0 .. Top /\ E \in 0 .. Top /\ Top \in Nat
    BY Widths
  <1>1. p \in Nat /\ p > 0 /\ e \in Nat /\ e > 0 /\ Pow(E + 1) = 2 * e
    BY <1>0, PowersInUse
  <1>2. Amount(m, f) = IF m < p THEN m ELSE ((m % p) + p) * Pow((m \div p) - 1)
    BY DEF Amount, Pow
  <1>3. q \in Nat /\ q <= 2 * p /\ (E = 0 \/ q >= p) /\ m = E * p + q
    OBVIOUS
  <1> HIDE DEF p, e, m
  <1>4. E * p \in Nat /\ m \in Nat
    BY <1>1, <1>3
  <1>5. CASE q < p
    <2>1. E = 0 /\ E * p = 0
      BY <1>1, <1>3, <1>5
    <2>2. Amount(m, f) = q
      BY <1>1, <1>2, <1>3, <1>5, <2>1
    <2>3. e = 1
      BY <2>1, Powers DEF e
    <2>4. q * e = q
      BY <2>3
    <2> QED
      BY <2>2, <2>4 DEF e, m, p
  <1>6. CASE q >= p /\ q < 2 * p
    <2>1. m = (E + 1) * p + (q - p) /\ q - p \in Nat /\ q - p < p /\ E + 1 \in Nat
      BY <1>1, <1>3, <1>6
    <2>2. m \div p = E + 1 /\ m % p = q - p
      BY <1>1, <2>1, DividedUnique
    <2>3. ~ (m < p)
      BY <1>1, <1>3, <1>4, <1>6
    <2>4. (m % p) + p = q /\ (m \div p) - 1 = E
      BY <1>1, <2>2
    <2>5. Amount(m, f) = q * e
      BY <1>2, <2>3, <2>4 DEF e
    <2> QED
      BY <2>5 DEF e, m, p
  <1>7. CASE q = 2 * p
    <2>1. m = (E + 2) * p + 0 /\ E + 2 \in Nat
      BY <1>1, <1>3, <1>7
    <2>2. m \div p = E + 2 /\ m % p = 0
      BY <1>1, <2>1, DividedUnique
    <2>3. ~ (m < p)
      BY <1>1, <1>3, <1>4, <1>7
    <2>4. (m % p) + p = p /\ (m \div p) - 1 = E + 1
      BY <1>1, <2>2
    <2>5. Amount(m, f) = p * Pow(E + 1)
      BY <1>2, <2>3, <2>4
    <2>6. p * (2 * e) = (2 * p) * e
      BY <1>1
    <2>7. Amount(m, f) = q * e
      BY <1>1, <1>7, <2>5, <2>6
    <2> QED
      BY <2>7 DEF e, m, p
  <1> QED
    BY <1>1, <1>3, <1>5, <1>6, <1>7

(* From one pattern to the next, and the lowest bit of either. *)
LEMMA AmountStep ==
  ASSUME NEW m, NEW f, NEW E, NEW q, Placed(m, f, E, q)
  PROVE  /\ m \in Nat /\ E \in Nat /\ q \in Nat /\ Pow(E) \in Nat /\ Pow(E) > 0
         /\ Amount(m, f) = q * Pow(E) /\ Amount(m + 1, f) = (q + 1) * Pow(E)
         /\ Amount(m, f) \in Nat /\ Amount(m + 1, f) \in Nat /\ Amount(m, f) < Amount(m + 1, f)
         /\ m % 2 = q % 2
  <1> DEFINE p == Pow(f)
             e == Pow(E)
             k == Pow(f - 1)
  <1>0. /\ f \in Nat /\ f > 0 /\ f < Top /\ E \in Nat /\ E < Top /\ q \in Nat
        /\ q < 2 * p /\ (E = 0 \/ q >= p) /\ m = E * p + q /\ Top \in Nat
    BY Widths DEF Placed
  <1>1. /\ p \in Nat /\ p > 0 /\ e \in Nat /\ e > 0 /\ k \in Nat
        /\ p = 2 * k
    <2>1. f \in 0 .. Top /\ E \in 0 .. Top /\ f <= Top
      BY <1>0
    <2> QED
      BY <1>0, <2>1, PowersInUse, PowersHalve
  <1>2. Amount(E * p + q, f) = q * e
    BY <1>0, <1>1, AmountAt
  <1>3. q + 1 \in Nat /\ q + 1 <= 2 * p /\ (E = 0 \/ q + 1 >= p)
    BY <1>0, <1>1
  <1>4. Amount(E * p + (q + 1), f) = (q + 1) * e
    BY <1>0, <1>3, AmountAt
  <1> HIDE DEF p, e, k
  <1>5. E * p + (q + 1) = m + 1 /\ m \in Nat
    <2>1. E * p \in Nat
      BY <1>0, <1>1
    <2> QED
      BY <1>0, <2>1
  <1>6. m % 2 = q % 2
    <2> DEFINE h == E * k
               u == q \div 2
               w == q % 2
    <2>1. h \in Nat /\ E * p = 2 * h
      BY <1>0, <1>1
    <2>2. u \in Nat /\ w \in {0, 1} /\ q = 2 * u + w
      BY <1>0, Halved
    <2> HIDE DEF h, u, w
    <2>3. m = (h + u) * 2 + w /\ h + u \in Nat /\ w \in Nat /\ w < 2
      BY <1>0, <2>1, <2>2
    <2>4. m % 2 = w
      BY <2>3, DividedUnique
    <2> QED
      BY <2>4 DEF w
  <1>7. q * e \in Nat /\ (q + 1) * e = q * e + e
    BY <1>0, <1>1
  <1>8. Amount(m, f) = q * e /\ Amount(m + 1, f) = (q + 1) * e
    BY <1>0, <1>2, <1>4, <1>5
  <1>9. Amount(m, f) < Amount(m + 1, f) /\ Amount(m, f) \in Nat /\ Amount(m + 1, f) \in Nat
    BY <1>1, <1>7, <1>8
  <1> QED
    BY <1>0, <1>1, <1>5, <1>6, <1>8, <1>9 DEF e

(* Every pattern in use has such parts. *)
LEMMA PlaceOf ==
  ASSUME NEW f \in Nat, f > 0, f < Top, NEW m \in Nat, m < Top * Pow(f)
  PROVE  \E E, q \in Nat : Placed(m, f, E, q)
  <1> DEFINE p == Pow(f)
             c == m \div p
             r == m % p
  <1>0. Top \in Nat /\ f \in 0 .. Top
    BY Widths
  <1>1. p \in Nat /\ p > 0
    BY <1>0, PowersInUse
  <1>2. c \in Nat /\ r \in Nat /\ r < p /\ m = c * p + r /\ c < Top
    BY <1>0, <1>1, Divided, QuotientBounds
  <1> HIDE DEF p, c, r
  <1>3. CASE c = 0
    <2>1. m = 0 * p + r
      BY <1>1, <1>2, <1>3
    <2>2. r < 2 * p /\ 0 \in Nat /\ 0 < Top
      BY <1>0, <1>1, <1>2
    <2>3. Placed(m, f, 0, r)
      BY <1>2, <2>1, <2>2 DEF Placed, p
    <2> QED
      BY <1>2, <2>3
  <1>4. CASE c # 0
    <2> DEFINE e == c - 1
               q == r + p
    <2>1. e \in Nat /\ e < Top /\ q \in Nat /\ q < 2 * p /\ q >= p
      BY <1>0, <1>1, <1>2, <1>4
    <2>2. m = e * p + q
      BY <1>1, <1>2, <2>1
    <2> HIDE DEF e, q
    <2>3. Placed(m, f, e, q)
      BY <2>1, <2>2 DEF Placed, p
    <2> QED
      BY <2>1, <2>3
  <1> QED
    BY <1>3, <1>4

(* So each stands for more than the one before. *)
LEMMA AmountNext ==
  ASSUME NEW f \in Nat, f > 0, f < Top, NEW m \in Nat, m < Top * Pow(f)
  PROVE  Amount(m, f) \in Nat /\ Amount(m + 1, f) \in Nat /\ Amount(m, f) < Amount(m + 1, f)
  <1>1. PICK E \in Nat, q \in Nat : Placed(m, f, E, q)
    BY PlaceOf
  <1> QED
    BY <1>1, AmountStep

(* The numbers that neighbouring patterns stand for. *)
Neighbours(a, b, q, e) == a = q * e /\ b = (q + 1) * e

(* The bits g and s below q say how much of num / den is above q * e. *)
Below(num, den, e, q, g, s) == g \in {0, 1} /\ IsCut(2 * num, den * e, 2 * q + g, s)

(* num / den is between a and b, on the side of the middle that g and s    *)
(* say.                                                                    *)
Between(a, b, num, den, g, s) ==
  /\ g \in {0, 1} /\ s \in {0, 1}
  /\ (a + b) * den \in Nat /\ a * den \in Nat /\ b * den \in Nat
  /\ a * den <= num /\ num < b * den
  /\ g = 0 => 2 * num < (a + b) * den
  /\ g = 1 => (a + b) * den <= 2 * num
  /\ g = 1 /\ s = 1 => (a + b) * den < 2 * num
  /\ g = 1 /\ s = 0 => (a + b) * den = 2 * num

(* Where num / den lies between the numbers a and b that two neighbouring  *)
(* patterns stand for, from the bits that num / den is cut to.             *)
LEMMA BetweenNeighbours ==
  ASSUME NEW q \in Nat, NEW e \in Nat, e > 0, NEW num \in Nat, NEW den \in Nat, den > 0,
         NEW g, NEW s, Below(num, den, e, q, g, s),
         NEW a, NEW b, Neighbours(a, b, q, e)
  PROVE  Between(a, b, num, den, g, s)
  <1> DEFINE z == den * e
             c == q * z
  <1>0. g \in {0, 1} /\ IsCut(2 * num, den * e, 2 * q + g, s)
    BY DEF Below
  <1> USE DEF Neighbours
  <1>1. z \in Nat /\ z > 0 /\ c \in Nat
    OBVIOUS
  <1>2. s \in {0, 1} /\ (2 * q + g) * z <= 2 * num /\ 2 * num < (2 * q + g + 1) * z
        /\ (s = 0 <=> 2 * num = (2 * q + g) * z)
    BY <1>0 DEF IsCut
  <1>3. a * den = c /\ b * den = c + z /\ (a + b) * den = 2 * c + z
    <2>1. (q * e) * den = q * (den * e) /\ ((q + 1) * e) * den = q * (den * e) + den * e
      OBVIOUS
    <2>2. a \in Nat /\ b \in Nat /\ (a + b) * den = a * den + b * den
      OBVIOUS
    <2> QED
      BY <2>1, <2>2
  <1>4. /\ g = 0 => (2 * q + g) * z = 2 * c /\ (2 * q + g + 1) * z = 2 * c + z
        /\ g = 1 => (2 * q + g) * z = 2 * c + z /\ (2 * q + g + 1) * z = 2 * c + 2 * z
    <2>1. (2 * q) * z = 2 * c /\ (2 * q + 1) * z = 2 * c + z /\ (2 * q + 2) * z = 2 * c + 2 * z
      BY <1>1
    <2>2. g = 0 => 2 * q + g = 2 * q /\ 2 * q + g + 1 = 2 * q + 1
      BY <1>0
    <2>3. g = 1 => 2 * q + g = 2 * q + 1 /\ 2 * q + g + 1 = 2 * q + 2
      BY <1>0
    <2> QED
      BY <2>1, <2>2, <2>3
  <1> HIDE DEF z, c
  <1> QED
    BY <1>0, <1>1, <1>2, <1>3, <1>4 DEF Between

-----------------------------------------------------------------------------
(* The finite patterns and infinity. *)
LEMMA Patterns ==
  /\ F < Top /\ F + 1 < Top /\ D_IMPL = Pow(F) /\ D_IMPL \in Nat /\ D_IMPL > 0
  /\ D_EXP \in Nat /\ D_SIGN \in Nat /\ D_EXP < D_SIGN
  /\ D_EXP = (Pow(X) - 1) * D_IMPL /\ D_EXP < Top * Pow(F) /\ Pow(X) > 3 /\ Pow(X) \in Nat
  /\ D_BIAS = Pow(X - 1) - 1 /\ D_BIAS \in Nat /\ D_BIAS > 0 /\ Pow(X) = 2 * D_BIAS + 2
  <1>0. /\ F \in Nat /\ Top \in Nat /\ Pow(X) \in Nat /\ Top = 2 * Pow(X) + 4 * F /\ X + F < Pow(X)
        /\ X \in Nat /\ X > 2 /\ X \in 0 .. Top /\ F > 1
    BY Widths
  <1>1. D_IMPL = Pow(F) /\ D_BIAS = Pow(X - 1) - 1
    BY DEF D_IMPL, D_BIAS, Pow
  <1>2. /\ D_IMPL \in Nat /\ D_IMPL > 0 /\ D_EXP \in Nat /\ D_SIGN \in Nat /\ D_EXP < D_SIGN
        /\ D_EXP = (Pow(X) - 1) * D_IMPL
    BY Format
  <1>3. X < Pow(X)
    BY <1>0
  <1>4. Pow(X - 1) \in Nat /\ Pow(X) = 2 * Pow(X - 1)
    BY <1>0, PowersHalve
  <1>5. D_EXP < Top * Pow(F)
    <2>1. Pow(X) - 1 \in Nat /\ Pow(X) - 1 < Top
      BY <1>0, <1>3
    <2>2. (Pow(X) - 1) * D_IMPL < Top * D_IMPL
      BY <1>0, <1>2, <2>1, ProductsOrder
    <2> QED
      BY <1>1, <1>2, <2>2
  <1> QED
    BY <1>0, <1>1, <1>2, <1>3, <1>4, <1>5

(* What a double's pattern stands for, and that the next one stands for    *)
(* more.                                                                   *)
LEMMA PatternAmount ==
  ASSUME NEW m \in Nat, m <= D_EXP
  PROVE  DoubleAmount(m) = Amount(m, F) /\ Amount(m, F) \in Nat
         /\ (m < D_EXP => Amount(m, F) < Amount(m + 1, F))
  <1>1. m < D_SIGN /\ D_SIGN \in Nat /\ D_SIGN > 0 /\ m < Top * Pow(F) /\ F \in Nat /\ F > 0 /\ F < Top
    <2>1. Top * Pow(F) \in Nat
      BY Widths, Patterns
    <2> QED
      BY <2>1, Patterns, Widths
  <1>2. m % D_SIGN = m
    BY <1>1
  <1>3. Amount(m, F) \in Nat /\ Amount(m, F) < Amount(m + 1, F)
    BY <1>1, AmountNext
  <1> QED
    BY <1>2, <1>3 DEF DoubleAmount

(* A sign and a pattern. *)
LEMMA SignedPattern ==
  ASSUME NEW sign \in {0, 1}, NEW n \in Nat, n < D_SIGN
  PROVE  LET v == Signed(sign) + n
         IN  v \in Double /\ v % D_SIGN = n /\ (Negative(v) <=> sign = 1)
  <1>0. D_SIGN \in Nat /\ D_SIGN > 0
    BY Format
  <1>1. CASE sign = 0
    <2>1. Signed(sign) + n = n
      BY <1>0, <1>1 DEF Signed
    <2>2. n % D_SIGN = n
      BY <1>0
    <2> QED
      BY <1>0, <1>1, <2>1, <2>2 DEF Double, Negative
  <1>2. CASE sign = 1
    <2>1. Signed(sign) + n = 1 * D_SIGN + n
      BY <1>0, <1>2 DEF Signed
    <2>2. (1 * D_SIGN + n) % D_SIGN = n
      BY <1>0, DividedUnique
    <2> QED
      BY <1>0, <1>2, <2>1, <2>2 DEF Double, Negative
  <1> QED
    BY <1>1, <1>2

(* r is num / den, with this sign, rounded to nearest even. *)
Rounds(r, sign, num, den) ==
  /\ r \in Double /\ r % D_SIGN <= D_EXP /\ (Negative(r) <=> sign = 1)
  /\ RoundedDouble(r, num, den)

(* What IsNearest asks of the middles, with the numbers that patterns      *)
(* stand for.                                                              *)
LEMMA NearestPattern ==
  ASSUME NEW r, NEW m \in Nat, r % D_SIGN = m, m <= D_EXP, NEW num, NEW den,
         \A k \in Nat : m = k + 1 =>
           LET middle == (Amount(k, F) + Amount(m, F)) * den
           IN  middle <= 2 * num /\ (middle < 2 * num \/ m % 2 = 0),
         m < D_EXP =>
           LET middle == (Amount(m, F) + Amount(m + 1, F)) * den
           IN  2 * num <= middle /\ (2 * num < middle \/ m % 2 = 0)
  PROVE  RoundedDouble(r, num, den)
  <1>0. D_EXP \in Nat
    BY Patterns
  <1>1. DoubleAmount(m) = Amount(m, F)
    BY PatternAmount
  <1>2. ASSUME m > 0
        PROVE  /\ (DoubleAmount(m - 1) + DoubleAmount(m - 1 + 1)) * den <= 2 * num
               /\ \/ (DoubleAmount(m - 1) + DoubleAmount(m - 1 + 1)) * den < 2 * num
                  \/ m % 2 = 0
    <2>1. m - 1 \in Nat /\ m = (m - 1) + 1 /\ m - 1 <= D_EXP
      BY <1>0, <1>2
    <2>2. DoubleAmount(m - 1) = Amount(m - 1, F) /\ DoubleAmount(m - 1 + 1) = Amount(m, F)
      BY <1>1, <2>1, PatternAmount
    <2> QED
      BY <2>1, <2>2
  <1>3. ASSUME m < D_EXP
        PROVE  /\ 2 * num <= (DoubleAmount(m) + DoubleAmount(m + 1)) * den
               /\ \/ 2 * num < (DoubleAmount(m) + DoubleAmount(m + 1)) * den
                  \/ m % 2 = 0
    <2>1. m + 1 \in Nat /\ m + 1 <= D_EXP
      BY <1>0, <1>3
    <2>2. DoubleAmount(m + 1) = Amount(m + 1, F)
      BY <2>1, PatternAmount
    <2> QED
      BY <1>1, <1>3, <2>2
  <1> QED
    BY <1>2, <1>3 DEF RoundedDouble, IsNearest

(* The pattern m rounded up or not, as the bits say. *)
LEMMA RoundedIsNearest ==
  ASSUME NEW m, NEW E, NEW q, Placed(m, F, E, q),
         NEW num \in Nat, NEW den \in Nat, den > 0, NEW g, NEW s,
         Below(num, den, Pow(E), q, g, s),
         NEW up, up = Bit(RoundsUp(q, g, s)), m + up <= D_EXP,
         NEW r, r % D_SIGN = m + up
  PROVE  RoundedDouble(r, num, den)
  <1> DEFINE a == Amount(m, F)
             b == Amount(m + 1, F)
  <1>0. D_EXP \in Nat
    BY Patterns
  <1>1. /\ m \in Nat /\ q \in Nat /\ Pow(E) \in Nat /\ Pow(E) > 0 /\ m % 2 = q % 2
        /\ a = q * Pow(E) /\ b = (q + 1) * Pow(E) /\ a \in Nat /\ b \in Nat /\ a < b
    BY AmountStep
  <1>2. /\ s \in {0, 1} /\ (a + b) * den \in Nat /\ a * den \in Nat /\ b * den \in Nat
        /\ a * den <= num /\ num < b * den
        /\ g = 0 => 2 * num < (a + b) * den
        /\ g = 1 => (a + b) * den <= 2 * num
        /\ g = 1 /\ s = 1 => (a + b) * den < 2 * num
        /\ g = 1 /\ s = 0 => (a + b) * den = 2 * num
    <2>1. Neighbours(a, b, q, Pow(E))
      BY <1>1 DEF Neighbours
    <2>2. q \in Nat /\ Pow(E) \in Nat /\ Pow(E) > 0
      BY <1>1
    <2> HIDE DEF a, b
    <2>3. Between(a, b, num, den, g, s)
      BY <2>1, <2>2, BetweenNeighbours, Zenon
    <2> QED
      BY <2>3 DEF Between
  <1>3. q % 2 \in {0, 1} /\ g \in {0, 1}
    BY <1>1, Halved DEF Below
  <1>4. CASE ~ RoundsUp(q, g, s)
    <2>1. up = 0 /\ m + up = m
      BY <1>1, <1>4 DEF Bit
    <2>2. g = 0 \/ (g = 1 /\ s = 0 /\ q % 2 = 0)
      BY <1>2, <1>3, <1>4 DEF RoundsUp
    <2>3. ASSUME NEW k \in Nat, m = k + 1
          PROVE  (Amount(k, F) + a) * den < 2 * num /\ (Amount(k, F) + a) * den \in Nat
      <3> DEFINE c == Amount(k, F)
      <3>1. c \in Nat /\ c < a
        <4>1. k <= D_EXP /\ k < D_EXP
          BY <1>0, <2>1, <2>3
        <4> QED
          BY <2>3, <4>1, PatternAmount
      <3> HIDE DEF c, a, b
      <3>2. (c + a) * den < (2 * a) * den /\ (2 * a) * den = 2 * (a * den)
            /\ (c + a) * den \in Nat
        BY <1>1, <3>1
      <3>3. (c + a) * den < 2 * num
        BY <1>2, <3>2
      <3> QED
        BY <3>2, <3>3 DEF c
    <2>4. 2 * num <= (a + b) * den /\ (2 * num < (a + b) * den \/ m % 2 = 0)
      <3> HIDE DEF a, b
      <3> QED
        BY <1>1, <1>2, <2>2
    <2>5. m <= D_EXP /\ r % D_SIGN = m
      BY <2>1
    <2>6. \A k \in Nat : m = k + 1 => (Amount(k, F) + a) * den <= 2 * num
                                       /\ (Amount(k, F) + a) * den < 2 * num
      BY <2>3
    <2> QED
      BY <1>1, <2>4, <2>5, <2>6, NearestPattern
  <1>5. CASE RoundsUp(q, g, s)
    <2> DEFINE n == m + 1
    <2>1. up = 1 /\ m + up = n /\ n \in Nat /\ n <= D_EXP /\ r % D_SIGN = n
      BY <1>1, <1>5 DEF Bit
    <2>2. g = 1 /\ (s = 1 \/ q % 2 = 1)
      BY <1>5 DEF RoundsUp
    <2>3. m % 2 = 1 => n % 2 = 0
      BY <1>1
    <2>4. (a + b) * den <= 2 * num /\ ((a + b) * den < 2 * num \/ n % 2 = 0)
      <3> HIDE DEF a, b, n
      <3> QED
        BY <1>1, <1>2, <1>3, <2>2, <2>3
    <2>5. \A k \in Nat : n = k + 1 => k = m
      BY <1>1
    <2>6. ASSUME n < D_EXP
          PROVE  2 * num < (b + Amount(n + 1, F)) * den /\ (b + Amount(n + 1, F)) * den \in Nat
      <3> DEFINE c == Amount(n + 1, F)
      <3>1. c \in Nat /\ b < c
        <4>1. n + 1 \in Nat /\ n + 1 <= D_EXP
          BY <1>0, <2>1, <2>6
        <4> QED
          BY <2>1, <2>6, <4>1, PatternAmount
      <3> HIDE DEF c, a, b
      <3>2. (2 * b) * den < (b + c) * den /\ (2 * b) * den = 2 * (b * den)
            /\ (b + c) * den \in Nat
        BY <1>1, <3>1
      <3>3. 2 * num < (b + c) * den
        BY <1>2, <3>2
      <3> QED
        BY <3>2, <3>3 DEF c
    <2>7. Amount(n, F) = b
      OBVIOUS
    <2>8. \A k \in Nat : n = k + 1 =>
            (Amount(k, F) + Amount(n, F)) * den <= 2 * num
            /\ ((Amount(k, F) + Amount(n, F)) * den < 2 * num \/ n % 2 = 0)
      BY <2>4, <2>5, <2>7
    <2>9. n < D_EXP => 2 * num <= (Amount(n, F) + Amount(n + 1, F)) * den
                       /\ 2 * num < (Amount(n, F) + Amount(n + 1, F)) * den
      BY <2>6, <2>7
    <2> HIDE DEF n
    <2> QED
      BY <2>1, <2>8, <2>9, NearestPattern
  <1> QED
    BY <1>4, <1>5

(* Infinity, for what is not below the power of two it stands for. *)
LEMMA OverflowIsNearest ==
  ASSUME NEW num \in Nat, NEW den \in Nat, den > 0, Amount(D_EXP, F) * den <= num,
         NEW r, r % D_SIGN = D_EXP
  PROVE  RoundedDouble(r, num, den)
  <1> DEFINE a == Amount(D_EXP, F)
  <1>0. D_EXP \in Nat
    BY Patterns
  <1>1. a \in Nat
    BY <1>0, PatternAmount
  <1>2. ASSUME NEW k \in Nat, D_EXP = k + 1
        PROVE  (Amount(k, F) + a) * den < 2 * num /\ (Amount(k, F) + a) * den \in Nat
    <2> DEFINE c == Amount(k, F)
    <2>1. c \in Nat /\ c < a
      <3>1. k <= D_EXP /\ k < D_EXP
        BY <1>0, <1>2
      <3> QED
        BY <1>2, <3>1, PatternAmount
    <2>2. a * den <= num
      OBVIOUS
    <2> HIDE DEF c, a
    <2>3. (c + a) * den < (2 * a) * den /\ (2 * a) * den = 2 * (a * den)
          /\ (c + a) * den \in Nat /\ a * den \in Nat
      BY <1>1, <2>1
    <2>4. (c + a) * den < 2 * num
      BY <2>2, <2>3
    <2> QED
      BY <2>3, <2>4 DEF c
  <1>3. \A k \in Nat : D_EXP = k + 1 => (Amount(k, F) + a) * den <= 2 * num
                                         /\ (Amount(k, F) + a) * den < 2 * num
    BY <1>2
  <1>4. ~ (D_EXP < D_EXP) /\ D_EXP <= D_EXP
    BY <1>0
  <1> QED
    BY <1>0, <1>3, <1>4, NearestPattern

-----------------------------------------------------------------------------
(* The exponent of the smallest subnormal number. *)
Lowest == 1 - D_BIAS - F

(* 2^e is 2^i / 2^j of the smallest subnormal numbers. *)
Scaled(e, i, j) ==
  /\ e \in Int /\ i \in Nat /\ i < Top /\ j \in Nat /\ j <= Top /\ e - Lowest = i - j

(* num / den in units of 2^i / 2^j, cut to the integer v. *)
Units(num, den, i, j, v, s) ==
  /\ num \in Nat /\ den \in Nat /\ den > 0
  /\ IsCut(num * Pow(j), den * Pow(i), v, s)

(* The arguments of df_pack: a significand and what is below it. *)
Packs(num, den, i, j, q, g, s) ==
  /\ q \in Nat /\ D_IMPL <= q /\ q < 2 * D_IMPL /\ g \in {0, 1} /\ s \in {0, 1}
  /\ num \in Nat /\ Units(2 * num, den, i, j, 2 * q + g, s)

(* What df_pack returns above the subnormal range. *)
PackedNormal(sign, e, up) ==
  LET carry == Bit(up = 2 * D_IMPL)
      exp == e + carry
      rounded == IF up = 2 * D_IMPL THEN D_IMPL ELSE up
  IN  IF Overflows(exp) THEN Signed(sign) + D_EXP
      ELSE Signed(sign) + (exp + D_BIAS + F) * D_IMPL + (rounded % D_IMPL)

(* df_pack above the subnormal range. *)
LEMMA PackNormalIs ==
  ASSUME NEW sign, NEW e \in Int, NEW q, NEW g, NEW s, e >= Lowest
  PROVE  df_pack(sign, e, q, g, s) = PackedNormal(sign, e, q + Bit(RoundsUp(q, g, s)))
  <1>1. Lowest \in Int
    BY Widths, Patterns DEF Lowest
  <1>2. ~ (e < Lowest)
    BY <1>1
  <1>3. ~ (e < 1 - D_BIAS - F)
    BY <1>2 DEF Lowest
  <1> QED
    BY <1>3, Zenon DEF df_pack, PackedNormal

(* The result is the pattern of the rounded significand, or infinity. *)
LEMMA PackedNormalIs ==
  ASSUME NEW sign \in {0, 1}, NEW E \in Nat, NEW up \in Nat, D_IMPL <= up, up <= 2 * D_IMPL
  PROVE  PackedNormal(sign, E + Lowest, up) =
           Signed(sign) + (IF E * D_IMPL + up >= D_EXP THEN D_EXP ELSE E * D_IMPL + up)
  <1> DEFINE p == D_IMPL
             n == Pow(X)
             m == E * p + up
             e == E + Lowest
             carry == Bit(up = 2 * p)
             rounded == IF up = 2 * p THEN p ELSE up
  <1>0. /\ p \in Nat /\ p > 0 /\ n \in Nat /\ n > 3 /\ D_EXP = (n - 1) * p /\ D_BIAS \in Nat /\ F \in Nat
        /\ Lowest = 1 - D_BIAS - F /\ 2 ^ X = n
    BY Patterns, Widths DEF Lowest, Pow
  <1>1. PackedNormal(sign, e, up) =
          IF Overflows(e + carry) THEN Signed(sign) + D_EXP
          ELSE Signed(sign) + (e + carry + D_BIAS + F) * p + (rounded % p)
    BY DEF PackedNormal
  <1>2. Overflows(e + carry) <=> e + carry > n - 2 - D_BIAS - F
    BY <1>0 DEF Overflows
  <1>3. Signed(sign) \in Nat
    <2>1. D_SIGN \in Nat
      BY Patterns
    <2> QED
      BY <2>1 DEF Signed
  <1>4. CASE up = 2 * p
    <2>1. carry = 1 /\ rounded = p /\ p % p = 0
      BY <1>0, <1>4 DEF Bit
    <2>2. e + 1 + D_BIAS + F = E + 2 /\ (E + 2) * p = m
      BY <1>0, <1>4
    <2>3. Overflows(e + carry) <=> E + 2 > n - 2
      BY <1>0, <1>2, <2>1
    <2>4. CASE E + 2 > n - 2
      <3>1. (E + 2) * p >= (n - 1) * p
        BY <1>0, <2>4
      <3> QED
        BY <1>0, <1>1, <2>2, <2>3, <2>4, <3>1
    <2>5. CASE ~ (E + 2 > n - 2)
      <3>1. E + 2 < n - 1 /\ E + 2 \in Nat /\ n - 1 \in Nat
        BY <1>0, <2>5
      <3>2. (E + 2) * p < (n - 1) * p /\ (E + 2) * p \in Nat /\ (n - 1) * p \in Nat
        BY <1>0, <3>1
      <3>3. PackedNormal(sign, e, up) = Signed(sign) + m
        <4>1. PackedNormal(sign, e, up) = Signed(sign) + (E + 2) * p + 0
          BY <1>1, <2>1, <2>2, <2>3, <2>5
        <4> HIDE DEF m
        <4> QED
          BY <1>3, <2>2, <3>2, <4>1
      <3>4. ~ (m >= D_EXP)
        BY <1>0, <2>2, <3>2
      <3> QED
        BY <3>3, <3>4
    <2> QED
      BY <2>4, <2>5
  <1>5. CASE up # 2 * p
    <2> DEFINE f == up - p
    <2>1. carry = 0 /\ rounded = up /\ f \in Nat /\ f < p /\ up = 1 * p + f
      BY <1>0, <1>5 DEF Bit
    <2>2. up % p = f
      BY <1>0, <2>1, DividedUnique
    <2>3. e + 0 + D_BIAS + F = E + 1 /\ (E + 1) * p \in Nat /\ (E + 1) * p + f = m
      BY <1>0, <2>1
    <2>4. Overflows(e + carry) <=> E + 1 > n - 2
      BY <1>0, <1>2, <2>1
    <2>5. CASE E + 1 > n - 2
      <3>1. (E + 1) * p >= (n - 1) * p /\ (n - 1) * p \in Nat
        BY <1>0, <2>5
      <3>2. m >= D_EXP
        <4> HIDE DEF m, f
        <4> QED
          BY <1>0, <2>1, <2>3, <3>1
      <3> QED
        BY <1>0, <1>1, <2>4, <2>5, <3>2
    <2>6. CASE ~ (E + 1 > n - 2)
      <3>1. E + 2 <= n - 1 /\ E + 2 \in Nat /\ n - 1 \in Nat
        BY <1>0, <2>6
      <3>2. (E + 2) * p <= (n - 1) * p /\ (n - 1) * p \in Nat /\ (E + 2) * p = (E + 1) * p + p
        BY <1>0, <3>1
      <3>3. PackedNormal(sign, e, up) = Signed(sign) + m
        <4>1. PackedNormal(sign, e, up) = Signed(sign) + (E + 1) * p + f
          BY <1>1, <2>1, <2>2, <2>3, <2>4, <2>6
        <4> HIDE DEF m, f
        <4> QED
          BY <1>3, <2>1, <2>3, <4>1
      <3>4. ~ (m >= D_EXP)
        <4> HIDE DEF m, f
        <4> QED
          BY <1>0, <2>1, <2>3, <3>2
      <3> QED
        BY <3>3, <3>4
    <2> QED
      BY <2>5, <2>6
  <1> QED
    BY <1>4, <1>5

(* Infinity stands for the power of two after the largest number, which no *)
(* pattern after it is below.                                              *)
LEMMA BeyondInfinity ==
  ASSUME NEW m, NEW E, NEW q, Placed(m, F, E, q), m >= D_EXP
  PROVE  Amount(D_EXP, F) <= Amount(m, F) /\ Amount(D_EXP, F) \in Nat /\ Amount(m, F) \in Nat
  <1> DEFINE p == D_IMPL
             n == Pow(X)
             k == n - 2
             c == Pow(k)
             e == Pow(E)
  <1>0. /\ p \in Nat /\ p > 0 /\ n \in Nat /\ n > 3 /\ D_EXP = (n - 1) * p /\ p = Pow(F)
        /\ F \in Nat /\ F > 0 /\ F < Top /\ Top \in Nat /\ Top = 2 * n + 4 * F
    BY Patterns, Widths
  <1>1. /\ E \in Nat /\ E < Top /\ q \in Nat /\ q < 2 * p /\ (E = 0 \/ q >= p) /\ m = E * p + q
    BY <1>0 DEF Placed
  <1>2. /\ Amount(m, F) = q * e /\ e \in Nat /\ e > 0 /\ Amount(m, F) \in Nat
    BY AmountStep
  <1>3. k \in Nat /\ k < Top /\ k \in 0 .. Top /\ E \in 0 .. Top
    BY <1>0, <1>1
  <1>4. Amount(D_EXP, F) = p * c
    <2>1. Amount(k * p + p, F) = p * c
      BY <1>0, <1>3, AmountAt
    <2> HIDE DEF p, n
    <2>2. k * p + p = (n - 1) * p
      BY <1>0
    <2> QED
      BY <1>0, <2>1, <2>2
  <1>5. c \in Nat /\ c > 0
    BY <1>3, PowersInUse
  <1> HIDE DEF p, n
  <1>6. E >= k
    <2>1. CASE E < k
      <3>1. E + 2 <= n - 1 /\ E + 2 \in Nat /\ n - 1 \in Nat
        BY <1>0, <1>1, <2>1
      <3>2. (E + 2) * p <= (n - 1) * p /\ (E + 2) * p = E * p + 2 * p /\ E * p \in Nat
            /\ (n - 1) * p \in Nat
        <4>1. (E + 2) * p <= (n - 1) * p /\ (n - 1) * p \in Nat
          BY <1>0, <3>1, ProductsOrder
        <4> QED
          BY <1>0, <1>1, <4>1
      <3> QED
        BY <1>0, <1>1, <3>2
    <2> QED
      BY <1>1, <1>3, <2>1
  <1>7. c <= e
    BY <1>3, <1>6, PowersInUse
  <1>8. q >= p
    BY <1>0, <1>1, <1>6
  <1> HIDE DEF c, e, k
  <1>9. p * c <= q * c /\ q * c <= q * e /\ p * c \in Nat /\ q * c \in Nat /\ q * e \in Nat
    BY <1>0, <1>1, <1>2, <1>5, <1>7, <1>8
  <1> QED
    BY <1>2, <1>4, <1>9

(* There, df_pack rounds to nearest even and overflows to infinity. *)
LEMMA PackNormalNearest ==
  ASSUME NEW sign \in {0, 1}, NEW e, NEW i, NEW j, Scaled(e, i, j),
         NEW q, NEW g, NEW s, NEW num, NEW den, Packs(num, den, i, j, q, g, s), e >= Lowest
  PROVE  Rounds(df_pack(sign, e, q, g, s), sign, num, den)
  <1> DEFINE E == i - j
             p == D_IMPL
             u == Bit(RoundsUp(q, g, s))
             m == E * p + q
             r == df_pack(sign, e, q, g, s)
             d == Pow(E)
  <1>0. /\ p \in Nat /\ p > 0 /\ p = Pow(F) /\ F \in Nat /\ F > 0 /\ F < Top /\ Top \in Nat
        /\ D_EXP \in Nat /\ D_SIGN \in Nat /\ D_EXP < D_SIGN /\ Lowest \in Int
    BY Patterns, Widths DEF Lowest
  <1>1. e \in Int /\ i \in Nat /\ i < Top /\ j \in Nat /\ j <= Top /\ e - Lowest = i - j
    BY DEF Scaled
  <1>2. /\ q \in Nat /\ p <= q /\ q < 2 * p /\ g \in {0, 1} /\ s \in {0, 1}
        /\ num \in Nat /\ den \in Nat /\ den > 0
        /\ IsCut((2 * num) * Pow(j), den * Pow(i), 2 * q + g, s)
    BY DEF Packs, Units
  <1>3. E \in Nat /\ E < Top /\ e = E + Lowest /\ E + j = i /\ E \in 0 .. Top /\ j \in 0 .. Top
    BY <1>0, <1>1
  <1>4. u \in {0, 1}
    BY DEF Bit
  <1>5. r = Signed(sign) + (IF m + u >= D_EXP THEN D_EXP ELSE m + u)
    <2>1. r = PackedNormal(sign, e, q + u)
      BY <1>1, PackNormalIs
    <2> HIDE DEF r, u
    <2>2. q + u \in Nat /\ p <= q + u /\ q + u <= 2 * p
      BY <1>0, <1>2, <1>4
    <2>3. PackedNormal(sign, E + Lowest, q + u) =
            Signed(sign) + (IF E * p + (q + u) >= D_EXP THEN D_EXP ELSE E * p + (q + u))
      BY <1>3, <2>2, PackedNormalIs
    <2>4. E * p + (q + u) = m + u
      <3>1. E * p \in Nat
        BY <1>0, <1>3
      <3> HIDE DEF E
      <3> QED
        BY <1>2, <1>4, <3>1
    <2> QED
      BY <1>3, <2>1, <2>3, <2>4
  <1>6. Placed(m, F, E, q)
    BY <1>0, <1>2, <1>3 DEF Placed
  <1>7. d \in Nat /\ d > 0 /\ Pow(j) \in Nat /\ Pow(j) > 0
    BY <1>3, PowersInUse
  <1>8. Below(num, den, d, q, g, s)
    <2>0. E \in Nat /\ j \in Nat /\ E + j <= Top
      BY <1>0, <1>1, <1>3
    <2> HIDE DEF E
    <2>1. Pow(E + j) = d * Pow(j)
      BY <2>0, PowersMultiply
    <2> DEFINE c == Pow(j)
    <2>2. den * (d * c) = (den * d) * c /\ den * d \in Nat /\ den * d > 0 /\ 2 * num \in Nat
      BY <1>2, <1>7
    <2> HIDE DEF d
    <2>3. IsCut((2 * num) * c, (den * d) * c, 2 * q + g, s)
      BY <1>2, <1>3, <2>1, <2>2
    <2> HIDE DEF c
    <2>4. c \in Nat /\ c > 0
      BY <1>7 DEF c
    <2>5. IsCut(2 * num, den * d, 2 * q + g, s)
      BY <2>2, <2>3, <2>4, CutReduced
    <2> QED
      BY <1>2, <2>5 DEF Below
  <1>9. m \in Nat /\ m + u \in Nat
    BY <1>4, <1>6, AmountStep
  <1> HIDE DEF u, m, r, E
  <1>10. CASE m + u <= D_EXP
    <2>1. r = Signed(sign) + (m + u)
      BY <1>0, <1>5, <1>9, <1>10
    <2>2. m + u < D_SIGN
      BY <1>0, <1>9, <1>10
    <2>3. r \in Double /\ r % D_SIGN = m + u /\ (Negative(r) <=> sign = 1)
      BY <1>9, <2>1, <2>2, SignedPattern
    <2>4. RoundedDouble(r, num, den)
      <3>1. u = Bit(RoundsUp(q, g, s)) /\ Below(num, den, Pow(E), q, g, s)
        BY <1>8 DEF u
      <3> QED
        BY <1>2, <1>6, <1>10, <2>3, <3>1, RoundedIsNearest, Zenon
    <2> QED
      BY <1>10, <2>3, <2>4 DEF Rounds, r
  <1>11. CASE m + u > D_EXP
    <2>1. r = Signed(sign) + D_EXP /\ m >= D_EXP
      BY <1>0, <1>4, <1>5, <1>9, <1>11
    <2>2. r \in Double /\ r % D_SIGN = D_EXP /\ (Negative(r) <=> sign = 1)
      BY <1>0, <2>1, SignedPattern
    <2> DEFINE a == Amount(m, F)
               b == Amount(m + 1, F)
               c == Amount(D_EXP, F)
    <2>3. c <= a /\ c \in Nat /\ a \in Nat
      BY <1>6, <2>1, BeyondInfinity
    <2>4. a = q * d /\ b = (q + 1) * d
      BY <1>6, AmountStep
    <2> HIDE DEF a, b, c, d
    <2>5. Neighbours(a, b, q, d)
      BY <2>4 DEF Neighbours
    <2>6. Between(a, b, num, den, g, s)
      BY <1>2, <1>7, <1>8, <2>5, BetweenNeighbours, Zenon
    <2>7. a * den <= num /\ a * den \in Nat
      BY <2>6 DEF Between
    <2>8. c * den <= a * den /\ c * den \in Nat
      BY <1>2, <2>3
    <2>9. c * den <= num
      BY <1>2, <2>7, <2>8
    <2>10. RoundedDouble(r, num, den)
      BY <1>2, <2>2, <2>9, OverflowIsNearest DEF c
    <2>11. D_EXP <= D_EXP
      BY <1>0
    <2> QED
      BY <2>2, <2>10, <2>11 DEF Rounds, r
  <1> QED
    BY <1>0, <1>9, <1>10, <1>11

(* What df_pack returns in the subnormal range, shift bits down. *)
PackedSubnormal(sign, shift, c) ==
  LET up == c.q + Bit(RoundsUp(c.q, c.g, c.s))
  IN  IF shift > F + 2 THEN Signed(sign)
      ELSE Signed(sign) + (IF up = 2 * D_IMPL THEN D_IMPL ELSE up)

(* df_pack in the subnormal range. *)
LEMMA PackSubnormalIs ==
  ASSUME NEW sign, NEW e \in Int, NEW q, NEW g, NEW s, e < Lowest
  PROVE  df_pack(sign, e, q, g, s) =
           PackedSubnormal(sign, Lowest - e, Cut(q, Lowest - e, Bit(s = 1 \/ g = 1)))
  <1> DEFINE shift == Lowest - e
  <1>1. Lowest \in Int /\ F + 2 \in Int
    BY Widths, Patterns DEF Lowest
  <1>2. shift \in Int /\ (shift <= F + 2 <=> ~ (shift > F + 2))
    BY <1>1
  <1>3. shift = (1 - D_BIAS - F) - e /\ e < 1 - D_BIAS - F
    BY DEF Lowest
  <1> HIDE DEF shift
  <1>4. df_pack(sign, e, q, g, s) =
          PackedSubnormal(sign, shift, Cut(q, shift, Bit(s = 1 \/ g = 1)))
    BY <1>2, <1>3, Zenon DEF df_pack, PackedSubnormal
  <1> QED
    BY <1>4 DEF shift

(* Too far below to be anything but zero. *)
LEMMA TinyIsZero ==
  ASSUME NEW sign \in {0, 1}, NEW num \in Nat, NEW den \in Nat, 2 * num < den
  PROVE  Rounds(Signed(sign), sign, num, den)
  <1>0. D_SIGN \in Nat /\ D_SIGN > 0 /\ D_EXP \in Nat /\ D_EXP > 0 /\ Signed(sign) \in Nat
    <2>1. D_SIGN \in Nat /\ D_SIGN > 0 /\ D_EXP \in Nat /\ D_IMPL \in Nat /\ D_IMPL > 0
          /\ Pow(X) \in Nat /\ Pow(X) > 3 /\ D_EXP = (Pow(X) - 1) * D_IMPL
      BY Patterns, Format
    <2>2. 0 < Pow(X) - 1 /\ Pow(X) - 1 \in Nat
      BY <2>1
    <2>3. (Pow(X) - 1) * D_IMPL > 0
      BY <2>1, <2>2
    <2> QED
      BY <2>1, <2>3 DEF Signed
  <1> DEFINE r == Signed(sign)
  <1>1. r = Signed(sign) + 0
    BY <1>0
  <1>2. r \in Double /\ r % D_SIGN = 0 /\ (Negative(r) <=> sign = 1)
    BY <1>0, <1>1, SignedPattern
  <1>3. Amount(0, F) = 0 /\ Amount(0 + 1, F) = 1
    <2>1. D_IMPL \in Nat /\ D_IMPL > 1
      <3>1. Pow(F) = 2 * Pow(F - 1) /\ Pow(F - 1) \in Nat /\ Pow(F - 1) > 0
        BY Patterns, Widths, PowersHalve
      <3> QED
        BY <3>1, Patterns
    <2> QED
      BY <2>1, AmountSmall
  <1>4. \A k \in Nat : 0 # k + 1
    OBVIOUS
  <1>5. LET middle == (Amount(0, F) + Amount(0 + 1, F)) * den
        IN  2 * num <= middle /\ (2 * num < middle \/ 0 % 2 = 0)
    BY <1>3
  <1> HIDE DEF r
  <1>6. RoundedDouble(r, num, den)
    <2>1. 0 <= D_EXP
      BY <1>0
    <2> QED
      BY <1>2, <1>4, <1>5, <2>1, NearestPattern
  <1> QED
    BY <1>0, <1>2, <1>6 DEF Rounds, r

(* There, df_pack rounds to nearest even too, in one step: what was below  *)
(* the significand only makes the sticky bit.                              *)
LEMMA PackSubnormalNearest ==
  ASSUME NEW sign \in {0, 1}, NEW e, NEW i, NEW j, Scaled(e, i, j),
         NEW q, NEW g, NEW s, NEW num, NEW den, Packs(num, den, i, j, q, g, s), e < Lowest
  PROVE  Rounds(df_pack(sign, e, q, g, s), sign, num, den)
  <1> DEFINE h == j - i
             p == D_IMPL
             r == df_pack(sign, e, q, g, s)
             z == Pow(h)
             t == Bit(s = 1 \/ g = 1)
             c == Cut(q, h, t)
  <1>0. /\ p \in Nat /\ p > 0 /\ p = Pow(F) /\ F \in Nat /\ F > 0 /\ F < Top /\ Top \in Nat
        /\ D_EXP \in Nat /\ D_SIGN \in Nat /\ D_EXP < D_SIGN /\ Lowest \in Int /\ F + 2 < Top
    BY Patterns, Widths DEF Lowest
  <1>1. e \in Int /\ i \in Nat /\ i < Top /\ j \in Nat /\ j <= Top /\ e - Lowest = i - j
    BY DEF Scaled
  <1>2. /\ q \in Nat /\ p <= q /\ q < 2 * p /\ g \in {0, 1} /\ s \in {0, 1}
        /\ num \in Nat /\ den \in Nat /\ den > 0
        /\ IsCut((2 * num) * Pow(j), den * Pow(i), 2 * q + g, s)
    BY DEF Packs, Units
  <1>3. h \in Nat /\ h > 0 /\ h <= Top /\ h = Lowest - e /\ h + i = j /\ h \in 0 .. Top /\ i \in 0 .. Top
    BY <1>0, <1>1
  <1>4. r = PackedSubnormal(sign, h, c)
    BY <1>1, <1>3, PackSubnormalIs
  <1>5. z \in Nat /\ z > 0 /\ Pow(i) \in Nat /\ Pow(i) > 0 /\ Pow(h - 1) \in Nat /\ z = 2 * Pow(h - 1)
        /\ Pow(h - 1) > 0
    BY <1>3, PowersInUse, PowersHalve
  <1> HIDE DEF h, r, c
  <1>6. IsCut((2 * num) * z, den, 2 * q + g, s)
    <2>1. Pow(h + i) = z * Pow(i)
      BY <1>1, <1>3, PowersMultiply
    <2> DEFINE b == Pow(i)
               w == (2 * num) * z
    <2>2. (2 * num) * (z * b) = w * b /\ w \in Nat
      BY <1>2, <1>5
    <2>3. IsCut(w * b, den * b, 2 * q + g, s)
      BY <1>2, <1>3, <2>1, <2>2
    <2>4. b \in Nat /\ b > 0
      BY <1>5
    <2> HIDE DEF b, w
    <2>5. IsCut(w, den, 2 * q + g, s)
      BY <1>2, <2>2, <2>3, <2>4, CutReduced
    <2> QED
      BY <2>5 DEF w
  <1> HIDE DEF z
  <1>7. CASE h > F + 2
    <2>1. r = Signed(sign)
      BY <1>4, <1>7 DEF PackedSubnormal
    <2>2. (2 * num) * z < (2 * q + g + 1) * den
      BY <1>6 DEF IsCut
    <2>3. z >= 4 * p
      <3>1. F + 1 \in 0 .. Top /\ F \in 0 .. Top /\ F + 2 \in 0 .. Top /\ F + 1 + 1 = F + 2
        BY <1>0
      <3>2. Pow(F + 1) = 2 * p /\ Pow(F + 1 + 1) = 2 * Pow(F + 1) /\ Pow(F + 2) <= z
        BY <1>0, <1>3, <1>7, <3>1, PowersInUse DEF z
      <3> QED
        BY <1>0, <1>5, <3>1, <3>2
    <2>4. 2 * q + g + 1 <= z /\ 2 * q + g + 1 \in Nat
      BY <1>0, <1>2, <1>5, <2>3
    <2>5. (2 * q + g + 1) * den <= z * den /\ z * den \in Nat /\ (2 * q + g + 1) * den \in Nat
      BY <1>2, <1>5, <2>4, ProductsOrder
    <2>6. (2 * num) * z < den * z /\ (2 * num) * z \in Nat /\ den * z = z * den
      BY <1>2, <1>5, <2>2, <2>5
    <2>7. 2 * num < den
      BY <1>2, <1>5, <2>6, ProductsOrder
    <2> QED
      BY <1>2, <2>1, <2>7, TinyIsZero DEF r
  <1>8. CASE h <= F + 2
    <2>1. t \in {0, 1} /\ IsCut((2 * num) * z, den * 2, q, t)
      <3>1. IsCut((2 * num) * z, den * 2, (2 * q + g) \div 2, Bit(s = 1 \/ (2 * q + g) % 2 # 0))
        BY <1>6, CutFurther
      <3>2. 2 * q + g = q * 2 + g /\ g \in Nat /\ g < 2
        BY <1>2
      <3>3. (q * 2 + g) \div 2 = q /\ (q * 2 + g) % 2 = g
        BY <1>2, <3>2, DividedUnique
      <3>4. Bit(s = 1 \/ g # 0) = t
        BY <1>2 DEF Bit
      <3>5. t \in {0, 1}
        BY DEF Bit
      <3> QED
        BY <3>1, <3>2, <3>3, <3>4, <3>5
    <2> HIDE DEF t
    <2>2. /\ c.q \in Nat /\ c.g \in {0, 1} /\ c.s \in {0, 1} /\ c.q = q \div z
          /\ IsCut((2 * num) * z, (den * 2) * Pow(h - 1), 2 * c.q + c.g, c.s)
      <3> DEFINE w == (2 * num) * z
                 d == den * 2
      <3>1. IsCut(w, d, q, t)
        BY <2>1
      <3> HIDE DEF w, d
      <3>2. /\ c.q \in Nat /\ c.g \in {0, 1} /\ c.s \in {0, 1} /\ c.q = q \div Pow(h)
            /\ IsCut(w, d * Pow(h - 1), 2 * c.q + c.g, c.s)
        BY <1>3, <3>1, CutKeepsGuard DEF c
      <3> QED
        BY <3>2 DEF w, d, z
    <2> DEFINE m == c.q
               u == Bit(RoundsUp(m, c.g, c.s))
    <2>3. (den * 2) * Pow(h - 1) = den * z
      BY <1>2, <1>5
    <2>4. IsCut((2 * num) * z, den * z, 2 * m + c.g, c.s)
      BY <2>2, <2>3
    <2>5. IsCut(2 * num, den, 2 * m + c.g, c.s)
      BY <1>2, <1>5, <2>4, CutReduced
    <2>6. m < p /\ m \in Nat
      <3>1. q < p * z
        <4>1. z >= 2
          BY <1>5
        <4>2. p * z >= p * 2 /\ p * z \in Nat
          BY <1>0, <1>5, <4>1
        <4> QED
          BY <1>0, <1>2, <4>2
      <3> QED
        BY <1>0, <1>2, <1>5, <2>2, <3>1, QuotientBounds
    <2>7. Placed(m, F, 0, m)
      <3>1. 0 * Pow(F) + m = m /\ m < 2 * Pow(F) /\ 0 < Top
        BY <1>0, <2>6
      <3> QED
        BY <1>0, <2>6, <3>1 DEF Placed
    <2>8. u \in {0, 1}
      BY DEF Bit
    <2>9. Below(num, den, Pow(0), m, c.g, c.s)
      <3>1. den * Pow(0) = den
        BY <1>2, Powers
      <3> QED
        BY <2>2, <2>5, <3>1 DEF Below
    <2>10. m + u <= p /\ m + u \in Nat
      <3> HIDE DEF u, m
      <3> QED
        BY <1>0, <2>6, <2>8
    <2>11. r = Signed(sign) + (m + u)
      <3>1. r = Signed(sign) + (IF m + u = 2 * D_IMPL THEN D_IMPL ELSE m + u)
        <4>1. ~ (h > F + 2)
          BY <1>0, <1>3, <1>8
        <4> QED
          BY <1>4, <4>1, Zenon DEF PackedSubnormal
      <3> HIDE DEF u, m
      <3>2. m + u # 2 * D_IMPL
        BY <1>0, <2>10
      <3> QED
        BY <3>1, <3>2
    <2>12. p <= D_EXP
      <3>1. Pow(X) \in Nat /\ Pow(X) > 3 /\ D_EXP = (Pow(X) - 1) * p
        BY Patterns
      <3>2. 1 <= Pow(X) - 1 /\ Pow(X) - 1 \in Nat
        BY <3>1
      <3>3. 1 * p <= (Pow(X) - 1) * p
        BY <1>0, <3>2, ProductsOrder
      <3> QED
        BY <1>0, <3>1, <3>3
    <2>13. u = Bit(RoundsUp(m, c.g, c.s))
      OBVIOUS
    <2> HIDE DEF u, m
    <2>14. m + u <= D_EXP /\ m + u < D_SIGN
      BY <1>0, <2>10, <2>12
    <2>15. r \in Double /\ r % D_SIGN = m + u /\ (Negative(r) <=> sign = 1)
      BY <2>10, <2>11, <2>14, SignedPattern
    <2>16. RoundedDouble(r, num, den)
      BY <1>2, <2>7, <2>9, <2>13, <2>14, <2>15, RoundedIsNearest, Zenon
    <2> QED
      BY <2>14, <2>15, <2>16 DEF Rounds, r
  <1> QED
    BY <1>0, <1>3, <1>7, <1>8

(* df_pack rounds to nearest even, over the whole range of exponents. *)
LEMMA PackIsNearest ==
  ASSUME NEW sign \in {0, 1}, NEW e, NEW i, NEW j, Scaled(e, i, j),
         NEW q, NEW g, NEW s, NEW num, NEW den, Packs(num, den, i, j, q, g, s)
  PROVE  Rounds(df_pack(sign, e, q, g, s), sign, num, den)
  <1>1. Lowest \in Int /\ e \in Int
    BY Widths, Patterns DEF Lowest, Scaled
  <1>2. e >= Lowest \/ e < Lowest
    BY <1>1
  <1> QED
    BY <1>2, PackNormalNearest, PackSubnormalNearest

-----------------------------------------------------------------------------
(* The number w and its sticky bit, of at most b + 1 bits, that is         *)
(* normalized and packed.                                                  *)
Normalizes(num, den, i, j, w, s, b) ==
  /\ w \in Nat /\ w > 0 /\ s \in {0, 1} /\ (s = 1 => w >= 2 * D_IMPL)
  /\ b \in Nat /\ b <= 2 * WB /\ w < Pow(b + 1)
  /\ i + b < Top + F /\ j + F <= Top
  /\ Units(num, den, i, j, w, s)

(* Units of which num / den is made up, twice as many half as large. *)
LEMMA HalfUnits ==
  ASSUME NEW num \in Nat, NEW n \in Nat, NEW d \in Nat, d > 0, NEW v, NEW s, IsCut(n, d, v, s)
  PROVE  IsCut(2 * n, 2 * d, v, s)
  <1>1. IsCut(n * 2, d * 2, v, s)
    BY CutReduced
  <1>2. n * 2 = 2 * n /\ d * 2 = 2 * d
    OBVIOUS
  <1> QED
    BY <1>1, <1>2

(* More than F + 1 bits: the excess is cut off. *)
LEMMA NormalizeDown ==
  ASSUME NEW num, NEW den, NEW e, NEW i, NEW j, NEW w, NEW s, NEW b, Scaled(e, i, j),
         Normalizes(num, den, i, j, w, s, b), NEW k, k = df_msb(w) - F, k > 0
  PROVE  LET c == Cut(w, k, s)
         IN  Scaled(e + k, i + k, j) /\ Packs(num, den, i + k, j, c.q, c.g, c.s)
  <1> DEFINE t == df_msb(w)
             c == Cut(w, k, s)
             p == D_IMPL
             z == Pow(k)
             half == Pow(k - 1)
             a == num * Pow(j)
             d == den * Pow(i)
  <1>0. /\ p \in Nat /\ p > 0 /\ p = Pow(F) /\ F \in Nat /\ F > 0 /\ Top \in Nat /\ WB \in Nat
        /\ 2 * WB + 1 <= Top /\ Lowest \in Int /\ F < Top
    BY Patterns, Widths DEF Lowest
  <1>1. /\ w \in Nat /\ w > 0 /\ b \in Nat /\ b <= 2 * WB /\ w < Pow(b + 1) /\ i + b < Top + F
        /\ num \in Nat /\ den \in Nat /\ den > 0 /\ IsCut(a, d, w, s)
    BY DEF Normalizes, Units
  <1>2. e \in Int /\ i \in Nat /\ i < Top /\ j \in Nat /\ j <= Top /\ e - Lowest = i - j
    BY DEF Scaled
  <1>3. t \in 0 .. 2 * WB /\ Pow(t) <= w /\ w < Pow(t + 1)
    <2>1. b + 1 \in 0 .. Top /\ 2 * WB + 1 \in 0 .. Top /\ b + 1 <= 2 * WB + 1
      BY <1>0, <1>1
    <2>2. Pow(b + 1) <= Pow(2 * WB + 1) /\ Pow(b + 1) \in Nat /\ Pow(2 * WB + 1) \in Nat
      BY <2>1, PowersInUse
    <2>3. w < Pow(2 * WB + 1)
      BY <1>1, <2>2
    <2> QED
      BY <1>1, <2>3, HighestBit
  <1> HIDE DEF t
  <1>4. t <= b
    <2>1. CASE t > b
      <3>1. b + 1 \in 0 .. Top /\ t \in 0 .. Top /\ b + 1 <= t
        BY <1>0, <1>1, <1>3, <2>1
      <3>2. Pow(b + 1) <= Pow(t) /\ Pow(b + 1) \in Nat /\ Pow(t) \in Nat
        BY <3>1, PowersInUse
      <3> QED
        BY <1>1, <1>3, <3>2
    <2> QED
      BY <1>0, <1>1, <1>3, <2>1
  <1>5. k \in Nat /\ t = k + F /\ t + 1 = k + (F + 1) /\ k <= Top /\ k + (F + 1) <= Top
        /\ i + k < Top /\ k \in 0 .. Top /\ F + 1 \in Nat /\ k + F <= Top
    BY <1>0, <1>1, <1>2, <1>3, <1>4 DEF t
  <1>6. z \in Nat /\ z > 0 /\ half \in Nat /\ half > 0 /\ z = 2 * half
    BY <1>5, PowersInUse, PowersHalve
  <1>7. /\ c.q \in Nat /\ c.g \in {0, 1} /\ c.s \in {0, 1} /\ c.q = w \div z
        /\ IsCut(a, d * half, 2 * c.q + c.g, c.s)
    <2> HIDE DEF a, d
    <2> QED
      BY <1>1, <1>5, CutKeepsGuard
  <1>8. p <= c.q /\ c.q < 2 * p
    <2>1. Pow(k + F) = z * p
      BY <1>0, <1>5, PowersMultiply
    <2>2. Pow(F + 1) = 2 * p
      <3>1. F \in 0 .. Top
        BY <1>0
      <3> QED
        BY <1>0, <3>1, PowersInUse
    <2>3. Pow(k + (F + 1)) = z * (2 * p)
      BY <1>5, <2>2, PowersMultiply
    <2> HIDE DEF z, c, p
    <2>4. w >= p * z /\ w < (2 * p) * z
      <3>1. z * p = p * z /\ z * (2 * p) = (2 * p) * z
        BY <1>0, <1>6
      <3> QED
        BY <1>3, <1>5, <2>1, <2>3, <3>1
    <2>5. 2 * p \in Nat
      BY <1>0
    <2> QED
      BY <1>0, <1>1, <1>6, <1>7, <2>4, <2>5, QuotientBounds
  <1>9. Scaled(e + k, i + k, j)
    BY <1>0, <1>2, <1>5 DEF Scaled
  <1>10. Units(2 * num, den, i + k, j, 2 * c.q + c.g, c.s)
    <2>1. Pow(i + k) = Pow(i) * z
      BY <1>0, <1>2, <1>5, PowersMultiply
    <2>2. Pow(i) \in Nat /\ Pow(i) > 0 /\ Pow(j) \in Nat
      <3>1. i \in 0 .. Top /\ j \in 0 .. Top
        BY <1>0, <1>2
      <3> QED
        BY <3>1, PowersInUse
    <2>3. a \in Nat /\ d \in Nat /\ d * half \in Nat /\ d * half > 0 /\ 2 * num \in Nat
      BY <1>1, <1>6, <2>2
    <2>4. IsCut(2 * a, 2 * (d * half), 2 * c.q + c.g, c.s)
      BY <1>1, <1>7, <2>3, HalfUnits
    <2>5. 2 * a = (2 * num) * Pow(j) /\ 2 * (d * half) = den * (Pow(i) * z)
      <3>1. 2 * (num * Pow(j)) = (2 * num) * Pow(j)
        BY <1>1, <2>2
      <3> DEFINE o == Pow(i)
      <3>2. o \in Nat
        BY <2>2
      <3> HIDE DEF o, z, half
      <3>3. 2 * ((den * o) * half) = den * (o * (2 * half))
        BY <1>1, <1>6, <3>2
      <3> QED
        BY <1>6, <3>1, <3>3 DEF o
    <2> HIDE DEF c, a, d, z, half
    <2> QED
      BY <1>1, <2>1, <2>3, <2>4, <2>5 DEF Units
  <1> QED
    BY <1>0, <1>1, <1>7, <1>8, <1>9, <1>10 DEF Packs

(* Fewer bits: the number is moved up. *)
LEMMA NormalizeUp ==
  ASSUME NEW num, NEW den, NEW e, NEW i, NEW j, NEW w, NEW s, NEW b, Scaled(e, i, j),
         Normalizes(num, den, i, j, w, s, b), NEW k, k = F - df_msb(w), k >= 0
  PROVE  /\ s = 0 /\ Scaled(e - k, i, j + k) /\ Packs(num, den, i, j + k, w * Pow(k), 0, 0)
  <1> DEFINE t == df_msb(w)
             p == D_IMPL
             z == Pow(k)
             q == w * z
             a == num * Pow(j)
             d == den * Pow(i)
  <1>0. /\ p \in Nat /\ p > 0 /\ p = Pow(F) /\ F \in Nat /\ F > 0 /\ Top \in Nat /\ WB \in Nat
        /\ 2 * WB + 1 <= Top /\ Lowest \in Int /\ F < Top
    BY Patterns, Widths DEF Lowest
  <1>1. /\ w \in Nat /\ w > 0 /\ b \in Nat /\ b <= 2 * WB /\ w < Pow(b + 1) /\ j + F <= Top
        /\ num \in Nat /\ den \in Nat /\ den > 0 /\ IsCut(a, d, w, s) /\ s \in {0, 1}
        /\ (s = 1 => w >= 2 * p)
    BY DEF Normalizes, Units
  <1>2. e \in Int /\ i \in Nat /\ i < Top /\ j \in Nat /\ j <= Top /\ e - Lowest = i - j
    BY DEF Scaled
  <1>3. t \in 0 .. 2 * WB /\ Pow(t) <= w /\ w < Pow(t + 1)
    <2>1. b + 1 \in 0 .. Top /\ 2 * WB + 1 \in 0 .. Top /\ b + 1 <= 2 * WB + 1
      BY <1>0, <1>1
    <2>2. Pow(b + 1) <= Pow(2 * WB + 1) /\ Pow(b + 1) \in Nat /\ Pow(2 * WB + 1) \in Nat
      BY <2>1, PowersInUse
    <2>3. w < Pow(2 * WB + 1)
      BY <1>1, <2>2
    <2> QED
      BY <1>1, <2>3, HighestBit
  <1>4. k \in Nat /\ k <= F /\ t + k = F /\ t + 1 + k = F + 1 /\ t \in Nat /\ t + 1 \in Nat
        /\ k \in 0 .. Top /\ t \in 0 .. Top /\ F \in 0 .. Top /\ t + 1 \in 0 .. Top /\ F + 1 <= Top
    BY <1>0, <1>3
  <1> HIDE DEF t
  <1>5. z \in Nat /\ z > 0 /\ Pow(F + 1) = 2 * p /\ Pow(t) \in Nat /\ Pow(t + 1) \in Nat
    BY <1>0, <1>4, PowersInUse
  <1>6. Pow(t) * z = p /\ Pow(t + 1) * z = 2 * p
    <2>1. Pow(t + k) = Pow(t) * z
      BY <1>0, <1>4, PowersMultiply
    <2>2. Pow(t + 1 + k) = Pow(t + 1) * z
      BY <1>0, <1>4, PowersMultiply
    <2> QED
      BY <1>0, <1>4, <1>5, <2>1, <2>2
  <1>7. w < 2 * p
    <2>1. t + 1 <= F + 1 /\ F + 1 \in 0 .. Top
      BY <1>0, <1>4
    <2>2. Pow(t + 1) <= Pow(F + 1)
      BY <1>4, <2>1, PowersInUse
    <2> QED
      BY <1>0, <1>1, <1>3, <1>5, <2>2
  <1>8. s = 0
    BY <1>0, <1>1, <1>7
  <1> HIDE DEF z
  <1>9. q \in Nat /\ p <= q /\ q < 2 * p
    <2>1. Pow(t) * z <= w * z /\ w * z < Pow(t + 1) * z /\ w * z \in Nat
      BY <1>1, <1>3, <1>5, ProductsOrder
    <2> QED
      BY <1>6, <2>1
  <1>10. Scaled(e - k, i, j + k)
    BY <1>0, <1>1, <1>2, <1>4 DEF Scaled
  <1>11. Units(2 * num, den, i, j + k, 2 * q + 0, 0)
    <2>1. Pow(j + k) = Pow(j) * z
      BY <1>0, <1>1, <1>2, <1>4, PowersMultiply DEF z
    <2>2. Pow(i) \in Nat /\ Pow(i) > 0 /\ Pow(j) \in Nat
      <3>1. i \in 0 .. Top /\ j \in 0 .. Top
        BY <1>0, <1>2
      <3> QED
        BY <3>1, PowersInUse
    <2>3. a = w * d /\ a \in Nat /\ d \in Nat /\ d > 0
      BY <1>1, <1>8, <2>2 DEF IsCut
    <2>4. (2 * num) * (Pow(j) * z) = 2 * (a * z)
      <3> DEFINE o == Pow(j)
      <3>1. o \in Nat
        BY <2>2
      <3> HIDE DEF o
      <3>2. (2 * num) * (o * z) = 2 * ((num * o) * z)
        BY <1>1, <1>5, <3>1
      <3> QED
        BY <3>2 DEF o
    <2> DEFINE v == 2 * q + 0
               n == (2 * num) * Pow(j + k)
    <2> HIDE DEF a, d
    <2>5. n = v * d
      <3>1. (w * d) * z = (w * z) * d
        BY <1>1, <1>5, <2>3
      <3>2. 2 * ((w * z) * d) = (2 * (w * z) + 0) * d
        BY <1>1, <1>5, <2>3
      <3> QED
        BY <2>1, <2>3, <2>4, <3>1, <3>2
    <2>6. v \in Nat
      BY <1>9
    <2> HIDE DEF v, n
    <2>7. n \in Nat /\ (v + 1) * d = v * d + d /\ v * d \in Nat
      BY <2>3, <2>5, <2>6
    <2>8. IsCut(n, d, v, 0)
      BY <2>3, <2>5, <2>6, <2>7 DEF IsCut
    <2> QED
      BY <1>1, <2>8 DEF Units, n, v, d
  <1> QED
    BY <1>0, <1>1, <1>8, <1>9, <1>10, <1>11 DEF Packs, z

(* df_norm_pack128 rounds to nearest even. *)
LEMMA NormPackIsNearest ==
  ASSUME NEW sign \in {0, 1}, NEW num, NEW den, NEW e, NEW i, NEW j, NEW w, NEW s, NEW b,
         Scaled(e, i, j), Normalizes(num, den, i, j, w, s, b)
  PROVE  Rounds(df_norm_pack128(sign, w, e, s), sign, num, den)
  <1> DEFINE k == df_msb(w) - F
             c == Cut(w, k, s)
  <1>0. w # 0 /\ e \in Int /\ F \in Int /\ df_msb(w) \in Int
    <2>1. w \in Nat /\ w > 0 /\ e \in Int /\ b \in Nat /\ b <= 2 * WB /\ w < Pow(b + 1)
      BY DEF Normalizes, Scaled
    <2>2. WB \in Nat /\ 2 * WB + 1 <= Top /\ Top \in Nat /\ F \in Int
      BY Widths
    <2>3. b + 1 \in 0 .. Top /\ 2 * WB + 1 \in 0 .. Top /\ b + 1 <= 2 * WB + 1
      BY <2>1, <2>2
    <2>4. Pow(b + 1) <= Pow(2 * WB + 1) /\ Pow(b + 1) \in Nat /\ Pow(2 * WB + 1) \in Nat
      BY <2>3, PowersInUse
    <2>5. w < Pow(2 * WB + 1)
      BY <2>1, <2>4
    <2>6. df_msb(w) \in 0 .. 2 * WB
      BY <2>1, <2>5, HighestBit
    <2> QED
      BY <2>1, <2>2, <2>6
  <1>1. CASE k > 0
    <2>1. Scaled(e + k, i + k, j) /\ Packs(num, den, i + k, j, c.q, c.g, c.s)
      BY <1>1, NormalizeDown
    <2>2. Rounds(df_pack(sign, e + k, c.q, c.g, c.s), sign, num, den)
      BY <2>1, PackIsNearest
    <2>3. df_norm_pack128(sign, w, e, s) = df_pack(sign, e + k, c.q, c.g, c.s)
      BY <1>0, <1>1, Zenon DEF df_norm_pack128
    <2> QED
      BY <2>2, <2>3
  <1>2. CASE ~ (k > 0)
    <2> DEFINE h == F - df_msb(w)
    <2>1. h >= 0 /\ h = - k /\ e + k = e - h
      BY <1>0, <1>2
    <2>2. s = 0 /\ Scaled(e - h, i, j + h) /\ Packs(num, den, i, j + h, w * Pow(h), 0, 0)
      BY <2>1, NormalizeUp
    <2>3. Rounds(df_pack(sign, e - h, w * Pow(h), 0, 0), sign, num, den)
      BY <2>2, PackIsNearest
    <2>4. df_norm_pack128(sign, w, e, s) = df_pack(sign, e + k, w * Pow(- k), 0, s)
      BY <1>0, <1>2, Zenon DEF df_norm_pack128, Pow
    <2> HIDE DEF h, k
    <2>5. df_norm_pack128(sign, w, e, s) = df_pack(sign, e - h, w * Pow(h), 0, 0)
      BY <2>1, <2>2, <2>4
    <2> QED
      BY <2>3, <2>5
  <1> QED
    BY <1>1, <1>2

-----------------------------------------------------------------------------
(* Sign, exponent field and fraction of a pattern. *)
LEMMA PatternParts ==
  ASSUME NEW v \in Double
  PROVE  LET u == v % D_SIGN
             n == Pow(X)
         IN  /\ u \in Nat /\ u < D_SIGN /\ v \in Nat
             /\ Field(v) \in Nat /\ Field(v) < n /\ Fraction(v) \in Nat /\ Fraction(v) < D_IMPL
             /\ u = Field(v) * D_IMPL + Fraction(v)
             /\ Sign(v) \in {0, 1} /\ (Sign(v) = 1 <=> Negative(v))
             /\ v = Signed(Sign(v)) + u
  <1> DEFINE u == v % D_SIGN
             n == Pow(X)
             p == D_IMPL
             g == v \div D_SIGN
             f == u \div p
             m == u % p
  <1>0. /\ n \in Nat /\ n > 3 /\ p \in Nat /\ p > 0 /\ D_SIGN = n * p /\ D_SIGN \in Nat
        /\ D_SIGN > 0 /\ v \in Nat /\ v < 2 * D_SIGN
    BY Patterns, Format DEF Double
  <1>1. g \in Nat /\ u \in Nat /\ u < D_SIGN /\ v = g * D_SIGN + u
    BY <1>0, Divided
  <1>2. g < 2
    BY <1>0, QuotientBounds
  <1>3. g = 1 <=> v >= D_SIGN
    <2> HIDE DEF g, u
    <2> QED
      BY <1>0, <1>1, <1>2
  <1>4. f \in Nat /\ m \in Nat /\ m < p /\ u = f * p + m
    BY <1>0, <1>1, Divided
  <1>5. f < n
    BY <1>0, <1>1, QuotientBounds
  <1>6. v \div p = g * n + f /\ v % p = m
    <2> HIDE DEF g, u, f, m, n, p
    <2>1. v = (g * n + f) * p + m
      <3>1. g * (n * p) = (g * n) * p /\ (g * n) * p + f * p = (g * n + f) * p
        BY <1>0, <1>1, <1>4
      <3> QED
        BY <1>0, <1>1, <1>4, <3>1
    <2>2. g * n + f \in Nat
      BY <1>0, <1>1, <1>4
    <2> QED
      BY <1>0, <1>4, <2>1, <2>2, DividedUnique
  <1>7. (g * n + f) % n = f
    <2> HIDE DEF g, u, f, m, n, p
    <2> QED
      BY <1>0, <1>1, <1>4, <1>5, DividedUnique
  <1>8. Field(v) = f /\ Fraction(v) = m /\ Sign(v) = g
    BY <1>6, <1>7 DEF Field, Fraction, Sign, Pow
  <1>9. Signed(g) = g * D_SIGN
    BY DEF Signed
  <1>10. g \in {0, 1}
    BY <1>1, <1>2
  <1> HIDE DEF g, f, m, n, p
  <1> QED
    BY <1>0, <1>1, <1>3, <1>4, <1>5, <1>8, <1>9, <1>10 DEF Negative, p, n

(* df_unpack, in each of its cases. *)
Parts(v, exp, sig) ==
  [sign |-> Sign(v), exp |-> exp, sig |-> sig, zero |-> Field(v) = 0 /\ Fraction(v) = 0]

(* df_unpack is the same record in other words, case by case. *)
LEMMA UnpackIs ==
  ASSUME NEW v \in Double
  PROVE  LET f == Field(v)
             m == Fraction(v)
             k == F - df_msb(m)
         IN  /\ f = Pow(X) - 1 => df_unpack(v) = Parts(v, Special, m)
             /\ f = 0 /\ m = 0 => df_unpack(v) = Parts(v, 0, 0)
             /\ f = 0 /\ m # 0 => df_unpack(v) = Parts(v, Lowest - k, m * Pow(k))
             /\ f # 0 /\ f # Pow(X) - 1 => df_unpack(v) = Parts(v, f - D_BIAS - F, m + D_IMPL)
  <1> DEFINE f == Field(v)
             m == Fraction(v)
             k == F - df_msb(m)
  <1>0. 2 ^ X = Pow(X) /\ 0 # Pow(X) - 1
    BY Patterns DEF Pow
  <1>1. ASSUME f = Pow(X) - 1 PROVE df_unpack(v) = Parts(v, Special, m)
    BY <1>0, <1>1, Zenon DEF df_unpack, Parts
  <1>2. ASSUME f = 0, m = 0 PROVE df_unpack(v) = Parts(v, 0, 0)
    BY <1>0, <1>2, Zenon DEF df_unpack, Parts
  <1>3. ASSUME f = 0, m # 0 PROVE df_unpack(v) = Parts(v, Lowest - k, m * Pow(k))
    BY <1>0, <1>3, Zenon DEF df_unpack, Parts, Lowest, Pow
  <1>4. ASSUME f # 0, f # Pow(X) - 1 PROVE df_unpack(v) = Parts(v, f - D_BIAS - F, m + D_IMPL)
    BY <1>0, <1>4, Zenon DEF df_unpack, Parts
  <1> HIDE DEF f, m, k
  <1>5. /\ f = Pow(X) - 1 => df_unpack(v) = Parts(v, Special, m)
        /\ f = 0 /\ m = 0 => df_unpack(v) = Parts(v, 0, 0)
        /\ f = 0 /\ m # 0 => df_unpack(v) = Parts(v, Lowest - k, m * Pow(k))
        /\ f # 0 /\ f # Pow(X) - 1 => df_unpack(v) = Parts(v, f - D_BIAS - F, m + D_IMPL)
    BY <1>1, <1>2, <1>3, <1>4
  <1> QED
    BY <1>5 DEF f, m, k

(* A finite number other than zero, taken apart: its magnitude is          *)
(* sig * 2^i / 2^j.                                                        *)
Operand(v, p, i, j) ==
  /\ p.sign \in {0, 1} /\ (p.sign = 1 <=> Negative(v)) /\ p.exp # Special /\ ~ p.zero
  /\ p.sig \in Nat /\ D_IMPL <= p.sig /\ p.sig < 2 * D_IMPL
  /\ Scaled(p.exp, i, j) /\ i + 3 <= Pow(X) /\ j <= F /\ (i = 0 \/ j = 0)
  /\ DoubleAmount(v) \in Nat /\ DoubleAmount(v) > 0 /\ DoubleAmount(v) * Pow(j) = p.sig * Pow(i)

(* A normal number taken apart. *)
LEMMA UnpackNormal ==
  ASSUME NEW v \in Double, Field(v) # 0, IsFinite(v)
  PROVE  \E i, j \in Nat : Operand(v, df_unpack(v), i, j)
  <1> DEFINE f == Field(v)
             m == Fraction(v)
             p == df_unpack(v)
             i == f - 1
             u == v % D_SIGN
             q == m + D_IMPL
             n == Pow(X)
  <1>0. /\ n \in Nat /\ n > 3 /\ D_IMPL \in Nat /\ D_IMPL > 0 /\ D_IMPL = Pow(F) /\ D_BIAS \in Nat
        /\ F \in Nat /\ F > 0 /\ F < Top /\ Top \in Nat /\ n < 32767 /\ n <= Top /\ 2 ^ X = n
        /\ Lowest = 1 - D_BIAS - F /\ Special = 32767
    BY Patterns, Widths, Powers DEF Lowest, Pow, Special
  <1>1. /\ u \in Nat /\ f \in Nat /\ f < n /\ m \in Nat /\ m < D_IMPL /\ u = f * D_IMPL + m
        /\ Sign(v) \in {0, 1} /\ (Sign(v) = 1 <=> Negative(v))
    BY PatternParts
  <1>2. f # 0 /\ f # n - 1
    BY <1>0 DEF IsFinite
  <1>3. p = Parts(v, f - D_BIAS - F, q)
    BY <1>2, UnpackIs
  <1>4. p.sign = Sign(v) /\ p.exp = f - D_BIAS - F /\ p.sig = q /\ p.zero = (f = 0 /\ m = 0)
    BY <1>3 DEF Parts
  <1> HIDE DEF f, m, p, u, n
  <1>5. i \in Nat /\ i + 3 <= n /\ i < Top
    BY <1>0, <1>1, <1>2
  <1>6. q \in Nat /\ D_IMPL <= q /\ q < 2 * D_IMPL
    BY <1>0, <1>1
  <1>7. p.exp \in Int /\ p.exp - Lowest = i - 0 /\ p.exp # Special
    BY <1>0, <1>1, <1>4
  <1>8. Scaled(p.exp, i, 0)
    BY <1>0, <1>5, <1>7 DEF Scaled
  <1>9. DoubleAmount(v) = q * Pow(i)
    <2>1. Amount(i * Pow(F) + q, F) = q * Pow(i)
      <3> HIDE DEF i, q
      <3> QED
        BY <1>0, <1>5, <1>6, AmountAt
    <2>2. i * Pow(F) + q = u
      BY <1>0, <1>1, <1>5
    <2> QED
      BY <2>1, <2>2 DEF DoubleAmount, u
  <1>10. Pow(i) \in Nat /\ Pow(i) > 0
    <2>1. i \in 0 .. Top
      BY <1>0, <1>5
    <2> QED
      BY <2>1, PowersInUse
  <1> HIDE DEF i, q
  <1>11. q * Pow(i) \in Nat /\ q * Pow(i) > 0
    <2> DEFINE rest == Pow(i)
    <2>1. rest \in Nat /\ rest > 0 /\ q > 0
      BY <1>0, <1>6, <1>10
    <2> HIDE DEF rest
    <2>2. q * rest \in Nat /\ q * rest > 0
      BY <1>6, <2>1
    <2> QED
      BY <2>2 DEF rest
  <1>12. DoubleAmount(v) * Pow(0) = p.sig * Pow(i)
    BY <1>4, <1>9, <1>11, Powers
  <1>13. ~ p.zero
    BY <1>2, <1>4
  <1>14. p.sign \in {0, 1} /\ (p.sign = 1 <=> Negative(v))
    BY <1>1, <1>4
  <1>15. Operand(v, p, i, 0)
    <2>1. 0 <= F
      BY <1>0
    <2> QED
      BY <1>4, <1>5, <1>6, <1>7, <1>8, <1>9, <1>11, <1>12, <1>13, <1>14, <2>1 DEF Operand, n
  <1> QED
    BY <1>5, <1>15 DEF p

(* A subnormal number taken apart: its significand is moved up. *)
LEMMA UnpackSubnormal ==
  ASSUME NEW v \in Double, Field(v) = 0, Fraction(v) # 0
  PROVE  \E i, j \in Nat : Operand(v, df_unpack(v), i, j)
  <1> DEFINE m == Fraction(v)
             t == df_msb(m)
             k == F - t
             p == df_unpack(v)
             u == v % D_SIGN
             z == Pow(k)
             q == m * z
             n == Pow(X)
  <1>0. /\ n \in Nat /\ n > 3 /\ D_IMPL \in Nat /\ D_IMPL > 0 /\ D_IMPL = Pow(F) /\ D_BIAS \in Nat
        /\ F \in Nat /\ F > 0 /\ F < Top /\ Top \in Nat /\ n < 32767 /\ n <= Top /\ WB \in Nat
        /\ Lowest = 1 - D_BIAS - F /\ Special = 32767 /\ F <= 2 * WB + 1 /\ 2 * WB + 1 <= Top
    BY Patterns, Widths, Powers DEF Lowest, Special
  <1>1. /\ u \in Nat /\ m \in Nat /\ m < D_IMPL /\ u = 0 * D_IMPL + m /\ m > 0
        /\ Sign(v) \in {0, 1} /\ (Sign(v) = 1 <=> Negative(v))
    BY PatternParts
  <1>2. p = Parts(v, Lowest - k, q)
    BY UnpackIs
  <1>3. p.sign = Sign(v) /\ p.exp = Lowest - k /\ p.sig = q /\ p.zero = (Field(v) = 0 /\ m = 0)
    BY <1>2 DEF Parts
  <1> HIDE DEF p, u
  <1>4. t \in 0 .. 2 * WB /\ Pow(t) <= m /\ m < Pow(t + 1)
    <2>1. F \in 0 .. Top /\ 2 * WB + 1 \in 0 .. Top
      BY <1>0
    <2>2. Pow(F) <= Pow(2 * WB + 1) /\ Pow(2 * WB + 1) \in Nat
      BY <1>0, <2>1, PowersInUse
    <2>3. m < Pow(2 * WB + 1)
      BY <1>0, <1>1, <2>2
    <2> HIDE DEF m
    <2> QED
      BY <1>1, <2>3, HighestBit
  <1> HIDE DEF t, m
  <1>5. t < F
    <2>1. CASE t >= F
      <3>1. F \in 0 .. Top /\ t \in 0 .. Top
        BY <1>0, <1>4
      <3>2. Pow(F) <= Pow(t) /\ Pow(t) \in Nat
        BY <2>1, <3>1, PowersInUse
      <3> QED
        BY <1>0, <1>1, <1>4, <3>2
    <2> QED
      BY <1>0, <1>4, <2>1
  <1>6. /\ k \in Nat /\ k > 0 /\ k <= F /\ t \in Nat /\ t + k = F /\ t + 1 + k = F + 1 /\ t + 1 \in Nat
        /\ k \in 0 .. Top /\ t \in 0 .. Top /\ t + 1 \in 0 .. Top /\ F \in 0 .. Top /\ F + 1 <= Top
    BY <1>0, <1>4, <1>5
  <1> HIDE DEF k
  <1>7. z \in Nat /\ z > 0 /\ Pow(F + 1) = 2 * D_IMPL /\ Pow(t) \in Nat /\ Pow(t + 1) \in Nat
    BY <1>0, <1>6, PowersInUse
  <1>8. Pow(t) * z = D_IMPL /\ Pow(t + 1) * z = 2 * D_IMPL
    <2>1. Pow(t + k) = Pow(t) * z
      BY <1>0, <1>6, PowersMultiply
    <2>2. Pow(t + 1 + k) = Pow(t + 1) * z
      BY <1>0, <1>6, PowersMultiply
    <2> QED
      BY <1>0, <1>6, <1>7, <2>1, <2>2
  <1> HIDE DEF z
  <1>9. q \in Nat /\ D_IMPL <= q /\ q < 2 * D_IMPL
    <2>1. Pow(t) * z <= m * z /\ m * z < Pow(t + 1) * z /\ m * z \in Nat
      BY <1>1, <1>4, <1>7, ProductsOrder
    <2> QED
      BY <1>8, <2>1
  <1>10. DoubleAmount(v) = m
    <2>1. u = m
      BY <1>0, <1>1
    <2>2. DoubleAmount(v) = Amount(u, F)
      BY DEF DoubleAmount, u
    <2> QED
      BY <1>1, <2>1, <2>2, AmountSmall
  <1>11. p.exp \in Int /\ p.exp - Lowest = 0 - k /\ p.exp # Special
    BY <1>0, <1>3, <1>6
  <1>12. Scaled(p.exp, 0, k)
    BY <1>0, <1>6, <1>11 DEF Scaled
  <1>13. DoubleAmount(v) * Pow(k) = p.sig * Pow(0)
    BY <1>3, <1>9, <1>10, Powers DEF z
  <1>14. ~ p.zero /\ p.sign \in {0, 1} /\ (p.sign = 1 <=> Negative(v))
    <2>1. m # 0
      BY <1>1
    <2>2. ~ p.zero
      BY <1>3, <2>1, Zenon
    <2> QED
      BY <1>1, <1>3, <2>2
  <1>15. Operand(v, p, 0, k)
    <2>1. 0 + 3 <= n
      BY <1>0
    <2> QED
      BY <1>1, <1>3, <1>6, <1>9, <1>10, <1>11, <1>12, <1>13, <1>14, <2>1 DEF Operand
  <1> QED
    BY <1>6, <1>15 DEF p

(* df_unpack, of any pattern. *)
LEMMA Unpacked ==
  ASSUME NEW v \in Double
  PROVE  LET p == df_unpack(v)
         IN  /\ p.sign \in {0, 1} /\ (p.sign = 1 <=> Negative(v)) /\ p.sign = Sign(v)
             /\ p.exp = Special <=> ~ IsFinite(v)
             /\ p.zero <=> IsZero(v)
             /\ ~ IsFinite(v) => p.sig = Fraction(v)
             /\ IsFinite(v) /\ ~ IsZero(v) => \E i, j \in Nat : Operand(v, p, i, j)
             /\ IsZero(v) => IsFinite(v) /\ DoubleAmount(v) = 0
  <1> DEFINE f == Field(v)
             m == Fraction(v)
             p == df_unpack(v)
             u == v % D_SIGN
             n == Pow(X)
  <1>0. /\ n \in Nat /\ n > 3 /\ D_IMPL \in Nat /\ D_IMPL > 0 /\ 2 ^ X = n /\ Special = 32767
    BY Patterns DEF Pow, Special
  <1>1. /\ u \in Nat /\ f \in Nat /\ f < n /\ m \in Nat /\ m < D_IMPL /\ u = f * D_IMPL + m
        /\ Sign(v) \in {0, 1} /\ (Sign(v) = 1 <=> Negative(v))
    BY PatternParts
  <1>2. IsFinite(v) <=> f # n - 1
    BY <1>0 DEF IsFinite
  <1>3. IsZero(v) <=> f = 0 /\ m = 0
    <2>1. IsZero(v) <=> u = 0
      BY DEF IsZero
    <2> HIDE DEF u, f, m
    <2>2. f * D_IMPL \in Nat /\ (f * D_IMPL = 0 <=> f = 0)
      BY <1>0, <1>1
    <2> QED
      BY <1>1, <2>1, <2>2
  <1>4. CASE f = n - 1
    <2>1. p = Parts(v, Special, m)
      BY <1>4, UnpackIs
    <2>2. p.sign = Sign(v) /\ p.exp = Special /\ p.sig = m /\ p.zero = (f = 0 /\ m = 0)
      BY <2>1 DEF Parts
    <2>3. f # 0
      BY <1>0, <1>4
    <2> HIDE DEF p, f, m, n
    <2> QED
      BY <1>1, <1>2, <1>3, <1>4, <2>2, <2>3 DEF p, m
  <1>5. CASE f = 0 /\ m = 0
    <2>1. p = Parts(v, 0, 0)
      BY <1>5, UnpackIs
    <2>2. p.sign = Sign(v) /\ p.exp = 0 /\ p.zero = (f = 0 /\ m = 0)
      BY <2>1 DEF Parts
    <2>3. f # n - 1 /\ 0 # Special
      BY <1>0, <1>5
    <2>4. DoubleAmount(v) = 0
      <3>1. u = 0
        BY <1>3, <1>5 DEF IsZero
      <3>2. DoubleAmount(v) = Amount(u, F)
        BY DEF DoubleAmount
      <3> QED
        BY <1>0, <3>1, <3>2, AmountSmall
    <2> HIDE DEF p, f, m, n
    <2> QED
      BY <1>1, <1>2, <1>3, <1>5, <2>2, <2>3, <2>4 DEF p, m
  <1>6. CASE f # n - 1 /\ ~ (f = 0 /\ m = 0)
    <2>1. \E i, j \in Nat : Operand(v, p, i, j)
      BY <1>2, <1>6, UnpackNormal, UnpackSubnormal
    <2>2. p.sign \in {0, 1} /\ (p.sign = 1 <=> Negative(v)) /\ p.exp # Special /\ ~ p.zero
      BY <2>1 DEF Operand
    <2>3. p.sign = Sign(v)
      <3>1. f = 0 \/ f # 0
        OBVIOUS
      <3> QED
        BY <1>6, <3>1, UnpackIs DEF Parts
    <2> HIDE DEF p, f, m, n
    <2> QED
      BY <1>2, <1>3, <1>6, <2>1, <2>2, <2>3 DEF p, m
  <1> QED
    BY <1>4, <1>5, <1>6

-----------------------------------------------------------------------------
(* Halving a quotient. *)
LEMMA HalfQuotient ==
  ASSUME NEW q \in Nat, NEW p \in Nat, p > 0
  PROVE  (q \div p) \in Nat /\ q \div (2 * p) = (q \div p) \div 2
  <1> DEFINE h == q \div p
             r == q % p
             u == h \div 2
             w == h % 2
  <1>1. h \in Nat /\ r \in Nat /\ r < p /\ q = h * p + r
    BY Divided
  <1>2. u \in Nat /\ w \in {0, 1} /\ h = 2 * u + w
    BY <1>1, Halved
  <1> HIDE DEF u, w, r, h
  <1>3. (2 * u + w) * p = u * (2 * p) + w * p /\ w * p \in Nat /\ w * p <= p
    BY <1>1, <1>2
  <1>4. q = u * (2 * p) + (w * p + r)
    BY <1>1, <1>2, <1>3
  <1>5. w * p + r \in Nat /\ w * p + r < 2 * p /\ 2 * p \in Nat /\ 2 * p > 0
    BY <1>1, <1>2, <1>3
  <1>6. (u * (2 * p) + (w * p + r)) \div (2 * p) = u
    BY <1>2, <1>5, DividedUnique
  <1> QED
    BY <1>1, <1>4, <1>6 DEF u, h

(* One more bit of b. *)
LEMMA NextBit ==
  ASSUME NEW b \in Nat, NEW i \in 1 .. WB
  PROVE  LET c == b \div Pow(WB - i)
         IN  c \in Nat /\ c % 2 \in Nat /\ b \div Pow(WB - (i - 1)) \in Nat
             /\ c = 2 * (b \div Pow(WB - (i - 1))) + (c % 2)
  <1> DEFINE k == WB - i
             p == Pow(k)
             c == b \div p
  <1>0. WB \in Nat /\ WB <= Top /\ Top \in Nat
    BY Widths
  <1>1. k \in 0 .. Top /\ WB - (i - 1) = k + 1
    BY <1>0
  <1> HIDE DEF k
  <1>2. p \in Nat /\ p > 0 /\ Pow(k + 1) = 2 * p
    BY <1>1, PowersInUse
  <1> HIDE DEF p
  <1>3. c \in Nat /\ b \div (2 * p) = c \div 2
    BY <1>2, HalfQuotient
  <1>4. c \div 2 \in Nat /\ c % 2 \in {0, 1} /\ c = 2 * (c \div 2) + (c % 2)
    BY <1>3, Halved
  <1>5. b \div Pow(WB - (i - 1)) = c \div 2
    BY <1>1, <1>2, <1>3
  <1>6. c % 2 \in Nat
    BY <1>4
  <1> HIDE DEF c
  <1>7. c \in Nat /\ c % 2 \in Nat /\ b \div Pow(WB - (i - 1)) \in Nat
        /\ c = 2 * (b \div Pow(WB - (i - 1))) + (c % 2)
    BY <1>3, <1>4, <1>5, <1>6
  <1> QED
    BY <1>7 DEF c, p, k

(* Shift and add multiplies. *)
LEMMA ShiftAndAdd ==
  ASSUME NEW a \in Nat, NEW b \in Nat, b < Pow(WB)
  PROVE  df_umul128(a, b) = a * b
  <1> DEFINE B(i) == b \div Pow(WB - i)
             Step(g) == [i \in 0 .. WB |-> IF i = 0 THEN 0 ELSE 2 * g[i - 1] + a * (B(i) % 2)]
             W == [i \in 0 .. WB |-> a * B(i)]
             product == CHOOSE g : g = Step(g)
             bad == {i \in Nat : i <= WB /\ product[i] # a * B(i)}
  <1>0. WB \in Nat /\ WB \in 0 .. Top /\ Pow(WB) \in Nat /\ Pow(WB) > 0
    BY Widths, PowersInUse
  <1>1. df_umul128(a, b) = product[WB]
    BY DEF df_umul128, Pow
  <1>2. B(0) = 0
    <2>1. WB - 0 = WB
      BY <1>0
    <2>2. b \div Pow(WB) = 0
      <3>1. b = 0 * Pow(WB) + b
        BY <1>0
      <3> QED
        BY <1>0, <3>1, DividedUnique
    <2> QED
      BY <2>1, <2>2
  <1>3. ASSUME NEW i \in 1 .. WB
        PROVE  /\ B(i) \in Nat /\ B(i - 1) \in Nat /\ B(i) % 2 \in Nat
               /\ 2 * (a * B(i - 1)) + a * (B(i) % 2) = a * B(i)
    <2>1. B(i) \in Nat /\ B(i) % 2 \in Nat /\ B(i - 1) \in Nat /\ B(i) = 2 * B(i - 1) + (B(i) % 2)
      BY NextBit
    <2> DEFINE c == B(i)
               d == B(i - 1)
               w == B(i) % 2
    <2>2. c \in Nat /\ d \in Nat /\ w \in Nat /\ c = 2 * d + w
      BY <2>1
    <2> HIDE DEF c, d, w
    <2>3. 2 * (a * d) + a * w = a * c
      BY <2>2
    <2> QED
      BY <2>1, <2>3 DEF c, d, w
  <1> HIDE DEF B
  <1>4. W = Step(W)
    <2>1. ASSUME NEW i \in 0 .. WB
          PROVE  a * B(i) = IF i = 0 THEN 0 ELSE 2 * W[i - 1] + a * (B(i) % 2)
      <3>1. CASE i = 0
        BY <1>2, <3>1
      <3>2. CASE i # 0
        <4>1. i \in 1 .. WB /\ i - 1 \in 0 .. WB
          BY <1>0, <3>2
        <4>2. W[i - 1] = a * B(i - 1)
          BY <4>1
        <4> HIDE DEF W
        <4> QED
          BY <1>3, <3>2, <4>1, <4>2
      <3> QED
        BY <3>1, <3>2
    <2> QED
      BY <2>1
  <1>5. product = Step(product)
    <2> HIDE DEF W, Step
    <2>1. \E g : g = Step(g)
      BY <1>4
    <2> QED
      BY <2>1, Zenon
  <1> HIDE DEF product
  <1>6. product[0] = 0 /\ \A i \in 1 .. WB : product[i] = 2 * product[i - 1] + a * (B(i) % 2)
    <2>1. 0 \in 0 .. WB /\ \A i \in 1 .. WB : i \in 0 .. WB /\ i # 0
      BY <1>0
    <2>2. \A i \in 0 .. WB : product[i] = IF i = 0 THEN 0 ELSE 2 * product[i - 1] + a * (B(i) % 2)
      BY <1>5
    <2> QED
      BY <2>1, <2>2
  <1>7. bad = {}
    <2> SUFFICES ASSUME bad # {} PROVE FALSE
      OBVIOUS
    <2>1. PICK m \in bad : \A i \in bad : m <= i
      BY LeastNumber
    <2>2. CASE m = 0
      BY <1>2, <1>6, <2>1, <2>2
    <2>3. CASE m # 0
      <3>1. m \in 1 .. WB /\ m - 1 \in Nat /\ m - 1 <= WB /\ m - 1 \notin bad
        BY <1>0, <2>1, <2>3
      <3>2. product[m - 1] = a * B(m - 1)
        BY <3>1
      <3>3. product[m] = 2 * (a * B(m - 1)) + a * (B(m) % 2)
        BY <1>6, <3>1, <3>2
      <3>4. product[m] = a * B(m)
        BY <1>3, <3>1, <3>3
      <3> QED
        BY <2>1, <3>4
    <2> QED
      BY <2>2, <2>3
  <1>8. product[WB] = a * B(WB)
    BY <1>0, <1>7
  <1>9. B(WB) = b
    <2>1. WB - WB = 0 /\ Pow(0) = 1 /\ b \div 1 = b
      BY <1>0, Powers
    <2> QED
      BY <2>1 DEF B
  <1> QED
    BY <1>1, <1>8, <1>9

(* The smallest subnormal numbers that make up one. *)
LEMMA UnitIs ==
  /\ - Lowest \in Nat /\ - Lowest = D_BIAS + F - 1 /\ Unit = Pow(- Lowest) /\ Unit \in Nat /\ Unit > 0
  /\ - Lowest < Pow(X) + F /\ - Lowest \in 0 .. Top
  <1>0. /\ D_BIAS \in Nat /\ D_BIAS > 0 /\ F \in Nat /\ F > 0 /\ Pow(X) \in Nat
        /\ Pow(X) = 2 * D_BIAS + 2 /\ Top = 2 * Pow(X) + 4 * F
    BY Patterns, Widths
  <1>1. - Lowest = D_BIAS + F - 1 /\ - Lowest \in Nat /\ - Lowest < Pow(X) + F /\ - Lowest \in 0 .. Top
    BY <1>0 DEF Lowest
  <1>2. Unit = Pow(D_BIAS + F - 1)
    BY DEF Unit, Pow
  <1>3. Pow(- Lowest) \in Nat /\ Pow(- Lowest) > 0
    BY <1>1, PowersInUse
  <1> QED
    BY <1>1, <1>2, <1>3

Exactly(a, j, s, i) == a * j = s * i

(* Arithmetic of the exact product, in subnormal units. *)
LEMMA ProductUnits ==
  ASSUME NEW ax \in Nat, NEW ay \in Nat, NEW sx \in Nat, NEW sy \in Nat,
         NEW jx \in Nat, NEW jy \in Nat, NEW ix \in Nat, NEW iy \in Nat, NEW u \in Nat,
         Exactly(ax, jx, sx, ix), Exactly(ay, jy, sy, iy)
  PROVE  Exactly(ax * ay, (jx * jy) * u, sx * sy, u * (ix * iy))
  <1> USE DEF Exactly
  <1> DEFINE a == ax * jx
             b == ay * jy
  <1>1. (ax * ay) * ((jx * jy) * u) = (a * b) * u
    <2>1. (ax * ay) * (jx * jy) = (ax * jx) * (ay * jy)
      OBVIOUS
    <2>2. (ax * ay) * ((jx * jy) * u) = ((ax * ay) * (jx * jy)) * u
      OBVIOUS
    <2> QED
      BY <2>1, <2>2
  <1>2. (sx * ix) * (sy * iy) = (sx * sy) * (ix * iy)
    OBVIOUS
  <1>3. ((sx * sy) * (ix * iy)) * u = (sx * sy) * (u * (ix * iy))
    OBVIOUS
  <1>4. a * b = (sx * ix) * (sy * iy)
    OBVIOUS
  <1> QED
    BY <1>1, <1>2, <1>3, <1>4

(* An exact number of units. *)
LEMMA ExactUnits ==
  ASSUME NEW n \in Nat, NEW d \in Nat, d > 0, NEW v \in Nat, n = v * d
  PROVE  IsCut(n, d, v, 0)
  <1>1. (v + 1) * d = v * d + d /\ v * d \in Nat
    OBVIOUS
  <1> QED
    BY <1>1 DEF IsCut

(* The product of two significands is what df_norm_pack128 asks for. *)
LEMMA ProductNormalizes ==
  ASSUME NEW a, NEW b, NEW p, NEW q, NEW ix, NEW jx, NEW iy, NEW jy,
         Operand(a, p, ix, jx), Operand(b, q, iy, jy)
  PROVE  /\ Scaled(p.exp + q.exp, ix + iy, jx + jy - Lowest)
         /\ Normalizes(DoubleAmount(a) * DoubleAmount(b), Unit, ix + iy, jx + jy - Lowest,
                       p.sig * q.sig, 0, 2 * F + 1)
  <1> DEFINE u == - Lowest
             i == ix + iy
             j == jx + jy + u
             w == p.sig * q.sig
             n == DoubleAmount(a) * DoubleAmount(b)
  <1>0. /\ u \in Nat /\ u = D_BIAS + F - 1 /\ Unit = Pow(u) /\ Unit \in Nat /\ Unit > 0
        /\ u < Pow(X) + F /\ u \in 0 .. Top /\ Lowest \in Int /\ Lowest = - u
    <2>1. Lowest \in Int
      BY Patterns, Widths DEF Lowest
    <2> QED
      BY <2>1, UnitIs
  <1>1. /\ Pow(X) \in Nat /\ F \in Nat /\ F > 0 /\ Top \in Nat /\ Top = 2 * Pow(X) + 4 * F /\ WB \in Nat
        /\ F < WB /\ D_IMPL = Pow(F) /\ D_IMPL \in Nat /\ D_IMPL > 0 /\ D_BIAS \in Nat
        /\ Pow(X) = 2 * D_BIAS + 2 /\ F < Pow(X)
    BY Patterns, Widths
  <1>2. /\ p.sig \in Nat /\ D_IMPL <= p.sig /\ p.sig < 2 * D_IMPL
        /\ p.exp \in Int /\ ix \in Nat /\ jx \in Nat /\ p.exp - Lowest = ix - jx
        /\ ix + 3 <= Pow(X) /\ jx <= F
        /\ DoubleAmount(a) \in Nat /\ DoubleAmount(a) * Pow(jx) = p.sig * Pow(ix)
    BY DEF Operand, Scaled
  <1>3. /\ q.sig \in Nat /\ D_IMPL <= q.sig /\ q.sig < 2 * D_IMPL
        /\ q.exp \in Int /\ iy \in Nat /\ jy \in Nat /\ q.exp - Lowest = iy - jy
        /\ iy + 3 <= Pow(X) /\ jy <= F
        /\ DoubleAmount(b) \in Nat /\ DoubleAmount(b) * Pow(jy) = q.sig * Pow(iy)
    BY DEF Operand, Scaled
  <1> HIDE DEF u
  <1>4. j = jx + jy - Lowest
    BY <1>0, <1>2, <1>3
  <1>5. /\ i \in Nat /\ j \in Nat /\ i < Top /\ j <= Top /\ j + F <= Top /\ i + (2 * F + 1) < Top + F
        /\ p.exp + q.exp \in Int /\ p.exp + q.exp - Lowest = i - j
    BY <1>0, <1>1, <1>2, <1>3
  <1>6. Scaled(p.exp + q.exp, i, j)
    <2> DEFINE e == p.exp + q.exp
    <2>1. e \in Int /\ e - Lowest = i - j /\ i \in Nat /\ j \in Nat /\ i < Top /\ j <= Top
      BY <1>0, <1>2, <1>3, <1>5
    <2> HIDE DEF i, j, e
    <2>2. Scaled(e, i, j)
      BY <2>1 DEF Scaled
    <2> QED
      BY <2>2 DEF e
  <1>7. /\ Pow(ix) \in Nat /\ Pow(iy) \in Nat /\ Pow(jx) \in Nat /\ Pow(jy) \in Nat
        /\ Pow(ix) > 0 /\ Pow(iy) > 0
    <2>1. ix \in 0 .. Top /\ iy \in 0 .. Top /\ jx \in 0 .. Top /\ jy \in 0 .. Top
      BY <1>1, <1>2, <1>3
    <2> QED
      BY <2>1, PowersInUse
  <1>8. Pow(i) = Pow(ix) * Pow(iy) /\ Pow(j) = (Pow(jx) * Pow(jy)) * Pow(u)
    <2>1. jx + jy \in Nat /\ jx + jy <= Top /\ (jx + jy) + u <= Top /\ ix + iy <= Top
      BY <1>0, <1>1, <1>2, <1>3, <1>5
    <2>2. Pow((jx + jy) + u) = Pow(jx + jy) * Pow(u) /\ Pow(jx + jy) = Pow(jx) * Pow(jy)
      BY <1>0, <1>2, <1>3, <2>1, PowersMultiply
    <2>3. Pow(ix + iy) = Pow(ix) * Pow(iy)
      BY <1>2, <1>3, <2>1, PowersMultiply
    <2> QED
      BY <2>2, <2>3
  <1>9. w \in Nat /\ w > 0 /\ n \in Nat
    <2> DEFINE s == p.sig
               t == q.sig
    <2>1. s \in Nat /\ s > 0 /\ t \in Nat /\ t > 0
      BY <1>1, <1>2, <1>3
    <2> HIDE DEF s, t
    <2>2. s * t \in Nat /\ s * t > 0
      BY <2>1
    <2>3. n \in Nat
      BY <1>2, <1>3
    <2> QED
      BY <2>2, <2>3 DEF s, t
  <1>10. w < Pow((2 * F + 1) + 1)
    <2>1. F + 1 \in Nat /\ (F + 1) + (F + 1) <= Top /\ F \in 0 .. Top /\ (2 * F + 1) + 1 = (F + 1) + (F + 1)
      BY <1>1
    <2>2. Pow(F + 1) = 2 * D_IMPL /\ Pow((F + 1) + (F + 1)) = Pow(F + 1) * Pow(F + 1)
      BY <1>1, <2>1, PowersInUse, PowersMultiply
    <2> DEFINE s == p.sig
               t == q.sig
               z == 2 * D_IMPL
    <2>3. s \in Nat /\ t \in Nat /\ z \in Nat /\ s < z /\ t < z /\ z > 0
      BY <1>1, <1>2, <1>3
    <2> HIDE DEF s, t, z
    <2>4. s * t <= z * t /\ t * z < z * z /\ z * t = t * z /\ s * t \in Nat /\ z * z \in Nat /\ z * t \in Nat
      BY <2>3, ProductsOrder
    <2>5. s * t < z * z
      BY <2>4
    <2> QED
      BY <2>1, <2>2, <2>5 DEF s, t, z
  <1>11. n * Pow(j) = w * (Unit * Pow(i))
    <2> DEFINE ax == DoubleAmount(a)
               ay == DoubleAmount(b)
               sx == p.sig
               sy == q.sig
               c == Pow(ix)
               d == Pow(iy)
               f == Pow(jx)
               g == Pow(jy)
    <2>1. /\ ax \in Nat /\ ay \in Nat /\ sx \in Nat /\ sy \in Nat /\ c \in Nat /\ d \in Nat
          /\ f \in Nat /\ g \in Nat /\ Pow(u) \in Nat
      BY <1>0, <1>2, <1>3, <1>7
    <2>2. Exactly(ax, f, sx, c) /\ Exactly(ay, g, sy, d)
      BY <1>2, <1>3 DEF Exactly
    <2> HIDE DEF ax, ay, sx, sy, c, d, f, g
    <2>3. Exactly(ax * ay, (f * g) * Pow(u), sx * sy, Pow(u) * (c * d))
      BY <2>1, <2>2, ProductUnits
    <2> QED
      BY <1>0, <1>8, <2>3 DEF Exactly, ax, ay, sx, sy, c, d, f, g
  <1> HIDE DEF i, j, w, n
  <1>12. Units(n, Unit, i, j, w, 0)
    <2>1. Pow(i) \in Nat /\ Pow(i) > 0 /\ Pow(j) \in Nat
      <3>1. i \in 0 .. Top /\ j \in 0 .. Top
        BY <1>1, <1>5
      <3> QED
        BY <3>1, PowersInUse
    <2>2. n * Pow(j) \in Nat /\ Unit * Pow(i) \in Nat /\ Unit * Pow(i) > 0
      <3> DEFINE c == Pow(i)
                 d == Pow(j)
      <3>1. c \in Nat /\ c > 0 /\ d \in Nat
        BY <2>1
      <3> HIDE DEF c, d
      <3>2. n * d \in Nat /\ Unit * c \in Nat /\ Unit * c > 0
        BY <1>0, <1>9, <3>1
      <3> QED
        BY <3>2 DEF c, d
    <2>3. IsCut(n * Pow(j), Unit * Pow(i), w, 0)
      BY <1>9, <1>11, <2>2, ExactUnits
    <2> QED
      BY <1>0, <1>9, <2>3 DEF Units
  <1>13. Normalizes(n, Unit, i, j, w, 0, 2 * F + 1)
    <2>1. 2 * F + 1 \in Nat /\ 2 * F + 1 <= 2 * WB
      BY <1>1
    <2> QED
      BY <1>5, <1>9, <1>10, <1>12, <2>1 DEF Normalizes
  <1> QED
    BY <1>4, <1>6, <1>13 DEF i, w, n

(* The sign of a product or quotient. *)
LEMMA ProductSign ==
  ASSUME NEW g \in {0, 1}, NEW h \in {0, 1}
  PROVE  (g + h) % 2 \in {0, 1} /\ ((g + h) % 2 = 1 <=> g # h)
  <1>1. CASE g = 0
    BY <1>1
  <1>2. CASE g = 1
    BY <1>2
  <1> QED
    BY <1>1, <1>2

(* Sign and magnitude of a product or quotient. *)
RoundsAsProduct(r, a, b, num, den) ==
  \E sign \in {0, 1} : Rounds(r, sign, num, den) /\ (sign = 1 <=> (Negative(a) # Negative(b)))

(* __muldf3 of finite numbers is their product, rounded. *)
LEMMA MultipliesNearest ==
  ASSUME NEW a \in Double, NEW b \in Double, IsFinite(a), IsFinite(b)
  PROVE  RoundsAsProduct(__muldf3(a, b), a, b, DoubleAmount(a) * DoubleAmount(b), Unit)
  <1> DEFINE p == df_unpack(a)
             q == df_unpack(b)
             sign == (p.sign + q.sign) % 2
             r == __muldf3(a, b)
             n == DoubleAmount(a) * DoubleAmount(b)
  <1>0. /\ p.sign \in {0, 1} /\ (p.sign = 1 <=> Negative(a)) /\ p.exp # Special
        /\ (p.zero <=> IsZero(a))
        /\ (~ IsZero(a) => \E i, j \in Nat : Operand(a, p, i, j)) /\ (IsZero(a) => DoubleAmount(a) = 0)
    BY Unpacked
  <1>1. /\ q.sign \in {0, 1} /\ (q.sign = 1 <=> Negative(b)) /\ q.exp # Special
        /\ (q.zero <=> IsZero(b))
        /\ (~ IsZero(b) => \E i, j \in Nat : Operand(b, q, i, j)) /\ (IsZero(b) => DoubleAmount(b) = 0)
    BY Unpacked
  <1>2. r = Product(p, q)
    BY DEF __muldf3
  <1> HIDE DEF p, q, r
  <1>3. sign \in {0, 1} /\ (sign = 1 <=> p.sign # q.sign)
    BY <1>0, <1>1, ProductSign
  <1>4. sign = 1 <=> (Negative(a) # Negative(b))
    <2>1. Negative(a) \in BOOLEAN /\ Negative(b) \in BOOLEAN
      BY DEF Negative
    <2>2. p.sign # q.sign <=> ~ (p.sign = 1 <=> q.sign = 1)
      BY <1>0, <1>1
    <2> HIDE DEF sign
    <2> QED
      BY <1>0, <1>1, <1>3, <2>1, <2>2, Zenon
  <1>5. Unit \in Nat /\ Unit > 0
    BY UnitIs
  <1>6. CASE IsZero(a) \/ IsZero(b)
    <2>1. n = 0
      <3>1. IsZero(a) => n = 0
        <4>1. CASE IsZero(a) /\ IsZero(b)
          BY <1>0, <1>1, <4>1
        <4>2. CASE IsZero(a) /\ ~ IsZero(b)
          <5>1. DoubleAmount(b) \in Nat
            BY <1>1, <4>2 DEF Operand
          <5> QED
            BY <1>0, <4>2, <5>1
        <4> QED
          BY <4>1, <4>2
      <3>2. ~ IsZero(a) /\ IsZero(b) => n = 0
        <4>1. ~ IsZero(a) => DoubleAmount(a) \in Nat
          BY <1>0 DEF Operand
        <4> QED
          BY <1>1, <4>1
      <3> QED
        BY <1>6, <3>1, <3>2
    <2>2. r = Signed(sign)
      BY <1>0, <1>1, <1>2, <1>6 DEF Product, IsNaN, IsInf
    <2>3. 2 * n < Unit /\ n \in Nat
      BY <1>5, <2>1
    <2> HIDE DEF sign, n
    <2>4. Rounds(r, sign, n, Unit)
      BY <1>3, <1>5, <2>2, <2>3, TinyIsZero
    <2> QED
      BY <1>3, <1>4, <2>4 DEF RoundsAsProduct, r, n
  <1>7. CASE ~ IsZero(a) /\ ~ IsZero(b)
    <2>1. PICK ix \in Nat, jx \in Nat : Operand(a, p, ix, jx)
      BY <1>0, <1>7
    <2>2. PICK iy \in Nat, jy \in Nat : Operand(b, q, iy, jy)
      BY <1>1, <1>7
    <2> DEFINE w == df_umul128(p.sig, q.sig)
    <2>3. w = p.sig * q.sig
      <3>1. p.sig \in Nat /\ q.sig \in Nat /\ q.sig < 2 * D_IMPL
        BY <2>1, <2>2 DEF Operand
      <3>2. q.sig < Pow(WB)
        <4>1. F \in 0 .. Top /\ F + 1 \in 0 .. Top /\ WB \in 0 .. Top /\ F + 1 <= WB /\ D_IMPL = Pow(F)
          BY Widths, Patterns
        <4>2. Pow(F + 1) = 2 * D_IMPL /\ Pow(F + 1) <= Pow(WB) /\ Pow(F + 1) \in Nat /\ Pow(WB) \in Nat
          BY <4>1, PowersInUse
        <4> QED
          BY <3>1, <4>2
      <3> QED
        BY <3>1, <3>2, ShiftAndAdd
    <2>4. r = df_norm_pack128(sign, w, p.exp + q.exp, 0)
      BY <1>0, <1>1, <1>2, <1>7 DEF Product, IsNaN, IsInf
    <2>5. Scaled(p.exp + q.exp, ix + iy, jx + jy - Lowest)
          /\ Normalizes(n, Unit, ix + iy, jx + jy - Lowest, p.sig * q.sig, 0, 2 * F + 1)
      BY <2>1, <2>2, ProductNormalizes
    <2> HIDE DEF sign, n, w
    <2>6. Rounds(df_norm_pack128(sign, w, p.exp + q.exp, 0), sign, n, Unit)
      BY <1>3, <2>3, <2>5, NormPackIsNearest
    <2>7. Rounds(r, sign, n, Unit)
      BY <2>4, <2>6
    <2> QED
      BY <1>3, <1>4, <2>7 DEF RoundsAsProduct, r, n
  <1> QED
    BY <1>6, <1>7

-----------------------------------------------------------------------------
(* One step of restoring division. *)
Subtracted(q, r, mb) ==
  IF r >= mb THEN [q |-> 2 * q + 1, r |-> r - mb] ELSE [q |-> 2 * q, r |-> r]

(* n / d cut to an integer, and the remainder. *)
Divides(n, d, t) ==
  t = [q |-> n \div d, r |-> n % d]

(* One subtraction of the restoring division. *)
LEMMA RestoringStep ==
  ASSUME NEW d \in Nat, d > 0, NEW q \in Nat, NEW r \in Nat, r < 2 * d
  PROVE  Divides((2 * q) * d + r, d, Subtracted(q, r, d))
  <1> DEFINE n == (2 * q) * d + r
  <1>1. CASE r >= d
    <2> DEFINE c == 2 * q + 1
               e == r - d
    <2>1. n = c * d + e /\ c \in Nat /\ e \in Nat /\ e < d
      BY <1>1
    <2>2. Subtracted(q, r, d) = [q |-> c, r |-> e]
      BY <1>1 DEF Subtracted
    <2> HIDE DEF n, c, e
    <2>3. n \div d = c /\ n % d = e
      BY <2>1, DividedUnique
    <2> QED
      BY <2>2, <2>3 DEF Divides, n
  <1>2. CASE ~ (r >= d)
    <2> DEFINE c == 2 * q
    <2>1. n = c * d + r /\ c \in Nat /\ r < d
      BY <1>2
    <2>2. Subtracted(q, r, d) = [q |-> c, r |-> r]
      BY <1>2 DEF Subtracted
    <2> HIDE DEF n, c
    <2>3. n \div d = c /\ n % d = r
      BY <2>1, DividedUnique
    <2> QED
      BY <2>2, <2>3 DEF Divides, n
  <1> QED
    BY <1>1, <1>2

(* The quotient and the remainder after i more bits. *)
LEMMA RestoringBit ==
  ASSUME NEW ma \in Nat, NEW mb \in Nat, mb > 0, NEW i \in 0 .. F + 1
  PROVE  LET n == ma * Pow(i)
         IN  Divides(ma * Pow(i + 1), mb, Subtracted(n \div mb, 2 * (n % mb), mb))
  <1> DEFINE z == Pow(i)
             n == ma * z
             q == n \div mb
             r == n % mb
  <1>0. i \in 0 .. Top
    BY Widths
  <1>1. z \in Nat /\ Pow(i + 1) = 2 * z
    BY <1>0, PowersInUse
  <1> HIDE DEF z
  <1>2. n \in Nat /\ ma * (2 * z) = 2 * n
    BY <1>1
  <1> HIDE DEF n
  <1>3. q \in Nat /\ r \in Nat /\ r < mb /\ n = q * mb + r
    BY <1>2, Divided
  <1> HIDE DEF q, r
  <1>4. 2 * n = (2 * q) * mb + 2 * r /\ 2 * r \in Nat /\ 2 * r < 2 * mb
    BY <1>3
  <1>5. Divides((2 * q) * mb + 2 * r, mb, Subtracted(q, 2 * r, mb))
    BY <1>3, <1>4, RestoringStep
  <1>6. ma * Pow(i + 1) = (2 * q) * mb + 2 * r
    BY <1>1, <1>2, <1>4
  <1> QED
    BY <1>5, <1>6 DEF q, r, n, z

(* Long division divides. *)
LEMMA LongDivides ==
  ASSUME NEW ma \in Nat, NEW mb \in Nat, mb > 0, ma < 2 * mb
  PROVE  Divides(ma * Pow(F + 2), mb, LongDivision(ma, mb))
  <1> DEFINE Step(g) == [i \in 0 .. F + 2 |-> IF i = 0 THEN Subtracted(0, ma, mb)
                                             ELSE Subtracted(g[i - 1].q, 2 * g[i - 1].r, mb)]
             At(i) == [q |-> (ma * Pow(i)) \div mb, r |-> (ma * Pow(i)) % mb]
             W == [i \in 0 .. F + 2 |-> At(i)]
             quotient == CHOOSE g : g = Step(g)
             bad == {i \in Nat : i <= F + 2 /\ quotient[i] # At(i)}
  <1>0. F \in Nat /\ F + 2 \in Nat
    BY Widths
  <1>1. LongDivision(ma, mb) = quotient[F + 2]
    BY Zenon DEF LongDivision, Subtracted
  <1>2. Subtracted(0, ma, mb) = At(0)
    <2>1. Divides((2 * 0) * mb + ma, mb, Subtracted(0, ma, mb))
      BY RestoringStep
    <2>2. (2 * 0) * mb + ma = ma /\ ma * Pow(0) = ma
      BY Powers
    <2> QED
      BY <2>1, <2>2 DEF Divides
  <1>3. ASSUME NEW i \in 1 .. F + 2
        PROVE  Subtracted(At(i - 1).q, 2 * At(i - 1).r, mb) = At(i)
    <2>1. i - 1 \in 0 .. F + 1 /\ (i - 1) + 1 = i
      BY <1>0
    <2>2. Divides(ma * Pow((i - 1) + 1), mb, Subtracted(At(i - 1).q, 2 * At(i - 1).r, mb))
      BY <2>1, RestoringBit
    <2> QED
      BY <2>1, <2>2 DEF Divides
  <1> HIDE DEF At
  <1>4. W = Step(W)
    <2>1. ASSUME NEW i \in 0 .. F + 2
          PROVE  At(i) = IF i = 0 THEN Subtracted(0, ma, mb)
                         ELSE Subtracted(W[i - 1].q, 2 * W[i - 1].r, mb)
      <3>1. CASE i = 0
        BY <1>2, <3>1
      <3>2. CASE i # 0
        <4>1. i \in 1 .. F + 2 /\ i - 1 \in 0 .. F + 2
          BY <1>0, <3>2
        <4>2. W[i - 1] = At(i - 1)
          BY <4>1
        <4> HIDE DEF W
        <4> QED
          BY <1>3, <3>2, <4>1, <4>2
      <3> QED
        BY <3>1, <3>2
    <2> QED
      BY <2>1
  <1>5. quotient = Step(quotient)
    <2> HIDE DEF W, Step
    <2>1. \E g : g = Step(g)
      BY <1>4
    <2> QED
      BY <2>1, Zenon
  <1> HIDE DEF quotient
  <1>6. /\ quotient[0] = Subtracted(0, ma, mb)
        /\ \A i \in 1 .. F + 2 :
             quotient[i] = Subtracted(quotient[i - 1].q, 2 * quotient[i - 1].r, mb)
    <2>1. 0 \in 0 .. F + 2 /\ \A i \in 1 .. F + 2 : i \in 0 .. F + 2 /\ i # 0
      BY <1>0
    <2>2. \A i \in 0 .. F + 2 :
            quotient[i] = IF i = 0 THEN Subtracted(0, ma, mb)
                          ELSE Subtracted(quotient[i - 1].q, 2 * quotient[i - 1].r, mb)
      BY <1>5
    <2> QED
      BY <2>1, <2>2
  <1>7. bad = {}
    <2> SUFFICES ASSUME bad # {} PROVE FALSE
      OBVIOUS
    <2>1. PICK m \in bad : \A i \in bad : m <= i
      BY LeastNumber
    <2>2. CASE m = 0
      BY <1>2, <1>6, <2>1, <2>2
    <2>3. CASE m # 0
      <3>1. m \in 1 .. F + 2 /\ m - 1 \in Nat /\ m - 1 <= F + 2 /\ m - 1 \notin bad
        BY <1>0, <2>1, <2>3
      <3>2. quotient[m - 1] = At(m - 1)
        BY <3>1
      <3>3. quotient[m] = Subtracted(At(m - 1).q, 2 * At(m - 1).r, mb)
        BY <1>6, <3>1, <3>2
      <3>4. quotient[m] = At(m)
        BY <1>3, <3>1, <3>3
      <3> QED
        BY <2>1, <3>4
    <2> QED
      BY <2>2, <2>3
  <1>8. quotient[F + 2] = At(F + 2)
    BY <1>0, <1>7
  <1> QED
    BY <1>1, <1>8 DEF Divides, At

(* Arithmetic of the exact quotient. *)
LEMMA QuotientUnits ==
  ASSUME NEW ax \in Nat, NEW ay \in Nat, NEW sx \in Nat, NEW sy \in Nat,
         NEW jx \in Nat, NEW jy \in Nat, NEW ix \in Nat, NEW iy \in Nat, NEW u \in Nat, NEW f \in Nat,
         Exactly(ax, jx, sx, ix), Exactly(ay, jy, sy, iy)
  PROVE  /\ Exactly(ax * u, (jx * iy) * f, sx * f, (ix * iy) * u)
         /\ Exactly(ay, (ix * jy) * u, sy, (ix * iy) * u)
  <1> USE DEF Exactly
  <1>1. (ax * u) * ((jx * iy) * f) = (ax * jx) * ((u * iy) * f)
    <2>1. (ax * u) * ((jx * iy) * f) = ax * (u * ((jx * iy) * f))
      OBVIOUS
    <2>2. u * ((jx * iy) * f) = jx * ((u * iy) * f)
      OBVIOUS
    <2> QED
      BY <2>1, <2>2
  <1>2. (sx * f) * ((ix * iy) * u) = (sx * ix) * ((u * iy) * f)
    <2>1. (sx * f) * ((ix * iy) * u) = sx * (f * ((ix * iy) * u))
      OBVIOUS
    <2>2. f * ((ix * iy) * u) = ix * ((u * iy) * f)
      OBVIOUS
    <2> QED
      BY <2>1, <2>2
  <1>3. ay * ((ix * jy) * u) = (ay * jy) * (ix * u) /\ sy * ((ix * iy) * u) = (sy * iy) * (ix * u)
    OBVIOUS
  <1> QED
    BY <1>1, <1>2, <1>3

(* The quotient of two significands, with a sticky bit for the remainder,  *)
(* is what df_norm_pack asks for.                                          *)
LEMMA QuotientNormalizes ==
  ASSUME NEW a, NEW b, NEW p, NEW q, NEW ix, NEW jx, NEW iy, NEW jy,
         Operand(a, p, ix, jx), Operand(b, q, iy, jy),
         NEW t, Divides(p.sig * Pow(F + 2), q.sig, t)
  PROVE  /\ Scaled(p.exp - q.exp - (F + 2), ix + jy - Lowest, jx + iy + (F + 2))
         /\ Normalizes(DoubleAmount(a) * Unit, DoubleAmount(b), ix + jy - Lowest,
                       jx + iy + (F + 2), t.q, Remains(t.r), F + 2)
  <1> DEFINE u == - Lowest
             i == ix + jy + u
             j == jx + iy + (F + 2)
             sx == p.sig
             sy == q.sig
             ax == DoubleAmount(a)
             ay == DoubleAmount(b)
             n == ax * Unit
             w == t.q
             s == Remains(t.r)
             f == Pow(F + 2)
             m == D_IMPL
             e == p.exp - q.exp - (F + 2)
  <1>0. /\ u \in Nat /\ u = D_BIAS + F - 1 /\ Unit = Pow(u) /\ Unit \in Nat /\ Unit > 0
        /\ u < Pow(X) + F /\ u \in 0 .. Top /\ Lowest \in Int /\ Lowest = - u
    <2>1. Lowest \in Int
      BY Patterns, Widths DEF Lowest
    <2> QED
      BY <2>1, UnitIs
  <1>1. /\ Pow(X) \in Nat /\ F \in Nat /\ F > 0 /\ Top \in Nat /\ Top = 2 * Pow(X) + 4 * F /\ WB \in Nat
        /\ F + 2 < WB /\ m = Pow(F) /\ m \in Nat /\ m > 0 /\ D_BIAS \in Nat
        /\ Pow(X) = 2 * D_BIAS + 2 /\ F < Pow(X) /\ Pow(X) > 3
    BY Patterns, Widths
  <1>2. /\ sx \in Nat /\ m <= sx /\ sx < 2 * m
        /\ p.exp \in Int /\ ix \in Nat /\ jx \in Nat /\ p.exp - Lowest = ix - jx
        /\ ix + 3 <= Pow(X) /\ jx <= F
        /\ ax \in Nat /\ ax * Pow(jx) = sx * Pow(ix)
    BY DEF Operand, Scaled
  <1>3. /\ sy \in Nat /\ m <= sy /\ sy < 2 * m
        /\ q.exp \in Int /\ iy \in Nat /\ jy \in Nat /\ q.exp - Lowest = iy - jy
        /\ iy + 3 <= Pow(X) /\ jy <= F
        /\ ay \in Nat /\ ay > 0 /\ ay * Pow(jy) = sy * Pow(iy)
    BY DEF Operand, Scaled
  <1>4. t.q = (sx * f) \div sy /\ t.r = (sx * f) % sy
    BY DEF Divides
  <1> HIDE DEF u, sx, sy, ax, ay, m
  <1>5. i = ix + jy - Lowest
    BY <1>0, <1>2, <1>3
  <1>6. /\ i \in Nat /\ j \in Nat /\ i < Top /\ j <= Top /\ j + F <= Top /\ i + (F + 2) < Top + F
        /\ e \in Int /\ e - Lowest = i - j
    BY <1>0, <1>1, <1>2, <1>3
  <1>7. Scaled(e, i, j)
    <2>1. e \in Int /\ e - Lowest = i - j /\ i \in Nat /\ j \in Nat /\ i < Top /\ j <= Top
      BY <1>0, <1>2, <1>3, <1>6
    <2> HIDE DEF i, j, e
    <2> QED
      BY <2>1 DEF Scaled
  <1>8. /\ Pow(ix) \in Nat /\ Pow(iy) \in Nat /\ Pow(jx) \in Nat /\ Pow(jy) \in Nat
        /\ Pow(ix) > 0 /\ Pow(iy) > 0 /\ f \in Nat /\ f > 0
    <2>1. ix \in 0 .. Top /\ iy \in 0 .. Top /\ jx \in 0 .. Top /\ jy \in 0 .. Top /\ F + 2 \in 0 .. Top
      BY <1>1, <1>2, <1>3
    <2> QED
      BY <2>1, PowersInUse
  <1>9. Pow(i) = (Pow(ix) * Pow(jy)) * Pow(u) /\ Pow(j) = (Pow(jx) * Pow(iy)) * f
    <2>1. /\ ix + jy \in Nat /\ ix + jy <= Top /\ (ix + jy) + u <= Top
          /\ jx + iy \in Nat /\ jx + iy <= Top /\ (jx + iy) + (F + 2) <= Top /\ F + 2 \in Nat
      BY <1>0, <1>1, <1>2, <1>3, <1>6
    <2>2. Pow((ix + jy) + u) = Pow(ix + jy) * Pow(u) /\ Pow(ix + jy) = Pow(ix) * Pow(jy)
      BY <1>0, <1>2, <1>3, <2>1, PowersMultiply
    <2>3. Pow((jx + iy) + (F + 2)) = Pow(jx + iy) * Pow(F + 2) /\ Pow(jx + iy) = Pow(jx) * Pow(iy)
      BY <1>2, <1>3, <2>1, PowersMultiply
    <2> QED
      BY <2>2, <2>3
  <1>10. f = 4 * m
    <2>1. F \in 0 .. Top /\ F + 1 \in 0 .. Top /\ (F + 1) + 1 = F + 2
      BY <1>1
    <2>2. Pow(F + 1) = 2 * m /\ Pow((F + 1) + 1) = 2 * Pow(F + 1)
      BY <1>1, <2>1, PowersInUse
    <2> QED
      BY <1>1, <2>1, <2>2
  <1>11. IsCut(sx * f, sy, w, s) /\ w \in Nat /\ s \in {0, 1}
    <2> DEFINE h == sx * f
               r == h % sy
    <2>1. h \in Nat /\ sy \in Nat /\ sy > 0
      BY <1>1, <1>2, <1>3, <1>8
    <2>2. w = h \div sy /\ s = Remains(r)
      BY <1>4
    <2> HIDE DEF h, w, s
    <2>3. w \in Nat /\ r \in Nat /\ r < sy /\ h = w * sy + r
      BY <2>1, <2>2, Divided
    <2> HIDE DEF r
    <2>4. (w + 1) * sy = w * sy + sy /\ w * sy \in Nat
      BY <2>1, <2>3
    <2>5. s \in {0, 1} /\ (s = 0 <=> r = 0)
      BY <2>2 DEF Remains, Bit
    <2>6. w * sy <= h /\ h < (w + 1) * sy /\ (s = 0 <=> h = w * sy)
      BY <2>1, <2>3, <2>4, <2>5
    <2>7. IsCut(h, sy, w, s)
      BY <2>1, <2>3, <2>5, <2>6 DEF IsCut
    <2> QED
      BY <2>3, <2>5, <2>7 DEF h
  <1>12. w >= 2 * m /\ w < Pow((F + 2) + 1)
    <2>1. F + 2 \in 0 .. Top
      BY <1>1
    <2>2. Pow((F + 2) + 1) = 2 * f
      BY <2>1, PowersInUse
    <2>3. sx * f >= (2 * m) * sy
      <3>1. (2 * m) * sy <= (2 * m) * (2 * sx)
        <4>1. sy <= 2 * sx /\ 2 * m \in Nat /\ 2 * sx \in Nat
          BY <1>1, <1>2, <1>3
        <4>2. sy * (2 * m) <= (2 * sx) * (2 * m)
          BY <1>3, <4>1, ProductsOrder
        <4> QED
          BY <1>1, <1>2, <1>3, <4>2
      <3>2. (2 * m) * (2 * sx) = sx * (4 * m)
        BY <1>1, <1>2
      <3> QED
        BY <1>10, <3>1, <3>2
    <2>4. sx * f < (2 * f) * sy
      <3>1. sx < 2 * sy /\ 2 * sy \in Nat
        BY <1>1, <1>2, <1>3
      <3>2. sx * f < (2 * sy) * f
        BY <1>2, <1>8, <3>1, ProductsOrder
      <3>3. (2 * sy) * f = (2 * f) * sy
        BY <1>3, <1>8
      <3> QED
        BY <3>2, <3>3
    <2> DEFINE h == sx * f
    <2>5. h \in Nat /\ sy > 0 /\ 2 * m \in Nat /\ 2 * f \in Nat
      BY <1>1, <1>2, <1>3, <1>8
    <2>6. w = h \div sy
      BY <1>4
    <2> HIDE DEF h, w, f
    <2>7. w >= 2 * m /\ w < 2 * f
      BY <1>3, <2>3, <2>4, <2>5, <2>6, QuotientBounds DEF h
    <2> QED
      BY <2>2, <2>7 DEF f
  <1> DEFINE c == (Pow(ix) * Pow(iy)) * Pow(u)
  <1>13. Exactly(n, Pow(j), sx * f, c) /\ Exactly(ay, Pow(i), sy, c)
    <2> DEFINE k == Pow(ix)
               d == Pow(iy)
               g == Pow(jx)
               h == Pow(jy)
    <2>1. k \in Nat /\ d \in Nat /\ g \in Nat /\ h \in Nat /\ Pow(u) \in Nat /\ f \in Nat
      BY <1>0, <1>8
    <2>2. Exactly(ax, g, sx, k) /\ Exactly(ay, h, sy, d)
      BY <1>2, <1>3 DEF Exactly
    <2> HIDE DEF k, d, g, h, f
    <2>3. /\ Exactly(ax * Pow(u), (g * d) * f, sx * f, (k * d) * Pow(u))
          /\ Exactly(ay, (k * h) * Pow(u), sy, (k * d) * Pow(u))
      BY <1>2, <1>3, <2>1, <2>2, QuotientUnits
    <2> QED
      BY <1>0, <1>9, <2>3 DEF k, d, g, h, f
  <1>14. c \in Nat /\ c > 0
    <2> DEFINE k == Pow(ix)
               d == Pow(iy)
               g == Pow(u)
    <2>1. k \in Nat /\ d \in Nat /\ g \in Nat /\ k > 0 /\ d > 0 /\ g > 0
      BY <1>0, <1>8
    <2> HIDE DEF k, d, g
    <2>2. k * d \in Nat /\ k * d > 0
      BY <2>1
    <2>3. (k * d) * g \in Nat /\ (k * d) * g > 0
      BY <2>1, <2>2
    <2> QED
      BY <2>3 DEF k, d, g
  <1>15. n \in Nat
    BY <1>0, <1>2
  <1> HIDE DEF i, j, n, w, s, f, c, e
  <1>16. Units(n, ay, i, j, w, s)
    <2>1. n * Pow(j) = (sx * f) * c /\ ay * Pow(i) = sy * c
      BY <1>13 DEF Exactly
    <2>2. sx * f \in Nat /\ sy \in Nat /\ sy > 0
      BY <1>1, <1>2, <1>3, <1>8
    <2>3. IsCut((sx * f) * c, sy * c, w, s)
      BY <1>11, <1>14, <2>2, CutReduced
    <2> QED
      BY <1>3, <1>15, <2>1, <2>3 DEF Units
  <1>17. Normalizes(n, ay, i, j, w, s, F + 2)
    <2>1. F + 2 \in Nat /\ F + 2 <= 2 * WB /\ w > 0
      BY <1>1, <1>11, <1>12
    <2> QED
      BY <1>6, <1>11, <1>12, <1>16, <2>1 DEF Normalizes, m
  <1> QED
    BY <1>5, <1>7, <1>17 DEF i, j, n, w, s, e, ax, ay

(* With no guard bit the two normalizing functions agree. *)
LEMMA NormPackAgrees ==
  ASSUME NEW sign, NEW w, w # 0, NEW e, NEW s \in {0, 1}
  PROVE  df_norm_pack(sign, w, e, 0, s) = df_norm_pack128(sign, w, e, s)
  <1>1. Bit(s = 1 \/ 0 = 1) = s
    BY DEF Bit
  <1> QED
    BY <1>1, Zenon DEF df_norm_pack, df_norm_pack128

(* __divdf3 of a finite number by another that is not zero is their        *)
(* quotient, rounded.                                                      *)
LEMMA DividesNearest ==
  ASSUME NEW a \in Double, NEW b \in Double, IsFinite(a), IsFinite(b), ~ IsZero(b)
  PROVE  RoundsAsProduct(__divdf3(a, b), a, b, DoubleAmount(a) * Unit, DoubleAmount(b))
  <1> DEFINE p == df_unpack(a)
             q == df_unpack(b)
             sign == (p.sign + q.sign) % 2
             r == __divdf3(a, b)
             n == DoubleAmount(a) * Unit
             d == DoubleAmount(b)
  <1>0. /\ p.sign \in {0, 1} /\ (p.sign = 1 <=> Negative(a)) /\ p.exp # Special
        /\ (p.zero <=> IsZero(a))
        /\ (~ IsZero(a) => \E i, j \in Nat : Operand(a, p, i, j)) /\ (IsZero(a) => DoubleAmount(a) = 0)
    BY Unpacked
  <1>1. /\ q.sign \in {0, 1} /\ (q.sign = 1 <=> Negative(b)) /\ q.exp # Special
        /\ (q.zero <=> IsZero(b)) /\ ~ q.zero
        /\ \E i, j \in Nat : Operand(b, q, i, j)
    BY Unpacked
  <1>2. r = Quotient(p, q)
    BY DEF __divdf3
  <1> HIDE DEF p, q, r
  <1>3. sign \in {0, 1} /\ (sign = 1 <=> p.sign # q.sign)
    BY <1>0, <1>1, ProductSign
  <1>4. sign = 1 <=> (Negative(a) # Negative(b))
    <2>1. Negative(a) \in BOOLEAN /\ Negative(b) \in BOOLEAN
      BY DEF Negative
    <2>2. p.sign # q.sign <=> ~ (p.sign = 1 <=> q.sign = 1)
      BY <1>0, <1>1
    <2> HIDE DEF sign
    <2> QED
      BY <1>0, <1>1, <1>3, <2>1, <2>2, Zenon
  <1>5. Unit \in Nat /\ Unit > 0
    BY UnitIs
  <1>6. PICK iy \in Nat, jy \in Nat : Operand(b, q, iy, jy)
    BY <1>1
  <1>7. d \in Nat /\ d > 0
    BY <1>6 DEF Operand
  <1>8. CASE IsZero(a)
    <2>1. n = 0
      BY <1>0, <1>5, <1>8
    <2>2. r = Signed(sign)
      BY <1>0, <1>1, <1>2, <1>8 DEF Quotient, IsNaN, IsInf
    <2>3. 2 * n < d /\ n \in Nat
      BY <1>7, <2>1
    <2> HIDE DEF sign, n, d
    <2>4. Rounds(r, sign, n, d)
      BY <1>3, <1>7, <2>2, <2>3, TinyIsZero
    <2> QED
      BY <1>3, <1>4, <2>4 DEF RoundsAsProduct, r, n, d
  <1>9. CASE ~ IsZero(a)
    <2>1. PICK ix \in Nat, jx \in Nat : Operand(a, p, ix, jx)
      BY <1>0, <1>9
    <2> DEFINE t == LongDivision(p.sig, q.sig)
               e == p.exp - q.exp - (F + 2)
               i == ix + jy - Lowest
               j == jx + iy + (F + 2)
    <2>2. Divides(p.sig * Pow(F + 2), q.sig, t)
      <3>1. p.sig \in Nat /\ q.sig \in Nat /\ q.sig > 0 /\ p.sig < 2 * q.sig
        <4>1. /\ p.sig \in Nat /\ q.sig \in Nat /\ p.sig < 2 * D_IMPL /\ D_IMPL <= q.sig
              /\ D_IMPL \in Nat /\ D_IMPL > 0
          BY <1>6, <2>1, Patterns DEF Operand
        <4> QED
          BY <4>1
      <3> QED
        BY <3>1, LongDivides
    <2>3. r = df_norm_pack(sign, t.q, e, 0, Remains(t.r))
      BY <1>0, <1>1, <1>2, <1>9, Zenon DEF Quotient, IsNaN, IsInf
    <2> HIDE DEF t
    <2>4. Scaled(e, i, j) /\ Normalizes(n, d, i, j, t.q, Remains(t.r), F + 2)
      BY <1>6, <2>1, <2>2, QuotientNormalizes
    <2> HIDE DEF sign, n, d, e, i, j
    <2>5. Rounds(df_norm_pack128(sign, t.q, e, Remains(t.r)), sign, n, d)
      BY <1>3, <2>4, NormPackIsNearest
    <2>6. t.q # 0 /\ Remains(t.r) \in {0, 1}
      BY <2>4 DEF Normalizes
    <2>7. df_norm_pack(sign, t.q, e, 0, Remains(t.r)) = df_norm_pack128(sign, t.q, e, Remains(t.r))
      BY <2>6, NormPackAgrees
    <2>8. Rounds(r, sign, n, d)
      BY <2>3, <2>5, <2>7
    <2> QED
      BY <1>3, <1>4, <2>8 DEF RoundsAsProduct, r, n, d
  <1> QED
    BY <1>8, <1>9

-----------------------------------------------------------------------------
(* Sums.  Whole units more than a number that is cut. *)
LEMMA CutPlus ==
  ASSUME NEW n, NEW d, NEW v, NEW s, IsCut(n, d, v, s), NEW g \in Nat
  PROVE  IsCut(g * d + n, d, g + v, s)
  <1>1. /\ n \in Nat /\ d \in Nat /\ d > 0 /\ v \in Nat /\ s \in {0, 1}
        /\ v * d <= n /\ n < (v + 1) * d /\ (s = 0 <=> n = v * d)
    BY DEF IsCut
  <1>2. /\ (g + v) * d = g * d + v * d /\ (g + v + 1) * d = g * d + (v + 1) * d
        /\ g * d \in Nat /\ v * d \in Nat /\ (v + 1) * d \in Nat
    BY <1>1
  <1> DEFINE a == g * d
             b == v * d
             c == (v + 1) * d
  <1> HIDE DEF a, b, c
  <1>3. a \in Nat /\ b \in Nat /\ c \in Nat /\ b <= n /\ n < c /\ (s = 0 <=> n = b)
    BY <1>1, <1>2 DEF a, b, c
  <1>4. a + n \in Nat /\ a + b <= a + n /\ a + n < a + c /\ (s = 0 <=> a + n = a + b) /\ g + v \in Nat
    BY <1>1, <1>3
  <1> QED
    BY <1>1, <1>2, <1>4 DEF IsCut, a, b, c

(* A number that is cut taken from whole units: the tail borrows one. *)
LEMMA CutMinus ==
  ASSUME NEW n, NEW d, NEW v, NEW s, IsCut(n, d, v, s), NEW g \in Nat, v + s <= g
  PROVE  g * d - n \in Nat /\ IsCut(g * d - n, d, g - v - s, s)
  <1>1. /\ n \in Nat /\ d \in Nat /\ d > 0 /\ v \in Nat /\ s \in {0, 1}
        /\ v * d <= n /\ n < (v + 1) * d /\ (s = 0 <=> n = v * d)
    BY DEF IsCut
  <1>2. /\ (g - v) * d = g * d - v * d /\ (g - v - 1) * d = g * d - (v + 1) * d
        /\ (g - v + 1) * d = (g * d - v * d) + d /\ (v + 1) * d = v * d + d
        /\ g * d \in Nat /\ v * d \in Nat /\ (v + 1) * d \in Nat
    BY <1>1
  <1>3. CASE s = 0
    <2>1. (g - v) * d \in Nat /\ g - v \in Nat
      BY <1>1, <1>3
    <2>2. g * d - n = (g - v) * d /\ (g - v) * d < (g - v + 1) * d
      BY <1>1, <1>2, <1>3
    <2>3. g - v - s = g - v
      BY <1>1, <1>3
    <2> QED
      BY <1>1, <1>3, <2>1, <2>2, <2>3 DEF IsCut
  <1>4. CASE s = 1
    <2> DEFINE k == g - v - 1
    <2>1. k \in Nat /\ g - v - s = k /\ k + 1 = g - v
      BY <1>1, <1>4
    <2>2. k * d < g * d - n /\ g * d - n < (k + 1) * d /\ k * d \in Nat
      <3>1. v * d < n
        BY <1>1, <1>2, <1>4
      <3>2. k * d \in Nat
        BY <1>1, <2>1
      <3> QED
        BY <1>1, <1>2, <2>1, <3>1, <3>2
    <2>3. g * d - n \in Nat
      BY <1>1, <1>2, <2>2
    <2> HIDE DEF k
    <2> QED
      BY <1>1, <1>2, <1>4, <2>1, <2>2, <2>3 DEF IsCut
  <1> QED
    BY <1>1, <1>3, <1>4

(* Quotient and remainder are a cut. *)
LEMMA CutOf ==
  ASSUME NEW n \in Nat, NEW d \in Nat, d > 0
  PROVE  IsCut(n, d, n \div d, Bit(n % d # 0))
  <1> DEFINE q == n \div d
             r == n % d
  <1>1. q \in Nat /\ r \in Nat /\ r < d /\ n = q * d + r
    BY Divided
  <1> HIDE DEF q, r
  <1>2. (q + 1) * d = q * d + d /\ q * d \in Nat
    BY <1>1
  <1>3. Bit(r # 0) \in {0, 1} /\ (Bit(r # 0) = 0 <=> r = 0)
    BY <1>1 DEF Bit
  <1>4. IsCut(n, d, q, Bit(r # 0))
    BY <1>1, <1>2, <1>3 DEF IsCut
  <1> QED
    BY <1>4 DEF q, r

(* Arithmetic of the smaller term in units of the larger. *)
LEMMA TailUnits ==
  ASSUME NEW B \in Nat, NEW f \in Nat, f > 0, NEW sy \in Nat, NEW c \in Nat, c > 0,
         NEW e \in Nat, e > 0, NEW g \in Nat, NEW t \in Nat, NEW h \in Nat, h > 0,
         Exactly(B, f, sy, c), Exactly(t, c * e, h, f), NEW v, NEW s, IsCut(sy * g, t, v, s)
  PROVE  IsCut(B * (e * g), h, v, s)
  <1>1. t \in Nat /\ t > 0 /\ sy * g \in Nat /\ c * e \in Nat /\ c * e > 0 /\ B * (e * g) \in Nat
    BY DEF IsCut
  <1>2. IsCut((sy * g) * (c * e), t * (c * e), v, s)
    BY <1>1, CutReduced
  <1>3. (sy * g) * (c * e) = (B * (e * g)) * f
    <2>1. (sy * g) * (c * e) = (sy * c) * (e * g)
      OBVIOUS
    <2>2. (B * (e * g)) * f = (B * f) * (e * g)
      OBVIOUS
    <2> QED
      BY <2>1, <2>2 DEF Exactly
  <1>4. IsCut((B * (e * g)) * f, h * f, v, s)
    BY <1>2, <1>3 DEF Exactly
  <1> QED
    BY <1>1, <1>4, CutReduced

(* The smaller term, in units of the bits below the larger one. *)
Tail(b, ix, jx, v, s) == IsCut(DoubleAmount(b) * Pow(jx + G), Pow(ix), v, s)

(* The exponents of two operands, their distance, and what is in range. *)
LEMMA AlignedExponents ==
  ASSUME NEW a, NEW b, NEW p, NEW q, NEW ix, NEW jx, NEW iy, NEW jy,
         Operand(a, p, ix, jx), Operand(b, q, iy, jy), NEW t, t = p.exp - q.exp, t >= 0
  PROVE  /\ ix \in Nat /\ jx \in Nat /\ iy \in Nat /\ jy \in Nat
         /\ t \in Nat /\ t <= Top /\ t + (iy + jx) = ix + jy /\ ix + jy <= Top /\ iy + jx <= Top
         /\ jx + G <= Top /\ jx + G \in Nat /\ ix + 3 <= Pow(X) /\ iy + 3 <= Pow(X) /\ jx <= F /\ jy <= F
         /\ p.exp \in Int /\ q.exp \in Int /\ p.exp - Lowest = ix - jx /\ Lowest \in Int
         /\ jx + G + F <= Top /\ ix + F + G + 1 < Top + F
  <1>0. /\ Lowest \in Int /\ F \in Nat /\ G \in Nat /\ WB \in Nat /\ WB >= F + G + 2 /\ WB <= Pow(X)
        /\ Pow(X) \in Nat /\ Top \in Nat /\ Top = 2 * Pow(X) + 4 * F
    BY Widths, Patterns DEF Lowest
  <1>1. p.exp \in Int /\ ix \in Nat /\ jx \in Nat /\ p.exp - Lowest = ix - jx /\ ix + 3 <= Pow(X) /\ jx <= F
    BY DEF Operand, Scaled
  <1>2. q.exp \in Int /\ iy \in Nat /\ jy \in Nat /\ q.exp - Lowest = iy - jy /\ iy + 3 <= Pow(X) /\ jy <= F
    BY DEF Operand, Scaled
  <1> QED
    BY <1>0, <1>1, <1>2

(* The smaller term of a sum, shifted to the exponent of the larger one,   *)
(* with a sticky bit for what is shifted out.                              *)
LEMMA AlignedTail ==
  ASSUME NEW a, NEW b, NEW p, NEW q, NEW ix, NEW jx, NEW iy, NEW jy,
         Operand(a, p, ix, jx), Operand(b, q, iy, jy), NEW t, t = p.exp - q.exp, t >= 0
  PROVE  LET low == q.sig * Pow(G)
         IN  Tail(b, ix, jx, low \div Pow(t), Bit(low % Pow(t) # 0))
  <1>0. /\ ix \in Nat /\ jx \in Nat /\ iy \in Nat /\ jy \in Nat
        /\ t \in Nat /\ t <= Top /\ t + (iy + jx) = ix + jy /\ ix + jy <= Top /\ iy + jx <= Top
        /\ jx + G <= Top
    BY AlignedExponents
  <1>1. G \in Nat /\ Top \in Nat
    BY Widths
  <1>2. /\ t \in 0 .. Top /\ ix \in 0 .. Top /\ iy \in 0 .. Top /\ jx \in 0 .. Top /\ jy \in 0 .. Top
        /\ G \in 0 .. Top /\ iy + jx \in Nat
    BY <1>0, <1>1
  <1> DEFINE B == DoubleAmount(b)
             f == Pow(jy)
             sy == q.sig
             c == Pow(iy)
             e == Pow(jx)
             g == Pow(G)
             z == Pow(t)
             h == Pow(ix)
             v == (sy * g) \div z
             s == Bit((sy * g) % z # 0)
  <1>3. /\ f \in Nat /\ f > 0 /\ c \in Nat /\ c > 0 /\ e \in Nat /\ e > 0 /\ g \in Nat
        /\ z \in Nat /\ z > 0 /\ h \in Nat /\ h > 0
    BY <1>2, PowersInUse
  <1>4. B \in Nat /\ sy \in Nat /\ Exactly(B, f, sy, c)
    BY DEF Operand, Exactly
  <1>5. Exactly(z, c * e, h, f)
    <2>1. Pow(t + (iy + jx)) = Pow(t) * Pow(iy + jx) /\ Pow(iy + jx) = Pow(iy) * Pow(jx)
      BY <1>0, <1>2, PowersMultiply
    <2>2. Pow(ix + jy) = Pow(ix) * Pow(jy)
      BY <1>0, PowersMultiply
    <2> QED
      BY <1>0, <2>1, <2>2 DEF Exactly
  <1>6. Pow(jx + G) = e * g
    BY <1>0, <1>1, PowersMultiply
  <1> HIDE DEF B, f, sy, c, e, g, z, h
  <1>7. IsCut(sy * g, z, v, s)
    <2>1. sy * g \in Nat
      BY <1>3, <1>4
    <2> QED
      BY <1>3, <2>1, CutOf
  <1> HIDE DEF v, s
  <1>8. IsCut(B * (e * g), h, v, s)
    BY <1>3, <1>4, <1>5, <1>7, TailUnits
  <1>9. Tail(b, ix, jx, v, s)
    BY <1>6, <1>8 DEF Tail, B, h
  <1> QED
    BY <1>9 DEF v, s, sy, g, z

(* Nothing is cut off an operand that moves down by at most G bits. *)
LEMMA NothingCut ==
  ASSUME NEW sy \in Nat, NEW t \in Nat, t <= G
  PROVE  (sy * Pow(G)) % Pow(t) = 0
  <1>0. G \in Nat /\ Top \in Nat /\ G <= Top
    BY Widths
  <1>1. t \in 0 .. Top /\ G - t \in Nat /\ G - t \in 0 .. Top /\ (G - t) + t = G
    BY <1>0
  <1> DEFINE z == Pow(t)
             rest == Pow(G - t)
  <1>2. z \in Nat /\ z > 0 /\ rest \in Nat
    BY <1>1, PowersInUse
  <1>3. Pow(G) = rest * z
    BY <1>0, <1>1, PowersMultiply
  <1> HIDE DEF z, rest
  <1>4. sy * (rest * z) = (sy * rest) * z + 0 /\ sy * rest \in Nat
    BY <1>2
  <1>5. ((sy * rest) * z + 0) % z = 0
    BY <1>2, <1>4, DividedUnique
  <1> QED
    BY <1>3, <1>4, <1>5 DEF z

(* All of it is cut off an operand that moves down by a word. *)
LEMMA AllCut ==
  ASSUME NEW sy \in Nat, sy > 0, sy < 2 * D_IMPL, NEW t \in Nat, t >= WB, t <= Top
  PROVE  /\ (sy * Pow(G)) \div Pow(t) = 0 /\ (sy * Pow(G)) % Pow(t) # 0
  <1>0. /\ F \in Nat /\ G \in Nat /\ WB \in Nat /\ WB >= F + G + 2 /\ Top \in Nat /\ D_IMPL = Pow(F)
        /\ D_IMPL \in Nat
    BY Widths, Patterns
  <1>1. /\ F + 1 + G \in 0 .. Top /\ F \in 0 .. Top /\ G \in 0 .. Top /\ t \in 0 .. Top
        /\ F + 1 + G <= t /\ F + 1 \in Nat /\ F + 1 + G <= Top
    BY <1>0
  <1>2. Pow(F + 1 + G) = Pow(F + 1) * Pow(G) /\ Pow(F + 1) = 2 * D_IMPL
    BY <1>0, <1>1, PowersInUse, PowersMultiply
  <1> DEFINE g == Pow(G)
             z == Pow(t)
             n == sy * g
  <1>3. g \in Nat /\ g > 0 /\ z \in Nat /\ z > 0 /\ Pow(F + 1 + G) <= z /\ Pow(F + 1 + G) \in Nat
    BY <1>1, PowersInUse
  <1> HIDE DEF g, z
  <1>4. n < (2 * D_IMPL) * g /\ n \in Nat /\ n > 0
    BY <1>0, <1>3
  <1>5. n < z
    <2>1. Pow(F + 1 + G) = (2 * D_IMPL) * g
      BY <1>2 DEF g
    <2> HIDE DEF n
    <2> QED
      BY <1>3, <1>4, <2>1
  <1> HIDE DEF n
  <1>6. n = 0 * z + n
    BY <1>3, <1>4
  <1>7. n \div z = 0 /\ n % z = n
    BY <1>3, <1>4, <1>5, <1>6, DividedUnique
  <1> QED
    BY <1>4, <1>7 DEF n, g, z

(* The larger operand, ga, against what is left of the smaller one.        *)
TailFits(ga, v, s) ==
  /\ ga \in Nat /\ v \in Nat /\ s \in {0, 1} /\ ga > 0 /\ v <= ga /\ ga + v < Pow(F + G + 2)
  /\ s = 1 => ga >= 2 * D_IMPL /\ v < ga /\ ga - v - s >= 2 * D_IMPL

(* The shifted term is not larger than the other one, and what is cut off  *)
(* leaves a difference to borrow from.                                     *)
LEMMA TailIsSmall ==
  ASSUME NEW sx \in Nat, D_IMPL <= sx, sx < 2 * D_IMPL, NEW sy \in Nat, D_IMPL <= sy, sy < 2 * D_IMPL,
         NEW t \in Nat, t <= Top, t = 0 => sy <= sx
  PROVE  LET low == sy * Pow(G)
         IN  TailFits(sx * Pow(G), low \div Pow(t), Bit(low % Pow(t) # 0))
  <1> DEFINE g == Pow(G)
             z == Pow(t)
             low == sy * g
             ga == sx * g
             v == low \div z
             r == low % z
             s == Bit(r # 0)
             p == D_IMPL
  <1>0. /\ F \in Nat /\ G \in Nat /\ G > 1 /\ Top \in Nat /\ F + G + 2 <= Top /\ p = Pow(F)
        /\ p \in Nat /\ p > 0
    BY Widths, Patterns
  <1>1. /\ t \in 0 .. Top /\ G \in 0 .. Top /\ F \in 0 .. Top /\ 0 \in 0 .. Top /\ 1 \in 0 .. Top
        /\ 2 \in 0 .. Top /\ F + 2 \in Nat /\ (F + 2) + G <= Top /\ F + 1 \in 0 .. Top
        /\ F + G + 2 = (F + 2) + G
    BY <1>0
  <1>2. Pow(0) = 1 /\ Pow(1) = 2 /\ Pow(2) = 4
    <2>1. Pow(0 + 1) = 2 * Pow(0) /\ Pow(1 + 1) = 2 * Pow(1)
      BY <1>1, PowersInUse
    <2>2. Pow(0) = 1
      BY Powers
    <2>3. 0 + 1 = 1 /\ 1 + 1 = 2
      OBVIOUS
    <2> QED
      BY <2>1, <2>2, <2>3
  <1>3. /\ g \in Nat /\ g >= 4 /\ z \in Nat /\ z > 0 /\ (t = 0 => z = 1) /\ (t >= 1 => z >= 2)
        /\ (t >= 2 => z >= 4)
    BY <1>0, <1>1, <1>2, PowersInUse
  <1>4. Pow(F + G + 2) = (4 * p) * g
    <2>1. Pow((F + 2) + G) = Pow(F + 2) * Pow(G)
      BY <1>0, <1>1, PowersMultiply
    <2>2. Pow(F + 1) = 2 * p /\ Pow((F + 1) + 1) = 2 * Pow(F + 1) /\ (F + 1) + 1 = F + 2
      BY <1>0, <1>1, PowersInUse
    <2> QED
      BY <1>0, <1>1, <2>1, <2>2
  <1>5. r # 0 => t >= 2
    BY <1>0, NothingCut
  <1> HIDE DEF g, z, p
  <1> DEFINE k == p * g
  <1>6. /\ k \in Nat /\ 4 * p <= k /\ ga \in Nat /\ k <= ga /\ ga < 2 * k
        /\ low \in Nat /\ low < 2 * k /\ (4 * p) * g = 4 * k /\ k > 0
    <2>1. p * g <= sx * g /\ sx * g < (2 * p) * g /\ sy * g < (2 * p) * g /\ (2 * p) * g = 2 * k
      BY <1>0, <1>3 DEF p
    <2>2. 4 * p <= p * g /\ (4 * p) * g = 4 * k /\ k \in Nat /\ sx * g \in Nat /\ sy * g \in Nat
      BY <1>0, <1>3
    <2> HIDE DEF k, ga, low
    <2> QED
      BY <1>0, <2>1, <2>2 DEF ga, low, k
  <1>7. t = 0 => low <= ga
    BY <1>3
  <1> HIDE DEF low, ga, k
  <1>8. v \in Nat /\ r \in Nat /\ low = v * z + r
    BY <1>3, <1>6, Divided
  <1> HIDE DEF v, r
  <1>9. /\ t = 0 => v <= low
        /\ t >= 1 => 2 * v <= low
        /\ t >= 2 => 4 * v <= low
    <2>1. v * 1 = v /\ v * 2 = 2 * v /\ v * 4 = 4 * v
      BY <1>8
    <2>2. \A c \in Nat : c <= z => v * c <= v * z
      BY <1>3, <1>8
    <2>3. v * z \in Nat /\ v * z <= low
      BY <1>3, <1>6, <1>8
    <2> DEFINE rest == v * z
    <2> HIDE DEF rest
    <2>4. rest \in Nat /\ rest <= low /\ \A c \in Nat : c <= z => v * c <= rest
      BY <2>2, <2>3 DEF rest
    <2>5. t >= 1 => 2 * v <= rest
      BY <1>3, <2>1, <2>4
    <2>6. t >= 2 => 4 * v <= rest
      BY <1>3, <2>1, <2>4
    <2>7. v <= rest
      BY <1>3, <2>1, <2>4
    <2> QED
      BY <1>6, <1>8, <2>4, <2>5, <2>6, <2>7
  <1>10. t = 0 \/ t >= 1
    OBVIOUS
  <1>11. s \in {0, 1} /\ (s = 1 => r # 0)
    BY DEF Bit
  <1> HIDE DEF s
  <1>12. v <= ga /\ ga + v < 4 * k /\ v < 2 * k
    BY <1>6, <1>7, <1>8, <1>9, <1>10
  <1>13. s = 1 => ga >= 2 * p /\ v < ga /\ ga - v - s >= 2 * p
    BY <1>0, <1>5, <1>6, <1>8, <1>9, <1>11 DEF p
  <1>14. TailFits(ga, v, s)
    BY <1>0, <1>4, <1>6, <1>8, <1>11, <1>12, <1>13 DEF TailFits, p
  <1> QED
    BY <1>14 DEF ga, v, s, r, low, g, z

(* The larger operand is a whole number of units. *)
LEMMA LargerUnits ==
  ASSUME NEW a, NEW p, NEW i, NEW j, Operand(a, p, i, j)
  PROVE  /\ DoubleAmount(a) * Pow(j + G) = (p.sig * Pow(G)) * Pow(i)
         /\ Pow(i) \in Nat /\ Pow(i) > 0 /\ Pow(j + G) \in Nat /\ Pow(j + G) > 0
         /\ DoubleAmount(a) \in Nat /\ p.sig * Pow(G) \in Nat
  <1>0. /\ G \in Nat /\ Top \in Nat /\ F + G <= Top /\ F \in Nat
    BY Widths
  <1>1. /\ i \in Nat /\ j \in Nat /\ j <= F /\ i < Top /\ DoubleAmount(a) \in Nat /\ p.sig \in Nat
        /\ DoubleAmount(a) * Pow(j) = p.sig * Pow(i)
    BY DEF Operand, Scaled
  <1>2. i \in 0 .. Top /\ j \in 0 .. Top /\ G \in 0 .. Top /\ j + G \in 0 .. Top /\ j + G <= Top
    BY <1>0, <1>1
  <1>3. Pow(j + G) = Pow(j) * Pow(G)
    BY <1>0, <1>1, <1>2, PowersMultiply
  <1> DEFINE A == DoubleAmount(a)
             c == Pow(j)
             g == Pow(G)
             h == Pow(i)
             s == p.sig
  <1>4. c \in Nat /\ g \in Nat /\ h \in Nat /\ h > 0 /\ Pow(j + G) \in Nat /\ Pow(j + G) > 0
    BY <1>2, PowersInUse
  <1>5. A \in Nat /\ s \in Nat /\ A * c = s * h
    BY <1>1
  <1> HIDE DEF A, c, g, h, s
  <1>6. A * (c * g) = (A * c) * g /\ (s * h) * g = (s * g) * h /\ s * g \in Nat
    BY <1>4, <1>5
  <1>7. A * (c * g) = (s * g) * h
    BY <1>5, <1>6
  <1> QED
    BY <1>3, <1>4, <1>5, <1>6, <1>7 DEF A, c, g, h, s

(* Sum and difference of two terms. *)
Terms(A, B, c, d, ga, v, s) ==
  /\ IsCut((A + B) * c, d, ga + v, s)
  /\ v + s <= ga => A - B \in Nat /\ IsCut((A - B) * c, d, ga - v - s, s)
  /\ v = ga /\ s = 0 => A = B
  /\ A = B => v = ga /\ s = 0

(* Two terms in a common unit d, the second one cut. *)
LEMMA TermsCut ==
  ASSUME NEW A \in Nat, NEW B \in Nat, NEW c \in Nat, c > 0, NEW d \in Nat, d > 0, NEW ga \in Nat,
         Exactly(A, c, ga, d), NEW v, NEW s, IsCut(B * c, d, v, s)
  PROVE  Terms(A, B, c, d, ga, v, s)
  <1> USE DEF Exactly
  <1>1. (A + B) * c = A * c + B * c /\ (A - B) * c = A * c - B * c
    OBVIOUS
  <1>2. IsCut(ga * d + B * c, d, ga + v, s)
    BY CutPlus
  <1>3. ASSUME v + s <= ga PROVE A - B \in Nat /\ IsCut((A - B) * c, d, ga - v - s, s)
    <2>1. ga * d - B * c \in Nat /\ IsCut(ga * d - B * c, d, ga - v - s, s)
      BY <1>3, CutMinus
    <2>2. (A - B) * c \in Nat
      BY <1>1, <2>1
    <2>3. B <= A
      <3> SUFFICES ASSUME A < B PROVE FALSE
        OBVIOUS
      <3>1. A * c < B * c
        BY ProductsOrder
      <3>2. A * c \in Nat /\ B * c \in Nat
        OBVIOUS
      <3> QED
        BY <1>1, <2>2, <3>1, <3>2
    <2> QED
      BY <1>1, <2>1, <2>3
  <1>4. B * c \in Nat /\ v \in Nat /\ s \in {0, 1} /\ v * d <= B * c /\ (s = 0 <=> B * c = v * d)
    BY DEF IsCut
  <1>5. v = ga /\ s = 0 => A = B
    <2> SUFFICES ASSUME v = ga, s = 0 PROVE A = B
      OBVIOUS
    <2>1. A * c = B * c
      BY <1>4
    <2> QED
      BY <2>1
  <1>6. ASSUME A = B PROVE v = ga /\ s = 0
    <2>1. v * d <= ga * d /\ ga * d < (v + 1) * d
      BY <1>6 DEF IsCut
    <2>2. ga < v + 1
      BY <1>4, <2>1, ProductsOrder
    <2>3. ~ (ga < v)
      <3>1. ga < v => ga * d < v * d
        BY <1>4, ProductsOrder
      <3>2. ga * d \in Nat /\ v * d \in Nat
        BY <1>4
      <3> QED
        BY <2>1, <3>1, <3>2
    <2>4. v = ga
      BY <1>4, <2>2, <2>3
    <2>5. s = 0
      BY <1>4, <1>6, <2>4
    <2> QED
      BY <2>4, <2>5
  <1> QED
    BY <1>1, <1>2, <1>3, <1>5, <1>6 DEF Terms

(* The sum of two aligned terms, and their difference less what is         *)
(* borrowed for the sticky bit, are what df_norm_pack128 asks for.         *)
LEMMA SumNormalizes ==
  ASSUME NEW a, NEW b, NEW p, NEW q, NEW ix, NEW jx, NEW iy, NEW jy,
         Operand(a, p, ix, jx), Operand(b, q, iy, jy), p.exp - q.exp >= 0,
         NEW ga, ga = p.sig * Pow(G), NEW v, NEW s, Tail(b, ix, jx, v, s), TailFits(ga, v, s)
  PROVE  /\ Scaled(p.exp - G, ix, jx + G)
         /\ Normalizes(DoubleAmount(a) + DoubleAmount(b), 1, ix, jx + G, ga + v, s, F + G + 1)
         /\ v = ga => DoubleAmount(a) = DoubleAmount(b)
         /\ v # ga => /\ DoubleAmount(a) - DoubleAmount(b) \in Nat /\ DoubleAmount(a) # DoubleAmount(b)
                      /\ Normalizes(DoubleAmount(a) - DoubleAmount(b), 1, ix, jx + G, ga - v - s, s, F + G + 1)
  <1> DEFINE A == DoubleAmount(a)
             B == DoubleAmount(b)
             j == jx + G
             c == Pow(j)
             d == Pow(ix)
             k == F + G + 1
  <1>0. /\ ix \in Nat /\ jx \in Nat /\ ix + jy <= Top /\ jx + G <= Top /\ jx + G \in Nat
        /\ p.exp \in Int /\ p.exp - Lowest = ix - jx /\ Lowest \in Int /\ ix + 3 <= Pow(X)
        /\ jx + G + F <= Top /\ ix + F + G + 1 < Top + F
    BY AlignedExponents
  <1>1. /\ F \in Nat /\ G \in Nat /\ WB \in Nat /\ WB >= F + G + 2 /\ Pow(X) \in Nat /\ Top \in Nat
        /\ Top >= Pow(X) /\ D_IMPL \in Nat
    BY Widths, Patterns
  <1>2. Scaled(p.exp - G, ix, jx + G)
    <2>1. /\ p.exp - G \in Int /\ ix < Top /\ (p.exp - G) - Lowest = ix - (jx + G)
      BY <1>0, <1>1
    <2> QED
      BY <1>0, <2>1 DEF Scaled
  <1>3. A * c = ga * d /\ d \in Nat /\ d > 0 /\ c \in Nat /\ c > 0 /\ A \in Nat /\ ga \in Nat
    BY LargerUnits
  <1>4. B \in Nat /\ IsCut(B * c, d, v, s)
    BY DEF Tail, Operand
  <1>5. /\ v \in Nat /\ s \in {0, 1} /\ ga > 0 /\ v <= ga /\ ga + v < Pow(k + 1)
        /\ (s = 1 => ga >= 2 * D_IMPL /\ v < ga /\ ga - v - s >= 2 * D_IMPL)
    <2>1. F + G + 2 = k + 1
      BY <1>1
    <2> QED
      BY <2>1 DEF TailFits
  <1>6. k \in Nat /\ k <= 2 * WB /\ ix + k < Top + F /\ j + F <= Top /\ Pow(k + 1) \in Nat
    <2>1. k + 1 \in 0 .. Top
      BY <1>0, <1>1, Widths
    <2>2. Pow(k + 1) \in Nat
      BY <2>1, PowersInUse
    <2> QED
      BY <1>0, <1>1, <2>2
  <1>7. 1 * d = d
    BY <1>3
  <1> HIDE DEF A, B, c, d, j, k
  <1>8. /\ IsCut((A + B) * c, d, ga + v, s)
        /\ (v + s <= ga => A - B \in Nat /\ IsCut((A - B) * c, d, ga - v - s, s))
        /\ (v = ga /\ s = 0 => A = B) /\ (A = B => v = ga /\ s = 0)
    <2>1. Exactly(A, c, ga, d)
      BY <1>3 DEF Exactly
    <2>2. Terms(A, B, c, d, ga, v, s)
      BY <1>3, <1>4, <2>1, TermsCut
    <2> QED
      BY <2>2, Zenon DEF Terms
  <1>9. Normalizes(A + B, 1, ix, j, ga + v, s, k)
    <2>1. Units(A + B, 1, ix, j, ga + v, s)
      BY <1>3, <1>4, <1>7, <1>8 DEF Units, c, d
    <2>2. ga + v \in Nat /\ ga + v > 0 /\ (s = 1 => ga + v >= 2 * D_IMPL)
      BY <1>1, <1>3, <1>5
    <2> QED
      BY <1>5, <1>6, <2>1, <2>2 DEF Normalizes
  <1>10. v = ga => A = B
    BY <1>3, <1>5, <1>8
  <1>11. ASSUME v # ga
         PROVE  A - B \in Nat /\ A # B /\ Normalizes(A - B, 1, ix, j, ga - v - s, s, k)
    <2>1. v + s <= ga /\ ga - v - s \in Nat /\ ga - v - s > 0 /\ (s = 1 => ga - v - s >= 2 * D_IMPL)
      <3>1. CASE s = 0
        <4>1. ga \in Nat /\ v \in Nat /\ v <= ga /\ v # ga
          BY <1>3, <1>5, <1>11
        <4>2. v + 0 <= ga /\ ga - v - 0 \in Nat /\ ga - v - 0 > 0
          BY <4>1
        <4> QED
          BY <3>1, <4>2
      <3>2. CASE s = 1
        <4>1. ga \in Nat /\ v \in Nat /\ D_IMPL \in Nat /\ D_IMPL > 0 /\ ga - v - 1 >= 2 * D_IMPL
          BY <1>1, <1>3, <1>5, <3>2, Format
        <4> QED
          BY <3>2, <4>1
      <3>3. s = 0 \/ s = 1
        BY <1>5
      <3> QED
        BY <3>1, <3>2, <3>3, Zenon
    <2>2. A - B \in Nat /\ IsCut((A - B) * c, d, ga - v - s, s)
      BY <1>8, <2>1
    <2>3. A # B
      BY <1>8, <1>11
    <2>4. Units(A - B, 1, ix, j, ga - v - s, s)
      BY <1>7, <2>2 DEF Units, c, d
    <2>5. ga - v - s < Pow(k + 1)
      BY <1>3, <1>5, <1>6
    <2> QED
      BY <1>5, <1>6, <2>1, <2>2, <2>3, <2>4, <2>5 DEF Normalizes
  <1> QED
    BY <1>2, <1>9, <1>10, <1>11 DEF A, B, j, k

(* What a sum of finite numbers must be. *)
RoundsAsSum(r, a, b) ==
  LET exact == DoubleValue(a) + DoubleValue(b)
  IN  /\ r \in Double /\ r % D_SIGN <= D_EXP /\ RoundedDouble(r, Abs(exact), 1)
      /\ exact # 0 => (Negative(r) <=> exact < 0)
      /\ exact = 0 => (Negative(r) <=> Negative(a) /\ Negative(b))

(* A rounded sum is one whichever term comes first. *)
LEMMA SumsCommute ==
  ASSUME NEW r, NEW a, NEW b, DoubleValue(a) \in Int, DoubleValue(b) \in Int, RoundsAsSum(r, a, b)
  PROVE  RoundsAsSum(r, b, a)
  <1>1. DoubleValue(a) + DoubleValue(b) = DoubleValue(b) + DoubleValue(a)
    OBVIOUS
  <1> QED
    BY <1>1, Zenon DEF RoundsAsSum

(* The exact sum has the sign of the term with the larger magnitude. *)
LEMMA SumFromMagnitudes ==
  ASSUME NEW r, NEW a, NEW b, NEW g \in {0, 1}, g = 1 <=> Negative(a),
         DoubleAmount(a) \in Nat, DoubleAmount(b) \in Nat, NEW n \in Nat, n > 0,
         n = IF Negative(a) <=> Negative(b) THEN DoubleAmount(a) + DoubleAmount(b)
             ELSE DoubleAmount(a) - DoubleAmount(b),
         Rounds(r, g, n, 1)
  PROVE  RoundsAsSum(r, a, b)
  <1> DEFINE A == DoubleAmount(a)
             B == DoubleAmount(b)
             exact == DoubleValue(a) + DoubleValue(b)
  <1>1. /\ r \in Double /\ r % D_SIGN <= D_EXP /\ (Negative(r) <=> g = 1) /\ RoundedDouble(r, n, 1)
    BY DEF Rounds
  <1>2. /\ Negative(a) => DoubleValue(a) = - A
        /\ ~ Negative(a) => DoubleValue(a) = A
        /\ Negative(b) => DoubleValue(b) = - B
        /\ ~ Negative(b) => DoubleValue(b) = B
    BY DEF DoubleValue
  <1> HIDE DEF A, B
  <1>3. A \in Nat /\ B \in Nat /\ n = IF Negative(a) <=> Negative(b) THEN A + B ELSE A - B
    BY DEF A, B
  <1>4. CASE Negative(a)
    <2>1. exact = - n
      <3>1. CASE Negative(b)
        <4>1. n = A + B /\ DoubleValue(a) = - A /\ DoubleValue(b) = - B
          BY <1>2, <1>3, <1>4, <3>1
        <4> QED
          BY <1>3, <4>1
      <3>2. CASE ~ Negative(b)
        <4>1. n = A - B /\ DoubleValue(a) = - A /\ DoubleValue(b) = B
          BY <1>2, <1>3, <1>4, <3>2
        <4> QED
          BY <1>3, <4>1
      <3> QED
        BY <3>1, <3>2
    <2>2. Abs(exact) = n /\ exact < 0
      BY <2>1 DEF Abs
    <2> QED
      BY <1>1, <1>4, <2>1, <2>2 DEF RoundsAsSum
  <1>5. CASE ~ Negative(a)
    <2>1. exact = n
      <3>1. CASE Negative(b)
        <4>1. n = A - B /\ DoubleValue(a) = A /\ DoubleValue(b) = - B
          BY <1>2, <1>3, <1>5, <3>1
        <4> QED
          BY <1>3, <4>1
      <3>2. CASE ~ Negative(b)
        <4>1. n = A + B /\ DoubleValue(a) = A /\ DoubleValue(b) = B
          BY <1>2, <1>3, <1>5, <3>2
        <4> QED
          BY <1>3, <4>1
      <3> QED
        BY <3>1, <3>2
    <2>2. Abs(exact) = n /\ ~ (exact < 0) /\ exact # 0
      BY <2>1 DEF Abs
    <2>3. ~ Negative(r)
      BY <1>1, <1>5
    <2> QED
      BY <1>1, <2>2, <2>3 DEF RoundsAsSum
  <1> QED
    BY <1>4, <1>5

(* A sum that cancels is a positive zero. *)
LEMMA CancelledSum ==
  ASSUME NEW a, NEW b, DoubleAmount(a) \in Nat, DoubleAmount(a) = DoubleAmount(b),
         ~ (Negative(a) <=> Negative(b))
  PROVE  RoundsAsSum(0, a, b)
  <1> DEFINE A == DoubleAmount(a)
             exact == DoubleValue(a) + DoubleValue(b)
  <1>1. exact = 0
    <2>1. CASE Negative(a) /\ ~ Negative(b)
      BY <2>1 DEF DoubleValue
    <2>2. CASE ~ Negative(a) /\ Negative(b)
      BY <2>2 DEF DoubleValue
    <2>3. Negative(a) \in BOOLEAN /\ Negative(b) \in BOOLEAN
      BY DEF Negative
    <2> HIDE DEF exact
    <2> QED
      BY <2>1, <2>2, <2>3
  <1>2. Rounds(Signed(0), 0, 0, 1)
    BY TinyIsZero
  <1>3. Signed(0) = 0
    BY Format DEF Signed
  <1>4. 0 \in Double /\ 0 % D_SIGN <= D_EXP /\ ~ Negative(0) /\ RoundedDouble(0, 0, 1)
    BY <1>2, <1>3 DEF Rounds
  <1>5. Abs(exact) = 0
    BY <1>1 DEF Abs
  <1>6. ~ (Negative(a) /\ Negative(b))
    OBVIOUS
  <1> HIDE DEF exact
  <1>7. /\ 0 \in Double /\ 0 % D_SIGN <= D_EXP /\ RoundedDouble(0, Abs(exact), 1)
        /\ (exact # 0 => (Negative(0) <=> exact < 0))
        /\ (exact = 0 => (Negative(0) <=> Negative(a) /\ Negative(b)))
    BY <1>1, <1>4, <1>5, <1>6
  <1> QED
    BY <1>7 DEF RoundsAsSum, exact

(* The aligned operands, the larger one first, are summed to nearest. *)
LEMMA AlignedSum ==
  ASSUME NEW a, NEW b, NEW p, NEW q, NEW ix, NEW jx, NEW iy, NEW jy,
         Operand(a, p, ix, jx), Operand(b, q, iy, jy),
         p.exp > q.exp \/ (p.exp = q.exp /\ q.sig <= p.sig)
  PROVE  RoundsAsSum(SumOfAligned(p, q), a, b)
  <1> DEFINE t == p.exp - q.exp
             ga == p.sig * Pow(G)
             low == q.sig * Pow(G)
             v == low \div Pow(t)
             s == Bit(low % Pow(t) # 0)
             A == DoubleAmount(a)
             B == DoubleAmount(b)
             r == SumOfAligned(p, q)
  <1>0. /\ p.exp \in Int /\ q.exp \in Int
        /\ p.sig \in Nat /\ D_IMPL <= p.sig /\ p.sig < 2 * D_IMPL
        /\ q.sig \in Nat /\ D_IMPL <= q.sig /\ q.sig < 2 * D_IMPL
        /\ p.sign \in {0, 1} /\ (p.sign = 1 <=> Negative(a))
        /\ q.sign \in {0, 1} /\ (q.sign = 1 <=> Negative(b))
        /\ A \in Nat /\ A > 0 /\ B \in Nat /\ B > 0
    BY DEF Operand, Scaled
  <1>1. t \in Int /\ t >= 0 /\ (t = 0 => q.sig <= p.sig)
    BY <1>0
  <1>2. t \in Nat /\ t <= Top
    BY <1>1, AlignedExponents
  <1>3. Tail(b, ix, jx, v, s)
    BY <1>1, AlignedTail
  <1> HIDE DEF t
  <1>4. TailFits(ga, v, s)
    BY <1>0, <1>1, <1>2, TailIsSmall
  <1>5. /\ Scaled(p.exp - G, ix, jx + G)
        /\ Normalizes(A + B, 1, ix, jx + G, ga + v, s, F + G + 1)
        /\ (v = ga => A = B)
        /\ (v # ga => A - B \in Nat /\ A # B
                      /\ Normalizes(A - B, 1, ix, jx + G, ga - v - s, s, F + G + 1))
    <2> HIDE DEF ga, v, s
    <2>1. ga = p.sig * Pow(G)
      BY DEF ga
    <2>2. p.exp - q.exp >= 0
      BY <1>1 DEF t
    <2> QED
      BY <1>3, <1>4, <2>1, <2>2, SumNormalizes
  <1>6. /\ (IF t >= WB THEN 0 ELSE low \div Pow(t)) = v
        /\ Bit(t >= WB \/ low % Pow(t) # 0) = s
    <2>1. CASE t >= WB
      <3>1. v = 0 /\ low % Pow(t) # 0
        BY <1>0, <1>2, <2>1, Format, AllCut
      <3> QED
        BY <2>1, <3>1 DEF Bit
    <2>2. CASE ~ (t >= WB)
      BY <2>2 DEF Bit
    <2> QED
      BY <2>1, <2>2
  <1>7. r = CASE p.sign = q.sign -> df_norm_pack128(p.sign, ga + v, p.exp - G, s)
              [] p.sign # q.sign /\ ga = v -> 0
              [] OTHER -> df_norm_pack128(p.sign, Borrow(ga - v, s), p.exp - G, s)
    BY <1>6, Zenon DEF SumOfAligned, Pow, t
  <1> HIDE DEF ga, v, s, r, A, B
  <1>8. ga \in Nat /\ v \in Nat /\ v <= ga
    BY <1>4 DEF TailFits
  <1>9. CASE p.sign = q.sign
    <2>1. Rounds(r, p.sign, A + B, 1)
      BY <1>0, <1>5, <1>7, <1>9, NormPackIsNearest
    <2>2. (Negative(a) <=> Negative(b)) /\ A + B > 0 /\ A + B \in Nat
      BY <1>0, <1>9
    <2>3. RoundsAsSum(r, a, b)
      BY <1>0, <2>1, <2>2, SumFromMagnitudes DEF A, B
    <2> QED
      BY <2>3 DEF r
  <1>10. CASE p.sign # q.sign
    <2>1. ~ (Negative(a) <=> Negative(b))
      BY <1>0, <1>10
    <2>2. CASE ga = v
      <3>1. r = 0 /\ A = B
        BY <1>5, <1>7, <1>10, <2>2
      <3> QED
        BY <1>0, <2>1, <3>1, CancelledSum DEF A, B, r
    <2>3. CASE ga # v
      <3>1. Borrow(ga - v, s) = ga - v - s
        BY <1>8, <2>3 DEF Borrow
      <3>2. r = df_norm_pack128(p.sign, ga - v - s, p.exp - G, s)
        BY <1>7, <1>10, <2>3, <3>1
      <3>3. Rounds(r, p.sign, A - B, 1)
        BY <1>0, <1>5, <2>3, <3>2, NormPackIsNearest
      <3>4. A - B \in Nat /\ A - B > 0
        BY <1>0, <1>5, <2>3
      <3>5. RoundsAsSum(r, a, b)
        BY <1>0, <2>1, <3>3, <3>4, SumFromMagnitudes DEF A, B
      <3> QED
        BY <3>5 DEF r
    <2> QED
      BY <2>2, <2>3
  <1> QED
    BY <1>9, <1>10

(* The pattern of a finite number. *)
LEMMA FiniteIsSmall ==
  ASSUME NEW v \in Double, IsFinite(v)
  PROVE  v % D_SIGN \in Nat /\ v % D_SIGN < D_EXP /\ DoubleAmount(v) = Amount(v % D_SIGN, F)
         /\ DoubleAmount(v) \in Nat /\ DoubleValue(v) \in Int
  <1> DEFINE f == Field(v)
             m == Fraction(v)
             u == v % D_SIGN
             n == Pow(X)
             p == D_IMPL
  <1>0. n \in Nat /\ n > 3 /\ p \in Nat /\ p > 0 /\ D_EXP = (n - 1) * p /\ D_EXP \in Nat
    BY Patterns
  <1>1. u \in Nat /\ f \in Nat /\ f < n /\ m \in Nat /\ m < p /\ u = f * p + m
    BY PatternParts
  <1>2. f # n - 1
    BY DEF IsFinite, Pow
  <1> HIDE DEF f, m, u, n, p
  <1>3. f + 1 <= n - 1 /\ f + 1 \in Nat /\ n - 1 \in Nat
    BY <1>0, <1>1, <1>2
  <1>4. (f + 1) * p <= (n - 1) * p /\ (f + 1) * p = f * p + p /\ f * p \in Nat
    BY <1>0, <1>1, <1>3
  <1>5. u < D_EXP
    BY <1>0, <1>1, <1>4
  <1>6. DoubleAmount(v) = Amount(u, F)
    BY DEF DoubleAmount, u
  <1>7. Amount(u, F) \in Nat
    BY <1>1, <1>5, <1>0, PatternAmount
  <1>8. DoubleValue(v) \in Int
    BY <1>6, <1>7 DEF DoubleValue
  <1> QED
    BY <1>1, <1>5, <1>6, <1>7, <1>8 DEF u

(* Numbers that are not half way to a neighbour. *)
LEMMA NearNumber ==
  ASSUME NEW v \in Double, IsFinite(v), NEW m, m = v % D_SIGN, NEW num \in Nat,
         \A k \in Nat : m = k + 1 => Amount(k, F) + Amount(m, F) < 2 * num,
         2 * num < Amount(m, F) + Amount(m + 1, F)
  PROVE  Rounds(v, Sign(v), num, 1)
  <1>1. m \in Nat /\ m < D_EXP /\ D_EXP \in Nat /\ Amount(m, F) \in Nat /\ Amount(m + 1, F) \in Nat
    <2>1. m \in Nat /\ m < D_EXP /\ D_EXP \in Nat
      BY FiniteIsSmall, Format
    <2>2. m + 1 \in Nat /\ m + 1 <= D_EXP
      BY <2>1
    <2> QED
      BY <2>1, <2>2, PatternAmount
  <1>2. \A k \in Nat : m = k + 1 => Amount(k, F) \in Nat
    BY <1>1, PatternAmount
  <1>3. \A k \in Nat : m = k + 1 =>
          LET middle == (Amount(k, F) + Amount(m, F)) * 1
          IN  middle <= 2 * num /\ (middle < 2 * num \/ m % 2 = 0)
    <2> SUFFICES ASSUME NEW k \in Nat, m = k + 1
                 PROVE  (Amount(k, F) + Amount(m, F)) * 1 < 2 * num
                        /\ (Amount(k, F) + Amount(m, F)) * 1 <= 2 * num
      BY Zenon
    <2> DEFINE c == Amount(k, F)
               d == Amount(m, F)
    <2>1. c \in Nat /\ d \in Nat /\ c + d < 2 * num
      BY <1>1, <1>2
    <2> HIDE DEF c, d
    <2>2. (c + d) * 1 < 2 * num /\ (c + d) * 1 <= 2 * num
      BY <2>1
    <2> QED
      BY <2>2 DEF c, d
  <1>4. m < D_EXP => LET middle == (Amount(m, F) + Amount(m + 1, F)) * 1
                     IN  2 * num <= middle /\ (2 * num < middle \/ m % 2 = 0)
    <2> DEFINE c == Amount(m, F)
               d == Amount(m + 1, F)
    <2>1. c \in Nat /\ d \in Nat /\ 2 * num < c + d
      BY <1>1
    <2> HIDE DEF c, d
    <2>2. 2 * num < (c + d) * 1 /\ 2 * num <= (c + d) * 1
      BY <2>1
    <2> QED
      BY <2>2, Zenon DEF c, d
  <1>5. m <= D_EXP
    BY <1>1
  <1>6. RoundedDouble(v, num, 1)
    BY <1>1, <1>3, <1>4, <1>5, NearestPattern
  <1>7. Negative(v) <=> Sign(v) = 1
    BY PatternParts
  <1> QED
    BY <1>5, <1>6, <1>7 DEF Rounds

(* A number is its own rounding. *)
LEMMA ExactIsNearest ==
  ASSUME NEW v \in Double, IsFinite(v)
  PROVE  Rounds(v, Sign(v), DoubleAmount(v), 1)
  <1> DEFINE m == v % D_SIGN
             n == DoubleAmount(v)
  <1>1. m \in Nat /\ m < D_EXP /\ n = Amount(m, F) /\ n \in Nat /\ D_EXP \in Nat
    BY FiniteIsSmall, Format
  <1>2. \A k \in Nat : m = k + 1 => Amount(k, F) + Amount(m, F) < 2 * n
    <2> SUFFICES ASSUME NEW k \in Nat, m = k + 1 PROVE Amount(k, F) + Amount(m, F) < 2 * n
      OBVIOUS
    <2>1. k <= D_EXP /\ k < D_EXP
      BY <1>1
    <2>2. Amount(k, F) \in Nat /\ Amount(k, F) < Amount(k + 1, F)
      BY <2>1, PatternAmount
    <2> HIDE DEF m, n
    <2> QED
      BY <1>1, <2>2
  <1>3. 2 * n < Amount(m, F) + Amount(m + 1, F)
    <2>1. Amount(m, F) < Amount(m + 1, F) /\ m + 1 \in Nat /\ m + 1 <= D_EXP /\ m <= D_EXP
      BY <1>1, PatternAmount
    <2>2. Amount(m + 1, F) \in Nat
      BY <2>1, PatternAmount
    <2> HIDE DEF m, n
    <2> QED
      BY <1>1, <2>1, <2>2
  <1> HIDE DEF m, n
  <1>4. m = v % D_SIGN
    BY DEF m
  <1>5. Rounds(v, Sign(v), n, 1)
    BY <1>1, <1>2, <1>3, <1>4, NearNumber
  <1> QED
    BY <1>5 DEF n

(* How far the neighbours of a large number are away. *)
LEMMA Gaps ==
  ASSUME NEW v \in Double, IsFinite(v), NEW m, m = v % D_SIGN, NEW sig \in Nat, D_IMPL <= sig,
         NEW i \in Nat, i > 0, i < Top, Amount(m, F) = sig * Pow(i)
  PROVE  /\ Pow(i - 1) \in Nat /\ Amount(m, F) \in Nat /\ Amount(m + 1, F) \in Nat
         /\ Amount(m, F) + Pow(i - 1) <= Amount(m + 1, F)
         /\ \A k \in Nat : m = k + 1 => Amount(k, F) \in Nat /\ Amount(k, F) + Pow(i - 1) <= Amount(m, F)
  <1> DEFINE p == D_IMPL
             h == Pow(i - 1)
  <1>0. /\ p = Pow(F) /\ p \in Nat /\ p > 0 /\ F \in Nat /\ F > 0 /\ F < Top /\ Top \in Nat
        /\ D_EXP < Top * Pow(F) /\ D_EXP \in Nat
    BY Patterns, Widths
  <1>1. m \in Nat /\ m < D_EXP
    BY FiniteIsSmall
  <1>2. h \in Nat /\ h > 0 /\ Pow(i) = 2 * h
    BY <1>0, PowersHalve
  <1>3. m < Top * Pow(F)
    <2>1. Top * Pow(F) \in Nat
      BY <1>0
    <2> QED
      BY <1>0, <1>1, <2>1
  <1>4. PICK E \in Nat, q \in Nat : Placed(m, F, E, q)
    BY <1>0, <1>1, <1>3, PlaceOf
  <1>5. /\ Pow(E) \in Nat /\ Pow(E) > 0 /\ Amount(m, F) = q * Pow(E)
        /\ Amount(m + 1, F) = (q + 1) * Pow(E) /\ Amount(m, F) \in Nat /\ Amount(m + 1, F) \in Nat
    BY <1>4, AmountStep
  <1>6. /\ q < 2 * p /\ (E = 0 \/ q >= p) /\ m = E * p + q /\ E < Top
    BY <1>0, <1>4 DEF Placed
  <1>7. E >= i
    <2> SUFFICES ASSUME E < i PROVE FALSE
      OBVIOUS
    <2>1. E \in 0 .. Top /\ i - 1 \in 0 .. Top /\ E <= i - 1
      BY <1>0
    <2>2. Pow(E) <= h
      BY <2>1, PowersInUse
    <2> DEFINE e == Pow(E)
    <2>3. e \in Nat /\ e > 0 /\ e <= h
      BY <1>5, <2>2
    <2> HIDE DEF e, h, p
    <2>4. q * e < (2 * p) * e /\ (2 * p) * e <= (2 * p) * h /\ p * (2 * h) <= sig * (2 * h)
          /\ (2 * p) * h = p * (2 * h)
      <3>1. q * e < (2 * p) * e
        BY <1>0, <1>6, <2>3, ProductsOrder
      <3>2. (2 * p) * e <= (2 * p) * h
        <4>1. e * (2 * p) <= h * (2 * p)
          BY <1>0, <1>2, <2>3, ProductsOrder
        <4> QED
          BY <1>0, <1>2, <2>3, <4>1
      <3>3. p * (2 * h) <= sig * (2 * h)
        <4>1. p <= sig
          BY DEF p
        <4> QED
          BY <1>0, <1>2, <4>1, ProductsOrder
      <3>4. (2 * p) * h = p * (2 * h)
        BY <1>0, <1>2
      <3> QED
        BY <3>1, <3>2, <3>3, <3>4
    <2>5. q * e \in Nat /\ (2 * p) * e \in Nat /\ (2 * p) * h \in Nat /\ sig * (2 * h) \in Nat
      BY <1>0, <1>2, <2>3
    <2>6. q * e < sig * (2 * h)
      BY <2>4, <2>5
    <2> QED
      BY <1>2, <1>5, <2>5, <2>6 DEF e
  <1>8. Pow(E) >= Pow(i) /\ Pow(E - 1) >= h /\ Pow(E - 1) \in Nat
    <2>1. E \in 0 .. Top /\ i \in 0 .. Top /\ i - 1 \in 0 .. Top /\ E - 1 \in 0 .. Top /\ i - 1 <= E - 1
      BY <1>0, <1>6, <1>7
    <2> QED
      BY <1>7, <2>1, PowersInUse
  <1>9. Amount(m, F) + h <= Amount(m + 1, F)
    <2> DEFINE e == Pow(E)
    <2>1. e \in Nat /\ e >= h /\ (q + 1) * e = q * e + e /\ q * e \in Nat
      BY <1>2, <1>5, <1>8
    <2> HIDE DEF e, h
    <2> QED
      BY <1>2, <1>5, <2>1 DEF e
  <1>10. ASSUME NEW k \in Nat, m = k + 1
         PROVE  Amount(k, F) \in Nat /\ Amount(k, F) + h <= Amount(m, F)
    <2>1. k < Top * Pow(F)
      <3>1. Top * Pow(F) \in Nat
        BY <1>0
      <3> QED
        BY <1>3, <1>10, <3>1
    <2>2. PICK D \in Nat, c \in Nat : Placed(k, F, D, c)
      BY <1>0, <2>1, PlaceOf
    <2>3. /\ Pow(D) \in Nat /\ Amount(k, F) = c * Pow(D) /\ Amount(k + 1, F) = (c + 1) * Pow(D)
          /\ Amount(k, F) \in Nat
      BY <2>2, AmountStep
    <2>4. c < 2 * p /\ k = D * p + c /\ D < Top
      BY <1>0, <2>2 DEF Placed
    <2>5. D >= E - 1
      <3> SUFFICES ASSUME D < E - 1 PROVE FALSE
        OBVIOUS
      <3>1. q >= p
        BY <1>6, <1>7
      <3>2. (D + 2) * p <= E * p /\ (D + 2) * p = D * p + 2 * p /\ D * p \in Nat /\ E * p \in Nat
        <4>1. D + 2 <= E
          OBVIOUS
        <4> HIDE DEF p
        <4>2. (D + 2) * p <= E * p
          BY <1>0, <4>1
        <4>3. (D + 2) * p = D * p + 2 * p /\ D * p \in Nat /\ E * p \in Nat
          BY <1>0
        <4> QED
          BY <4>2, <4>3
      <3> HIDE DEF p
      <3> QED
        BY <1>0, <1>6, <1>10, <2>4, <3>1, <3>2
    <2>6. Pow(D) >= h
      <3>1. D \in 0 .. Top /\ E - 1 \in 0 .. Top
        BY <1>0, <1>6, <1>7, <2>4
      <3>2. Pow(E - 1) <= Pow(D)
        BY <2>5, <3>1, PowersInUse
      <3> QED
        BY <1>2, <1>8, <2>3, <3>2
    <2> DEFINE e == Pow(D)
    <2>7. e \in Nat /\ e >= h /\ (c + 1) * e = c * e + e /\ c * e \in Nat
      BY <2>3, <2>6
    <2> HIDE DEF e, h
    <2> QED
      BY <1>2, <1>10, <2>3, <2>7 DEF e
  <1> QED
    BY <1>2, <1>5, <1>9, <1>10

(* A term too small to move the larger one half way to a neighbour. *)
LEMMA FarTerm ==
  ASSUME NEW a \in Double, NEW b, NEW p, NEW q, NEW ix, NEW jx, NEW iy, NEW jy, IsFinite(a),
         Operand(a, p, ix, jx), Operand(b, q, iy, jy), p.exp - q.exp > FAR
  PROVE  /\ ix \in Nat /\ ix > 0 /\ ix < Top /\ jx = 0
         /\ DoubleAmount(a) = p.sig * Pow(ix) /\ Pow(ix - 1) \in Nat
         /\ 2 * DoubleAmount(b) < Pow(ix - 1)
  <1> DEFINE t == p.exp - q.exp
             B == DoubleAmount(b)
             k == iy + F + 3
             c == Pow(iy)
             f == Pow(jy)
             h == Pow(ix - 1)
             P == D_IMPL
  <1>0. /\ F \in Nat /\ G \in Nat /\ G > 1 /\ FAR \in Nat /\ WB \in Nat /\ FAR >= WB /\ WB >= F + G + 2
        /\ Top \in Nat /\ D_IMPL = Pow(F) /\ D_IMPL \in Nat /\ D_IMPL > 0
    BY Widths, Patterns
  <1>1. p.exp \in Int /\ q.exp \in Int /\ p.exp - q.exp >= 0
    <2>1. p.exp \in Int /\ q.exp \in Int
      BY DEF Operand, Scaled
    <2> QED
      BY <1>0, <2>1
  <1>2. /\ ix \in Nat /\ jx \in Nat /\ iy \in Nat /\ jy \in Nat
        /\ t \in Nat /\ t + (iy + jx) = ix + jy /\ ix + jy <= Top /\ jy <= F
    BY <1>1, AlignedExponents
  <1>3. (ix = 0 \/ jx = 0) /\ ix < Top /\ DoubleAmount(a) * Pow(jx) = p.sig * Pow(ix)
        /\ DoubleAmount(a) \in Nat /\ p.sig \in Nat /\ B \in Nat /\ q.sig \in Nat /\ q.sig < 2 * P
        /\ B * f = q.sig * c
    BY DEF Operand, Scaled
  <1>4. t > F + 3
    BY <1>0, <1>1
  <1> HIDE DEF t
  <1>5. ix > 0 /\ jx = 0 /\ k + 1 <= ix + jy /\ k \in Nat /\ k \in 0 .. Top /\ k <= (ix - 1) + jy
        /\ ix - 1 \in Nat /\ (ix - 1) + jy <= Top /\ (ix - 1) + jy \in 0 .. Top
    BY <1>0, <1>2, <1>3, <1>4
  <1>6. DoubleAmount(a) = p.sig * Pow(ix)
    BY <1>3, <1>5, Powers
  <1>7. /\ iy \in 0 .. Top /\ jy \in 0 .. Top /\ ix - 1 \in 0 .. Top /\ F \in 0 .. Top
        /\ F + 1 \in 0 .. Top /\ F + 2 \in 0 .. Top /\ F + 3 \in Nat /\ k = iy + (F + 3)
        /\ iy + (F + 3) <= Top
    BY <1>0, <1>2, <1>5
  <1>8. c \in Nat /\ c > 0 /\ f \in Nat /\ f > 0 /\ h \in Nat /\ h > 0 /\ Pow(k) \in Nat
        /\ Pow((ix - 1) + jy) \in Nat /\ Pow(k) <= Pow((ix - 1) + jy)
    BY <1>5, <1>7, PowersInUse
  <1>9. Pow((ix - 1) + jy) = h * f
    BY <1>2, <1>5, PowersMultiply
  <1>10. Pow(k) = c * (8 * P)
    <2>1. Pow(F + 1) = 2 * P /\ Pow((F + 1) + 1) = 2 * Pow(F + 1) /\ Pow((F + 2) + 1) = 2 * Pow(F + 2)
      BY <1>0, <1>7, PowersInUse
    <2>2. (F + 1) + 1 = F + 2 /\ (F + 2) + 1 = F + 3
      BY <1>0
    <2>3. Pow(F + 3) = 8 * P
      BY <1>0, <2>1, <2>2
    <2>4. Pow(iy + (F + 3)) = c * Pow(F + 3)
      BY <1>2, <1>7, PowersMultiply
    <2> QED
      BY <1>7, <2>3, <2>4
  <1> DEFINE rest == q.sig
  <1>11. rest \in Nat /\ rest < 2 * P /\ B * f = rest * c /\ P \in Nat /\ P > 0
    BY <1>0, <1>3
  <1> HIDE DEF B, c, f, h, P, rest
  <1>12. (2 * B) * f < h * f
    <2>1. rest * c < (2 * P) * c /\ rest * c \in Nat
      BY <1>8, <1>11
    <2>2. (2 * B) * f = 2 * (rest * c) /\ (2 * P) * c = 2 * (P * c) /\ c * (8 * P) = 8 * (P * c) /\ P * c \in Nat
      BY <1>3, <1>8, <1>11
    <2>3. c * (8 * P) <= h * f /\ h * f \in Nat
      BY <1>8, <1>9, <1>10
    <2> QED
      BY <2>1, <2>2, <2>3
  <1>13. 2 * B < h
    BY <1>3, <1>8, <1>12, ProductsOrder
  <1> QED
    BY <1>2, <1>3, <1>5, <1>6, <1>8, <1>13 DEF B, h

(* The larger term is the rounded sum when the other is far below it. *)
LEMMA FarSum ==
  ASSUME NEW a \in Double, NEW b, NEW p, NEW q, NEW ix, NEW jx, NEW iy, NEW jy, IsFinite(a),
         p.sign = Sign(a),
         Operand(a, p, ix, jx), Operand(b, q, iy, jy), p.exp - q.exp > FAR
  PROVE  RoundsAsSum(a, a, b)
  <1> DEFINE A == DoubleAmount(a)
             B == DoubleAmount(b)
             m == a % D_SIGN
             h == Pow(ix - 1)
             n == IF Negative(a) <=> Negative(b) THEN A + B ELSE A - B
             up == Amount(m + 1, F)
  <1>1. /\ ix \in Nat /\ ix > 0 /\ ix < Top /\ A = p.sig * Pow(ix) /\ h \in Nat /\ 2 * B < h
    BY FarTerm
  <1>2. /\ p.sig \in Nat /\ D_IMPL <= p.sig /\ A \in Nat /\ A > 0 /\ B \in Nat /\ B > 0
        /\ p.sign \in {0, 1} /\ (p.sign = 1 <=> Negative(a))
    BY DEF Operand
  <1>3. A = Amount(m, F)
    BY FiniteIsSmall
  <1>4. Amount(m, F) = p.sig * Pow(ix) /\ m = a % D_SIGN
    BY <1>1, <1>3
  <1> HIDE DEF A, B, m, h
  <1>5. /\ up \in Nat /\ A + h <= up
        /\ \A k \in Nat : m = k + 1 => Amount(k, F) \in Nat /\ Amount(k, F) + h <= A
    BY <1>1, <1>2, <1>3, <1>4, Gaps DEF h
  <1>6. h < A
    <2>1. ix <= Top
      BY <1>1, Widths
    <2>2. Pow(ix) = 2 * h
      BY <1>1, <2>1, PowersHalve DEF h
    <2>3. D_IMPL \in Nat /\ D_IMPL > 0
      BY Format
    <2> DEFINE s == p.sig
    <2>4. s \in Nat /\ s > 0 /\ A = s * (2 * h) /\ h > 0
      <3>1. h > 0
        BY <1>1, <1>2
      <3> QED
        BY <1>1, <1>2, <2>2, <2>3, <3>1
    <2> HIDE DEF s
    <2>5. 1 * (2 * h) <= s * (2 * h)
      BY <1>1, <2>4, ProductsOrder
    <2> QED
      BY <1>1, <2>4, <2>5
  <1>7. n \in Nat /\ n > 0 /\ 2 * A < 2 * n + h /\ 2 * n < 2 * A + h
    BY <1>1, <1>2, <1>6
  <1> HIDE DEF n, up
  <1>8. \A k \in Nat : m = k + 1 => Amount(k, F) + Amount(m, F) < 2 * n
    BY <1>1, <1>2, <1>3, <1>5, <1>7
  <1>9. 2 * n < Amount(m, F) + Amount(m + 1, F)
    BY <1>1, <1>2, <1>3, <1>5, <1>7 DEF up
  <1>10. Rounds(a, Sign(a), n, 1)
    BY <1>4, <1>7, <1>8, <1>9, NearNumber
  <1>11. Rounds(a, p.sign, n, 1)
    BY <1>10
  <1> QED
    BY <1>2, <1>7, <1>11, SumFromMagnitudes DEF n, A, B

(* Minus zero is zero. *)
LEMMA MinusZero ==
  ASSUME NEW n \in Nat
  PROVE  n < 1 => - n = 0
  OBVIOUS

(* A zero of either sign has the value 0. *)
LEMMA ZeroValue ==
  ASSUME NEW v, DoubleAmount(v) = 0
  PROVE  DoubleValue(v) = 0
  <1> DEFINE n == DoubleAmount(v)
  <1>1. n \in Nat /\ n = 0
    OBVIOUS
  <1> HIDE DEF n
  <1>2. - n = 0
    <2>1. n < 1
      BY <1>1
    <2> QED
      BY <1>1, <2>1, MinusZero, Zenon
  <1> QED
    BY <1>1, <1>2, Zenon DEF DoubleValue, n

(* Zero is added to a finite number. *)
LEMMA AddZero ==
  ASSUME NEW a \in Double, NEW b, IsFinite(a), ~ IsZero(a), DoubleAmount(b) = 0
  PROVE  RoundsAsSum(a, a, b)
  <1> DEFINE A == DoubleAmount(a)
             n == IF Negative(a) <=> Negative(b) THEN A + DoubleAmount(b) ELSE A - DoubleAmount(b)
  <1>1. PICK i \in Nat, j \in Nat : Operand(a, df_unpack(a), i, j)
    BY Unpacked
  <1>2. A \in Nat /\ A > 0 /\ Rounds(a, Sign(a), A, 1)
    BY <1>1, ExactIsNearest DEF Operand
  <1>3. Sign(a) \in {0, 1} /\ (Sign(a) = 1 <=> Negative(a))
    BY PatternParts
  <1> HIDE DEF A
  <1>4. n = A
    BY <1>2
  <1>5. DoubleAmount(b) \in Nat /\ DoubleAmount(a) \in Nat
    BY <1>2 DEF A
  <1>6. Rounds(a, Sign(a), n, 1) /\ n \in Nat /\ n > 0
    BY <1>2, <1>4
  <1> HIDE DEF n
  <1>7. n = IF Negative(a) <=> Negative(b) THEN DoubleAmount(a) + DoubleAmount(b)
            ELSE DoubleAmount(a) - DoubleAmount(b)
    BY DEF n, A
  <1> QED
    BY <1>3, <1>5, <1>6, <1>7, SumFromMagnitudes

(* Two zeros. *)
LEMMA AddZeros ==
  ASSUME NEW a, NEW b, DoubleAmount(a) = 0, DoubleAmount(b) = 0, NEW g \in {0, 1}, NEW h \in {0, 1},
         g = 1 <=> Negative(a), h = 1 <=> Negative(b)
  PROVE  RoundsAsSum(Signed(g * h), a, b)
  <1> DEFINE exact == DoubleValue(a) + DoubleValue(b)
             s == g * h
  <1>1. exact = 0 /\ Abs(exact) = 0
    BY ZeroValue DEF Abs
  <1>2. s \in {0, 1} /\ (s = 1 <=> g = 1 /\ h = 1)
    OBVIOUS
  <1> HIDE DEF s
  <1>3. Rounds(Signed(s), s, 0, 1)
    BY <1>2, TinyIsZero
  <1> HIDE DEF exact
  <1>4. /\ Signed(s) \in Double /\ Signed(s) % D_SIGN <= D_EXP /\ RoundedDouble(Signed(s), Abs(exact), 1)
        /\ (Negative(Signed(s)) <=> s = 1)
    BY <1>1, <1>3 DEF Rounds
  <1>5. RoundsAsSum(Signed(s), a, b)
    BY <1>1, <1>2, <1>4 DEF RoundsAsSum, exact
  <1> QED
    BY <1>5 DEF s

(* __adddf3 rounds every sum of finite numbers to nearest even. *)
LEMMA AddsNearest ==
  ASSUME NEW a \in Double, NEW b \in Double, IsFinite(a), IsFinite(b)
  PROVE  RoundsAsSum(__adddf3(a, b), a, b)
  <1> DEFINE p == df_unpack(a)
             q == df_unpack(b)
             r == __adddf3(a, b)
             swapped == p.exp < q.exp \/ (p.exp = q.exp /\ p.sig < q.sig)
  <1>0. /\ p.sign \in {0, 1} /\ (p.sign = 1 <=> Negative(a)) /\ p.sign = Sign(a) /\ p.exp # Special
        /\ (p.zero <=> IsZero(a))
        /\ (~ IsZero(a) => \E i, j \in Nat : Operand(a, p, i, j)) /\ (IsZero(a) => DoubleAmount(a) = 0)
    BY Unpacked
  <1>1. /\ q.sign \in {0, 1} /\ (q.sign = 1 <=> Negative(b)) /\ q.sign = Sign(b) /\ q.exp # Special
        /\ (q.zero <=> IsZero(b))
        /\ (~ IsZero(b) => \E i, j \in Nat : Operand(b, q, i, j)) /\ (IsZero(b) => DoubleAmount(b) = 0)
    BY Unpacked
  <1>2. DoubleValue(a) \in Int /\ DoubleValue(b) \in Int
    BY FiniteIsSmall
  <1>3. r = CASE p.exp = Special \/ q.exp = Special -> SumOfSpecials(a, b)
              [] p.zero /\ q.zero -> Signed(p.sign * q.sign)
              [] p.zero /\ ~ q.zero /\ q.exp # Special -> b
              [] q.zero /\ ~ p.zero /\ p.exp # Special -> a
              [] OTHER -> IF (IF swapped THEN q ELSE p).exp - (IF swapped THEN p ELSE q).exp > FAR
                          THEN IF swapped THEN b ELSE a
                          ELSE SumOfAligned(IF swapped THEN q ELSE p, IF swapped THEN p ELSE q)
    BY Zenon DEF __adddf3
  <1> HIDE DEF p, q, r
  <1>4. CASE IsZero(a) /\ IsZero(b)
    <2>1. r = Signed(p.sign * q.sign)
      BY <1>0, <1>1, <1>3, <1>4, Zenon
    <2>2. RoundsAsSum(Signed(p.sign * q.sign), a, b)
      BY <1>0, <1>1, <1>4, AddZeros
    <2> QED
      BY <2>1, <2>2 DEF r
  <1>5. CASE IsZero(a) /\ ~ IsZero(b)
    <2>1. r = b
      BY <1>0, <1>1, <1>3, <1>5, Zenon
    <2>2. RoundsAsSum(b, b, a)
      BY <1>0, <1>5, AddZero
    <2>3. RoundsAsSum(b, a, b)
      BY <1>2, <2>2, SumsCommute
    <2> QED
      BY <2>1, <2>3 DEF r
  <1>6. CASE ~ IsZero(a) /\ IsZero(b)
    <2>1. r = a
      BY <1>0, <1>1, <1>3, <1>6, Zenon
    <2>2. RoundsAsSum(a, a, b)
      BY <1>1, <1>6, AddZero
    <2> QED
      BY <2>1, <2>2 DEF r
  <1>7. CASE ~ IsZero(a) /\ ~ IsZero(b)
    <2>1. PICK ix \in Nat, jx \in Nat : Operand(a, p, ix, jx)
      BY <1>0, <1>7
    <2>2. PICK iy \in Nat, jy \in Nat : Operand(b, q, iy, jy)
      BY <1>1, <1>7
    <2>3. p.exp \in Int /\ q.exp \in Int /\ p.sig \in Nat /\ q.sig \in Nat
      BY <2>1, <2>2 DEF Operand, Scaled
    <2>4. CASE swapped
      <3>1. r = IF q.exp - p.exp > FAR THEN b ELSE SumOfAligned(q, p)
        BY <1>0, <1>1, <1>3, <1>7, <2>4, Zenon
      <3>2. q.exp > p.exp \/ (q.exp = p.exp /\ p.sig <= q.sig)
        BY <2>3, <2>4
      <3>3. RoundsAsSum(SumOfAligned(q, p), b, a)
        BY <2>1, <2>2, <3>2, AlignedSum
      <3>4. q.exp - p.exp > FAR => RoundsAsSum(b, b, a)
        BY <1>1, <2>1, <2>2, FarSum
      <3>5. RoundsAsSum(r, b, a)
        BY <3>1, <3>3, <3>4, Zenon
      <3> QED
        BY <1>2, <3>5, SumsCommute DEF r
    <2>5. CASE ~ swapped
      <3>1. r = IF p.exp - q.exp > FAR THEN a ELSE SumOfAligned(p, q)
        BY <1>0, <1>1, <1>3, <1>7, <2>5, Zenon
      <3>2. p.exp > q.exp \/ (p.exp = q.exp /\ q.sig <= p.sig)
        BY <2>3, <2>5
      <3>3. RoundsAsSum(SumOfAligned(p, q), a, b)
        BY <2>1, <2>2, <3>2, AlignedSum
      <3>4. p.exp - q.exp > FAR => RoundsAsSum(a, a, b)
        BY <1>0, <2>1, <2>2, FarSum
      <3>5. RoundsAsSum(r, a, b)
        BY <3>1, <3>3, <3>4, Zenon
      <3> QED
        BY <3>5 DEF r
    <2> QED
      BY <2>4, <2>5
  <1> QED
    BY <1>4, <1>5, <1>6, <1>7

-----------------------------------------------------------------------------
(* Infinities and NaNs.  A pattern put together from its parts. *)
LEMMA PatternOf ==
  ASSUME NEW g \in {0, 1}, NEW f \in Nat, f < Pow(X), NEW m \in Nat, m < D_IMPL,
         NEW v, v = Signed(g) + f * D_IMPL + m
  PROVE  /\ v \in Double /\ Sign(v) = g /\ Field(v) = f /\ Fraction(v) = m
         /\ v % D_SIGN = f * D_IMPL + m /\ (Negative(v) <=> g = 1)
  <1> DEFINE p == D_IMPL
             n == Pow(X)
             u == f * p + m
  <1>0. n \in Nat /\ n > 3 /\ p \in Nat /\ p > 0 /\ D_SIGN = n * p /\ D_SIGN \in Nat /\ D_SIGN > 0
    BY Patterns, Format
  <1>1. u \in Nat /\ u < D_SIGN
    <2>1. f + 1 <= n
      BY <1>0
    <2>2. (f + 1) * p <= n * p /\ (f + 1) * p = f * p + p /\ f * p \in Nat
      BY <1>0, <2>1
    <2> QED
      BY <1>0, <2>2
  <1>2. Signed(g) \in Nat
    <2>1. g * D_SIGN \in Nat
      BY <1>0
    <2> QED
      BY <2>1 DEF Signed
  <1>3. v = Signed(g) + u
    <2>1. f * p \in Nat
      BY <1>0
    <2> HIDE DEF p
    <2> QED
      BY <1>2, <2>1 DEF p
  <1> HIDE DEF u
  <1>4. v \in Double /\ v % D_SIGN = u /\ (Negative(v) <=> g = 1)
    BY <1>1, <1>3, SignedPattern
  <1>5. /\ Field(v) \in Nat /\ Fraction(v) \in Nat /\ Fraction(v) < p /\ u = Field(v) * p + Fraction(v)
        /\ Sign(v) \in {0, 1} /\ (Sign(v) = 1 <=> Negative(v))
    BY <1>4, PatternParts
  <1>6. Field(v) = f /\ Fraction(v) = m
    <2>1. u \div p = f /\ u % p = m
      BY <1>0, DividedUnique DEF u
    <2> DEFINE c == Field(v)
               d == Fraction(v)
    <2>2. c \in Nat /\ d \in Nat /\ d < p /\ u = c * p + d
      BY <1>5
    <2> HIDE DEF c, d
    <2>3. u \div p = c /\ u % p = d
      BY <1>0, <2>2, DividedUnique
    <2> QED
      BY <2>1, <2>3 DEF c, d
  <1> QED
    BY <1>4, <1>5, <1>6 DEF u

(* What the exponent field and fraction say. *)
LEMMA SpecialParts ==
  ASSUME NEW v \in Double
  PROVE  /\ df_is_nan(v) <=> (~ IsFinite(v) /\ Fraction(v) # 0)
         /\ IsInfinite(v) <=> (~ IsFinite(v) /\ Fraction(v) = 0)
         /\ v % D_SIGN <= D_EXP => ~ df_is_nan(v)
         /\ IsZero(v) => IsFinite(v)
         /\ IsNaN(df_unpack(v)) <=> df_is_nan(v)
         /\ IsInf(df_unpack(v)) <=> IsInfinite(v)
         /\ df_unpack(v).exp = Special <=> ~ IsFinite(v)
         /\ df_unpack(v).zero <=> IsZero(v)
         /\ df_unpack(v).sign = Sign(v)
  <1> DEFINE f == Field(v)
             m == Fraction(v)
             u == v % D_SIGN
             n == Pow(X)
             p == D_IMPL
  <1>0. n \in Nat /\ n > 3 /\ p \in Nat /\ p > 0 /\ D_EXP = (n - 1) * p /\ 2 ^ X = n
    BY Patterns DEF Pow
  <1>1. u \in Nat /\ f \in Nat /\ f < n /\ m \in Nat /\ m < p /\ u = f * p + m
    BY PatternParts
  <1>2. df_is_nan(v) <=> (f = n - 1 /\ m # 0)
    BY <1>0, Zenon DEF df_is_nan
  <1>3. IsFinite(v) <=> f # n - 1
    BY <1>0, Zenon DEF IsFinite
  <1>4. IsInfinite(v) <=> u = D_EXP
    BY DEF IsInfinite
  <1> HIDE DEF f, m, u, n, p
  <1>5. f = n - 1 => u = D_EXP + m
    BY <1>0, <1>1
  <1>6. f # n - 1 => u < D_EXP
    <2> SUFFICES ASSUME f # n - 1 PROVE u < D_EXP
      OBVIOUS
    <2>1. f + 1 <= n - 1 /\ n - 1 \in Nat
      BY <1>0, <1>1
    <2>2. (f + 1) * p <= (n - 1) * p /\ (f + 1) * p = f * p + p /\ f * p \in Nat
      BY <1>0, <1>1, <2>1
    <2> QED
      BY <1>0, <1>1, <2>2
  <1>7. D_EXP \in Nat
    BY Format
  <1>8. u = D_EXP <=> f = n - 1 /\ m = 0
    BY <1>1, <1>5, <1>6, <1>7
  <1>9. u <= D_EXP => ~ (f = n - 1 /\ m # 0)
    BY <1>1, <1>5, <1>7
  <1>10. /\ (df_unpack(v).exp = Special <=> ~ IsFinite(v)) /\ (df_unpack(v).zero <=> IsZero(v))
         /\ df_unpack(v).sign = Sign(v) /\ (~ IsFinite(v) => df_unpack(v).sig = m)
         /\ (IsZero(v) => IsFinite(v))
    BY Unpacked DEF m
  <1>11. IsNaN(df_unpack(v)) <=> (f = n - 1 /\ m # 0)
    BY <1>3, <1>10 DEF IsNaN
  <1>12. IsInf(df_unpack(v)) <=> (f = n - 1 /\ m = 0)
    BY <1>3, <1>10 DEF IsInf
  <1> QED
    BY <1>2, <1>3, <1>4, <1>8, <1>9, <1>10, <1>11, <1>12 DEF m, u

(* Half of the implicit bit. *)
LEMMA QuietBit ==
  D_QUIET \in Nat /\ D_QUIET > 0 /\ D_IMPL = 2 * D_QUIET
  <1>1. F \in Nat /\ F > 0 /\ F <= Top /\ D_IMPL = Pow(F)
    BY Widths, Patterns
  <1> QED
    BY <1>1, PowersHalve DEF D_QUIET, Pow

(* Setting the quiet bit of a NaN leaves a NaN of the same sign. *)
LEMMA QuietNaNs ==
  ASSUME NEW v \in Double, df_is_nan(v)
  PROVE  Quiet(v) \in Double /\ df_is_nan(Quiet(v)) /\ Sign(Quiet(v)) = Sign(v)
  <1> DEFINE m == Fraction(v)
             h == D_QUIET
             n == Pow(X)
             f == Field(v)
             g == Sign(v)
  <1>0. /\ h \in Nat /\ h > 0 /\ D_IMPL = 2 * h /\ D_IMPL \in Nat /\ n \in Nat /\ n > 3 /\ 2 ^ X = n
        /\ D_SIGN = n * D_IMPL /\ D_SIGN \in Nat
    BY QuietBit, Patterns, Format DEF Pow
  <1>1. /\ m \in Nat /\ m < D_IMPL /\ g \in {0, 1} /\ f \in Nat /\ f < n
        /\ v = Signed(g) + (f * D_IMPL + m) /\ v \in Nat
    BY PatternParts
  <1>2. m # 0 /\ f = n - 1
    BY <1>0 DEF df_is_nan
  <1>3. Signed(g) = g * D_SIGN
    BY DEF Signed
  <1> HIDE DEF m, h, n, f, g
  <1>4. CASE m >= h
    <2>1. (v \div h) % 2 = 1
      <3> DEFINE c == g * n + f
      <3>1. c \in Nat /\ g * n \in Nat /\ f * D_IMPL \in Nat /\ (g * n) * D_IMPL \in Nat
        BY <1>0, <1>1
      <3>2. g * D_SIGN = (g * n) * D_IMPL /\ c * D_IMPL = (g * n) * D_IMPL + f * D_IMPL
        BY <1>0, <1>1, <3>1
      <3>3. v = c * D_IMPL + m
        BY <1>1, <1>3, <3>1, <3>2
      <3> HIDE DEF c
      <3>4. c * D_IMPL = (2 * c) * h /\ (2 * c + 1) * h = (2 * c) * h + h /\ (2 * c) * h \in Nat
        BY <1>0, <3>1
      <3>5. v = (2 * c + 1) * h + (m - h) /\ m - h \in Nat /\ m - h < h /\ 2 * c + 1 \in Nat
        BY <1>0, <1>1, <1>4, <3>1, <3>3, <3>4
      <3>6. v \div h = 2 * c + 1
        BY <1>0, <3>5, DividedUnique
      <3>7. 2 * c + 1 = c * 2 + 1 /\ (c * 2 + 1) % 2 = 1
        BY <3>1, DividedUnique
      <3> QED
        BY <3>6, <3>7
    <2>2. Quiet(v) = v
      BY <2>1 DEF Quiet, h
    <2> QED
      BY <2>2 DEF g
  <1>5. CASE m < h
    <2>1. CASE (v \div h) % 2 = 1
      <3>1. Quiet(v) = v
        BY <2>1 DEF Quiet, h
      <3> QED
        BY <3>1 DEF g
    <2>2. CASE (v \div h) % 2 # 1
      <3>1. Quiet(v) = v + h
        BY <2>2 DEF Quiet, h
      <3>2. m + h \in Nat /\ m + h < D_IMPL /\ m + h # 0
        BY <1>0, <1>1, <1>5
      <3>3. g * D_SIGN \in Nat /\ f * D_IMPL \in Nat
        BY <1>0, <1>1
      <3>4. v + h = Signed(g) + f * D_IMPL + (m + h)
        BY <1>0, <1>1, <1>3, <3>3
      <3> HIDE DEF n
      <3>5. v + h \in Double /\ Sign(v + h) = g /\ Field(v + h) = f /\ Fraction(v + h) = m + h
        BY <1>1, <3>2, <3>4, PatternOf DEF n
      <3>6. df_is_nan(v + h)
        BY <1>0, <1>2, <3>2, <3>5 DEF df_is_nan
      <3> QED
        BY <3>1, <3>5, <3>6 DEF g
    <2> QED
      BY <2>1, <2>2
  <1> QED
    BY <1>0, <1>1, <1>4, <1>5

(* The NaN that invalid operations return is one. *)
LEMMA MakesNaN ==
  NaN \in Double /\ df_is_nan(NaN)
  <1> DEFINE n == Pow(X)
  <1>0. /\ D_QUIET \in Nat /\ D_QUIET > 0 /\ D_QUIET < D_IMPL /\ n \in Nat /\ n > 3 /\ 2 ^ X = n
        /\ D_EXP = (n - 1) * D_IMPL /\ D_EXP \in Nat /\ D_SIGN \in Nat
    BY QuietBit, Patterns, Format DEF Pow
  <1>1. Signed(0) = 0
    BY <1>0 DEF Signed
  <1>2. NaN = Signed(0) + (n - 1) * D_IMPL + D_QUIET
    BY <1>0, <1>1 DEF NaN
  <1>3. n - 1 \in Nat /\ n - 1 < n
    BY <1>0
  <1> HIDE DEF n
  <1>4. NaN \in Double /\ Field(NaN) = n - 1 /\ Fraction(NaN) = D_QUIET
    BY <1>0, <1>2, <1>3, PatternOf DEF n
  <1> QED
    BY <1>0, <1>4 DEF df_is_nan

(* The other sign. *)
LEMMA NegatedIs ==
  ASSUME NEW v \in Double
  PROVE  LET w == Negated(v)
         IN  /\ w \in Double /\ w % D_SIGN = v % D_SIGN /\ (Negative(w) <=> ~ Negative(v))
             /\ Field(w) = Field(v) /\ Fraction(w) = Fraction(v) /\ Sign(w) = 1 - Sign(v)
             /\ Negated(w) = v
  <1> DEFINE u == v % D_SIGN
             g == Sign(v)
             w == Negated(v)
             h == 1 - g
  <1>0. D_SIGN \in Nat /\ D_SIGN > 0 /\ D_IMPL \in Nat
    BY Format
  <1>1. /\ u \in Nat /\ u < D_SIGN /\ g \in {0, 1} /\ (g = 1 <=> Negative(v)) /\ v = Signed(g) + u
        /\ Field(v) \in Nat /\ Field(v) < Pow(X) /\ Fraction(v) \in Nat /\ Fraction(v) < D_IMPL
        /\ u = Field(v) * D_IMPL + Fraction(v) /\ v \in Nat
    BY PatternParts
  <1>2. h \in {0, 1} /\ Signed(g) = g * D_SIGN /\ Signed(h) = h * D_SIGN
    BY <1>1 DEF Signed
  <1> HIDE DEF u, g
  <1>3. /\ (0 + u) % (2 * D_SIGN) = u /\ (D_SIGN + u) % (2 * D_SIGN) = D_SIGN + u
        /\ (2 * D_SIGN + u) % (2 * D_SIGN) = u
    <2> DEFINE k == 2 * D_SIGN
    <2>1. k \in Nat /\ k > 0 /\ u < k /\ D_SIGN + u < k /\ D_SIGN + u \in Nat
      BY <1>0, <1>1
    <2>2. 0 * k + u = 0 + u /\ 0 * k + (D_SIGN + u) = D_SIGN + u /\ 1 * k + u = k + u
      BY <1>0, <1>1, <2>1
    <2> HIDE DEF k
    <2>3. (0 * k + u) % k = u /\ (0 * k + (D_SIGN + u)) % k = D_SIGN + u /\ (1 * k + u) % k = u
      BY <1>1, <2>1, DividedUnique
    <2>4. (0 + u) % k = u /\ (D_SIGN + u) % k = D_SIGN + u /\ (k + u) % k = u
      BY <2>2, <2>3
    <2> QED
      BY <2>4 DEF k
  <1>4. w = Signed(h) + u /\ Negated(Signed(h) + u) = v
    <2>1. CASE g = 0
      <3>1. v = u /\ Signed(h) + u = D_SIGN + u /\ h = 1
        BY <1>0, <1>1, <1>2, <2>1
      <3>2. v + D_SIGN = D_SIGN + u /\ (D_SIGN + u) + D_SIGN = 2 * D_SIGN + u
        BY <1>0, <1>1, <3>1
      <3> QED
        BY <1>3, <3>1, <3>2 DEF Negated
    <2>2. CASE g = 1
      <3>1. v = D_SIGN + u /\ Signed(h) + u = u /\ h = 0
        BY <1>0, <1>1, <1>2, <2>2
      <3>2. v + D_SIGN = 2 * D_SIGN + u /\ u + D_SIGN = D_SIGN + u
        BY <1>0, <1>1, <3>1
      <3> QED
        BY <1>3, <3>1, <3>2 DEF Negated
    <2> QED
      BY <1>1, <2>1, <2>2
  <1>5. w = Signed(h) + Field(v) * D_IMPL + Fraction(v)
    <2>1. Signed(h) \in Nat
      BY <1>0, <1>2
    <2> DEFINE c == Field(v) * D_IMPL
    <2>2. c \in Nat
      BY <1>0, <1>1
    <2> HIDE DEF c, w
    <2> QED
      BY <1>1, <1>4, <2>1, <2>2 DEF c
  <1>6. /\ w \in Double /\ Sign(w) = h /\ Field(w) = Field(v) /\ Fraction(w) = Fraction(v)
        /\ w % D_SIGN = u /\ (Negative(w) <=> h = 1)
    <2> DEFINE f == Field(v)
               m == Fraction(v)
    <2> HIDE DEF w, h, f, m
    <2>1. /\ f \in Nat /\ f < Pow(X) /\ m \in Nat /\ m < D_IMPL /\ h \in {0, 1}
          /\ w = Signed(h) + f * D_IMPL + m /\ u = f * D_IMPL + m
      BY <1>1, <1>2, <1>5 DEF f, m, h
    <2>2. /\ w \in Double /\ Sign(w) = h /\ Field(w) = f /\ Fraction(w) = m
          /\ w % D_SIGN = f * D_IMPL + m /\ (Negative(w) <=> h = 1)
      BY <2>1, PatternOf
    <2> QED
      BY <2>1, <2>2 DEF f, m
  <1>7. Negative(w) <=> ~ Negative(v)
    <2>1. h = 1 <=> ~ (g = 1)
      BY <1>1
    <2> HIDE DEF w, h
    <2> QED
      BY <1>1, <1>6, <2>1, Zenon
  <1>8. Negated(w) = v
    BY <1>4
  <1> HIDE DEF w, h
  <1> QED
    BY <1>6, <1>7, <1>8 DEF w, u, h, g

(* The sum of operands one of which is not finite. *)
LEMMA SpecialSums ==
  ASSUME NEW a \in Double, NEW b \in Double, ~ (IsInfinite(a) /\ df_is_nan(b)),
         ~ IsFinite(a) \/ ~ IsFinite(b)
  PROVE  IF df_is_nan(a) \/ df_is_nan(b) \/ (IsInfinite(a) /\ b = Negated(a))
         THEN df_is_nan(__adddf3(a, b))
         ELSE __adddf3(a, b) = IF IsInfinite(a) THEN a ELSE b
  <1> DEFINE p == df_unpack(a)
             q == df_unpack(b)
             r == __adddf3(a, b)
  <1>1. /\ (df_is_nan(a) <=> ~ IsFinite(a) /\ Fraction(a) # 0)
        /\ (IsInfinite(a) <=> ~ IsFinite(a) /\ Fraction(a) = 0)
        /\ (IsNaN(p) <=> df_is_nan(a)) /\ (IsInf(p) <=> IsInfinite(a))
        /\ (p.exp = Special <=> ~ IsFinite(a)) /\ p.sign = Sign(a) /\ (p.zero => IsFinite(a))
    BY SpecialParts
  <1>2. /\ (df_is_nan(b) <=> ~ IsFinite(b) /\ Fraction(b) # 0)
        /\ (IsInfinite(b) <=> ~ IsFinite(b) /\ Fraction(b) = 0)
        /\ (IsNaN(q) <=> df_is_nan(b)) /\ (IsInf(q) <=> IsInfinite(b))
        /\ (q.exp = Special <=> ~ IsFinite(b)) /\ q.sign = Sign(b) /\ (q.zero => IsFinite(b))
    BY SpecialParts
  <1>3. (IsInfinite(a) /\ IsInfinite(b)) => (q.sign # p.sign <=> b = Negated(a))
    <2> SUFFICES ASSUME IsInfinite(a), IsInfinite(b) PROVE q.sign # p.sign <=> b = Negated(a)
      OBVIOUS
    <2>1. /\ Sign(a) \in {0, 1} /\ a = Signed(Sign(a)) + (a % D_SIGN)
          /\ Sign(b) \in {0, 1} /\ b = Signed(Sign(b)) + (b % D_SIGN)
      BY PatternParts
    <2>2. a % D_SIGN = D_EXP /\ b % D_SIGN = D_EXP
      BY DEF IsInfinite
    <2>3. Sign(Negated(a)) = 1 - Sign(a) /\ Negated(a) \in Double /\ Negated(a) % D_SIGN = a % D_SIGN
      BY NegatedIs
    <2>4. Negated(a) = Signed(1 - Sign(a)) + D_EXP
      BY <2>2, <2>3, PatternParts
    <2>5. Sign(b) # Sign(a) => Sign(b) = 1 - Sign(a)
      BY <2>1
    <2>6. Sign(b) # Sign(a) => b = Negated(a)
      BY <2>1, <2>2, <2>4, <2>5
    <2>7. b = Negated(a) => Sign(b) # Sign(a)
      BY <2>1, <2>3
    <2> QED
      BY <1>1, <1>2, <2>6, <2>7
  <1>4. df_is_nan(NaN)
    BY MakesNaN
  <1>5. /\ df_is_nan(a) => df_is_nan(Quiet(a))
        /\ df_is_nan(b) => df_is_nan(Quiet(b))
    BY QuietNaNs
  <1>6. r = SumOfSpecials(a, b)
    BY <1>1, <1>2, Zenon DEF __adddf3
  <1>7. SumOfSpecials(a, b) =
          CASE IsNaN(p) -> Quiet(a)
            [] IsInf(p) /\ q.exp = Special /\ q.sign # p.sign -> NaN
            [] IsInf(p) /\ ~ (q.exp = Special /\ q.sign # p.sign) -> a
            [] OTHER -> IF IsNaN(q) THEN Quiet(b) ELSE b
    BY Zenon DEF SumOfSpecials
  <1>8. \/ IsFinite(b)
        \/ df_is_nan(b)
        \/ IsInfinite(b)
    BY <1>2, Zenon
  <1>9. ~ (IsNaN(p) /\ IsInf(p))
    BY <1>1, Zenon
  <1> DEFINE special == q.exp = Special
             other == q.sign # p.sign
  <1>10. CASE IsNaN(p)
    <2>1. r = Quiet(a)
      BY <1>6, <1>7, <1>9, <1>10, Zenon
    <2> QED
      BY <1>1, <1>5, <1>10, <2>1, Zenon
  <1>11. CASE IsInf(p)
    <2>1. ~ df_is_nan(a) /\ ~ df_is_nan(b) /\ IsInfinite(a)
      BY <1>1, <1>11, Zenon
    <2>2. CASE special /\ other
      <3>1. r = NaN
        BY <1>6, <1>7, <1>9, <1>11, <2>2, Zenon
      <3>2. IsInfinite(b)
        BY <1>2, <2>1, <2>2, Zenon
      <3>3. b = Negated(a)
        BY <1>3, <2>1, <2>2, <3>2, Zenon
      <3> QED
        BY <1>4, <2>1, <3>1, <3>3, Zenon
    <2>3. CASE ~ (special /\ other)
      <3>1. r = a
        BY <1>6, <1>7, <1>9, <1>11, <2>3, Zenon
      <3>2. b # Negated(a)
        <4> SUFFICES ASSUME b = Negated(a) PROVE FALSE
          OBVIOUS
        <4>1. IsInfinite(b)
          <5>1. b % D_SIGN = a % D_SIGN
            BY NegatedIs
          <5> QED
            BY <2>1, <5>1 DEF IsInfinite
        <4> QED
          BY <1>2, <1>3, <2>1, <2>3, <4>1, Zenon
      <3> QED
        BY <2>1, <3>1, <3>2, Zenon
    <2> QED
      BY <2>2, <2>3, Zenon
  <1>12. CASE ~ IsNaN(p) /\ ~ IsInf(p)
    <2>1. r = IF IsNaN(q) THEN Quiet(b) ELSE b
      BY <1>6, <1>7, <1>12, Zenon
    <2>2. ~ df_is_nan(a) /\ ~ IsInfinite(a)
      BY <1>1, <1>12, Zenon
    <2> QED
      BY <1>2, <1>5, <2>1, <2>2, Zenon
  <1> QED
    BY <1>10, <1>11, <1>12, Zenon

(* A finite sum is not a NaN. *)
LEMMA SpecialAddition ==
  ASSUME NEW a \in Double, NEW b \in Double, ~ (IsInfinite(a) /\ df_is_nan(b))
  PROVE  IF df_is_nan(a) \/ df_is_nan(b) \/ (IsInfinite(a) /\ b = Negated(a))
         THEN df_is_nan(__adddf3(a, b))
         ELSE IF ~ (IsFinite(a) /\ IsFinite(b)) THEN __adddf3(a, b) = IF IsInfinite(a) THEN a ELSE b
         ELSE ~ df_is_nan(__adddf3(a, b))
  <1> DEFINE r == __adddf3(a, b)
  <1>1. CASE IsFinite(a) /\ IsFinite(b)
    <2>1. r \in Double /\ r % D_SIGN <= D_EXP
      BY <1>1, AddsNearest DEF RoundsAsSum
    <2>2. ~ df_is_nan(r) /\ ~ df_is_nan(a) /\ ~ df_is_nan(b) /\ ~ IsInfinite(a)
      BY <1>1, <2>1, SpecialParts
    <2> QED
      BY <1>1, <2>2, Zenon
  <1>2. CASE ~ (IsFinite(a) /\ IsFinite(b))
    BY <1>2, SpecialSums, Zenon
  <1> QED
    BY <1>1, <1>2

(* Signs of infinite products and quotients. *)
LEMMA LimitSign ==
  ASSUME NEW a \in Double, NEW b \in Double
  PROVE  Signed((Sign(a) + Sign(b)) % 2) = IF Negative(a) # Negative(b) THEN D_SIGN ELSE 0
  <1> DEFINE g == Sign(a)
             h == Sign(b)
             s == (g + h) % 2
  <1>1. g \in {0, 1} /\ h \in {0, 1} /\ (g = 1 <=> Negative(a)) /\ (h = 1 <=> Negative(b))
    BY PatternParts
  <1> HIDE DEF g, h
  <1>2. s \in {0, 1} /\ (s = 1 <=> g # h)
    BY <1>1, ProductSign
  <1>3. g # h <=> ~ (g = 1 <=> h = 1)
    BY <1>1
  <1>4. Negative(a) \in BOOLEAN /\ Negative(b) \in BOOLEAN
    BY DEF Negative
  <1> HIDE DEF s
  <1>5. s = 1 <=> (Negative(a) # Negative(b))
    BY <1>1, <1>2, <1>3, <1>4, Zenon
  <1>6. D_SIGN \in Nat
    BY Format
  <1>7. Signed(s) = IF s = 1 THEN D_SIGN ELSE 0
    BY <1>2, <1>6 DEF Signed
  <1> QED
    BY <1>5, <1>7, Zenon DEF s, g, h

(* __muldf3 with an infinity, a zero or a NaN among its operands. *)
LEMMA SpecialProducts ==
  ASSUME NEW a \in Double, NEW b \in Double
  PROVE  IF df_is_nan(a) \/ df_is_nan(b) \/ (IsInfinite(a) /\ IsZero(b)) \/ (IsZero(a) /\ IsInfinite(b))
         THEN df_is_nan(__muldf3(a, b))
         ELSE IF ~ (IsFinite(a) /\ IsFinite(b))
         THEN __muldf3(a, b) = (IF Negative(a) # Negative(b) THEN D_SIGN ELSE 0) + D_EXP
         ELSE ~ df_is_nan(__muldf3(a, b))
  <1> DEFINE p == df_unpack(a)
             q == df_unpack(b)
             r == __muldf3(a, b)
             sign == (p.sign + q.sign) % 2
             nan == IsNaN(p) \/ IsNaN(q) \/ (IsInf(p) /\ q.zero) \/ (IsInf(q) /\ p.zero)
             inf == (IsInf(p) /\ ~ q.zero /\ ~ IsNaN(q)) \/ (IsInf(q) /\ ~ p.zero /\ ~ IsNaN(p))
  <1>1. /\ (df_is_nan(a) <=> ~ IsFinite(a) /\ Fraction(a) # 0)
        /\ (IsInfinite(a) <=> ~ IsFinite(a) /\ Fraction(a) = 0)
        /\ (IsNaN(p) <=> df_is_nan(a)) /\ (IsInf(p) <=> IsInfinite(a))
        /\ (p.zero <=> IsZero(a)) /\ (IsZero(a) => IsFinite(a)) /\ p.sign = Sign(a)
        /\ (p.exp = Special <=> ~ IsFinite(a))
    BY SpecialParts
  <1>2. /\ (df_is_nan(b) <=> ~ IsFinite(b) /\ Fraction(b) # 0)
        /\ (IsInfinite(b) <=> ~ IsFinite(b) /\ Fraction(b) = 0)
        /\ (IsNaN(q) <=> df_is_nan(b)) /\ (IsInf(q) <=> IsInfinite(b))
        /\ (q.zero <=> IsZero(b)) /\ (IsZero(b) => IsFinite(b)) /\ q.sign = Sign(b)
        /\ (q.exp = Special <=> ~ IsFinite(b))
    BY SpecialParts
  <1>3. df_is_nan(NaN)
    BY MakesNaN
  <1>4. Signed(sign) = IF Negative(a) # Negative(b) THEN D_SIGN ELSE 0
    BY <1>1, <1>2, LimitSign
  <1>5. r = CASE nan -> NaN
              [] inf -> Signed(sign) + D_EXP
              [] (p.zero /\ q.exp # Special) \/ (q.zero /\ p.exp # Special) -> Signed(sign)
              [] OTHER -> df_norm_pack128(sign, df_umul128(p.sig, q.sig), p.exp + q.exp, 0)
    BY Zenon DEF __muldf3, Product
  <1>6. CASE IsFinite(a) /\ IsFinite(b)
    <2>1. r \in Double /\ r % D_SIGN <= D_EXP
      BY <1>6, MultipliesNearest DEF RoundsAsProduct, Rounds
    <2>2. ~ df_is_nan(r)
      BY <2>1, SpecialParts
    <2> QED
      BY <1>1, <1>2, <1>6, <2>2, Zenon
  <1>7. CASE ~ (IsFinite(a) /\ IsFinite(b))
    <2>1. nan <=> (df_is_nan(a) \/ df_is_nan(b) \/ (IsInfinite(a) /\ IsZero(b)) \/ (IsZero(a) /\ IsInfinite(b)))
      BY <1>1, <1>2, Zenon
    <2>2. ~ nan => inf
      BY <1>1, <1>2, <1>7, Zenon
    <2>3. CASE nan
      <3>1. ~ inf /\ ~ ((p.zero /\ q.exp # Special) \/ (q.zero /\ p.exp # Special))
        BY <1>1, <1>2, <1>7, <2>3, Zenon
      <3>2. r = NaN
        BY <1>5, <2>3, <3>1, Zenon
      <3> QED
        BY <1>3, <2>1, <2>3, <3>2, Zenon
    <2>4. CASE ~ nan
      <3>1. inf /\ ~ ((p.zero /\ q.exp # Special) \/ (q.zero /\ p.exp # Special))
        BY <1>1, <1>2, <1>7, <2>2, <2>4, Zenon
      <3>2. r = Signed(sign) + D_EXP
        BY <1>5, <2>4, <3>1, Zenon
      <3> QED
        BY <1>4, <1>7, <2>1, <2>4, <3>2, Zenon
    <2> QED
      BY <2>3, <2>4, Zenon
  <1> QED
    BY <1>6, <1>7, Zenon

(* __divdf3 with an infinity, a zero or a NaN among its operands. *)
LEMMA SpecialQuotients ==
  ASSUME NEW a \in Double, NEW b \in Double
  PROVE  IF df_is_nan(a) \/ df_is_nan(b) \/ (IsZero(a) /\ IsZero(b)) \/ (IsInfinite(a) /\ IsInfinite(b))
         THEN df_is_nan(__divdf3(a, b))
         ELSE IF ~ (IsFinite(a) /\ IsFinite(b)) \/ IsZero(b)
         THEN __divdf3(a, b) = IF IsInfinite(b) THEN IF Negative(a) # Negative(b) THEN D_SIGN ELSE 0
                               ELSE (IF Negative(a) # Negative(b) THEN D_SIGN ELSE 0) + D_EXP
         ELSE ~ df_is_nan(__divdf3(a, b))
  <1> DEFINE p == df_unpack(a)
             q == df_unpack(b)
             r == __divdf3(a, b)
             sign == (p.sign + q.sign) % 2
             long == LongDivision(p.sig, q.sig)
             nan == IsNaN(p) \/ IsNaN(q) \/ (IsInf(p) /\ IsInf(q)) \/ (p.zero /\ q.zero)
             inf == (IsInf(p) /\ q.exp # Special) \/ (q.zero /\ ~ p.zero /\ ~ IsNaN(p))
             nil == (IsInf(q) /\ p.exp # Special) \/ (p.zero /\ ~ q.zero /\ ~ IsNaN(q))
  <1>1. /\ (df_is_nan(a) <=> ~ IsFinite(a) /\ Fraction(a) # 0)
        /\ (IsInfinite(a) <=> ~ IsFinite(a) /\ Fraction(a) = 0)
        /\ (IsNaN(p) <=> df_is_nan(a)) /\ (IsInf(p) <=> IsInfinite(a))
        /\ (p.zero <=> IsZero(a)) /\ (IsZero(a) => IsFinite(a)) /\ p.sign = Sign(a)
        /\ (p.exp = Special <=> ~ IsFinite(a))
    BY SpecialParts
  <1>2. /\ (df_is_nan(b) <=> ~ IsFinite(b) /\ Fraction(b) # 0)
        /\ (IsInfinite(b) <=> ~ IsFinite(b) /\ Fraction(b) = 0)
        /\ (IsNaN(q) <=> df_is_nan(b)) /\ (IsInf(q) <=> IsInfinite(b))
        /\ (q.zero <=> IsZero(b)) /\ (IsZero(b) => IsFinite(b)) /\ q.sign = Sign(b)
        /\ (q.exp = Special <=> ~ IsFinite(b))
    BY SpecialParts
  <1>3. df_is_nan(NaN)
    BY MakesNaN
  <1>4. Signed(sign) = IF Negative(a) # Negative(b) THEN D_SIGN ELSE 0
    BY <1>1, <1>2, LimitSign
  <1>5. r = CASE nan -> NaN
              [] inf -> Signed(sign) + D_EXP
              [] nil -> Signed(sign)
              [] OTHER -> df_norm_pack(sign, long.q, p.exp - q.exp - (F + 2), 0, Remains(long.r))
    BY Zenon DEF __divdf3, Quotient
  <1>6. CASE IsFinite(a) /\ IsFinite(b) /\ ~ IsZero(b)
    <2>1. r \in Double /\ r % D_SIGN <= D_EXP
      BY <1>6, DividesNearest DEF RoundsAsProduct, Rounds
    <2>2. ~ df_is_nan(r)
      BY <2>1, SpecialParts
    <2> QED
      BY <1>1, <1>2, <1>6, <2>2, Zenon
  <1>7. CASE ~ (IsFinite(a) /\ IsFinite(b) /\ ~ IsZero(b))
    <2>1. nan <=> (df_is_nan(a) \/ df_is_nan(b) \/ (IsZero(a) /\ IsZero(b)) \/ (IsInfinite(a) /\ IsInfinite(b)))
      BY <1>1, <1>2, Zenon
    <2>2. CASE nan
      <3>1. ~ inf /\ ~ nil
        BY <1>1, <1>2, <1>7, <2>2, Zenon
      <3>2. r = NaN
        BY <1>5, <2>2, <3>1, Zenon
      <3> QED
        BY <1>3, <2>1, <2>2, <3>2, Zenon
    <2>3. CASE ~ nan /\ IsInfinite(b)
      <3>1. ~ inf /\ nil
        BY <1>1, <1>2, <1>7, <2>3, Zenon
      <3>2. r = Signed(sign)
        BY <1>5, <2>3, <3>1, Zenon
      <3> QED
        BY <1>2, <1>4, <1>7, <2>1, <2>3, <3>2, Zenon
    <2>4. CASE ~ nan /\ ~ IsInfinite(b)
      <3>1. inf /\ ~ nil
        BY <1>1, <1>2, <1>7, <2>4, Zenon
      <3>2. r = Signed(sign) + D_EXP
        BY <1>5, <2>4, <3>1, Zenon
      <3> QED
        BY <1>2, <1>4, <1>7, <2>1, <2>4, <3>2, Zenon
    <2> QED
      BY <2>2, <2>3, <2>4, Zenon
  <1> QED
    BY <1>6, <1>7, Zenon

-----------------------------------------------------------------------------
(* Arithmetic, as a property of the specification *)

(* A call of __adddf3 leaves a right result. *)
LEMMA AdditionIsNearest ==
  ASSUME NEW a \in Double, NEW b \in Double, Add(a, b)
  PROVE  ArithmeticNearest'
  <1> DEFINE r == __adddf3(a, b)
             exact == DoubleValue(a) + DoubleValue(b)
  <1>0. op' = "add" /\ x' = a /\ y' = b /\ result' = r
    BY DEF Add, Called
  <1> HIDE DEF r
  <1>1. SumsNearest'
    <2>1. SumsNearest' <=>
            (IsFinite(a) /\ IsFinite(b) =>
               /\ RoundedDouble(r, Abs(exact), 1)
               /\ exact # 0 => Negative(r) = (exact < 0)
               /\ exact = 0 => Negative(r) = (Negative(a) /\ Negative(b)))
      BY <1>0, Zenon DEF SumsNearest, FiniteArguments, RoundedDouble, IsNearest, DoubleAmount, Negative,
        IsFinite, Field, DoubleValue, Negated
    <2>2. IsFinite(a) /\ IsFinite(b) => RoundsAsSum(r, a, b)
      BY AddsNearest DEF r
    <2>3. Negative(r) \in BOOLEAN /\ Negative(a) \in BOOLEAN /\ Negative(b) \in BOOLEAN /\ (exact < 0) \in BOOLEAN
      BY DEF Negative
    <2> HIDE DEF exact
    <2>4. RoundsAsSum(r, a, b) =>
               /\ RoundedDouble(r, Abs(exact), 1)
               /\ exact # 0 => (Negative(r) <=> (exact < 0))
               /\ exact = 0 => (Negative(r) <=> (Negative(a) /\ Negative(b)))
      BY Zenon DEF RoundsAsSum, exact
    <2>5. /\ (Negative(r) <=> (exact < 0)) => Negative(r) = (exact < 0)
          /\ (Negative(r) <=> (Negative(a) /\ Negative(b))) => Negative(r) = (Negative(a) /\ Negative(b))
      BY <2>3
    <2> QED
      BY <2>1, <2>2, <2>4, <2>5, Zenon
  <1>2. ProductsNearest'
    BY <1>0, Zenon DEF ProductsNearest
  <1>3. SpecialsPropagate'
    <2>1. ~ (IsInfinite(a) /\ df_is_nan(b)) =>
            IF df_is_nan(a) \/ df_is_nan(b) \/ (IsInfinite(a) /\ b = Negated(a)) THEN df_is_nan(r)
            ELSE IF ~ (IsFinite(a) /\ IsFinite(b)) THEN r = IF IsInfinite(a) THEN a ELSE b
            ELSE ~ df_is_nan(r)
      BY SpecialAddition DEF r
    <2> QED
      BY <1>0, <2>1, Zenon DEF SpecialsPropagate, FiniteArguments, Arithmetic, IsInfinite, df_is_nan,
        Negated, IsFinite, Field, Fraction, IsZero, Negative
  <1> QED
    BY <1>1, <1>2, <1>3 DEF ArithmeticNearest

(* So does a call of __subdf3, which adds the negated operand. *)
LEMMA SubtractionIsNearest ==
  ASSUME NEW a \in Double, NEW b \in Double, Subtract(a, b)
  PROVE  ArithmeticNearest'
  <1> DEFINE r == __subdf3(a, b)
             c == Negated(b)
             exact == DoubleValue(a) + DoubleValue(c)
  <1>0. op' = "sub" /\ x' = a /\ y' = b /\ result' = r
    BY DEF Subtract, Called
  <1>1. r = __adddf3(a, c)
    BY DEF __subdf3
  <1>2. /\ c \in Double /\ (IsFinite(c) <=> IsFinite(b)) /\ (df_is_nan(c) <=> df_is_nan(b))
        /\ (c = Negated(a) <=> b = a)
    <2>1. /\ c \in Double /\ Field(c) = Field(b) /\ Fraction(c) = Fraction(b) /\ Negated(c) = b
          /\ Negated(Negated(a)) = a
      BY NegatedIs
    <2> HIDE DEF c
    <2>2. c = Negated(a) <=> b = a
      BY <2>1 DEF c
    <2> QED
      BY <2>1, <2>2 DEF IsFinite, df_is_nan
  <1> HIDE DEF r
  <1>3. SumsNearest'
    <2>1. SumsNearest' <=>
            (IsFinite(a) /\ IsFinite(b) =>
               /\ RoundedDouble(r, Abs(exact), 1)
               /\ exact # 0 => Negative(r) = (exact < 0)
               /\ exact = 0 => Negative(r) = (Negative(a) /\ Negative(c)))
      BY <1>0, Zenon DEF SumsNearest, FiniteArguments, RoundedDouble, IsNearest, DoubleAmount, Negative,
        IsFinite, Field, DoubleValue, Negated
    <2>2. IsFinite(a) /\ IsFinite(b) => RoundsAsSum(r, a, c)
      BY <1>1, <1>2, AddsNearest
    <2>3. Negative(r) \in BOOLEAN /\ Negative(a) \in BOOLEAN /\ Negative(c) \in BOOLEAN /\ (exact < 0) \in BOOLEAN
      BY DEF Negative
    <2> HIDE DEF exact, c
    <2>4. RoundsAsSum(r, a, c) =>
               /\ RoundedDouble(r, Abs(exact), 1)
               /\ exact # 0 => (Negative(r) <=> (exact < 0))
               /\ exact = 0 => (Negative(r) <=> (Negative(a) /\ Negative(c)))
      BY Zenon DEF RoundsAsSum, exact
    <2>5. /\ (Negative(r) <=> (exact < 0)) => Negative(r) = (exact < 0)
          /\ (Negative(r) <=> (Negative(a) /\ Negative(c))) => Negative(r) = (Negative(a) /\ Negative(c))
      BY <2>3
    <2> QED
      BY <2>1, <2>2, <2>4, <2>5, Zenon
  <1>4. ProductsNearest'
    BY <1>0, Zenon DEF ProductsNearest
  <1>5. SpecialsPropagate'
    <2> HIDE DEF c
    <2>1. ~ (IsInfinite(a) /\ df_is_nan(c)) =>
            IF df_is_nan(a) \/ df_is_nan(c) \/ (IsInfinite(a) /\ c = Negated(a)) THEN df_is_nan(r)
            ELSE IF ~ (IsFinite(a) /\ IsFinite(c)) THEN r = IF IsInfinite(a) THEN a ELSE c
            ELSE ~ df_is_nan(r)
      BY <1>1, <1>2, SpecialAddition
    <2>2. ~ (IsInfinite(a) /\ df_is_nan(b)) =>
            IF df_is_nan(a) \/ df_is_nan(b) \/ (IsInfinite(a) /\ b = a) THEN df_is_nan(r)
            ELSE IF ~ (IsFinite(a) /\ IsFinite(b)) THEN r = IF IsInfinite(a) THEN a ELSE Negated(b)
            ELSE ~ df_is_nan(r)
      BY <1>2, <2>1, Zenon DEF c
    <2> QED
      BY <1>0, <2>2, Zenon DEF SpecialsPropagate, FiniteArguments, Arithmetic, IsInfinite, df_is_nan,
        Negated, IsFinite, Field, Fraction, IsZero, Negative
  <1> QED
    BY <1>3, <1>4, <1>5 DEF ArithmeticNearest

(* So does a call of __muldf3. *)
LEMMA MultiplicationIsNearest ==
  ASSUME NEW a \in Double, NEW b \in Double, Multiply(a, b)
  PROVE  ArithmeticNearest'
  <1> DEFINE r == __muldf3(a, b)
  <1>0. op' = "mul" /\ x' = a /\ y' = b /\ result' = r
    BY DEF Multiply, Called
  <1> HIDE DEF r
  <1>1. SumsNearest'
    BY <1>0, Zenon DEF SumsNearest
  <1>2. ProductsNearest'
    <2>1. ProductsNearest' <=>
            (IsFinite(a) /\ IsFinite(b) =>
               /\ RoundedDouble(r, DoubleAmount(a) * DoubleAmount(b), Unit)
               /\ Negative(r) = (Negative(a) # Negative(b)))
      BY <1>0, Zenon DEF ProductsNearest, FiniteArguments, RoundedDouble, IsNearest, DoubleAmount, Negative,
        IsFinite, Field
    <2>2. IsFinite(a) /\ IsFinite(b) => RoundsAsProduct(r, a, b, DoubleAmount(a) * DoubleAmount(b), Unit)
      BY MultipliesNearest DEF r
    <2>3. Negative(r) \in BOOLEAN /\ (Negative(a) # Negative(b)) \in BOOLEAN
      BY DEF Negative
    <2> QED
      BY <2>1, <2>2, <2>3, Zenon DEF RoundsAsProduct, Rounds
  <1>3. SpecialsPropagate'
    <2>1. IF df_is_nan(a) \/ df_is_nan(b) \/ (IsInfinite(a) /\ IsZero(b)) \/ (IsZero(a) /\ IsInfinite(b))
          THEN df_is_nan(r)
          ELSE IF ~ (IsFinite(a) /\ IsFinite(b))
          THEN r = (IF Negative(a) # Negative(b) THEN D_SIGN ELSE 0) + D_EXP
          ELSE ~ df_is_nan(r)
      BY SpecialProducts DEF r
    <2> QED
      BY <1>0, <2>1, Zenon DEF SpecialsPropagate, FiniteArguments, Arithmetic, IsInfinite, df_is_nan,
        Negated, IsFinite, Field, Fraction, IsZero, Negative
  <1> QED
    BY <1>1, <1>2, <1>3 DEF ArithmeticNearest

(* So does a call of __divdf3. *)
LEMMA DivisionIsNearest ==
  ASSUME NEW a \in Double, NEW b \in Double, Divide(a, b)
  PROVE  ArithmeticNearest'
  <1> DEFINE r == __divdf3(a, b)
  <1>0. op' = "div" /\ x' = a /\ y' = b /\ result' = r
    BY DEF Divide, Called
  <1> HIDE DEF r
  <1>1. SumsNearest'
    BY <1>0, Zenon DEF SumsNearest
  <1>2. ProductsNearest'
    <2>1. ProductsNearest' <=>
            (IsFinite(a) /\ IsFinite(b) /\ ~ IsZero(b) =>
               /\ RoundedDouble(r, DoubleAmount(a) * Unit, DoubleAmount(b))
               /\ Negative(r) = (Negative(a) # Negative(b)))
      BY <1>0, Zenon DEF ProductsNearest, FiniteArguments, RoundedDouble, IsNearest, DoubleAmount, Negative,
        IsFinite, Field, IsZero
    <2>2. IsFinite(a) /\ IsFinite(b) /\ ~ IsZero(b)
            => RoundsAsProduct(r, a, b, DoubleAmount(a) * Unit, DoubleAmount(b))
      BY DividesNearest DEF r
    <2>3. Negative(r) \in BOOLEAN /\ (Negative(a) # Negative(b)) \in BOOLEAN
      BY DEF Negative
    <2> QED
      BY <2>1, <2>2, <2>3, Zenon DEF RoundsAsProduct, Rounds
  <1>3. SpecialsPropagate'
    <2>1. IF df_is_nan(a) \/ df_is_nan(b) \/ (IsZero(a) /\ IsZero(b)) \/ (IsInfinite(a) /\ IsInfinite(b))
          THEN df_is_nan(r)
          ELSE IF ~ (IsFinite(a) /\ IsFinite(b)) \/ IsZero(b)
          THEN r = IF IsInfinite(b) THEN IF Negative(a) # Negative(b) THEN D_SIGN ELSE 0
                   ELSE (IF Negative(a) # Negative(b) THEN D_SIGN ELSE 0) + D_EXP
          ELSE ~ df_is_nan(r)
      BY SpecialQuotients DEF r
    <2> QED
      BY <1>0, <2>1, Zenon DEF SpecialsPropagate, FiniteArguments, Arithmetic, IsInfinite, df_is_nan,
        Negated, IsFinite, Field, Fraction, IsZero, Negative
  <1> QED
    BY <1>1, <1>2, <1>3 DEF ArithmeticNearest

(* ArithmeticNearest, for every width of exponent and fraction: the code   *)
(* rounds every sum, difference, product and quotient correctly.           *)
THEOREM ArithmeticIsNearest == Spec => []ArithmeticNearest
  <1>0. /\ Comparison \cap Arithmetic = {} /\ Conversion \cap Arithmetic = {}
        /\ "none" \notin Arithmetic
    BY DEF Arithmetic, Conversion, Comparison, Equality, Less, Greater
  <1>1. Init => ArithmeticNearest
    BY <1>0, Zenon DEF Init, ArithmeticNearest, SumsNearest, ProductsNearest, SpecialsPropagate, Arithmetic
  <1>2. ASSUME ArithmeticNearest, [Next]_vars PROVE ArithmeticNearest'
    <2>1. CASE UNCHANGED vars
      BY <1>2, <2>1 DEF vars, ArithmeticNearest, SumsNearest, ProductsNearest, SpecialsPropagate,
        FiniteArguments, RoundedDouble, IsNearest, DoubleAmount, Negative, IsFinite, Field, Fraction,
        IsZero, IsInfinite, df_is_nan, DoubleValue, Negated
    <2>2. CASE op' \notin Arithmetic
      BY <2>2, Zenon DEF ArithmeticNearest, SumsNearest, ProductsNearest, SpecialsPropagate, Arithmetic
    <2>3. CASE Return
      BY <1>0, <2>2, <2>3 DEF Return
    <2>4. CASE Call
      <3>1. \/ \E a, b \in Double : Add(a, b) \/ Subtract(a, b) \/ Multiply(a, b) \/ Divide(a, b)
            \/ op' \in Comparison \cup Conversion
        BY <2>4 DEF Call, Called, Compare, Extend, Truncate, FromInt, FromUnsigned, ToInt, ToUnsigned,
          Conversion
      <3> QED
        BY <1>0, <2>2, <3>1, AdditionIsNearest, SubtractionIsNearest, MultiplicationIsNearest,
           DivisionIsNearest
    <2> QED
      BY <1>2, <2>1, <2>3, <2>4 DEF Next
  <1> QED
    BY <1>1, <1>2, PTL DEF Spec

-----------------------------------------------------------------------------
(* Integers.  The magnitude of a normal number, from its parts. *)
LEMMA NormalAmount ==
  ASSUME NEW v \in Double, IsFinite(v), Field(v) # 0
  PROVE  LET f == Field(v)
             q == Fraction(v) + D_IMPL
         IN  /\ f \in Nat /\ f > 0 /\ f < Pow(X) - 1 /\ q \in Nat /\ D_IMPL <= q /\ q < 2 * D_IMPL
             /\ DoubleAmount(v) = q * Pow(f - 1)
  <1> DEFINE f == Field(v)
             m == Fraction(v)
             u == v % D_SIGN
             p == D_IMPL
             n == Pow(X)
  <1>0. n \in Nat /\ n > 3 /\ p \in Nat /\ p > 0 /\ 2 ^ X = n /\ D_EXP \in Nat
    BY Patterns DEF Pow
  <1>1. u \in Nat /\ f \in Nat /\ f < n /\ m \in Nat /\ m < p /\ u = f * p + m
    BY PatternParts
  <1>2. f # 0 /\ f # n - 1
    BY <1>0 DEF IsFinite
  <1>3. u < D_EXP /\ DoubleAmount(v) = Amount(u, F)
    BY FiniteIsSmall
  <1> HIDE DEF f, m, u, p, n
  <1>4. u >= p /\ u <= D_EXP /\ u \div p = f /\ u % p = m
    <2>1. 1 * p <= f * p /\ f * p \in Nat
      BY <1>0, <1>1, <1>2
    <2>2. u \div p = f /\ u % p = m
      BY <1>0, <1>1, DividedUnique
    <2> QED
      BY <1>0, <1>1, <1>3, <2>1, <2>2
  <1>5. Amount(u, F) = (m + p) * Pow(f - 1)
    BY <1>1, <1>4, AmountParts DEF p
  <1>6. f > 0 /\ f < n - 1 /\ m + p \in Nat /\ p <= m + p /\ m + p < 2 * p
    BY <1>0, <1>1, <1>2
  <1> QED
    BY <1>1, <1>3, <1>5, <1>6 DEF f, m, p, n

(* The integer part of a number below one. *)
LEMMA BelowOne ==
  ASSUME NEW v \in Double, IsFinite(v), Field(v) < D_BIAS
  PROVE  DoubleAmount(v) \div Unit = 0
  <1> DEFINE A == DoubleAmount(v)
             f == Field(v)
             p == D_IMPL
  <1>0. /\ D_BIAS \in Nat /\ D_BIAS > 0 /\ F \in Nat /\ Top \in Nat /\ p = Pow(F) /\ p \in Nat /\ p > 0
        /\ Pow(X) \in Nat /\ Pow(X) = 2 * D_BIAS + 2 /\ Top = 2 * Pow(X) + 4 * F
    BY Patterns, Widths
  <1>1. Unit \in Nat /\ Unit > 0 /\ Unit = Pow(D_BIAS + F - 1)
    BY UnitIs
  <1>2. A \in Nat /\ f \in Nat
    BY FiniteIsSmall, PatternParts
  <1>3. A < Unit
    <2>1. CASE f = 0
      <3>1. A < p
        <4>1. v % D_SIGN = 0 * p + Fraction(v) /\ Fraction(v) \in Nat /\ Fraction(v) < p
          BY <2>1, PatternParts
        <4>2. v % D_SIGN = Fraction(v)
          BY <1>0, <4>1
        <4>3. A = Amount(v % D_SIGN, F)
          BY DEF DoubleAmount
        <4> QED
          BY <4>1, <4>2, <4>3, AmountSmall
      <3>2. F \in 0 .. Top /\ D_BIAS + F - 1 \in 0 .. Top /\ F <= D_BIAS + F - 1
        BY <1>0
      <3>3. p <= Unit
        BY <1>0, <1>1, <3>2, PowersInUse
      <3> QED
        BY <1>0, <1>1, <1>2, <3>1, <3>3
    <2>2. CASE f # 0
      <3> DEFINE q == Fraction(v) + D_IMPL
      <3>1. f > 0 /\ q \in Nat /\ q < 2 * p /\ A = q * Pow(f - 1)
        BY <2>2, NormalAmount
      <3>2. /\ f - 1 \in 0 .. Top /\ (F + 1) + (f - 1) <= Top /\ F + 1 \in Nat /\ f - 1 \in Nat /\ F \in 0 .. Top
            /\ (F + 1) + (f - 1) \in 0 .. Top /\ D_BIAS + F - 1 \in 0 .. Top
            /\ (F + 1) + (f - 1) <= D_BIAS + F - 1
        BY <1>0, <1>2, <3>1
      <3> DEFINE z == Pow(f - 1)
      <3>3. z \in Nat /\ z > 0 /\ Pow(F + 1) = 2 * p /\ Pow((F + 1) + (f - 1)) = Pow(F + 1) * z
            /\ Pow((F + 1) + (f - 1)) <= Unit
        BY <1>0, <1>1, <3>2, PowersInUse, PowersMultiply
      <3> HIDE DEF q, z, p
      <3>4. q * z < (2 * p) * z /\ q * z \in Nat /\ (2 * p) * z \in Nat
        BY <1>0, <3>1, <3>3, ProductsOrder
      <3> QED
        BY <1>1, <3>1, <3>3, <3>4 DEF z
    <2> QED
      BY <2>1, <2>2
  <1> HIDE DEF A
  <1>4. A = 0 * Unit + A
    BY <1>1, <1>2
  <1>5. A \div Unit = 0
    BY <1>1, <1>2, <1>3, <1>4, DividedUnique
  <1> QED
    BY <1>5 DEF A

(* A quotient whose terms have a common factor. *)
LEMMA QuotientReduced ==
  ASSUME NEW n \in Nat, NEW d \in Nat, d > 0, NEW c \in Nat, c > 0
  PROVE  (n * c) \div (d * c) = n \div d
  <1> DEFINE q == n \div d
             r == n % d
  <1>1. q \in Nat /\ r \in Nat /\ r < d /\ n = q * d + r
    BY Divided
  <1> HIDE DEF q, r
  <1>2. n * c = q * (d * c) + r * c /\ r * c \in Nat /\ d * c \in Nat /\ d * c > 0
    <2>1. (q * d + r) * c = q * (d * c) + r * c
      BY <1>1
    <2> QED
      BY <1>1, <2>1
  <1>3. r * c < d * c
    BY <1>1, ProductsOrder
  <1>4. (q * (d * c) + r * c) \div (d * c) = q
    BY <1>1, <1>2, <1>3, DividedUnique
  <1> QED
    BY <1>2, <1>4 DEF q

(* The integer part of a number that is not, and whose lowest bit is not   *)
(* above one.                                                              *)
LEMMA IntegerPartIs ==
  ASSUME NEW v \in Double, IsFinite(v), NEW re, re = Field(v) - D_BIAS, re >= 0, re <= F
  PROVE  LET q == Fraction(v) + D_IMPL
         IN  /\ DoubleAmount(v) \div Unit = q \div Pow(F - re)
             /\ q \div Pow(F - re) \in Nat /\ q \div Pow(F - re) > 0
  <1> DEFINE A == DoubleAmount(v)
             f == Field(v)
             p == D_IMPL
             q == Fraction(v) + D_IMPL
             k == F - re
             c == Pow(f - 1)
             d == Pow(k)
  <1>0. /\ D_BIAS \in Nat /\ D_BIAS > 0 /\ F \in Nat /\ Top \in Nat /\ p = Pow(F) /\ p \in Nat /\ p > 0
        /\ Pow(X) \in Nat /\ Pow(X) = 2 * D_BIAS + 2 /\ Top = 2 * Pow(X) + 4 * F /\ f \in Nat
    BY Patterns, Widths, PatternParts
  <1>1. Unit = Pow(D_BIAS + F - 1)
    BY UnitIs
  <1>2. f # 0
    BY <1>0
  <1>3. f > 0 /\ q \in Nat /\ p <= q /\ A = q * c /\ f < Pow(X) - 1
    BY <1>2, NormalAmount
  <1> HIDE DEF q
  <1>4. /\ f - 1 \in Nat /\ k \in Nat /\ k + (f - 1) = D_BIAS + F - 1 /\ k + (f - 1) <= Top
        /\ f - 1 \in 0 .. Top /\ k \in 0 .. Top /\ F \in 0 .. Top /\ k <= F
    BY <1>0, <1>3
  <1>5. c \in Nat /\ c > 0 /\ d \in Nat /\ d > 0 /\ Pow(k + (f - 1)) = d * c /\ d <= p
    BY <1>0, <1>4, PowersInUse, PowersMultiply
  <1>6. Unit = d * c
    BY <1>1, <1>4, <1>5
  <1> HIDE DEF c, d
  <1>7. A \div Unit = q \div d
    BY <1>3, <1>5, <1>6, QuotientReduced
  <1>8. q \div d \in Nat /\ q \div d > 0
    <2>1. q \div d \in Nat
      BY <1>3, <1>5, Divided
    <2>2. q >= 1 * d
      BY <1>0, <1>3, <1>5
    <2>3. q \div d >= 1
      BY <1>3, <1>5, <2>2, QuotientBounds
    <2> QED
      BY <2>1, <2>3
  <1> QED
    BY <1>7, <1>8 DEF q, d

(* Larger numbers are beyond every int. *)
LEMMA LargeWhole ==
  ASSUME NEW v \in Double, IsFinite(v), Field(v) - D_BIAS > F
  PROVE  DoubleAmount(v) \div Unit \in Nat /\ DoubleAmount(v) \div Unit >= 2 * D_IMPL
  <1> DEFINE A == DoubleAmount(v)
             f == Field(v)
             p == D_IMPL
             q == Fraction(v) + D_IMPL
             k == f - D_BIAS - F
             d == Pow(k)
  <1>0. /\ D_BIAS \in Nat /\ D_BIAS > 0 /\ F \in Nat /\ Top \in Nat /\ p = Pow(F) /\ p \in Nat /\ p > 0
        /\ Pow(X) \in Nat /\ Pow(X) = 2 * D_BIAS + 2 /\ Top = 2 * Pow(X) + 4 * F /\ f \in Nat
    BY Patterns, Widths, PatternParts
  <1>1. Unit = Pow(D_BIAS + F - 1) /\ Unit \in Nat /\ Unit > 0
    BY UnitIs
  <1>2. f # 0
    BY <1>0
  <1>3. f > 0 /\ q \in Nat /\ p <= q /\ A = q * Pow(f - 1) /\ f < Pow(X) - 1
    BY <1>2, NormalAmount
  <1> HIDE DEF q
  <1>4. /\ k \in Nat /\ k > 0 /\ k + (D_BIAS + F - 1) = f - 1 /\ f - 1 <= Top /\ k <= Top
        /\ D_BIAS + F - 1 \in Nat
    BY <1>0, <1>3
  <1>5. d \in Nat /\ d >= 2 /\ Pow(f - 1) = d * Unit
    <2>1. Pow(k + (D_BIAS + F - 1)) = Pow(k) * Pow(D_BIAS + F - 1)
      BY <1>4, PowersMultiply
    <2>2. Pow(k - 1) \in Nat /\ Pow(k - 1) > 0 /\ Pow(k) = 2 * Pow(k - 1)
      BY <1>4, PowersHalve
    <2> QED
      BY <1>1, <1>4, <2>1, <2>2
  <1> HIDE DEF d
  <1>6. A = (q * d) * Unit + 0 /\ q * d \in Nat
    <2>1. q * (d * Unit) = (q * d) * Unit + 0 /\ q * d \in Nat
      BY <1>1, <1>3, <1>5
    <2> QED
      BY <1>3, <1>5, <2>1
  <1>7. A \div Unit = q * d
    BY <1>1, <1>6, DividedUnique
  <1>8. q * d >= p * 2
    <2>1. p * 2 <= q * 2 /\ 2 * q <= d * q /\ d * q = q * d /\ q * 2 = 2 * q
      BY <1>0, <1>3, <1>5
    <2> QED
      BY <1>0, <1>3, <1>6, <2>1
  <1> QED
    BY <1>0, <1>6, <1>7, <1>8

(* The range of an int. *)
LEMMA IntRange ==
  LET h == Pow(IB - 1)
  IN  /\ h \in Nat /\ h > 0 /\ INT_MIN = 0 - h /\ - INT_MIN = h /\ INT_MAX = h - 1 /\ 2 ^ IB = 2 * h
      /\ h <= D_IMPL /\ SignedInt = (0 - h) .. h - 1 /\ UnsignedInt = 0 .. 2 * h - 1
      /\ IB - 1 \in 0 .. Top /\ IB - 1 <= D_BIAS /\ IB - 1 <= F
  <1> DEFINE h == Pow(IB - 1)
  <1>0. /\ IB \in Nat /\ IB > 1 /\ IB <= F + 1 /\ F \in Nat /\ F < Top /\ Top \in Nat /\ D_IMPL = Pow(F)
        /\ IB <= Pow(X - 1) /\ D_BIAS = Pow(X - 1) - 1 /\ D_BIAS \in Nat /\ D_IMPL \in Nat
    BY Widths, Patterns
  <1>1. IB - 1 \in 0 .. Top /\ IB - 1 <= F /\ F \in 0 .. Top /\ IB <= Top /\ IB > 0
    BY <1>0
  <1>2. Pow(X - 1) \in Nat
    BY Widths, PowersHalve
  <1>3. IB - 1 <= D_BIAS
    BY <1>0, <1>2
  <1>4. h \in Nat /\ h > 0 /\ h <= D_IMPL
    BY <1>0, <1>1, PowersInUse
  <1>5. Pow(IB) = 2 * h
    BY <1>0, <1>1, PowersHalve
  <1>6. 2 ^ IB = 2 * h /\ INT_MIN = - h /\ INT_MAX = h - 1 /\ UnsignedInt = 0 .. 2 * h - 1
        /\ SignedInt = (- h) .. h - 1
    BY <1>5 DEF INT_MIN, INT_MAX, UnsignedInt, SignedInt, Pow
  <1> HIDE DEF h
  <1>7. - h = 0 - h /\ - (- h) = h
    BY <1>4
  <1> QED
    BY <1>1, <1>3, <1>4, <1>6, <1>7 DEF h

(* df_to_i where no bit of the number is above an int. *)
LEMMA ToIntIs ==
  ASSUME NEW v \in Double, IsFinite(v), NEW is_signed \in BOOLEAN
  PROVE  LET n == DoubleAmount(v) \div Unit
             re == Field(v) - D_BIAS
         IN  /\ n \in Nat /\ re \in Int
             /\ re < 0 => n = 0 /\ df_to_i(v, is_signed) = 0
             /\ re >= 0 /\ re <= F => n > 0 /\ df_to_i(v, is_signed) = Narrowed(n, Sign(v), is_signed)
             /\ re > F => n >= 2 * D_IMPL
  <1> DEFINE n == DoubleAmount(v) \div Unit
             f == Field(v)
             re == f - D_BIAS
             q == Fraction(v) + D_IMPL
             sh2 == re - F
             shifted == (q * 2 ^ sh2) % 2 ^ WB
  <1>0. D_BIAS \in Nat /\ D_BIAS > 0 /\ F \in Nat /\ f \in Nat /\ f < Pow(X) /\ Pow(X) \in Nat
    BY Patterns, Widths, PatternParts
  <1>1. n \in Nat
    BY FiniteIsSmall, UnitIs, Divided
  <1>2. f # 2 ^ X - 1 /\ f < 2 ^ X - 1
    <2>1. f # 2 ^ X - 1
      BY DEF IsFinite
    <2>2. 2 ^ X = Pow(X)
      BY DEF Pow
    <2> QED
      BY <1>0, <2>1, <2>2
  <1>3. df_to_i(v, is_signed) =
          CASE f = 2 ^ X - 1 -> OutOfRange(is_signed)
            [] f < 2 ^ X - 1 /\ (f = 0 \/ re < 0) -> 0
            [] f < 2 ^ X - 1 /\ re >= 0 /\ re <= F -> Narrowed(IntegerPart(q, F - re), Sign(v), is_signed)
            [] OTHER -> IF sh2 >= IB \/ shifted \div 2 ^ IB # 0 THEN OutOfRange(is_signed)
                        ELSE Narrowed(shifted, Sign(v), is_signed)
    BY Zenon DEF df_to_i
  <1>4. re \in Int /\ (f = 0 => re < 0) /\ (re < 0 => f < D_BIAS)
    BY <1>0
  <1>5. re < 0 => ~ (re >= 0)
    BY <1>4
  <1>6. ASSUME re < 0 PROVE n = 0 /\ df_to_i(v, is_signed) = 0
    <2>1. n = 0
      BY <1>4, <1>6, BelowOne
    <2> HIDE DEF f, re, n, q, sh2, shifted
    <2>2. df_to_i(v, is_signed) = 0
      BY <1>2, <1>3, <1>5, <1>6, Zenon
    <2> QED
      BY <2>1, <2>2
  <1>7. ASSUME re >= 0, re <= F
        PROVE  n > 0 /\ df_to_i(v, is_signed) = Narrowed(n, Sign(v), is_signed)
    <2>1. n = q \div Pow(F - re) /\ n > 0
      BY <1>7, IntegerPartIs
    <2>2. IntegerPart(q, F - re) = n
      BY <2>1 DEF IntegerPart, Pow
    <2>3. ~ (re < 0) /\ ~ (f = 0)
      BY <1>4, <1>7
    <2> HIDE DEF f, re, n, q, sh2, shifted
    <2>4. df_to_i(v, is_signed) = Narrowed(n, Sign(v), is_signed)
      BY <1>2, <1>3, <1>7, <2>2, <2>3, Zenon
    <2> QED
      BY <2>1, <2>4
  <1>8. ASSUME re > F PROVE n >= 2 * D_IMPL
    BY <1>8, LargeWhole
  <1> HIDE DEF n, re
  <1> QED
    BY <1>1, <1>4, <1>6, <1>7, <1>8 DEF n, re

(* df_to_i truncates every finite number whose integer part fits,          *)
(* whatever the order in which it shifts and compares.                     *)
LEMMA TruncatesToInt ==
  ASSUME NEW v \in Double, IsFinite(v)
  PROVE  /\ Whole(v) \in SignedInt => df_to_i(v, TRUE) = Whole(v)
         /\ Whole(v) \in UnsignedInt => df_to_i(v, FALSE) = Whole(v)
  <1> DEFINE n == DoubleAmount(v) \div Unit
             re == Field(v) - D_BIAS
             h == Pow(IB - 1)
             g == Sign(v)
  <1>0. /\ h \in Nat /\ h > 0 /\ INT_MIN = 0 - h /\ - INT_MIN = h /\ INT_MAX = h - 1 /\ 2 ^ IB = 2 * h
        /\ h <= D_IMPL /\ SignedInt = (0 - h) .. h - 1 /\ UnsignedInt = 0 .. 2 * h - 1 /\ D_IMPL \in Nat
        /\ F \in Nat
    BY IntRange, Format, Widths
  <1>1. /\ n \in Nat /\ re \in Int /\ (re < 0 => n = 0 /\ df_to_i(v, TRUE) = 0 /\ df_to_i(v, FALSE) = 0)
        /\ (re >= 0 /\ re <= F => n > 0 /\ df_to_i(v, TRUE) = Narrowed(n, g, TRUE)
                                  /\ df_to_i(v, FALSE) = Narrowed(n, g, FALSE))
        /\ (re > F => n >= 2 * D_IMPL)
    BY ToIntIs
  <1>2. g \in {0, 1} /\ (g = 1 <=> Negative(v))
    BY PatternParts
  <1>3. (g = 1 => Whole(v) = - n) /\ (g = 0 => Whole(v) = n)
    <2>1. (Negative(v) => Whole(v) = - n) /\ (~ Negative(v) => Whole(v) = n)
      BY DEF Whole
    <2> HIDE DEF n
    <2> QED
      BY <1>2, <2>1
  <1> HIDE DEF n, re, h, g
  <1>4. - n = 0 - n /\ - n \in Int /\ (n < 1 => - n = 0)
    BY <1>1
  <1>5. CASE re < 0
    <2>1. Whole(v) = 0
      BY <1>1, <1>2, <1>3, <1>4, <1>5
    <2> QED
      BY <1>1, <1>5, <2>1
  <1>6. CASE re > F
    <2>1. Whole(v) \notin SignedInt /\ Whole(v) \notin UnsignedInt
      <3>1. n >= 2 * h
        BY <1>0, <1>1, <1>6
      <3>2. CASE g = 0
        BY <1>0, <1>1, <1>3, <3>1, <3>2
      <3>3. CASE g = 1
        <4>1. Whole(v) = 0 - n
          BY <1>3, <1>4, <3>3
        <4> QED
          BY <1>0, <1>1, <3>1, <4>1
      <3> QED
        BY <1>2, <3>2, <3>3
    <2> QED
      BY <2>1
  <1>7. CASE re >= 0 /\ re <= F
    <2>1. Narrowed(n, g, TRUE) = IF g = 1 THEN IF n > - INT_MIN THEN INT_MIN ELSE - n
                                 ELSE IF n > INT_MAX THEN INT_MAX ELSE n
      <3>1. CASE g = 1
        <4>1. g # 0
          BY <3>1
        <4> QED
          BY <3>1, <4>1, Zenon DEF Narrowed
      <3>2. CASE g = 0
        <4>1. g # 1
          BY <3>2
        <4> QED
          BY <3>2, <4>1, Zenon DEF Narrowed
      <3> QED
        BY <1>2, <3>1, <3>2, Zenon
    <2>2. Narrowed(n, g, FALSE) = IF g = 1 \/ n > 2 ^ IB - 1 THEN OutOfRange(FALSE) ELSE n
      BY Zenon DEF Narrowed
    <2>3. CASE g = 0
      <3>1. Whole(v) = n
        BY <1>3, <2>3
      <3>2. n \in SignedInt => ~ (n > INT_MAX)
        BY <1>0, <1>1
      <3>3. n \in UnsignedInt => ~ (n > 2 ^ IB - 1)
        BY <1>0, <1>1
      <3>4. g # 1
        BY <2>3
      <3> QED
        BY <1>1, <1>7, <2>1, <2>2, <3>1, <3>2, <3>3, <3>4, Zenon
    <2>4. CASE g = 1
      <3>1. Whole(v) = - n
        BY <1>3, <2>4
      <3>2. - n \in SignedInt => ~ (n > - INT_MIN)
        BY <1>0, <1>1, <1>4
      <3>3. - n \notin UnsignedInt
        BY <1>0, <1>1, <1>4, <1>7
      <3> QED
        BY <1>1, <1>7, <2>1, <2>4, <3>1, <3>2, <3>3, Zenon
    <2> QED
      BY <1>2, <2>3, <2>4
  <1>8. re < 0 \/ re > F \/ (re >= 0 /\ re <= F)
    BY <1>0, <1>1
  <1> QED
    BY <1>5, <1>6, <1>7, <1>8, Zenon

(* df_from_mag is exact. *)
LEMMA FromMagnitudeIs ==
  ASSUME NEW mag \in Nat, mag < 2 * Pow(IB - 1), NEW sign \in {0, 1}
  PROVE  LET r == df_from_mag(mag, sign)
         IN  r \in Double /\ IsFinite(r) /\ (Negative(r) <=> sign = 1) /\ DoubleAmount(r) = mag * Unit
  <1> DEFINE r == df_from_mag(mag, sign)
             p == D_IMPL
             h == Pow(IB - 1)
  <1>0. /\ h \in Nat /\ h > 0 /\ IB - 1 \in 0 .. Top /\ IB - 1 <= D_BIAS /\ IB - 1 <= F
    BY IntRange
  <1>1. /\ D_BIAS \in Nat /\ D_BIAS > 0 /\ F \in Nat /\ Top \in Nat /\ p = Pow(F) /\ p \in Nat /\ p > 0
        /\ Pow(X) \in Nat /\ Pow(X) = 2 * D_BIAS + 2 /\ Top = 2 * Pow(X) + 4 * F /\ WB \in Nat /\ F < WB
        /\ F < Top /\ 2 * WB + 1 <= Top /\ D_SIGN \in Nat /\ D_SIGN > 0
    BY Patterns, Widths, Format
  <1>2. Unit = Pow(D_BIAS + F - 1) /\ Unit \in Nat
    BY UnitIs
  <1>3. CASE mag = 0
    <2>1. r = Signed(sign) + 0 * p + 0
      <3>1. Signed(sign) \in Nat
        <4>1. sign * D_SIGN \in Nat
          BY <1>1
        <4> QED
          BY <4>1 DEF Signed
      <3>2. r = Signed(sign)
        BY <1>3 DEF df_from_mag
      <3> QED
        BY <1>1, <3>1, <3>2
    <2>2. 0 < Pow(X)
      BY <1>1
    <2> HIDE DEF r
    <2>3. r \in Double /\ Field(r) = 0 /\ r % D_SIGN = 0 * p + 0 /\ (Negative(r) <=> sign = 1)
      BY <1>1, <2>1, <2>2, PatternOf
    <2>4. IsFinite(r)
      <3>1. 0 # Pow(X) - 1
        BY <1>1
      <3> QED
        BY <2>3, <3>1 DEF IsFinite, Pow
    <2>5. DoubleAmount(r) = 0
      <3>1. r % D_SIGN = 0
        BY <1>1, <2>3
      <3> QED
        BY <1>1, <3>1, AmountSmall DEF DoubleAmount
    <2>6. mag * Unit = 0
      BY <1>2, <1>3
    <2> QED
      BY <2>3, <2>4, <2>5, <2>6 DEF r
  <1>4. CASE mag # 0
    <2> DEFINE t == df_msb(mag)
               z == Pow(F - t)
               q == mag * z
               f == t + D_BIAS
    <2>1. t \in 0 .. 2 * WB /\ Pow(t) <= mag /\ mag < Pow(t + 1)
      <3>1. Pow((IB - 1) + 1) = 2 * h /\ Pow((IB - 1) + 1) \in Nat
        BY <1>0, PowersInUse
      <3>2. (IB - 1) + 1 \in 0 .. Top /\ 2 * WB + 1 \in 0 .. Top /\ (IB - 1) + 1 <= 2 * WB + 1
        BY <1>0, <1>1, Widths
      <3>3. Pow((IB - 1) + 1) <= Pow(2 * WB + 1) /\ Pow(2 * WB + 1) \in Nat
        BY <3>2, PowersInUse
      <3>4. mag < Pow(2 * WB + 1) /\ mag > 0
        BY <1>0, <1>4, <3>1, <3>3
      <3> QED
        BY <3>4, HighestBit
    <2> HIDE DEF t
    <2>2. t <= IB - 1
      <3> SUFFICES ASSUME t > IB - 1 PROVE FALSE
        BY <1>0, <2>1
      <3>1. (IB - 1) + 1 \in 0 .. Top /\ t \in 0 .. Top /\ (IB - 1) + 1 <= t
        BY <1>0, <1>1, <2>1, Widths
      <3>2. Pow((IB - 1) + 1) <= Pow(t) /\ Pow((IB - 1) + 1) = 2 * h /\ Pow(t) \in Nat
        BY <1>0, <3>1, PowersInUse
      <3> QED
        BY <1>0, <2>1, <3>2
    <2>3. /\ t \in Nat /\ F - t \in Nat /\ t + (F - t) = F /\ (t + 1) + (F - t) = F + 1 /\ t + 1 \in Nat
          /\ F + 1 <= Top /\ F - t \in 0 .. Top /\ t \in 0 .. Top /\ F \in 0 .. Top /\ t + 1 \in 0 .. Top
          /\ f \in Nat /\ f > 0 /\ f < Pow(X) - 1 /\ f < Pow(X) /\ f - 1 \in 0 .. Top /\ f - 1 \in Nat
          /\ (F - t) + (f - 1) = D_BIAS + F - 1 /\ (F - t) + (f - 1) <= Top
      BY <1>0, <1>1, <2>1, <2>2
    <2>4. /\ z \in Nat /\ z > 0 /\ Pow(t) * z = p /\ Pow(t + 1) * z = 2 * p /\ Pow(t) \in Nat /\ Pow(t + 1) \in Nat
          /\ Pow(f - 1) \in Nat /\ z * Pow(f - 1) = Unit
      <3>1. z \in Nat /\ z > 0 /\ Pow(F + 1) = 2 * p /\ Pow(t) \in Nat /\ Pow(t + 1) \in Nat /\ Pow(f - 1) \in Nat
        BY <1>1, <2>3, PowersInUse
      <3>2. Pow(t + (F - t)) = Pow(t) * Pow(F - t)
        BY <1>1, <2>3, PowersMultiply
      <3>3. Pow((t + 1) + (F - t)) = Pow(t + 1) * Pow(F - t)
        BY <1>1, <2>3, PowersMultiply
      <3>4. Pow((F - t) + (f - 1)) = Pow(F - t) * Pow(f - 1)
        BY <1>1, <2>3, PowersMultiply
      <3> QED
        BY <1>1, <1>2, <2>3, <3>1, <3>2, <3>3, <3>4
    <2> HIDE DEF z
    <2>5. q \in Nat /\ p <= q /\ q < 2 * p
      <3>1. Pow(t) * z <= mag * z /\ mag * z < Pow(t + 1) * z /\ mag * z \in Nat
        BY <2>1, <2>4, ProductsOrder
      <3> QED
        BY <2>4, <3>1
    <2>6. r = Signed(sign) + f * p + (q % p)
      BY <1>4 DEF df_from_mag, t, z, Pow
    <2> HIDE DEF q, f, r, p
    <2>7. q % p = q - p /\ q - p \in Nat /\ q - p < p
      <3>1. q = 1 * p + (q - p) /\ q - p \in Nat /\ q - p < p
        BY <1>1, <2>5
      <3>2. (1 * p + (q - p)) % p = q - p
        BY <1>1, <3>1, DividedUnique
      <3> QED
        BY <3>1, <3>2
    <2>8. /\ r \in Double /\ Field(r) = f /\ Fraction(r) = q - p /\ (Negative(r) <=> sign = 1)
      BY <2>3, <2>6, <2>7, PatternOf DEF p
    <2>9. IsFinite(r) /\ Field(r) # 0
      <3>1. f # Pow(X) - 1 /\ f # 0
        BY <1>1, <2>3
      <3> QED
        BY <2>8, <3>1 DEF IsFinite, Pow
    <2>10. DoubleAmount(r) = q * Pow(f - 1)
      <3>1. DoubleAmount(r) = (Fraction(r) + D_IMPL) * Pow(Field(r) - 1)
        BY <2>8, <2>9, NormalAmount
      <3>2. (q - p) + p = q
        BY <1>1, <2>5
      <3> QED
        BY <2>8, <3>1, <3>2 DEF p
    <2>11. q * Pow(f - 1) = mag * Unit
      <3> DEFINE c == Pow(f - 1)
      <3>1. (mag * z) * c = mag * (z * c)
        BY <2>4
      <3> QED
        BY <2>4, <3>1 DEF q
    <2> QED
      BY <2>8, <2>9, <2>10, <2>11 DEF r
  <1> QED
    BY <1>3, <1>4

(* A double made of an int has its value and is converted back to it. *)
LEMMA FromIntIs ==
  ASSUME NEW n \in Nat, n < 2 * Pow(IB - 1), NEW sign \in {0, 1}, NEW v \in Int,
         v = IF sign = 1 THEN 0 - n ELSE n
  PROVE  LET r == df_from_mag(n, sign)
         IN  /\ DoubleValue(r) = v * Unit
             /\ v \in SignedInt => df_to_i(r, TRUE) = v
             /\ v \in UnsignedInt => df_to_i(r, FALSE) = v
  <1> DEFINE r == df_from_mag(n, sign)
  <1>0. r \in Double /\ IsFinite(r) /\ (Negative(r) <=> sign = 1) /\ DoubleAmount(r) = n * Unit
    BY FromMagnitudeIs
  <1> HIDE DEF r
  <1>1. Unit \in Nat /\ Unit > 0
    BY UnitIs
  <1>2. (n * Unit) \div Unit = n
    <2>1. n * Unit = n * Unit + 0
      BY <1>1
    <2>2. (n * Unit + 0) \div Unit = n
      BY <1>1, DividedUnique
    <2> QED
      BY <2>1, <2>2
  <1>3. (sign = 1 => DoubleValue(r) = - (n * Unit) /\ Whole(r) = - n)
        /\ (sign # 1 => DoubleValue(r) = n * Unit /\ Whole(r) = n)
    BY <1>0, <1>2, Zenon DEF DoubleValue, Whole
  <1>4. DoubleValue(r) = v * Unit /\ Whole(r) = v
    <2>1. CASE sign = 1
      <3>1. v = 0 - n
        BY <2>1
      <3>2. (0 - n) * Unit = - (n * Unit) /\ - n = 0 - n
        BY <1>1
      <3> QED
        BY <1>3, <2>1, <3>1, <3>2
    <2>2. CASE sign # 1
      BY <1>3, <2>2
    <2> QED
      BY <2>1, <2>2
  <1> QED
    BY <1>0, <1>4, TruncatesToInt DEF r

(* __floatsidf is exact, for the smallest int too, and comes back. *)
LEMMA FloatIsExact ==
  ASSUME NEW v \in SignedInt
  PROVE  DoubleValue(__floatsidf(v)) = v * Unit /\ df_to_i(__floatsidf(v), TRUE) = v
  <1> DEFINE h == Pow(IB - 1)
  <1>0. h \in Nat /\ h > 0 /\ SignedInt = (0 - h) .. h - 1
    BY IntRange
  <1>1. v \in Int /\ v >= 0 - h /\ v < h
    BY <1>0
  <1>2. CASE v < 0
    <2> DEFINE n == - (v + 1) + 1
    <2>1. n \in Nat /\ n < 2 * h /\ v = 0 - n
      BY <1>0, <1>1, <1>2
    <2>2. __floatsidf(v) = df_from_mag(n, 1)
      BY <1>2 DEF __floatsidf, Magnitude
    <2> HIDE DEF n
    <2> QED
      BY <1>1, <2>1, <2>2, FromIntIs
  <1>3. CASE ~ (v < 0)
    <2>1. v \in Nat /\ v < 2 * h
      BY <1>0, <1>1, <1>3
    <2>2. __floatsidf(v) = df_from_mag(v, 0)
      BY <1>3 DEF __floatsidf
    <2>3. 0 \in {0, 1} /\ v = IF 0 = 1 THEN 0 - v ELSE v
      OBVIOUS
    <2>4. DoubleValue(df_from_mag(v, 0)) = v * Unit /\ df_to_i(df_from_mag(v, 0), TRUE) = v
      BY <1>1, <2>1, <2>3, FromIntIs
    <2> QED
      BY <2>2, <2>4
  <1> QED
    BY <1>2, <1>3

(* __floatunsidf is exact and comes back. *)
LEMMA FloatunsIsExact ==
  ASSUME NEW v \in UnsignedInt
  PROVE  DoubleValue(__floatunsidf(v)) = v * Unit /\ df_to_i(__floatunsidf(v), FALSE) = v
  <1> DEFINE h == Pow(IB - 1)
  <1>0. h \in Nat /\ UnsignedInt = 0 .. 2 * h - 1
    BY IntRange
  <1>1. v \in Nat /\ v < 2 * h /\ v \in Int
    BY <1>0
  <1>2. __floatunsidf(v) = df_from_mag(v, 0)
    BY DEF __floatunsidf
  <1>3. 0 \in {0, 1} /\ v = IF 0 = 1 THEN 0 - v ELSE v
    OBVIOUS
  <1>4. DoubleValue(df_from_mag(v, 0)) = v * Unit /\ df_to_i(df_from_mag(v, 0), FALSE) = v
    BY <1>1, <1>3, FromIntIs
  <1> QED
    BY <1>2, <1>4

-----------------------------------------------------------------------------
(* Single precision.  How the exponents of floats lie in those of doubles. *)
Widening == D_BIAS + F - S_BIAS - FS

(* The constants of single precision. *)
LEMMA SingleFormat ==
  /\ FS \in Nat /\ FS > 0 /\ FS < F /\ FS < Top /\ XS \in 0 .. Top
  /\ S_IMPL = Pow(FS) /\ S_IMPL \in Nat /\ S_IMPL > 0 /\ Pow(XS) \in Nat /\ Pow(XS) > 3
  /\ S_SIGN = Pow(XS) * S_IMPL /\ S_SIGN \in Nat /\ S_SIGN > 0
  /\ S_EXP = (Pow(XS) - 1) * S_IMPL /\ S_EXP \in Nat /\ S_EXP < S_SIGN /\ S_EXP > 0
  /\ S_BIAS \in Nat /\ S_BIAS > 0 /\ Pow(XS) = 2 * S_BIAS + 2 /\ S_BIAS + FS <= D_BIAS
  /\ Widening \in Nat /\ Widening >= F /\ Widening = D_BIAS + F - S_BIAS - FS /\ Widening <= Top
  /\ Pow(XS) <= Pow(X) /\ Pow(XS) + 1 < Top /\ S_EXP < Top * Pow(FS)
  <1>0. /\ FS \in Nat /\ XS \in Nat /\ F \in Nat /\ X \in Nat /\ FS > 0 /\ F > FS /\ XS > 1 /\ X > XS
        /\ Top \in Nat /\ F < Top /\ Pow(XS - 1) + FS <= Pow(X - 1) /\ D_BIAS = Pow(X - 1) - 1
        /\ D_BIAS \in Nat /\ X + F < Pow(X) /\ Pow(X) <= Top /\ Pow(X) \in Nat /\ Pow(X) = 2 * D_BIAS + 2
        /\ Top = 2 * Pow(X) + 4 * F
    BY Widths, Patterns, Powers
  <1>1. /\ FS \in 0 .. Top /\ XS \in 0 .. Top /\ XS - 1 \in 0 .. Top /\ 1 \in 0 .. Top /\ XS <= Top
        /\ XS + FS <= Top /\ X \in 0 .. Top /\ XS <= X /\ 1 <= XS - 1 /\ XS > 0
    BY <1>0
  <1>2. /\ Pow(FS) \in Nat /\ Pow(FS) > 0 /\ Pow(XS) \in Nat /\ Pow(XS - 1) \in Nat
        /\ Pow(XS) <= Pow(X) /\ Pow(1) <= Pow(XS - 1)
    BY <1>1, PowersInUse
  <1>3. Pow(XS) = 2 * Pow(XS - 1) /\ Pow(XS + FS) = Pow(XS) * Pow(FS)
    BY <1>0, <1>1, PowersHalve, PowersMultiply
  <1>4. Pow(1) = 2
    <2>1. 0 \in 0 .. Top /\ 0 + 1 = 1
      BY <1>0
    <2>2. Pow(0 + 1) = 2 * Pow(0) /\ Pow(0) = 1
      BY <2>1, PowersInUse, Powers
    <2> QED
      BY <2>1, <2>2
  <1>5. /\ S_IMPL = Pow(FS) /\ S_SIGN = Pow(XS) * S_IMPL /\ S_EXP = (Pow(XS) - 1) * S_IMPL
        /\ S_BIAS = Pow(XS - 1) - 1
    BY <1>3 DEF S_IMPL, S_SIGN, S_EXP, S_BIAS, Pow
  <1>6. /\ S_BIAS \in Nat /\ S_BIAS > 0 /\ Pow(XS) = 2 * S_BIAS + 2 /\ Pow(XS) > 3
        /\ S_BIAS + FS <= D_BIAS
    <2>1. Pow(X - 1) \in Nat
      BY <1>0, PowersHalve
    <2> QED
      BY <1>0, <1>2, <1>3, <1>4, <1>5, <2>1
  <1>7. /\ Widening \in Nat /\ Widening >= F /\ Widening <= Top
    BY <1>0, <1>6 DEF Widening
  <1> DEFINE p == S_IMPL
             n == Pow(XS)
  <1>8. p \in Nat /\ p > 0 /\ n \in Nat /\ n > 3 /\ n <= Pow(X) /\ n + 1 < Top
    BY <1>0, <1>2, <1>5, <1>6
  <1> HIDE DEF p, n
  <1>9. /\ n * p \in Nat /\ (n - 1) * p \in Nat /\ (n - 1) * p < n * p /\ (n - 1) * p > 0
        /\ (n - 1) * p < Top * p
    <2>1. n - 1 \in Nat /\ n - 1 < n /\ 0 < n - 1 /\ n - 1 < Top
      BY <1>0, <1>8
    <2>2. (n - 1) * p < n * p /\ 0 * p < (n - 1) * p /\ (n - 1) * p < Top * p
      BY <1>0, <1>8, <2>1, ProductsOrder
    <2> QED
      BY <1>8, <2>1, <2>2
  <1>10. S_SIGN \in Nat /\ S_SIGN > 0 /\ S_EXP \in Nat /\ S_EXP < S_SIGN /\ S_EXP > 0 /\ S_EXP < Top * Pow(FS)
    BY <1>5, <1>9 DEF n, p
  <1> QED
    BY <1>0, <1>1, <1>2, <1>5, <1>6, <1>7, <1>8, <1>10 DEF Widening, p, n

(* A larger pattern stands for a larger number. *)
LEMMA AmountsGrow ==
  ASSUME NEW f \in Nat, f > 0, f < Top, NEW m \in Nat, NEW k \in Nat, m < k, k <= Top * Pow(f)
  PROVE  Amount(m, f) \in Nat /\ Amount(k, f) \in Nat /\ Amount(m, f) < Amount(k, f)
  <1> DEFINE L == Top * Pow(f)
             S == {i \in Nat : m < i /\ i <= L /\ ~ (Amount(i, f) \in Nat /\ Amount(m, f) < Amount(i, f))}
  <1>0. L \in Nat
    <2>1. Top \in Nat /\ f \in 0 .. Top
      BY Widths
    <2> QED
      BY <2>1, PowersInUse
  <1>1. \A i \in Nat : i < L => Amount(i, f) \in Nat /\ Amount(i + 1, f) \in Nat /\ Amount(i, f) < Amount(i + 1, f)
    BY AmountNext
  <1>2. k <= L
    OBVIOUS
  <1> HIDE DEF L
  <1>3. Amount(m, f) \in Nat
    BY <1>0, <1>1, <1>2
  <1>4. S = {}
    <2> SUFFICES ASSUME S # {} PROVE FALSE
      OBVIOUS
    <2>1. S \in SUBSET Nat
      OBVIOUS
    <2>2. PICK i \in S : \A j \in S : i <= j
      BY <2>1, LeastNumber
    <2>3. i \in Nat /\ m < i /\ i <= L /\ ~ (Amount(i, f) \in Nat /\ Amount(m, f) < Amount(i, f))
      BY <2>2
    <2> DEFINE j == i - 1
    <2>4. j \in Nat /\ j < L /\ j + 1 = i /\ m <= j /\ j < i
      BY <1>0, <2>3
    <2>5. Amount(j, f) \in Nat /\ Amount(i, f) \in Nat /\ Amount(j, f) < Amount(i, f)
      BY <1>1, <2>4
    <2>6. Amount(m, f) <= Amount(j, f)
      <3>1. CASE j = m
        BY <2>5, <3>1
      <3>2. CASE j # m
        <4>1. j \notin S
          BY <2>2, <2>3, <2>4
        <4>2. m < j /\ j <= L
          BY <1>0, <2>4, <3>2
        <4>3. Amount(m, f) < Amount(j, f)
          BY <2>4, <4>1, <4>2
        <4> QED
          BY <1>3, <2>5, <4>3
      <3> QED
        BY <3>1, <3>2
    <2> QED
      BY <1>3, <2>3, <2>5, <2>6
  <1>5. k \notin S
    BY <1>4
  <1> QED
    BY <1>2, <1>3, <1>5

(* The numbers that floats stand for, in the units of doubles. *)
LEMMA SinglesGrow ==
  ASSUME NEW m \in Nat, NEW k \in Nat, m < k, k <= Top * Pow(FS)
  PROVE  SingleAmount(m) \in Nat /\ SingleAmount(k) \in Nat /\ SingleAmount(m) < SingleAmount(k)
  <1> DEFINE z == Pow(Widening)
             c == Amount(m, FS)
             d == Amount(k, FS)
  <1>1. FS \in Nat /\ FS > 0 /\ FS < Top /\ Widening \in 0 .. Top
    BY SingleFormat, Widths
  <1>2. c \in Nat /\ d \in Nat /\ c < d
    BY <1>1, AmountsGrow
  <1>3. z \in Nat /\ z > 0
    BY <1>1, PowersInUse
  <1>4. SingleAmount(m) = c * z /\ SingleAmount(k) = d * z
    BY DEF SingleAmount, Widening, Pow
  <1> HIDE DEF c, d, z
  <1>5. c * z < d * z /\ c * z \in Nat /\ d * z \in Nat
    BY <1>2, <1>3, ProductsOrder
  <1> QED
    BY <1>4, <1>5

(* One of the floats nearest to num, and which of two at the same distance *)
(* it is.                                                                  *)
NearestSingle(m, num) ==
  /\ m \in Nat /\ m <= S_EXP
  /\ \A k \in Nat : m = k + 1 => SingleAmount(k) + SingleAmount(m) <= 2 * num
  /\ m < S_EXP => 2 * num <= SingleAmount(m) + SingleAmount(m + 1)

TieSingle(m, num, away) ==
  /\ \A k \in Nat : m = k + 1 /\ SingleAmount(k) + SingleAmount(m) = 2 * num => away \/ m % 2 = 0
  /\ m < S_EXP /\ 2 * num = SingleAmount(m) + SingleAmount(m + 1) => ~ away /\ m % 2 = 0

(* They say what TruncatesToNearest does. *)
LEMMA NearestSingleIs ==
  ASSUME NEW m, NEW num \in Nat, NEW away \in BOOLEAN, NearestSingle(m, num), TieSingle(m, num, away)
  PROVE  IsNearest(m, S_EXP, SingleAmount, num, 1, away)
  <1>1. m \in Nat /\ m <= S_EXP /\ S_EXP \in Nat /\ S_EXP < Top * Pow(FS)
    BY SingleFormat DEF NearestSingle
  <1>2. ASSUME m > 0
        PROVE  IF away \/ m % 2 = 0
               THEN (SingleAmount(m - 1) + SingleAmount(m - 1 + 1)) * 1 <= 2 * num
               ELSE (SingleAmount(m - 1) + SingleAmount(m - 1 + 1)) * 1 < 2 * num
    <2>1. m - 1 \in Nat /\ m = (m - 1) + 1 /\ m - 1 < m /\ m <= Top * Pow(FS)
      <3>1. Top * Pow(FS) \in Nat
        BY SingleFormat, Widths
      <3> QED
        BY <1>1, <1>2, <3>1
    <2> DEFINE c == SingleAmount(m - 1)
               d == SingleAmount(m)
    <2>2. c + d <= 2 * num /\ (c + d = 2 * num => away \/ m % 2 = 0)
      BY <2>1 DEF NearestSingle, TieSingle
    <2>3. c \in Nat /\ d \in Nat
      BY <1>1, <2>1, SinglesGrow
    <2>4. SingleAmount(m - 1 + 1) = d
      BY <2>1
    <2> HIDE DEF c, d
    <2>5. (c + d) * 1 <= 2 * num /\ (~ (away \/ m % 2 = 0) => (c + d) * 1 < 2 * num)
      BY <2>2, <2>3
    <2> QED
      BY <2>4, <2>5 DEF c
  <1>3. ASSUME m < S_EXP
        PROVE  IF ~ away /\ m % 2 = 0
               THEN 2 * num <= (SingleAmount(m) + SingleAmount(m + 1)) * 1
               ELSE 2 * num < (SingleAmount(m) + SingleAmount(m + 1)) * 1
    <2>1. m + 1 \in Nat /\ m < m + 1 /\ m + 1 <= Top * Pow(FS)
      <3>1. Top * Pow(FS) \in Nat
        BY SingleFormat, Widths
      <3> QED
        BY <1>1, <1>3, <3>1
    <2> DEFINE c == SingleAmount(m)
               d == SingleAmount(m + 1)
    <2>2. 2 * num <= c + d /\ (2 * num = c + d => ~ away /\ m % 2 = 0)
      BY <1>3 DEF NearestSingle, TieSingle
    <2>3. c \in Nat /\ d \in Nat
      BY <1>1, <2>1, SinglesGrow
    <2> HIDE DEF c, d
    <2>4. 2 * num <= (c + d) * 1 /\ (~ (~ away /\ m % 2 = 0) => 2 * num < (c + d) * 1)
      BY <2>2, <2>3
    <2> QED
      BY <2>4 DEF c, d
  <1> QED
    BY <1>2, <1>3, Zenon DEF IsNearest

(* The float below num or the one above it, on the right side of the       *)
(* middle.                                                                 *)
LEMMA EitherIsNearest ==
  ASSUME NEW m \in Nat, NEW num \in Nat, NEW up \in {0, 1}, m + up <= S_EXP,
         SingleAmount(m) <= num, num < SingleAmount(m + 1),
         up = 1 => SingleAmount(m) + SingleAmount(m + 1) <= 2 * num,
         up = 0 => 2 * num <= SingleAmount(m) + SingleAmount(m + 1)
  PROVE  NearestSingle(m + up, num)
  <1> DEFINE a == SingleAmount(m)
             b == SingleAmount(m + 1)
             L == Top * Pow(FS)
  <1>0. S_EXP \in Nat /\ S_EXP < L /\ L \in Nat
    BY SingleFormat, Widths
  <1>1. m + 1 \in Nat /\ m < m + 1 /\ m + 1 <= L
    BY <1>0
  <1> HIDE DEF L
  <1>2. a \in Nat /\ b \in Nat /\ a < b
    BY <1>1, SinglesGrow DEF L
  <1>3. CASE up = 0
    <2>1. m + up = m /\ m <= S_EXP
      BY <1>3
    <2>2. ASSUME NEW k \in Nat, m = k + 1 PROVE SingleAmount(k) + SingleAmount(m) <= 2 * num
      <3>1. k < m /\ m <= L
        BY <1>0, <1>1, <2>2
      <3>2. SingleAmount(k) \in Nat /\ SingleAmount(k) < a
        BY <3>1, SinglesGrow DEF L
      <3> QED
        BY <1>2, <3>2
    <2>3. 2 * num <= a + b
      BY <1>3
    <2> QED
      BY <2>1, <2>2, <2>3 DEF NearestSingle
  <1>4. CASE up = 1
    <2>1. m + up = m + 1 /\ m + 1 <= S_EXP
      BY <1>4
    <2>2. ASSUME NEW k \in Nat, m + 1 = k + 1 PROVE SingleAmount(k) + SingleAmount(m + 1) <= 2 * num
      <3>1. k = m
        BY <2>2
      <3>2. a + b <= 2 * num
        BY <1>4
      <3> QED
        BY <3>1, <3>2
    <2>3. ASSUME m + 1 < S_EXP PROVE 2 * num <= b + SingleAmount((m + 1) + 1)
      <3>1. m + 1 \in Nat /\ (m + 1) + 1 \in Nat /\ m + 1 < (m + 1) + 1 /\ (m + 1) + 1 <= L
        BY <1>0, <2>3
      <3>2. SingleAmount((m + 1) + 1) \in Nat /\ b < SingleAmount((m + 1) + 1)
        BY <3>1, SinglesGrow DEF L
      <3> QED
        BY <1>2, <3>2
    <2>4. m + 1 \in Nat
      OBVIOUS
    <2>5. NearestSingle(m + 1, num)
      BY <2>1, <2>2, <2>3, <2>4 DEF NearestSingle
    <2> QED
      BY <2>1, <2>5
  <1> QED
    BY <1>3, <1>4

(* In the middle, the one that was asked for. *)
LEMMA EitherAtTie ==
  ASSUME NEW m \in Nat, NEW num \in Nat, NEW up \in {0, 1}, m + up <= S_EXP, NEW away \in BOOLEAN,
         SingleAmount(m) <= num, num < SingleAmount(m + 1),
         2 * num = SingleAmount(m) + SingleAmount(m + 1) =>
           IF up = 1 THEN away \/ (m + 1) % 2 = 0 ELSE ~ away /\ m % 2 = 0
  PROVE  TieSingle(m + up, num, away)
  <1> DEFINE a == SingleAmount(m)
             b == SingleAmount(m + 1)
             L == Top * Pow(FS)
  <1>0. S_EXP \in Nat /\ S_EXP < L /\ L \in Nat
    BY SingleFormat, Widths
  <1>1. m + 1 \in Nat /\ m < m + 1 /\ m + 1 <= L
    BY <1>0
  <1> HIDE DEF L
  <1>2. a \in Nat /\ b \in Nat /\ a < b
    BY <1>1, SinglesGrow DEF L
  <1>3. CASE up = 0
    <2>1. m + up = m /\ m <= S_EXP
      BY <1>3
    <2>2. ASSUME NEW k \in Nat, m = k + 1 PROVE SingleAmount(k) + SingleAmount(m) # 2 * num
      <3>1. k < m /\ m <= L
        BY <1>0, <1>1, <2>2
      <3>2. SingleAmount(k) \in Nat /\ SingleAmount(k) < a
        BY <3>1, SinglesGrow DEF L
      <3> QED
        BY <1>2, <3>2
    <2>3. 2 * num = a + b => ~ away /\ m % 2 = 0
      BY <1>3
    <2> QED
      BY <2>1, <2>2, <2>3 DEF TieSingle
  <1>4. CASE up = 1
    <2>1. m + up = m + 1 /\ m + 1 <= S_EXP
      BY <1>4
    <2>2. ASSUME NEW k \in Nat, m + 1 = k + 1, SingleAmount(k) + SingleAmount(m + 1) = 2 * num
          PROVE  away \/ (m + 1) % 2 = 0
      <3>1. k = m
        BY <2>2
      <3> QED
        BY <1>4, <2>2, <3>1
    <2>3. ASSUME m + 1 < S_EXP PROVE 2 * num # b + SingleAmount((m + 1) + 1)
      <3>1. m + 1 \in Nat /\ (m + 1) + 1 \in Nat /\ m + 1 < (m + 1) + 1 /\ (m + 1) + 1 <= L
        BY <1>0, <2>3
      <3>2. SingleAmount((m + 1) + 1) \in Nat /\ b < SingleAmount((m + 1) + 1)
        BY <3>1, SinglesGrow DEF L
      <3> QED
        BY <1>2, <3>2
    <2>4. TieSingle(m + 1, num, away)
      BY <2>2, <2>3 DEF TieSingle
    <2> QED
      BY <2>1, <2>4
  <1> QED
    BY <1>3, <1>4

(* Infinity, for what is not below the power of two it stands for. *)
LEMMA OverflowIsNearestSingle ==
  ASSUME NEW m \in Nat, m >= S_EXP, m <= Top * Pow(FS), NEW num \in Nat, SingleAmount(m) <= num
  PROVE  NearestSingle(S_EXP, num) /\ TieSingle(S_EXP, num, TRUE)
  <1> DEFINE L == Top * Pow(FS)
             a == SingleAmount(S_EXP)
  <1>0. S_EXP \in Nat /\ S_EXP > 0 /\ S_EXP < L /\ L \in Nat
    BY SingleFormat, Widths
  <1>1. S_EXP - 1 \in Nat /\ S_EXP - 1 < S_EXP /\ S_EXP <= L
    BY <1>0
  <1>2. a \in Nat
    BY <1>0, <1>1, SinglesGrow
  <1>3. a <= num
    <2>1. CASE m = S_EXP
      BY <2>1
    <2>2. CASE m > S_EXP
      <3>1. a < SingleAmount(m) /\ SingleAmount(m) \in Nat
        BY <1>0, <2>2, SinglesGrow
      <3> QED
        BY <1>2, <3>1
    <2> QED
      BY <1>0, <2>1, <2>2
  <1>4. ASSUME NEW k \in Nat, S_EXP = k + 1 PROVE SingleAmount(k) + SingleAmount(S_EXP) <= 2 * num
    <2>1. k < S_EXP
      BY <1>4
    <2>2. SingleAmount(k) \in Nat /\ SingleAmount(k) < a
      BY <1>0, <1>1, <2>1, SinglesGrow
    <2> QED
      BY <1>2, <1>3, <2>2
  <1>5. ~ (S_EXP < S_EXP) /\ S_EXP <= S_EXP
    BY <1>0
  <1> QED
    BY <1>0, <1>4, <1>5 DEF NearestSingle, TieSingle

(* What a significand cut to q, with guard bit g, says of num. *)
LEMMA SingleFromCut ==
  ASSUME NEW m, NEW E, NEW q, Placed(m, FS, E, q), NEW num \in Nat, E + Widening <= Top,
         NEW g \in {0, 1}, NEW s, IsCut(2 * num, Pow(E + Widening), 2 * q + g, s)
  PROVE  /\ m \in Nat /\ SingleAmount(m) <= num /\ num < SingleAmount(m + 1)
         /\ SingleAmount(m) \in Nat /\ SingleAmount(m + 1) \in Nat
         /\ g = 0 => 2 * num < SingleAmount(m) + SingleAmount(m + 1)
         /\ g = 1 => SingleAmount(m) + SingleAmount(m + 1) <= 2 * num
         /\ g = 1 /\ s = 0 => SingleAmount(m) + SingleAmount(m + 1) = 2 * num
         /\ g = 1 /\ s = 1 => SingleAmount(m) + SingleAmount(m + 1) < 2 * num
  <1> DEFINE a == SingleAmount(m)
             b == SingleAmount(m + 1)
             e == Pow(E + Widening)
             z == Pow(Widening)
  <1>0. Widening \in Nat /\ Top \in Nat /\ Widening \in 0 .. Top
    BY SingleFormat, Widths
  <1>1. /\ m \in Nat /\ E \in Nat /\ q \in Nat /\ Pow(E) \in Nat
        /\ Amount(m, FS) = q * Pow(E) /\ Amount(m + 1, FS) = (q + 1) * Pow(E)
    BY AmountStep
  <1>2. e = Pow(E) * z
    BY <1>0, <1>1, PowersMultiply
  <1>3. z \in Nat /\ z > 0 /\ e \in Nat /\ e > 0
    <2>1. E + Widening \in 0 .. Top
      BY <1>0, <1>1
    <2> QED
      BY <1>0, <2>1, PowersInUse
  <1>4. a = Amount(m, FS) * z /\ b = Amount(m + 1, FS) * z
    BY DEF SingleAmount, Widening, Pow
  <1>5. a = q * e /\ b = (q + 1) * e
    <2> DEFINE c == Pow(E)
    <2>1. c \in Nat
      BY <1>1
    <2> HIDE DEF c, z
    <2>2. (q * c) * z = q * (c * z) /\ ((q + 1) * c) * z = (q + 1) * (c * z)
      BY <1>1, <1>3, <2>1
    <2> QED
      BY <1>1, <1>2, <1>4, <2>2 DEF c
  <1> HIDE DEF a, b, e
  <1>6. Neighbours(a, b, q, e)
    BY <1>5 DEF Neighbours
  <1>7. Below(num, 1, e, q, g, s)
    <2>1. 1 * e = e
      BY <1>3
    <2>2. IsCut(2 * num, e, 2 * q + g, s)
      BY DEF e
    <2> QED
      BY <2>1, <2>2 DEF Below
  <1>8. Between(a, b, num, 1, g, s)
    <2>1. 1 \in Nat /\ 1 > 0
      OBVIOUS
    <2> QED
      BY <1>1, <1>3, <1>6, <1>7, <2>1, BetweenNeighbours, Zenon
  <1>9. a \in Nat /\ b \in Nat
    BY <1>1, <1>3, <1>5
  <1>10. a * 1 = a /\ b * 1 = b /\ (a + b) * 1 = a + b
    BY <1>9
  <1>11. /\ a <= num /\ num < b
         /\ (g = 0 => 2 * num < a + b) /\ (g = 1 => a + b <= 2 * num)
         /\ (g = 1 /\ s = 0 => a + b = 2 * num) /\ (g = 1 /\ s = 1 => a + b < 2 * num)
    <2>1. s \in {0, 1}
      BY DEF IsCut
    <2> QED
      BY <1>8, <1>10 DEF Between
  <1> QED
    BY <1>1, <1>9, <1>11 DEF a, b

(* A significand that was cut by y, in units of floats. *)
LEMMA TruncUnits ==
  ASSUME NEW A \in Nat, NEW f \in Nat, f > 0, NEW s \in Nat, NEW c \in Nat, c > 0, Exactly(A, f, s, c),
         NEW half \in Nat, half > 0, NEW v, NEW t, IsCut(s, half, v, t), NEW e \in Nat, e > 0, Exactly(e, f, 2 * half, c)
  PROVE  IsCut(2 * A, e, v, t)
  <1>1. 2 * c \in Nat /\ 2 * c > 0 /\ 2 * A \in Nat
    OBVIOUS
  <1>2. IsCut(s * (2 * c), half * (2 * c), v, t)
    BY <1>1, CutReduced
  <1>3. s * (2 * c) = (2 * A) * f
    <2>1. s * (2 * c) = 2 * (s * c) /\ (2 * A) * f = 2 * (A * f)
      OBVIOUS
    <2> QED
      BY <2>1 DEF Exactly
  <1>4. half * (2 * c) = e * f
    <2>1. half * (2 * c) = (2 * half) * c
      OBVIOUS
    <2> QED
      BY <2>1 DEF Exactly
  <1>5. IsCut((2 * A) * f, e * f, v, t)
    BY <1>2, <1>3, <1>4
  <1> QED
    BY <1>1, <1>5, CutReduced

(* The significand of a double cut to that of a float. *)
LEMMA FirstCut ==
  ASSUME NEW sig \in Nat, D_IMPL <= sig, sig < 2 * D_IMPL, NEW sh, sh = F - FS
  PROVE  LET c == Cut(sig, sh, 0)
             z == Pow(sh)
         IN  /\ sh \in Nat /\ sh > 0 /\ sh <= Top /\ z \in Nat /\ z > 0
             /\ c.q \in Nat /\ S_IMPL <= c.q /\ c.q < 2 * S_IMPL /\ c.g \in {0, 1}
             /\ c.g = 1 => sig % z # 0
             /\ IsCut(sig, Pow(sh - 1), 2 * c.q + c.g, c.s)
             /\ IsCut(sig, z, c.q, Bit(sig % z # 0))
  <1> DEFINE c == Cut(sig, sh, 0)
             z == Pow(sh)
             half == Pow(sh - 1)
  <1>0. /\ F \in Nat /\ FS \in Nat /\ FS < F /\ FS > 0 /\ Top \in Nat /\ F < Top /\ S_IMPL = Pow(FS)
        /\ S_IMPL \in Nat /\ S_IMPL > 0 /\ D_IMPL = Pow(F) /\ D_IMPL \in Nat
    BY SingleFormat, Widths, Patterns
  <1>1. sh \in Nat /\ sh > 0 /\ sh <= Top /\ FS + sh = F /\ sh \in 0 .. Top
    BY <1>0
  <1>2. z \in Nat /\ z > 0 /\ half \in Nat /\ half > 0 /\ z = 2 * half
    BY <1>1, PowersHalve, PowersInUse
  <1>3. D_IMPL = S_IMPL * z
    <2>1. Pow(FS + sh) = Pow(FS) * z
      BY <1>0, <1>1, PowersMultiply
    <2> QED
      BY <1>0, <1>1, <2>1
  <1>4. IsCut(sig, 1, sig, 0)
    <2>1. sig = sig * 1
      OBVIOUS
    <2> QED
      BY <2>1, ExactUnits
  <1>5. /\ c.q \in Nat /\ c.g \in {0, 1} /\ c.q = sig \div z /\ IsCut(sig, 1 * half, 2 * c.q + c.g, c.s)
    BY <1>1, <1>4, CutKeepsGuard
  <1>6. c.g = (sig \div half) % 2
    BY DEF Cut, Pow
  <1> HIDE DEF c, half, z
  <1>7. 1 * half = half
    BY <1>2
  <1>8. S_IMPL <= c.q /\ c.q < 2 * S_IMPL
    <2>1. (2 * S_IMPL) * z = 2 * (S_IMPL * z) /\ 2 * S_IMPL \in Nat
      BY <1>0, <1>2
    <2>2. sig < (2 * S_IMPL) * z /\ sig >= S_IMPL * z
      BY <1>0, <1>3, <2>1
    <2> QED
      BY <1>0, <1>2, <1>5, <2>1, <2>2, QuotientBounds
  <1>9. c.g = 1 => sig % z # 0
    <2> SUFFICES ASSUME sig % z = 0 PROVE c.g # 1
      OBVIOUS
    <2> DEFINE k == sig \div z
    <2>1. k \in Nat /\ sig = k * z + (sig % z)
      BY <1>2, Divided
    <2> HIDE DEF k
    <2>2. sig = (2 * k) * half + 0 /\ 2 * k \in Nat
      <3>1. k * z = (2 * k) * half /\ (2 * k) * half \in Nat
        BY <1>2, <2>1, z = 2 * half
      <3> QED
        BY <2>1, <3>1
    <2>3. sig \div half = 2 * k
      BY <1>2, <2>2, DividedUnique
    <2>4. 2 * k = k * 2 + 0 /\ (k * 2 + 0) % 2 = 0
      BY <2>1, DividedUnique
    <2> QED
      BY <1>6, <2>3, <2>4
  <1>10. IsCut(sig, z, c.q, Bit(sig % z # 0))
    BY <1>2, <1>5, CutOf
  <1> QED
    BY <1>1, <1>2, <1>5, <1>7, <1>8, <1>9, <1>10 DEF c, half, z

(* A number in the range of the normal floats, or above it. *)
LEMMA TruncNormal ==
  ASSUME NEW v, NEW p, NEW i, NEW j, Operand(v, p, i, j), NEW E, E = p.exp + F + S_BIAS - 1, E >= 0,
         NEW c, c = Cut(p.sig, F - FS, 0)
  PROVE  /\ E \in Nat /\ E + 2 <= Top /\ E + Widening <= Top
         /\ Placed(E * S_IMPL + c.q, FS, E, c.q)
         /\ IsCut(2 * DoubleAmount(v), Pow(E + Widening), 2 * c.q + c.g, c.s)
  <1> DEFINE sh == F - FS
             K == Widening
             A == DoubleAmount(v)
             s == p.sig
             f == Pow(j)
             d == Pow(i)
             half == Pow(sh - 1)
             z == Pow(sh)
             e == Pow(E + K)
  <1>0. /\ F \in Nat /\ FS \in Nat /\ FS < F /\ FS > 0 /\ FS < Top /\ Top \in Nat /\ F < Top /\ S_IMPL = Pow(FS)
        /\ S_IMPL \in Nat /\ S_IMPL > 0 /\ D_BIAS \in Nat /\ S_BIAS \in Nat /\ K \in Nat
        /\ K = D_BIAS + F - S_BIAS - FS /\ Pow(X) \in Nat /\ Top = 2 * Pow(X) + 4 * F /\ K >= F
        /\ Lowest = 1 - D_BIAS - F
    BY SingleFormat, Widths, Patterns DEF Lowest
  <1>1. /\ s \in Nat /\ D_IMPL <= s /\ s < 2 * D_IMPL /\ p.exp \in Int /\ i \in Nat /\ j \in Nat
        /\ p.exp - Lowest = i - j /\ i + 3 <= Pow(X) /\ j <= F /\ A \in Nat /\ A * f = s * d
    BY DEF Operand, Scaled
  <1>2. /\ sh \in Nat /\ sh > 0 /\ sh <= Top /\ z \in Nat /\ z > 0
        /\ c.q \in Nat /\ S_IMPL <= c.q /\ c.q < 2 * S_IMPL /\ c.g \in {0, 1}
        /\ IsCut(s, half, 2 * c.q + c.g, c.s)
    BY <1>1, FirstCut
  <1>3. /\ E \in Nat /\ (E + K) + j = i + sh /\ E + K \in Nat /\ (E + K) + j <= Top /\ E + 2 <= Top
        /\ E < Top /\ E + K <= Top /\ i \in 0 .. Top /\ j \in 0 .. Top /\ E + K \in 0 .. Top /\ i + sh <= Top
    BY <1>0, <1>1, <1>2
  <1>4. /\ f \in Nat /\ f > 0 /\ d \in Nat /\ d > 0 /\ e \in Nat /\ e > 0 /\ half \in Nat /\ half > 0 /\ z = 2 * half
    BY <1>2, <1>3, PowersInUse, PowersHalve
  <1>5. Exactly(e, f, 2 * half, d)
    <2>1. Pow((E + K) + j) = e * f /\ Pow(i + sh) = d * z
      BY <1>1, <1>2, <1>3, PowersMultiply
    <2>2. d * z = z * d
      BY <1>2, <1>4
    <2> QED
      BY <1>3, <1>4, <2>1, <2>2 DEF Exactly
  <1>6. Exactly(A, f, s, d)
    BY <1>1 DEF Exactly
  <1> HIDE DEF A, f, s, d, e, half
  <1>7. IsCut(2 * A, e, 2 * c.q + c.g, c.s)
    BY <1>1, <1>2, <1>4, <1>5, <1>6, TruncUnits
  <1>8. Placed(E * S_IMPL + c.q, FS, E, c.q)
    BY <1>0, <1>2, <1>3 DEF Placed
  <1> QED
    BY <1>3, <1>7, <1>8 DEF A, e

(* A number below the normal floats. *)
LEMMA TruncSubnormal ==
  ASSUME NEW v, NEW p, NEW i, NEW j, Operand(v, p, i, j),
         NEW extra, extra = 1 - S_BIAS - (p.exp + F), extra > 0,
         NEW sh, sh = F - FS, NEW q, q = Cut(p.sig, sh, 0).q, NEW s, s = Bit(p.sig % Pow(sh) # 0),
         NEW c, c = Cut(q, extra, s)
  PROVE  /\ c.q \in Nat /\ c.q < S_IMPL /\ c.g \in {0, 1} /\ c.s \in {0, 1}
         /\ Placed(c.q, FS, 0, c.q)
         /\ IsCut(2 * DoubleAmount(v), Pow(0 + Widening), 2 * c.q + c.g, c.s)
  <1> DEFINE K == Widening
             A == DoubleAmount(v)
             w == p.sig
             f == Pow(j)
             d == Pow(i)
             z == Pow(sh)
             half == Pow(extra - 1)
             e == Pow(K)
             k == Pow(extra)
  <1>0. /\ F \in Nat /\ FS \in Nat /\ FS < F /\ FS > 0 /\ FS < Top /\ Top \in Nat /\ F < Top /\ S_IMPL = Pow(FS)
        /\ S_IMPL \in Nat /\ S_IMPL > 0 /\ D_BIAS \in Nat /\ S_BIAS \in Nat /\ K \in Nat
        /\ K = D_BIAS + F - S_BIAS - FS /\ Pow(X) \in Nat /\ Top = 2 * Pow(X) + 4 * F
        /\ Lowest = 1 - D_BIAS - F /\ Pow(X) = 2 * D_BIAS + 2
    BY SingleFormat, Widths, Patterns DEF Lowest
  <1>1. /\ w \in Nat /\ D_IMPL <= w /\ w < 2 * D_IMPL /\ p.exp \in Int /\ i \in Nat /\ j \in Nat
        /\ p.exp - Lowest = i - j /\ i + 3 <= Pow(X) /\ j <= F /\ A \in Nat /\ A * f = w * d
    BY DEF Operand, Scaled
  <1>2. /\ sh \in Nat /\ sh > 0 /\ sh <= Top /\ z \in Nat /\ z > 0
        /\ q \in Nat /\ S_IMPL <= q /\ q < 2 * S_IMPL /\ IsCut(w, z, q, s)
    BY <1>1, FirstCut
  <1>3. /\ extra \in Nat /\ K + j = (i + sh) + extra /\ K + j <= Top /\ i + sh <= Top /\ i + sh \in Nat
        /\ extra <= Top /\ i \in 0 .. Top /\ j \in 0 .. Top /\ K \in 0 .. Top /\ extra \in 0 .. Top
        /\ 1 \in 0 .. Top /\ extra >= 1
    BY <1>0, <1>1, <1>2
  <1>4. /\ f \in Nat /\ f > 0 /\ d \in Nat /\ d > 0 /\ e \in Nat /\ e > 0 /\ half \in Nat /\ half > 0 /\ k = 2 * half
        /\ k \in Nat
    BY <1>2, <1>3, PowersInUse, PowersHalve
  <1>5. Exactly(e, f, 2 * (z * half), d)
    <2>1. Pow(K + j) = e * f /\ Pow((i + sh) + extra) = Pow(i + sh) * k /\ Pow(i + sh) = d * z
      BY <1>0, <1>1, <1>2, <1>3, PowersMultiply
    <2> HIDE DEF d, z, half, k
    <2>2. (d * z) * (2 * half) = (2 * (z * half)) * d
      BY <1>2, <1>4
    <2> QED
      BY <1>3, <1>4, <2>1, <2>2 DEF Exactly
  <1>6. Exactly(A, f, w, d)
    BY <1>1 DEF Exactly
  <1>7. /\ c.q \in Nat /\ c.g \in {0, 1} /\ c.s \in {0, 1} /\ c.q = q \div k
        /\ IsCut(w, z * half, 2 * c.q + c.g, c.s)
    <2> HIDE DEF w, z
    <2>1. IsCut(w, z, q, s) /\ z \in Nat /\ z > 0 /\ q \in Nat /\ extra \in Nat /\ extra > 0 /\ extra <= Top /\ w \in Nat
      BY <1>1, <1>2, <1>3
    <2> QED
      BY <2>1, CutKeepsGuard
  <1> HIDE DEF A, f, w, d, e, half, z, k
  <1>8. z * half \in Nat /\ z * half > 0
    BY <1>2, <1>4
  <1>9. IsCut(2 * A, e, 2 * c.q + c.g, c.s)
    BY <1>1, <1>4, <1>5, <1>6, <1>7, <1>8, TruncUnits
  <1>10. c.q < S_IMPL
    <2>1. k >= 2 /\ k > 0
      BY <1>4
    <2>2. S_IMPL * 2 <= S_IMPL * k /\ S_IMPL * k \in Nat
      BY <1>0, <1>4, <2>1
    <2>3. q < S_IMPL * k
      BY <1>0, <1>2, <2>2
    <2> QED
      BY <1>0, <1>2, <1>4, <1>7, <2>1, <2>3, QuotientBounds
  <1>11. Placed(c.q, FS, 0, c.q)
    <2>1. 0 * Pow(FS) + c.q = c.q /\ c.q < 2 * Pow(FS)
      BY <1>0, <1>7, <1>10
    <2> QED
      BY <1>0, <1>7, <2>1 DEF Placed
  <1>12. 0 + K = K
    BY <1>0
  <1> QED
    BY <1>7, <1>9, <1>10, <1>11, <1>12 DEF A, e

(* What __truncdfsf2 returns in the range of the normal floats. *)
TruncatedNormal(sign, fe, up) ==
  LET exp == fe + Bit(up = 2 * S_IMPL)
  IN  IF exp > S_BIAS THEN sign + S_EXP
      ELSE sign + (exp + S_BIAS) * S_IMPL + (up % S_IMPL)

(* The result is the pattern of the rounded significand, or infinity. *)
LEMMA TruncatedNormalIs ==
  ASSUME NEW sign \in Nat, NEW E \in Nat, NEW up \in Nat, S_IMPL <= up, up <= 2 * S_IMPL
  PROVE  TruncatedNormal(sign, E + 1 - S_BIAS, up) =
           sign + (IF E * S_IMPL + up >= S_EXP THEN S_EXP ELSE E * S_IMPL + up)
  <1> DEFINE p == S_IMPL
             n == Pow(XS)
             m == E * p + up
             e == E + 1 - S_BIAS
             carry == Bit(up = 2 * p)
             r == TruncatedNormal(sign, e, up)
  <1>0. /\ p \in Nat /\ p > 0 /\ n \in Nat /\ n > 3 /\ S_EXP = (n - 1) * p /\ S_BIAS \in Nat
        /\ n = 2 * S_BIAS + 2
    BY SingleFormat
  <1>1. r = IF e + carry > S_BIAS THEN sign + S_EXP
            ELSE sign + (e + carry + S_BIAS) * p + (up % p)
    BY DEF TruncatedNormal
  <1> HIDE DEF r
  <1>4. CASE up = 2 * p
    <2>1. carry = 1 /\ up % p = 0
      BY <1>0, <1>4 DEF Bit
    <2>2. e + 1 + S_BIAS = E + 2 /\ (E + 2) * p = m
      BY <1>0, <1>4
    <2>3. e + carry > S_BIAS <=> E + 2 > n - 2
      BY <1>0, <2>1
    <2>4. CASE E + 2 > n - 2
      <3>1. (E + 2) * p >= (n - 1) * p
        BY <1>0, <2>4
      <3> QED
        BY <1>0, <1>1, <2>2, <2>3, <2>4, <3>1 DEF r
    <2>5. CASE ~ (E + 2 > n - 2)
      <3>1. E + 2 < n - 1 /\ E + 2 \in Nat /\ n - 1 \in Nat
        BY <1>0, <2>5
      <3>2. (E + 2) * p < (n - 1) * p /\ (E + 2) * p \in Nat /\ (n - 1) * p \in Nat
        BY <1>0, <3>1
      <3>3. r = sign + m
        <4>1. r = sign + (E + 2) * p + 0
          BY <1>1, <2>1, <2>2, <2>3, <2>5
        <4> HIDE DEF m
        <4> QED
          BY <2>2, <3>2, <4>1
      <3>4. ~ (m >= S_EXP)
        BY <1>0, <2>2, <3>2
      <3> QED
        BY <3>3, <3>4 DEF r
    <2> QED
      BY <2>4, <2>5
  <1>5. CASE up # 2 * p
    <2> DEFINE f == up - p
    <2>1. carry = 0 /\ f \in Nat /\ f < p /\ up = 1 * p + f
      BY <1>0, <1>5 DEF Bit
    <2>2. up % p = f
      BY <1>0, <2>1, DividedUnique
    <2>3. e + 0 + S_BIAS = E + 1 /\ (E + 1) * p \in Nat /\ (E + 1) * p + f = m
      BY <1>0, <2>1
    <2>4. e + carry > S_BIAS <=> E + 1 > n - 2
      BY <1>0, <2>1
    <2>5. CASE E + 1 > n - 2
      <3>1. (E + 1) * p >= (n - 1) * p /\ (n - 1) * p \in Nat
        BY <1>0, <2>5
      <3>2. m >= S_EXP
        <4> HIDE DEF m, f
        <4> QED
          BY <1>0, <2>1, <2>3, <3>1
      <3> QED
        BY <1>0, <1>1, <2>4, <2>5, <3>2 DEF r
    <2>6. CASE ~ (E + 1 > n - 2)
      <3>1. E + 2 <= n - 1 /\ E + 2 \in Nat /\ n - 1 \in Nat
        BY <1>0, <2>6
      <3>2. (E + 2) * p <= (n - 1) * p /\ (n - 1) * p \in Nat /\ (E + 2) * p = (E + 1) * p + p
        BY <1>0, <3>1
      <3>3. r = sign + m
        <4>1. r = sign + (E + 1) * p + f
          BY <1>1, <2>1, <2>2, <2>3, <2>4, <2>6
        <4> HIDE DEF m, f
        <4> QED
          BY <2>1, <2>3, <4>1
      <3>4. ~ (m >= S_EXP)
        <4> HIDE DEF m, f
        <4> QED
          BY <1>0, <2>1, <2>3, <3>2
      <3> QED
        BY <3>3, <3>4 DEF r
    <2> QED
      BY <2>5, <2>6
  <1> QED
    BY <1>4, <1>5

(* __truncdfsf2 of a finite number, case by case. *)
LEMMA TruncIs ==
  ASSUME NEW v \in Double, IsFinite(v), NEW p, p = df_unpack(v), NEW fe, fe = p.exp + F,
         NEW sign, sign = Sign(v) * S_SIGN, NEW sh, sh = F - FS
  PROVE  LET first == Cut(p.sig, sh, 0)
             s == Bit(p.sig % Pow(sh) # 0)
             c == Cut(first.q, 1 - S_BIAS - fe, s)
         IN  /\ p.zero => __truncdfsf2(v) = sign
             /\ ~ p.zero /\ ~ BelowNormal(fe) =>
                  __truncdfsf2(v) = TruncatedNormal(sign, fe, first.q + Bit(RoundsUp(first.q, first.g, s)))
             /\ ~ p.zero /\ BelowNormal(fe) =>
                  __truncdfsf2(v) = sign + (c.q + Bit(RoundsUp(c.q, c.g, c.s)))
  <1> DEFINE first == Cut(p.sig, sh, 0)
             s == Bit(p.sig % Pow(sh) # 0)
             masked == [first EXCEPT !.s = s]
             c == Cut(first.q, 1 - S_BIAS - fe, s)
             used == IF BelowNormal(fe) THEN Cut(masked.q, 1 - S_BIAS - fe, masked.s) ELSE masked
             up == used.q + Bit(RoundsUp(used.q, used.g, used.s))
  <1>1. ~ IsInf(p) /\ ~ IsNaN(p)
    <2>1. p.exp # Special
      BY Unpacked
    <2> QED
      BY <2>1 DEF IsInf, IsNaN
  <1>2. masked.q = first.q /\ masked.g = first.g /\ masked.s = s
    BY DEF Cut
  <1>3. __truncdfsf2(v) =
          CASE IsInf(p) -> sign + S_EXP
            [] IsNaN(p) -> sign + S_EXP + (S_IMPL \div 2)
            [] p.zero -> sign
            [] OTHER -> IF BelowNormal(fe) THEN sign + up ELSE TruncatedNormal(sign, fe, up)
    <2> DEFINE P == df_unpack(v)
               E == P.exp + F
               S == Sign(v) * S_SIGN
               H == F - FS
               M == [Cut(P.sig, H, 0) EXCEPT !.s = Bit(P.sig % 2 ^ H # 0)]
               C == IF BelowNormal(E) THEN Cut(M.q, 1 - S_BIAS - E, M.s) ELSE M
               U == C.q + Bit(RoundsUp(C.q, C.g, C.s))
    <2>1. __truncdfsf2(v) =
            CASE IsInf(P) -> S + S_EXP
              [] IsNaN(P) -> S + S_EXP + (S_IMPL \div 2)
              [] P.zero -> S
              [] OTHER -> IF BelowNormal(E) THEN S + U ELSE TruncatedNormal(S, E, U)
      BY Zenon DEF __truncdfsf2, TruncatedNormal
    <2>2. P = p
      OBVIOUS
    <2>3. E = fe /\ S = sign /\ H = sh
      BY <2>2
    <2>4. M = masked
      BY <2>2, <2>3 DEF Pow
    <2> HIDE DEF M
    <2>5. C = used
      BY <2>3, <2>4
    <2> HIDE DEF C
    <2>6. U = up
      BY <2>5
    <2> HIDE DEF U, P, E, S, H, up
    <2> QED
      BY <2>1, <2>2, <2>3, <2>6
  <1> HIDE DEF first, s, masked
  <1>4. p.zero => __truncdfsf2(v) = sign
    BY <1>1, <1>3, Zenon
  <1>5. ~ p.zero => __truncdfsf2(v) = IF BelowNormal(fe) THEN sign + up ELSE TruncatedNormal(sign, fe, up)
    BY <1>1, <1>3, Zenon
  <1>6. ~ BelowNormal(fe) => up = first.q + Bit(RoundsUp(first.q, first.g, s))
    BY <1>2, Zenon
  <1>7. BelowNormal(fe) => up = c.q + Bit(RoundsUp(c.q, c.g, c.s))
    BY <1>2, Zenon
  <1> HIDE DEF up, c
  <1> QED
    BY <1>4, <1>5, <1>6, <1>7, Zenon DEF first, s, c

(* r is the float with this sign that is nearest to num, halfway between    *)
(* two the upper one, or the even one below the normal floats.              *)
TruncatesTo(r, sign, num) ==
  \E n \in Nat : /\ r = sign * S_SIGN + n
                /\ NearestSingle(n, num) /\ TieSingle(n, num, num >= SingleAmount(S_IMPL))

(* The sign and the magnitude of such a float. *)
LEMMA TruncatedParts ==
  ASSUME NEW sign \in {0, 1}, NEW n \in Nat, n <= S_EXP, NEW r, r = sign * S_SIGN + n
  PROVE  r \div S_SIGN = sign /\ r % S_SIGN = n
  <1>1. S_SIGN \in Nat /\ S_SIGN > 0 /\ S_EXP < S_SIGN /\ S_EXP \in Nat /\ sign \in Nat
    BY SingleFormat
  <1>2. n < S_SIGN
    BY <1>1
  <1> QED
    BY <1>1, <1>2, DividedUnique

(* A significand that is not cut further is rounded by its guard bit alone: *)
(* the sticky bit is set whenever that one is.                              *)
LEMMA TruncatesNormal ==
  ASSUME NEW v, NEW p, NEW i, NEW j, Operand(v, p, i, j), p.exp + F >= 1 - S_BIAS,
         NEW g \in {0, 1}, NEW c, c = Cut(p.sig, F - FS, 0), NEW s, s = Bit(p.sig % Pow(F - FS) # 0)
  PROVE  TruncatesTo(TruncatedNormal(g * S_SIGN, p.exp + F, c.q + Bit(RoundsUp(c.q, c.g, s))), g, DoubleAmount(v))
  <1> DEFINE E == p.exp + F + S_BIAS - 1
             A == DoubleAmount(v)
             m == E * S_IMPL + c.q
             up == c.q + c.g
             n == IF E * S_IMPL + up >= S_EXP THEN S_EXP ELSE E * S_IMPL + up
             z == Pow(F - FS)
             sign == g * S_SIGN
  <1>0. /\ F \in Nat /\ S_BIAS \in Nat /\ S_IMPL \in Nat /\ S_IMPL > 0 /\ S_EXP \in Nat /\ S_SIGN \in Nat
        /\ Top \in Nat /\ Pow(FS) = S_IMPL /\ sign \in Nat
    BY SingleFormat, Widths
  <1>1. p.exp \in Int /\ A \in Nat /\ p.sig \in Nat /\ D_IMPL <= p.sig /\ p.sig < 2 * D_IMPL
    BY DEF Operand, Scaled
  <1>2. E \in Int /\ E >= 0 /\ p.exp + F = E + 1 - S_BIAS
    BY <1>0, <1>1
  <1>3. /\ E \in Nat /\ E + 2 <= Top /\ E + Widening <= Top /\ Placed(m, FS, E, c.q)
        /\ IsCut(2 * A, Pow(E + Widening), 2 * c.q + c.g, c.s)
    BY <1>2, TruncNormal
  <1>4. /\ c.q \in Nat /\ S_IMPL <= c.q /\ c.q < 2 * S_IMPL /\ c.g \in {0, 1} /\ (c.g = 1 => p.sig % z # 0)
    BY <1>1, FirstCut
  <1>5. Bit(RoundsUp(c.q, c.g, s)) = c.g
    <2>1. CASE c.g = 1
      <3>1. s = 1
        BY <1>4, <2>1 DEF Bit
      <3> QED
        BY <2>1, <3>1, Zenon DEF RoundsUp, Bit
    <2>2. CASE c.g = 0
      <3>1. ~ RoundsUp(c.q, c.g, s)
        BY <2>2 DEF RoundsUp
      <3> QED
        BY <2>2, <3>1, Zenon DEF Bit
    <2> QED
      BY <1>4, <2>1, <2>2
  <1> HIDE DEF E, A, z, sign
  <1>6. up \in Nat /\ S_IMPL <= up /\ up <= 2 * S_IMPL /\ m \in Nat /\ E * S_IMPL + up = m + c.g
    BY <1>0, <1>3, <1>4
  <1>7. TruncatedNormal(sign, E + 1 - S_BIAS, up) = sign + n
    <2> HIDE DEF up
    <2> QED
      BY <1>0, <1>3, <1>6, TruncatedNormalIs
  <1>8. NearestSingle(n, A) /\ TieSingle(n, A, A >= SingleAmount(S_IMPL))
    <2>1. /\ SingleAmount(m) <= A /\ A < SingleAmount(m + 1)
          /\ SingleAmount(m) \in Nat /\ SingleAmount(m + 1) \in Nat
          /\ c.g = 0 => 2 * A < SingleAmount(m) + SingleAmount(m + 1)
          /\ c.g = 1 => SingleAmount(m) + SingleAmount(m + 1) <= 2 * A
      <3> HIDE DEF m
      <3> QED
        BY <1>1, <1>3, <1>4, SingleFromCut
    <2>2. m <= Top * Pow(FS)
      <3>1. m < (E + 2) * S_IMPL /\ (E + 2) * S_IMPL <= Top * S_IMPL /\ (E + 2) * S_IMPL \in Nat /\ Top * S_IMPL \in Nat
        <4>1. (E + 2) * S_IMPL = E * S_IMPL + 2 * S_IMPL /\ E * S_IMPL \in Nat
          BY <1>0, <1>3
        <4>2. (E + 2) * S_IMPL <= Top * S_IMPL
          BY <1>0, <1>3, ProductsOrder
        <4> QED
          BY <1>0, <1>3, <1>4, <4>1, <4>2
      <3> HIDE DEF m
      <3> QED
        BY <1>0, <1>6, <3>1
    <2>5. A >= SingleAmount(S_IMPL)
      <3>1. S_IMPL <= m
        <4>1. E * S_IMPL \in Nat
          BY <1>0, <1>3
        <4> QED
          BY <1>0, <1>4, <4>1
      <3> HIDE DEF m
      <3>2. S_IMPL < m => SingleAmount(S_IMPL) \in Nat /\ SingleAmount(S_IMPL) < SingleAmount(m)
        BY <1>0, <1>6, <2>2, SinglesGrow
      <3> QED
        BY <1>0, <1>1, <1>6, <2>1, <3>1, <3>2
    <2>3. CASE m + c.g <= S_EXP
      <3>1. NearestSingle(m + c.g, A) /\ TieSingle(m + c.g, A, TRUE)
        <4> HIDE DEF m
        <4>1. c.g = 0 => 2 * A <= SingleAmount(m) + SingleAmount(m + 1)
          BY <1>1, <2>1
        <4>2. NearestSingle(m + c.g, A)
          BY <1>1, <1>4, <1>6, <2>1, <2>3, <4>1, EitherIsNearest
        <4>3. 2 * A = SingleAmount(m) + SingleAmount(m + 1) => c.g = 1
          BY <1>1, <1>4, <2>1
        <4>4. TieSingle(m + c.g, A, TRUE)
          BY <1>1, <1>4, <1>6, <2>1, <2>3, <4>3, EitherAtTie
        <4> QED
          BY <4>2, <4>4
      <3>2. n = m + c.g
        <4> HIDE DEF m, up
        <4> QED
          BY <1>0, <1>4, <1>6, <2>3
      <3> QED
        BY <2>5, <3>1, <3>2
    <2>4. CASE m + c.g > S_EXP
      <3>1. n = S_EXP /\ m >= S_EXP
        <4> HIDE DEF m, up
        <4> QED
          BY <1>0, <1>4, <1>6, <2>4
      <3> HIDE DEF m
      <3>2. NearestSingle(S_EXP, A) /\ TieSingle(S_EXP, A, TRUE)
        BY <1>1, <1>6, <2>1, <2>2, <3>1, OverflowIsNearestSingle
      <3> QED
        BY <2>5, <3>1, <3>2
    <2> HIDE DEF m
    <2> QED
      BY <1>0, <1>4, <1>6, <2>3, <2>4
  <1> HIDE DEF n, up, m
  <1>9. n \in Nat
    BY <1>8 DEF NearestSingle
  <1>10. TruncatedNormal(g * S_SIGN, p.exp + F, c.q + Bit(RoundsUp(c.q, c.g, s))) = g * S_SIGN + n
    BY <1>2, <1>5, <1>7 DEF up, sign
  <1> QED
    BY <1>8, <1>9, <1>10 DEF TruncatesTo, A

(* One that is cut further is rounded to even. *)
LEMMA TruncatesSubnormal ==
  ASSUME NEW v, NEW p, NEW i, NEW j, Operand(v, p, i, j), p.exp + F < 1 - S_BIAS,
         NEW g \in {0, 1}, NEW s, s = Bit(p.sig % Pow(F - FS) # 0),
         NEW c, c = Cut(Cut(p.sig, F - FS, 0).q, 1 - S_BIAS - (p.exp + F), s)
  PROVE  TruncatesTo(g * S_SIGN + (c.q + Bit(RoundsUp(c.q, c.g, c.s))), g, DoubleAmount(v))
  <1> DEFINE A == DoubleAmount(v)
             extra == 1 - S_BIAS - (p.exp + F)
             b == Bit(RoundsUp(c.q, c.g, c.s))
  <1>0. /\ F \in Nat /\ S_BIAS \in Nat /\ S_IMPL \in Nat /\ S_IMPL > 0 /\ S_EXP \in Nat /\ S_IMPL <= S_EXP
        /\ 0 + Widening <= Top
    <2>1. /\ S_IMPL \in Nat /\ S_EXP = (Pow(XS) - 1) * S_IMPL /\ Pow(XS) \in Nat /\ Pow(XS) > 3
      BY SingleFormat
    <2> DEFINE n == Pow(XS)
               k == S_IMPL
    <2> HIDE DEF n, k
    <2>2. 1 * k <= (n - 1) * k
      <3>1. n \in Nat /\ n > 3 /\ k \in Nat
        BY <2>1 DEF n, k
      <3>2. n - 1 \in Nat /\ 1 <= n - 1
        BY <3>1
      <3> QED
        BY <3>1, <3>2, ProductsOrder
    <2>3. S_IMPL <= S_EXP
      BY <2>1, <2>2 DEF n, k
    <2> QED
      BY <2>3, SingleFormat, Widths
  <1>1. p.exp \in Int /\ A \in Nat
    BY DEF Operand, Scaled
  <1>2. extra \in Int /\ extra > 0
    BY <1>0, <1>1
  <1>3. /\ c.q \in Nat /\ c.q < S_IMPL /\ c.g \in {0, 1} /\ c.s \in {0, 1} /\ Placed(c.q, FS, 0, c.q)
        /\ IsCut(2 * A, Pow(0 + Widening), 2 * c.q + c.g, c.s)
    BY <1>2, TruncSubnormal
  <1> HIDE DEF A, extra
  <1>4. /\ SingleAmount(c.q) <= A /\ A < SingleAmount(c.q + 1)
        /\ SingleAmount(c.q) \in Nat /\ SingleAmount(c.q + 1) \in Nat
        /\ c.g = 0 => 2 * A < SingleAmount(c.q) + SingleAmount(c.q + 1)
        /\ c.g = 1 => SingleAmount(c.q) + SingleAmount(c.q + 1) <= 2 * A
        /\ c.g = 1 /\ c.s = 0 => SingleAmount(c.q) + SingleAmount(c.q + 1) = 2 * A
        /\ c.g = 1 /\ c.s = 1 => SingleAmount(c.q) + SingleAmount(c.q + 1) < 2 * A
    <2> DEFINE E == 0
               q == c.q
               h == c.g
               t == c.s
    <2>1. /\ Placed(q, FS, E, q) /\ IsCut(2 * A, Pow(E + Widening), 2 * q + h, t) /\ E + Widening <= Top
          /\ h \in {0, 1}
      BY <1>0, <1>3
    <2> HIDE DEF E, q, h, t
    <2>2. /\ SingleAmount(q) <= A /\ A < SingleAmount(q + 1)
          /\ SingleAmount(q) \in Nat /\ SingleAmount(q + 1) \in Nat
          /\ h = 0 => 2 * A < SingleAmount(q) + SingleAmount(q + 1)
          /\ h = 1 => SingleAmount(q) + SingleAmount(q + 1) <= 2 * A
          /\ h = 1 /\ t = 0 => SingleAmount(q) + SingleAmount(q + 1) = 2 * A
          /\ h = 1 /\ t = 1 => SingleAmount(q) + SingleAmount(q + 1) < 2 * A
      BY <1>1, <2>1, SingleFromCut
    <2> QED
      BY <2>2 DEF q, h, t
  <1>5. /\ b \in {0, 1} /\ (b = 1 => c.g = 1) /\ (b = 0 => c.g = 0 \/ c.s = 0)
        /\ (b = 1 => c.s = 1 \/ c.q % 2 = 1) /\ (b = 0 /\ c.g = 1 => c.q % 2 # 1)
    <2>1. b \in {0, 1} /\ (b = 1 <=> RoundsUp(c.q, c.g, c.s))
      BY DEF Bit
    <2>2. RoundsUp(c.q, c.g, c.s) => c.g = 1
      BY DEF RoundsUp
    <2>3. c.g = 1 /\ (c.s = 1 \/ c.q % 2 = 1) <=> RoundsUp(c.q, c.g, c.s)
      BY DEF RoundsUp
    <2>4. (c.g = 0 \/ c.g = 1) /\ (c.s = 0 \/ c.s = 1) /\ ~ (0 = 1)
      BY <1>3
    <2> HIDE DEF b
    <2> QED
      BY <2>1, <2>2, <2>3, <2>4, Zenon
  <1> HIDE DEF b
  <1>6. b = 1 => SingleAmount(c.q) + SingleAmount(c.q + 1) <= 2 * A
    BY <1>4, <1>5
  <1>7. b = 0 => 2 * A <= SingleAmount(c.q) + SingleAmount(c.q + 1)
    BY <1>1, <1>3, <1>4, <1>5
  <1>8. c.q + b <= S_EXP /\ c.q + b \in Nat
    BY <1>0, <1>3, <1>5
  <1>9. NearestSingle(c.q + b, A)
    BY <1>1, <1>3, <1>4, <1>5, <1>6, <1>7, <1>8, EitherIsNearest
  <1>10. ~ (A >= SingleAmount(S_IMPL))
    <2>1. c.q + 1 = S_IMPL \/ c.q + 1 < S_IMPL
      BY <1>0, <1>3
    <2>2. S_IMPL <= Top * Pow(FS)
      <3>1. S_EXP < Top * Pow(FS) /\ Top * Pow(FS) \in Nat
        BY SingleFormat, Widths
      <3> QED
        BY <1>0, <3>1
    <2>3. c.q + 1 < S_IMPL => SingleAmount(S_IMPL) \in Nat /\ SingleAmount(c.q + 1) < SingleAmount(S_IMPL)
      <3>1. c.q + 1 \in Nat
        BY <1>3
      <3> QED
        BY <1>0, <2>2, <3>1, SinglesGrow
    <2> QED
      BY <1>1, <1>4, <2>1, <2>3
  <1>11. ASSUME 2 * A = SingleAmount(c.q) + SingleAmount(c.q + 1)
         PROVE  IF b = 1 THEN FALSE \/ (c.q + 1) % 2 = 0 ELSE ~ FALSE /\ c.q % 2 = 0
    <2>1. c.g = 1 /\ c.s = 0
      BY <1>1, <1>3, <1>4, <1>11
    <2>2. b = 1 => c.q % 2 = 1
      BY <1>5, <2>1
    <2>3. b = 0 => c.q % 2 # 1
      BY <1>5, <2>1
    <2> QED
      BY <1>3, <1>5, <2>2, <2>3
  <1>12. TieSingle(c.q + b, A, FALSE)
    <2> DEFINE away == FALSE
    <2>1. away \in BOOLEAN /\ ~ away
      OBVIOUS
    <2>2. 2 * A = SingleAmount(c.q) + SingleAmount(c.q + 1) =>
            IF b = 1 THEN away \/ (c.q + 1) % 2 = 0 ELSE ~ away /\ c.q % 2 = 0
      BY <1>11
    <2> HIDE DEF away
    <2>3. TieSingle(c.q + b, A, away)
      BY <1>1, <1>3, <1>4, <1>5, <1>8, <2>1, <2>2, EitherAtTie
    <2> QED
      BY <2>3 DEF away
  <1>13. TieSingle(c.q + b, A, A >= SingleAmount(S_IMPL))
    BY <1>10, <1>12 DEF TieSingle
  <1> QED
    BY <1>8, <1>9, <1>13 DEF TruncatesTo, b, A

(* A double becomes a float nearest to it, whatever its size. *)
LEMMA TruncatesNearest ==
  ASSUME NEW v \in Double, IsFinite(v)
  PROVE  TruncatesTo(__truncdfsf2(v), Sign(v), DoubleAmount(v))
  <1> DEFINE p == df_unpack(v)
             g == Sign(v)
             fe == p.exp + F
             c == Cut(p.sig, F - FS, 0)
             s == Bit(p.sig % Pow(F - FS) # 0)
             d == Cut(c.q, 1 - S_BIAS - fe, s)
             r == __truncdfsf2(v)
  <1>0. S_SIGN \in Nat /\ S_BIAS \in Nat /\ F \in Nat /\ S_EXP \in Nat /\ S_EXP > 0
    BY SingleFormat, Widths
  <1>1. /\ g \in {0, 1} /\ (p.zero <=> IsZero(v)) /\ (IsZero(v) => DoubleAmount(v) = 0)
        /\ ~ IsZero(v) => \E i, j \in Nat : Operand(v, p, i, j)
    BY Unpacked
  <1>2. /\ p.zero => r = g * S_SIGN
        /\ ~ p.zero /\ ~ BelowNormal(fe) =>
             r = TruncatedNormal(g * S_SIGN, fe, c.q + Bit(RoundsUp(c.q, c.g, s)))
        /\ ~ p.zero /\ BelowNormal(fe) => r = g * S_SIGN + (d.q + Bit(RoundsUp(d.q, d.g, d.s)))
    BY TruncIs
  <1> HIDE DEF p, g, c, s, d, r
  <1>3. CASE p.zero
    <2>1. r = g * S_SIGN + 0
      BY <1>0, <1>1, <1>2, <1>3
    <2>2. NearestSingle(0, 0) /\ TieSingle(0, 0, 0 >= SingleAmount(S_IMPL))
      <3>1. SingleAmount(0) \in Nat /\ SingleAmount(0 + 1) \in Nat /\ SingleAmount(0) < SingleAmount(0 + 1)
        <4>1. 0 \in Nat /\ 1 \in Nat /\ 0 < 1 /\ 0 + 1 = 1 /\ 1 <= Top * Pow(FS)
          <5>1. S_EXP < Top * Pow(FS) /\ Top * Pow(FS) \in Nat
            BY SingleFormat, Widths
          <5> QED
            BY <1>0, <5>1
        <4> QED
          BY <4>1, SinglesGrow
      <3>2. \A k \in Nat : 0 # k + 1
        OBVIOUS
      <3>3. 0 <= S_EXP /\ 2 * 0 < SingleAmount(0) + SingleAmount(0 + 1)
        BY <1>0, <3>1
      <3>4. NearestSingle(0, 0)
        BY <3>1, <3>2, <3>3 DEF NearestSingle
      <3>5. TieSingle(0, 0, 0 >= SingleAmount(S_IMPL))
        BY <3>1, <3>2, <3>3 DEF TieSingle
      <3> QED
        BY <3>4, <3>5
    <2>3. DoubleAmount(v) = 0
      BY <1>1, <1>3
    <2> QED
      BY <2>1, <2>2, <2>3 DEF TruncatesTo, r, g
  <1>4. CASE ~ p.zero
    <2>1. PICK i, j \in Nat : Operand(v, p, i, j)
      BY <1>1, <1>4
    <2>2. p.exp \in Int
      BY <2>1 DEF Operand, Scaled
    <2>3. CASE BelowNormal(fe)
      <3>1. fe < 1 - S_BIAS
        BY <2>3 DEF BelowNormal
      <3>2. TruncatesTo(g * S_SIGN + (d.q + Bit(RoundsUp(d.q, d.g, d.s))), g, DoubleAmount(v))
        BY <1>1, <2>1, <3>1, TruncatesSubnormal DEF s, d, c
      <3> QED
        BY <1>2, <1>4, <2>3, <3>2 DEF r, g
    <2>4. CASE ~ BelowNormal(fe)
      <3>1. fe >= 1 - S_BIAS
        BY <1>0, <2>2, <2>4 DEF BelowNormal
      <3>2. TruncatesTo(TruncatedNormal(g * S_SIGN, fe, c.q + Bit(RoundsUp(c.q, c.g, s))), g, DoubleAmount(v))
        BY <1>1, <2>1, <3>1, TruncatesNormal DEF s, c
      <3> QED
        BY <1>2, <1>4, <2>4, <3>2 DEF r, g
    <2> QED
      BY <2>3, <2>4
  <1> QED
    BY <1>3, <1>4

(* The parts of a float, and which of its patterns are numbers. *)
LEMMA SingleParts ==
  ASSUME NEW a \in Single
  PROVE  LET g == a \div S_SIGN
             n == Pow(XS)
             exp == (a \div S_IMPL) % n
             frac == a % S_IMPL
             m == a % S_SIGN
         IN  /\ g \in {0, 1} /\ exp \in Nat /\ exp < n /\ frac \in Nat /\ frac < S_IMPL
             /\ m \in Nat /\ m = exp * S_IMPL + frac /\ a = g * S_SIGN + m
             /\ m < S_EXP <=> exp # n - 1
             /\ m = S_EXP <=> exp = n - 1 /\ frac = 0
             /\ m > S_EXP <=> exp = n - 1 /\ frac # 0
  <1> DEFINE m == a % S_SIGN
             n == Pow(XS)
             p == S_IMPL
             g == a \div S_SIGN
             exp == m \div p
             frac == m % p
  <1>0. /\ n \in Nat /\ n > 3 /\ p \in Nat /\ p > 0 /\ S_SIGN = n * p /\ S_SIGN \in Nat
        /\ S_SIGN > 0 /\ a \in Nat /\ a < 2 * S_SIGN /\ S_EXP = (n - 1) * p /\ S_EXP \in Nat
    BY SingleFormat DEF Single
  <1>1. g \in Nat /\ m \in Nat /\ m < S_SIGN /\ a = g * S_SIGN + m
    BY <1>0, Divided
  <1>2. g < 2
    BY <1>0, QuotientBounds
  <1>4. exp \in Nat /\ frac \in Nat /\ frac < p /\ m = exp * p + frac
    BY <1>0, <1>1, Divided
  <1>5. exp < n
    BY <1>0, <1>1, QuotientBounds
  <1>6. a \div p = g * n + exp /\ a % p = frac
    <2> HIDE DEF g, m, exp, frac, n, p
    <2>1. a = (g * n + exp) * p + frac
      <3>1. g * (n * p) = (g * n) * p /\ (g * n) * p + exp * p = (g * n + exp) * p
        BY <1>0, <1>1, <1>4
      <3> QED
        BY <1>0, <1>1, <1>4, <3>1
    <2>2. g * n + exp \in Nat
      BY <1>0, <1>1, <1>4
    <2> QED
      BY <1>0, <1>4, <2>1, <2>2, DividedUnique
  <1>7. (g * n + exp) % n = exp
    <2> HIDE DEF g, m, exp, frac, n, p
    <2> QED
      BY <1>0, <1>1, <1>4, <1>5, DividedUnique
  <1>8. g \in {0, 1}
    BY <1>1, <1>2
  <1>9. (a \div S_IMPL) % Pow(XS) = exp /\ a % S_IMPL = frac
    BY <1>6, <1>7
  <1>10. /\ exp # n - 1 => m < S_EXP
         /\ exp = n - 1 /\ frac = 0 => m = S_EXP
         /\ exp = n - 1 /\ frac # 0 => m > S_EXP
    <2> HIDE DEF g, m, exp, frac, n, p
    <2>1. ASSUME exp # n - 1 PROVE m < S_EXP
      <3>1. exp + 1 <= n - 1 /\ exp + 1 \in Nat /\ n - 1 \in Nat
        BY <1>0, <1>4, <1>5, <2>1
      <3>2. (exp + 1) * p <= (n - 1) * p /\ (exp + 1) * p = exp * p + p /\ exp * p \in Nat
        BY <1>0, <1>4, <3>1, ProductsOrder
      <3> QED
        BY <1>0, <1>4, <3>2
    <2>2. exp = n - 1 => m = S_EXP + frac
      BY <1>0, <1>4
    <2> QED
      BY <1>0, <1>4, <2>1, <2>2
  <1> HIDE DEF g, m, exp, frac, n, p
  <1>11. /\ m < S_EXP <=> exp # n - 1
         /\ m = S_EXP <=> exp = n - 1 /\ frac = 0
         /\ m > S_EXP <=> exp = n - 1 /\ frac # 0
    BY <1>0, <1>1, <1>10
  <1> QED
    BY <1>1, <1>4, <1>5, <1>8, <1>9, <1>11 DEF n, p, g, m

(* Infinities stay infinities, and NaNs NaNs. *)
LEMMA TruncatesSpecials ==
  ASSUME NEW v \in Double
  PROVE  /\ IsInfinite(v) => __truncdfsf2(v) = Sign(v) * S_SIGN + S_EXP
         /\ df_is_nan(v) => __truncdfsf2(v) % S_SIGN > S_EXP
  <1> DEFINE p == df_unpack(v)
             sign == Sign(v) * S_SIGN
             h == S_IMPL \div 2
  <1>1. /\ IsNaN(p) <=> df_is_nan(v)
        /\ IsInf(p) <=> IsInfinite(v)
        /\ Sign(v) \in {0, 1}
    BY SpecialParts, PatternParts
  <1>2. ~ (IsNaN(p) /\ IsInf(p))
    BY DEF IsNaN, IsInf
  <1>3. /\ IsInf(p) => __truncdfsf2(v) = sign + S_EXP
        /\ IsNaN(p) => __truncdfsf2(v) = sign + S_EXP + h
    <2>1. \E r : __truncdfsf2(v) =
            CASE IsInf(p) -> sign + S_EXP
              [] IsNaN(p) -> sign + S_EXP + h
              [] p.zero -> sign
              [] OTHER -> r
      BY Zenon DEF __truncdfsf2
    <2>2. IsInf(p) \/ IsNaN(p) => ~ p.zero
      BY <1>1, SpecialParts
    <2> HIDE DEF p, sign, h
    <2>3. PICK r : __truncdfsf2(v) =
            CASE IsInf(p) -> sign + S_EXP
              [] IsNaN(p) -> sign + S_EXP + h
              [] p.zero -> sign
              [] OTHER -> r
      BY <2>1, Zenon
    <2>4. IsInf(p) => __truncdfsf2(v) = sign + S_EXP
      BY <1>2, <2>2, <2>3, Zenon
    <2>5. IsNaN(p) => __truncdfsf2(v) = sign + S_EXP + h
      BY <1>2, <2>2, <2>3, Zenon
    <2> QED
      BY <2>4, <2>5, Zenon
  <1>4. h \in Nat /\ h > 0 /\ h < S_IMPL
    <2>1. S_IMPL = 2 * Pow(FS - 1) /\ Pow(FS - 1) \in Nat /\ Pow(FS - 1) > 0
      BY SingleFormat, Widths, PowersHalve
    <2> DEFINE k == Pow(FS - 1)
    <2> HIDE DEF k
    <2>2. S_IMPL = k * 2 + 0 /\ k \in Nat /\ k > 0
      BY <2>1 DEF k
    <2>3. h = k
      BY <2>2, DividedUnique
    <2> QED
      BY <2>2, <2>3
  <1>5. ASSUME df_is_nan(v) PROVE __truncdfsf2(v) % S_SIGN > S_EXP
    <2> DEFINE b == S_EXP + h
    <2>1. S_SIGN = S_EXP + S_IMPL /\ S_IMPL \in Nat /\ S_EXP \in Nat /\ S_SIGN \in Nat /\ S_SIGN > 0
      <3> DEFINE n == Pow(XS)
                 k == S_IMPL
      <3>1. n \in Nat /\ k \in Nat /\ S_SIGN = n * k /\ S_EXP = (n - 1) * k
        BY SingleFormat
      <3> HIDE DEF n, k
      <3>2. n * k = (n - 1) * k + k
        BY <3>1
      <3> QED
        BY <3>1, <3>2, SingleFormat DEF k
    <2> HIDE DEF h
    <2>2. b \in Nat /\ b < S_SIGN /\ b > S_EXP
      BY <1>4, <2>1
    <2>3. __truncdfsf2(v) = Sign(v) * S_SIGN + b
      <3>1. __truncdfsf2(v) = sign + S_EXP + h
        BY <1>1, <1>3, <1>5
      <3>2. Sign(v) \in Nat /\ sign \in Nat
        BY <1>1, <2>1
      <3> HIDE DEF sign
      <3>3. sign + S_EXP + h = sign + b
        BY <1>4, <2>1, <3>2
      <3> QED
        BY <3>1, <3>3 DEF sign
    <2> HIDE DEF b
    <2>4. Sign(v) \in Nat
      BY <1>1
    <2>5. __truncdfsf2(v) % S_SIGN = b
      BY <2>1, <2>2, <2>3, <2>4, DividedUnique
    <2> QED
      BY <2>2, <2>5
  <1> QED
    BY <1>1, <1>3, <1>5

(* The only float nearest to a float is itself. *)
LEMMA NearestToItself ==
  ASSUME NEW m \in Nat, m < S_EXP, NEW n, NearestSingle(n, SingleAmount(m))
  PROVE  n = m
  <1> DEFINE L == Top * Pow(FS)
             A(k) == SingleAmount(k)
  <1>0. S_EXP \in Nat /\ S_EXP < L /\ L \in Nat
    BY SingleFormat, Widths
  <1>1. /\ n \in Nat /\ n <= S_EXP
        /\ \A k \in Nat : n = k + 1 => A(k) + A(n) <= 2 * A(m)
        /\ n < S_EXP => 2 * A(m) <= A(n) + A(n + 1)
    BY DEF NearestSingle
  <1>2. \A i, k \in Nat : i < k /\ k <= L => A(i) \in Nat /\ A(k) \in Nat /\ A(i) < A(k)
    BY SinglesGrow
  <1> HIDE DEF A, L
  <1>3. CASE n < m
    <2>1. n + 1 \in Nat /\ n + 1 <= m /\ n < n + 1 /\ m <= L /\ n < S_EXP /\ n + 1 <= L
      BY <1>0, <1>1, <1>3
    <2>2. A(n) < A(m) /\ A(n) \in Nat /\ A(m) \in Nat
      BY <1>1, <1>2, <1>3, <2>1
    <2>3. A(n + 1) <= A(m) /\ A(n + 1) \in Nat
      <3>1. CASE n + 1 = m
        BY <2>2, <3>1
      <3>2. CASE n + 1 < m
        BY <1>2, <2>1, <3>2
      <3> QED
        BY <1>1, <2>1, <3>1, <3>2
    <2>4. 2 * A(m) <= A(n) + A(n + 1)
      BY <1>1, <2>1
    <2> QED
      BY <2>2, <2>3, <2>4
  <1>4. CASE n > m
    <2> DEFINE k == n - 1
    <2>1. k \in Nat /\ n = k + 1 /\ m <= k /\ k <= L /\ n <= L
      BY <1>0, <1>1, <1>4
    <2>2. A(m) < A(n) /\ A(n) \in Nat /\ A(m) \in Nat
      BY <1>1, <1>2, <1>4, <2>1
    <2> HIDE DEF k
    <2>3. A(m) <= A(k) /\ A(k) \in Nat
      <3>1. CASE m = k
        BY <2>2, <3>1
      <3>2. CASE m < k
        BY <1>2, <2>1, <3>2
      <3> QED
        BY <2>1, <3>1, <3>2
    <2>4. A(k) + A(n) <= 2 * A(m)
      BY <1>1, <2>1
    <2> QED
      BY <2>2, <2>3, <2>4
  <1> QED
    BY <1>1, <1>3, <1>4

(* A float's fraction in the place of a double's. *)
LEMMA Widened ==
  ASSUME NEW h \in Nat, h < S_IMPL
  PROVE  LET z == Pow(F - FS)
         IN  /\ z \in Nat /\ z > 0 /\ D_IMPL = S_IMPL * z /\ h * z \in Nat /\ h * z < D_IMPL
             /\ h # 0 => h * z # 0
  <1> DEFINE z == Pow(F - FS)
  <1>0. /\ F \in Nat /\ FS \in Nat /\ FS < F /\ Top \in Nat /\ F < Top /\ S_IMPL = Pow(FS)
        /\ S_IMPL \in Nat /\ D_IMPL = Pow(F)
    BY SingleFormat, Widths, Patterns
  <1>1. F - FS \in Nat /\ F - FS \in 0 .. Top /\ FS + (F - FS) = F
    BY <1>0
  <1>2. z \in Nat /\ z > 0
    BY <1>1, PowersInUse
  <1>3. D_IMPL = S_IMPL * z
    <2>1. Pow(FS + (F - FS)) = Pow(FS) * Pow(F - FS)
      BY <1>0, <1>1, PowersMultiply
    <2> QED
      BY <1>0, <1>1, <2>1
  <1> HIDE DEF z
  <1>4. h * z \in Nat /\ h * z < S_IMPL * z /\ (h # 0 => h * z # 0)
    BY <1>0, <1>2, ProductsOrder
  <1> QED
    BY <1>2, <1>3, <1>4 DEF z

(* A double made of a float's fraction. *)
LEMMA ExtendedAmount ==
  ASSUME NEW g \in {0, 1}, NEW f \in Nat, f > 0, f < Pow(X) - 1, NEW h \in Nat, h < S_IMPL,
         NEW r, r = Signed(g) + f * D_IMPL + h * Pow(F - FS)
  PROVE  /\ r \in Double /\ IsFinite(r) /\ Sign(r) = g
         /\ DoubleAmount(r) = (h + S_IMPL) * Pow((F - FS) + (f - 1))
  <1> DEFINE z == Pow(F - FS)
             e == Pow(f - 1)
  <1>0. /\ F \in Nat /\ FS \in Nat /\ FS < F /\ Top \in Nat /\ F < Top /\ Pow(X) \in Nat /\ S_IMPL \in Nat
        /\ Top = 2 * Pow(X) + 4 * F /\ D_IMPL \in Nat
    BY SingleFormat, Widths, Patterns
  <1>1. /\ z \in Nat /\ z > 0 /\ D_IMPL = S_IMPL * z /\ h * z \in Nat /\ h * z < D_IMPL
    BY Widened
  <1>2. f < Pow(X) /\ f # Pow(X) - 1 /\ f # 0
    BY <1>0
  <1>3. r \in Double /\ Sign(r) = g /\ Field(r) = f /\ Fraction(r) = h * z
    <2> DEFINE k == h * z
    <2>1. k \in Nat /\ k < D_IMPL /\ r = Signed(g) + f * D_IMPL + k
      BY <1>1
    <2> HIDE DEF k
    <2> QED
      BY <1>2, <2>1, PatternOf DEF k
  <1>4. IsFinite(r)
    BY <1>2, <1>3 DEF IsFinite, Pow
  <1>5. DoubleAmount(r) = (h * z + D_IMPL) * e
    BY <1>2, <1>3, <1>4, NormalAmount
  <1>6. F - FS \in Nat /\ f - 1 \in Nat /\ (F - FS) + (f - 1) <= Top /\ f - 1 \in 0 .. Top
    BY <1>0
  <1>7. Pow((F - FS) + (f - 1)) = z * e
    BY <1>6, PowersMultiply
  <1>8. e \in Nat
    BY <1>6, PowersInUse
  <1> HIDE DEF z, e
  <1>9. (h * z + S_IMPL * z) * e = (h + S_IMPL) * (z * e)
    BY <1>0, <1>1, <1>8
  <1> QED
    BY <1>1, <1>3, <1>4, <1>5, <1>7, <1>9

(* How far a subnormal fraction moves. *)
LEMMA NormalizingShiftIs ==
  ASSUME NEW frac \in Nat, frac > 0, frac < S_IMPL
  PROVE  LET k == NormalizingShift(frac)
         IN  /\ k \in Nat /\ k > 0 /\ k <= FS /\ frac * Pow(k) \in Nat
             /\ S_IMPL <= frac * Pow(k) /\ frac * Pow(k) < 2 * S_IMPL
  <1> DEFINE t == df_msb(frac)
             k == FS - t
             z == Pow(k)
  <1>0. /\ FS \in Nat /\ FS > 0 /\ FS < Top /\ Top \in Nat /\ WB \in Nat /\ S_IMPL = Pow(FS) /\ S_IMPL \in Nat
        /\ F \in Nat /\ FS < F /\ F <= 2 * WB + 1 /\ 2 * WB + 1 <= Top
    BY SingleFormat, Widths, Patterns, Powers
  <1>1. FS \in 0 .. Top /\ 2 * WB + 1 \in 0 .. Top /\ FS <= 2 * WB + 1
    BY <1>0
  <1>2. Pow(FS) <= Pow(2 * WB + 1) /\ Pow(2 * WB + 1) \in Nat
    BY <1>1, PowersInUse
  <1>3. frac < Pow(2 * WB + 1)
    BY <1>0, <1>2
  <1>4. t \in 0 .. 2 * WB /\ Pow(t) <= frac /\ frac < Pow(t + 1)
    BY <1>3, HighestBit
  <1> HIDE DEF t
  <1>5. t < FS
    <2>1. CASE t >= FS
      <3>1. t \in 0 .. Top
        BY <1>0, <1>4
      <3>2. Pow(FS) <= Pow(t) /\ Pow(t) \in Nat
        BY <1>1, <2>1, <3>1, PowersInUse
      <3> QED
        BY <1>0, <1>4, <3>2
    <2> QED
      BY <1>0, <1>4, <2>1
  <1>6. /\ k \in Nat /\ k > 0 /\ k <= FS /\ t \in Nat /\ t + k = FS /\ t + 1 + k = FS + 1 /\ t + 1 \in Nat
        /\ k \in 0 .. Top /\ t \in 0 .. Top /\ t + 1 \in 0 .. Top /\ FS + 1 <= Top
    BY <1>0, <1>4, <1>5
  <1>7. NormalizingShift(frac) = k
    BY DEF NormalizingShift, t
  <1> HIDE DEF k
  <1>8. z \in Nat /\ z > 0 /\ Pow(FS + 1) = 2 * S_IMPL /\ Pow(t) \in Nat /\ Pow(t + 1) \in Nat
    BY <1>0, <1>1, <1>6, PowersInUse
  <1>9. Pow(t) * z = S_IMPL /\ Pow(t + 1) * z = 2 * S_IMPL
    <2>1. Pow(t + k) = Pow(t) * z
      BY <1>0, <1>6, PowersMultiply
    <2>2. Pow(t + 1 + k) = Pow(t + 1) * z
      BY <1>0, <1>6, PowersMultiply
    <2> QED
      BY <1>0, <1>6, <1>8, <2>1, <2>2
  <1> HIDE DEF z
  <1>10. Pow(t) * z <= frac * z /\ frac * z < Pow(t + 1) * z /\ frac * z \in Nat
    BY <1>4, <1>8, ProductsOrder
  <1> QED
    BY <1>6, <1>7, <1>9, <1>10 DEF z

(* __extendsfdf2, case by case. *)
LEMMA ExtendIs ==
  ASSUME NEW a \in Single, NEW g, g = a \div S_SIGN, NEW exp, exp = (a \div S_IMPL) % Pow(XS),
         NEW frac, frac = a % S_IMPL
  PROVE  LET n == Pow(XS)
             sign == Signed(g)
             z == Pow(F - FS)
             k == NormalizingShift(frac)
             r == __extendsfdf2(a)
         IN  /\ exp = n - 1 /\ frac = 0 => r = sign + D_EXP
             /\ exp = n - 1 /\ frac # 0 => r = Quiet(sign + D_EXP + frac * z)
             /\ exp # n - 1 /\ exp = 0 /\ frac = 0 => r = sign
             /\ exp # n - 1 /\ exp = 0 /\ frac # 0 =>
                  r = sign + (1 - S_BIAS - k + D_BIAS) * D_IMPL + ((frac * Pow(k)) % S_IMPL) * z
             /\ exp # n - 1 /\ exp # 0 => r = sign + (exp + D_BIAS - S_BIAS) * D_IMPL + frac * z
  <1> DEFINE n == Pow(XS)
             sign == Signed(g)
             z == Pow(F - FS)
             k == NormalizingShift(frac)
             r == __extendsfdf2(a)
             c1 == sign + D_EXP
             c2 == Quiet(sign + D_EXP + frac * z)
             c4 == sign + (1 - S_BIAS - k + D_BIAS) * D_IMPL + ((frac * Pow(k)) % S_IMPL) * z
             c5 == sign + (exp + D_BIAS - S_BIAS) * D_IMPL + frac * z
  <1>1. r = CASE exp = n - 1 /\ frac = 0 -> c1
              [] exp = n - 1 /\ frac # 0 -> c2
              [] exp = 0 /\ frac = 0 -> sign
              [] exp = 0 /\ frac # 0 -> c4
              [] OTHER -> c5
    BY DEF __extendsfdf2, Pow
  <1>2. n - 1 # 0
    BY SingleFormat
  <1> DEFINE l == n - 1
  <1> HIDE DEF n, sign, z, k, r, c1, c2, c4, c5, l
  <1>3. r = CASE exp = l /\ frac = 0 -> c1
              [] exp = l /\ frac # 0 -> c2
              [] exp = 0 /\ frac = 0 -> sign
              [] exp = 0 /\ frac # 0 -> c4
              [] OTHER -> c5
    BY <1>1, Zenon DEF l
  <1>4. l # 0
    BY <1>2 DEF l
  <1>5. exp = l /\ frac = 0 => r = c1
    BY <1>3, <1>4, Zenon
  <1>6. exp = l /\ frac # 0 => r = c2
    BY <1>3, <1>4, Zenon
  <1>7. exp # l /\ exp = 0 /\ frac = 0 => r = sign
    BY <1>3, <1>4, Zenon
  <1>8. exp # l /\ exp = 0 /\ frac # 0 => r = c4
    BY <1>3, <1>4, Zenon
  <1>9. exp # l /\ exp # 0 => r = c5
    BY <1>3, <1>4, Zenon
  <1> QED
    BY <1>5, <1>6, <1>7, <1>8, <1>9, Zenon DEF n, sign, z, k, r, c1, c2, c4, c5, l

(* r is a double with this sign and the value of the float m. *)
ExtendsTo(r, sign, m) ==
  r \in Double /\ IsFinite(r) /\ Sign(r) = sign /\ DoubleAmount(r) = SingleAmount(m)

(* The number that a pattern of a float stands for. *)
LEMMA SingleAmountAt ==
  ASSUME NEW E \in Nat, E < Top, NEW q \in Nat, q < 2 * S_IMPL, E = 0 \/ q >= S_IMPL, E + Widening <= Top
  PROVE  SingleAmount(E * S_IMPL + q) = q * Pow(E + Widening)
  <1> DEFINE w == Pow(Widening)
             e == Pow(E)
             m == E * S_IMPL + q
  <1>0. /\ FS \in Nat /\ FS > 0 /\ FS < Top /\ S_IMPL = Pow(FS) /\ Widening \in Nat /\ Widening \in 0 .. Top
        /\ Top \in Nat /\ S_IMPL \in Nat
    BY SingleFormat, Widths
  <1>1. q <= 2 * Pow(FS) /\ (E = 0 \/ q >= Pow(FS))
    BY <1>0
  <1>2. Amount(E * Pow(FS) + q, FS) = q * e
    BY <1>0, <1>1, AmountAt
  <1>3. SingleAmount(m) = Amount(m, FS) * w
    BY DEF SingleAmount, Widening, Pow
  <1>4. Pow(E + Widening) = e * w
    BY <1>0, PowersMultiply
  <1>5. e \in Nat /\ w \in Nat
    <2>1. E \in 0 .. Top
      BY <1>0
    <2> QED
      BY <1>0, <2>1, PowersInUse
  <1> HIDE DEF e, w
  <1>6. (q * e) * w = q * (e * w)
    BY <1>5
  <1> QED
    BY <1>0, <1>2, <1>3, <1>4, <1>6

(* Normal floats, subnormal ones and zeros keep their value. *)
LEMMA ExtendsNormal ==
  ASSUME NEW g \in {0, 1}, NEW exp \in Nat, exp > 0, exp < Pow(XS) - 1, NEW frac \in Nat, frac < S_IMPL,
         NEW r, r = Signed(g) + (exp + D_BIAS - S_BIAS) * D_IMPL + frac * Pow(F - FS)
  PROVE  ExtendsTo(r, g, exp * S_IMPL + frac)
  <1> DEFINE f == exp + D_BIAS - S_BIAS
             E == exp - 1
             q == frac + S_IMPL
  <1>0. /\ S_BIAS \in Nat /\ D_BIAS \in Nat /\ FS \in Nat /\ F \in Nat /\ S_BIAS + FS <= D_BIAS
        /\ Pow(XS) = 2 * S_BIAS + 2 /\ Pow(X) = 2 * D_BIAS + 2 /\ S_IMPL \in Nat /\ FS > 0 /\ FS < F
        /\ Widening = D_BIAS + F - S_BIAS - FS /\ Top = 2 * Pow(X) + 4 * F /\ Widening \in Nat
    BY SingleFormat, Widths, Patterns
  <1>1. f \in Nat /\ f > 0 /\ f < Pow(X) - 1
    BY <1>0
  <1>2. /\ E \in Nat /\ E < Top /\ E + Widening <= Top /\ q \in Nat /\ q < 2 * S_IMPL /\ q >= S_IMPL
        /\ E + Widening = (F - FS) + (f - 1)
    BY <1>0
  <1>3. E * S_IMPL + q = exp * S_IMPL + frac
    BY <1>0
  <1>4. r = Signed(g) + f * D_IMPL + frac * Pow(F - FS)
    OBVIOUS
  <1> HIDE DEF f
  <1>5. /\ r \in Double /\ IsFinite(r) /\ Sign(r) = g
        /\ DoubleAmount(r) = q * Pow((F - FS) + (f - 1))
    BY <1>1, <1>4, ExtendedAmount
  <1> HIDE DEF E, q
  <1>6. SingleAmount(E * S_IMPL + q) = q * Pow(E + Widening)
    BY <1>2, SingleAmountAt
  <1> QED
    BY <1>2, <1>3, <1>5, <1>6 DEF ExtendsTo

(* A subnormal float is a normal double. *)
LEMMA ExtendsSubnormal ==
  ASSUME NEW g \in {0, 1}, NEW frac \in Nat, frac > 0, frac < S_IMPL, NEW k, k = NormalizingShift(frac),
         NEW r, r = Signed(g) + (1 - S_BIAS - k + D_BIAS) * D_IMPL + ((frac * Pow(k)) % S_IMPL) * Pow(F - FS)
  PROVE  ExtendsTo(r, g, frac)
  <1> DEFINE f == 1 - S_BIAS - k + D_BIAS
             q == frac * Pow(k)
             h == q % S_IMPL
             b == (F - FS) + (f - 1)
  <1>0. /\ S_BIAS \in Nat /\ S_BIAS > 0 /\ D_BIAS \in Nat /\ FS \in Nat /\ F \in Nat /\ S_BIAS + FS <= D_BIAS
        /\ Pow(X) = 2 * D_BIAS + 2 /\ S_IMPL \in Nat /\ S_IMPL > 0 /\ FS > 0 /\ FS < F
        /\ Widening = D_BIAS + F - S_BIAS - FS /\ Top = 2 * Pow(X) + 4 * F /\ Widening \in Nat /\ Widening <= Top
    BY SingleFormat, Widths, Patterns
  <1>1. /\ k \in Nat /\ k > 0 /\ k <= FS /\ q \in Nat /\ S_IMPL <= q /\ q < 2 * S_IMPL
    BY NormalizingShiftIs
  <1>2. f \in Nat /\ f > 0 /\ f < Pow(X) - 1
    BY <1>0, <1>1
  <1>3. h \in Nat /\ h < S_IMPL /\ h + S_IMPL = q
    <2> DEFINE t == q - S_IMPL
    <2> HIDE DEF q
    <2>1. t \in Nat /\ t < S_IMPL /\ q = 1 * S_IMPL + t
      BY <1>0, <1>1
    <2> HIDE DEF t
    <2>2. h = t
      BY <1>0, <2>1, DividedUnique
    <2> QED
      BY <1>0, <2>1, <2>2
  <1>4. r = Signed(g) + f * D_IMPL + h * Pow(F - FS)
    OBVIOUS
  <1>5. b \in Nat /\ k + b = Widening /\ k + b <= Top /\ k \in 0 .. Top /\ b \in 0 .. Top
    BY <1>0, <1>1, <1>2
  <1> HIDE DEF f, h
  <1>6. /\ r \in Double /\ IsFinite(r) /\ Sign(r) = g /\ DoubleAmount(r) = (h + S_IMPL) * Pow(b)
    BY <1>2, <1>3, <1>4, ExtendedAmount
  <1>7. Pow(Widening) = Pow(k) * Pow(b) /\ Pow(k) \in Nat /\ Pow(b) \in Nat
    <2>1. Pow(k + b) = Pow(k) * Pow(b)
      BY <1>1, <1>5, PowersMultiply
    <2> QED
      BY <1>5, <2>1, PowersInUse
  <1>8. SingleAmount(frac) = frac * Pow(Widening)
    <2> DEFINE E == 0
    <2>1. E \in Nat /\ E < Top /\ E + Widening <= Top /\ E * S_IMPL + frac = frac /\ frac < 2 * S_IMPL
          /\ E + Widening = Widening /\ E = 0
      BY <1>0
    <2> HIDE DEF E
    <2>2. SingleAmount(E * S_IMPL + frac) = frac * Pow(E + Widening)
      BY <2>1, SingleAmountAt
    <2> QED
      BY <2>1, <2>2
  <1>9. q * Pow(b) = frac * (Pow(k) * Pow(b))
    <2> DEFINE c == Pow(k)
               d == Pow(b)
    <2>1. c \in Nat /\ d \in Nat
      BY <1>7
    <2> HIDE DEF c, d
    <2>2. (frac * c) * d = frac * (c * d)
      BY <2>1
    <2> QED
      BY <2>2 DEF c, d
  <1> HIDE DEF q, b
  <1> QED
    BY <1>3, <1>6, <1>7, <1>8, <1>9 DEF ExtendsTo

(* A zero is a zero of the same sign. *)
LEMMA ExtendsZero ==
  ASSUME NEW g \in {0, 1}
  PROVE  ExtendsTo(Signed(g), g, 0)
  <1> DEFINE r == Signed(g)
             f == 0
             h == 0
  <1>0. /\ D_IMPL \in Nat /\ D_IMPL > 0 /\ Pow(X) \in Nat /\ Pow(X) > 3 /\ D_SIGN \in Nat /\ Top \in Nat
        /\ Widening \in Nat /\ Widening <= Top /\ Top > 0 /\ S_IMPL \in Nat /\ S_IMPL > 0
    BY Patterns, Widths, SingleFormat
  <1>1. /\ f \in Nat /\ f < Pow(X) /\ h \in Nat /\ h < D_IMPL /\ r \in Nat /\ r = Signed(g) + f * D_IMPL + h
        /\ f # Pow(X) - 1 /\ f = 0 /\ f * D_IMPL + h = 0
    BY <1>0 DEF Signed
  <1> HIDE DEF f, h
  <1>2. r \in Double /\ Sign(r) = g /\ Field(r) = f /\ r % D_SIGN = f * D_IMPL + h
    BY <1>1, PatternOf
  <1>3. IsFinite(r) /\ IsZero(r)
    BY <1>1, <1>2 DEF IsFinite, IsZero, Pow
  <1>4. DoubleAmount(r) = 0
    BY <1>2, <1>3, Unpacked
  <1>5. SingleAmount(0) = 0
    <2> DEFINE E == 0
               q == 0
    <2>1. /\ E \in Nat /\ E < Top /\ q \in Nat /\ q < 2 * S_IMPL /\ E = 0 /\ E + Widening <= Top
          /\ E * S_IMPL + q = 0 /\ E + Widening = Widening /\ q = 0
      BY <1>0
    <2> HIDE DEF E, q
    <2>2. SingleAmount(E * S_IMPL + q) = q * Pow(E + Widening)
      BY <2>1, SingleAmountAt
    <2>3. Pow(Widening) \in Nat
      <3>1. Widening \in 0 .. Top
        BY <1>0
      <3> QED
        BY <3>1, PowersInUse
    <2>4. q * Pow(Widening) = 0
      BY <2>1, <2>3
    <2> QED
      BY <2>1, <2>2, <2>4
  <1> QED
    BY <1>2, <1>3, <1>4, <1>5 DEF ExtendsTo

(* A float that is a number keeps its value, and comes back unchanged. *)
LEMMA ExtendsNumbers ==
  ASSUME NEW a \in Single, a % S_SIGN < S_EXP
  PROVE  /\ ExtendsTo(__extendsfdf2(a), a \div S_SIGN, a % S_SIGN)
         /\ __truncdfsf2(__extendsfdf2(a)) = a
  <1> DEFINE g == a \div S_SIGN
             n == Pow(XS)
             exp == (a \div S_IMPL) % n
             frac == a % S_IMPL
             m == a % S_SIGN
             z == Pow(F - FS)
             k == NormalizingShift(frac)
             r == __extendsfdf2(a)
  <1>0. n \in Nat /\ S_IMPL \in Nat
    BY SingleFormat
  <1>1. /\ g \in {0, 1} /\ exp \in Nat /\ exp < n /\ frac \in Nat /\ frac < S_IMPL
        /\ m \in Nat /\ m = exp * S_IMPL + frac /\ a = g * S_SIGN + m /\ exp # n - 1
    BY SingleParts
  <1>2. /\ exp # n - 1 /\ exp = 0 /\ frac = 0 => r = Signed(g)
        /\ exp # n - 1 /\ exp = 0 /\ frac # 0 =>
             r = Signed(g) + (1 - S_BIAS - k + D_BIAS) * D_IMPL + ((frac * Pow(k)) % S_IMPL) * z
        /\ exp # n - 1 /\ exp # 0 => r = Signed(g) + (exp + D_BIAS - S_BIAS) * D_IMPL + frac * z
    BY ExtendIs
  <1>3. m < S_EXP
    OBVIOUS
  <1> HIDE DEF g, exp, frac, m, r
  <1>4. ExtendsTo(r, g, m)
    <2>1. CASE exp # 0
      <3>1. exp > 0 /\ exp < n - 1
        BY <1>0, <1>1, <2>1
      <3>2. r = Signed(g) + (exp + D_BIAS - S_BIAS) * D_IMPL + frac * z
        BY <1>1, <1>2, <2>1
      <3> QED
        BY <1>1, <3>1, <3>2, ExtendsNormal
    <2>2. CASE exp = 0 /\ frac # 0
      <3>1. frac > 0 /\ m = frac
        BY <1>0, <1>1, <2>2
      <3>2. r = Signed(g) + (1 - S_BIAS - k + D_BIAS) * D_IMPL + ((frac * Pow(k)) % S_IMPL) * z
        BY <1>1, <1>2, <2>2
      <3> HIDE DEF k
      <3>3. k = NormalizingShift(frac)
        BY DEF k
      <3> QED
        BY <1>1, <3>1, <3>2, <3>3, ExtendsSubnormal
    <2>3. CASE exp = 0 /\ frac = 0
      <3>1. m = 0
        BY <1>0, <1>1, <2>3
      <3>2. r = Signed(g)
        BY <1>1, <1>2, <2>3
      <3> QED
        BY <1>1, <3>1, <3>2, ExtendsZero
    <2> QED
      BY <2>1, <2>2, <2>3
  <1>5. __truncdfsf2(r) = a
    <2>1. TruncatesTo(__truncdfsf2(r), g, SingleAmount(m))
      <3>1. r \in Double /\ IsFinite(r) /\ Sign(r) = g /\ DoubleAmount(r) = SingleAmount(m)
        BY <1>4 DEF ExtendsTo
      <3>2. TruncatesTo(__truncdfsf2(r), Sign(r), DoubleAmount(r))
        BY <3>1, TruncatesNearest
      <3> QED
        BY <3>1, <3>2
    <2>2. PICK i \in Nat : __truncdfsf2(r) = g * S_SIGN + i /\ NearestSingle(i, SingleAmount(m))
      BY <2>1 DEF TruncatesTo
    <2>3. i = m
      BY <1>1, <1>3, <2>2, NearestToItself
    <2> QED
      BY <1>1, <2>2, <2>3
  <1> QED
    BY <1>4, <1>5 DEF r, g, m

-----------------------------------------------------------------------------
(* Conversions, as a property of the specification *)

(* Infinite floats become infinities and NaNs NaNs, and come back so. *)
LEMMA ExtendsSpecials ==
  ASSUME NEW a \in Single
  PROVE  LET r == __extendsfdf2(a)
             m == a % S_SIGN
         IN  /\ m = S_EXP => __truncdfsf2(r) = a
             /\ m > S_EXP => df_is_nan(r) /\ __truncdfsf2(r) % S_SIGN > S_EXP
  <1> DEFINE g == a \div S_SIGN
             n == Pow(XS)
             exp == (a \div S_IMPL) % n
             frac == a % S_IMPL
             m == a % S_SIGN
             z == Pow(F - FS)
             f == Pow(X) - 1
             h == frac * z
             w == Signed(g) + D_EXP + h
             r == __extendsfdf2(a)
  <1>0. f \in Nat /\ f < Pow(X) /\ D_EXP = f * D_IMPL /\ D_EXP \in Nat /\ D_SIGN \in Nat /\ f = 2 ^ X - 1
    BY Patterns DEF Pow
  <1>1. /\ g \in {0, 1} /\ frac \in Nat /\ frac < S_IMPL /\ a = g * S_SIGN + m
        /\ m = S_EXP <=> exp = n - 1 /\ frac = 0
        /\ m > S_EXP <=> exp = n - 1 /\ frac # 0
    BY SingleParts
  <1>2. /\ exp = n - 1 /\ frac = 0 => r = Signed(g) + D_EXP
        /\ exp = n - 1 /\ frac # 0 => r = Quiet(w)
    BY ExtendIs
  <1>3. h \in Nat /\ h < D_IMPL /\ (frac # 0 => h # 0) /\ z \in Nat
    BY <1>1, Widened
  <1> HIDE DEF g, exp, frac, m, r, f, h
  <1>4. w \in Double /\ Sign(w) = g /\ Field(w) = f /\ Fraction(w) = h
    BY <1>0, <1>1, <1>3, PatternOf
  <1>5. ASSUME m = S_EXP PROVE __truncdfsf2(r) = a
    <2>1. frac = 0 /\ r = Signed(g) + D_EXP
      BY <1>1, <1>2, <1>5
    <2>2. h = 0
      BY <1>3, <2>1 DEF h
    <2>3. r = w
      <3>1. Signed(g) \in Nat
        BY <1>0, <1>1 DEF Signed
      <3> QED
        BY <1>0, <2>1, <2>2, <3>1
    <2>4. IsInfinite(r)
      <3>1. ~ IsFinite(r) /\ Fraction(r) = 0
        BY <1>0, <1>4, <2>2, <2>3 DEF IsFinite
      <3> QED
        BY <1>4, <2>3, <3>1, SpecialParts
    <2>5. __truncdfsf2(r) = g * S_SIGN + S_EXP
      BY <1>4, <2>3, <2>4, TruncatesSpecials
    <2> QED
      BY <1>1, <1>5, <2>5
  <1>6. ASSUME m > S_EXP PROVE df_is_nan(r) /\ __truncdfsf2(r) % S_SIGN > S_EXP
    <2>1. frac # 0 /\ r = Quiet(w)
      BY <1>1, <1>2, <1>6
    <2>2. df_is_nan(w)
      BY <1>0, <1>3, <1>4, <2>1 DEF df_is_nan
    <2>3. r \in Double /\ df_is_nan(r)
      BY <1>4, <2>1, <2>2, QuietNaNs
    <2> QED
      BY <2>3, TruncatesSpecials
  <1> QED
    BY <1>5, <1>6 DEF r, m

(* A call of __extendsfdf2 leaves a right result. *)
LEMMA ExtensionIsExact ==
  ASSUME NEW a \in Single, Extend(a)
  PROVE  ConversionsNearest'
  <1> DEFINE r == __extendsfdf2(a)
             m == a % S_SIGN
  <1>0. op' = "extend" /\ x' = a /\ result' = r
    BY DEF Extend, Called
  <1>1. /\ m < S_EXP => DoubleAmount(r) = SingleAmount(m) /\ __truncdfsf2(r) = a
        /\ m = S_EXP => __truncdfsf2(r) = a
        /\ m > S_EXP => df_is_nan(r) /\ __truncdfsf2(r) % S_SIGN > S_EXP
    BY ExtendsNumbers, ExtendsSpecials DEF ExtendsTo
  <1>2. m \in Nat /\ S_EXP \in Nat
    BY SingleParts, SingleFormat
  <1> HIDE DEF r
  <1>3. /\ m <= S_EXP => __truncdfsf2(r) = a
        /\ m < S_EXP => DoubleAmount(r) = SingleAmount(m)
        /\ m > S_EXP => df_is_nan(r) /\ __truncdfsf2(r) % S_SIGN > S_EXP
    <2> HIDE DEF m
    <2> QED
      BY <1>1, <1>2
  <1>4. ExtendsExactly'
    BY <1>0, <1>3, Zenon DEF ExtendsExactly, SingleAmount, DoubleAmount, df_is_nan, Field, Fraction
  <1>5. TruncatesToNearest' /\ IntegersExact'
    BY <1>0, Zenon DEF TruncatesToNearest, IntegersExact
  <1> QED
    BY <1>4, <1>5 DEF ConversionsNearest, FloatsNearest

(* So does a call of __truncdfsf2. *)
LEMMA TruncationIsNearest ==
  ASSUME NEW a \in Double, Truncate(a)
  PROVE  ConversionsNearest'
  <1> DEFINE r == __truncdfsf2(a)
  <1>0. op' = "trunc" /\ x' = a /\ result' = r
    BY DEF Truncate, Called
  <1>1. ASSUME IsFinite(a)
        PROVE  /\ RoundedSingle(r, DoubleAmount(a), DoubleAmount(a) >= SingleAmount(S_IMPL))
               /\ r \div S_SIGN = Sign(a)
    <2>1. TruncatesTo(r, Sign(a), DoubleAmount(a)) /\ Sign(a) \in {0, 1} /\ DoubleAmount(a) \in Nat
      BY <1>1, TruncatesNearest, PatternParts, FiniteIsSmall
    <2> DEFINE away == DoubleAmount(a) >= SingleAmount(S_IMPL)
    <2>2. PICK n \in Nat : /\ r = Sign(a) * S_SIGN + n /\ NearestSingle(n, DoubleAmount(a))
                           /\ TieSingle(n, DoubleAmount(a), away)
      BY <2>1 DEF TruncatesTo
    <2>3. n <= S_EXP
      BY <2>2 DEF NearestSingle
    <2>4. r \div S_SIGN = Sign(a) /\ r % S_SIGN = n
      BY <2>1, <2>2, <2>3, TruncatedParts
    <2>6. away \in BOOLEAN
      OBVIOUS
    <2> HIDE DEF away
    <2>5. IsNearest(n, S_EXP, SingleAmount, DoubleAmount(a), 1, away)
      BY <2>1, <2>2, <2>6, NearestSingleIs
    <2> HIDE DEF r
    <2> QED
      BY <2>4, <2>5 DEF RoundedSingle, away
  <1> HIDE DEF r
  <1>2. TruncatesToNearest'
    BY <1>0, <1>1, Zenon DEF TruncatesToNearest, RoundedSingle, IsNearest, SingleAmount, DoubleAmount, IsFinite, Field,
      Sign, S_IMPL, S_SIGN, S_EXP
  <1>3. ExtendsExactly' /\ IntegersExact'
    BY <1>0, Zenon DEF ExtendsExactly, IntegersExact
  <1> QED
    BY <1>2, <1>3 DEF ConversionsNearest, FloatsNearest

(* So do calls of __floatsidf and __floatunsidf. *)
LEMMA FloatsAreExact ==
  ASSUME \/ \E v \in SignedInt : FromInt(v)
         \/ \E v \in UnsignedInt : FromUnsigned(v)
  PROVE  ConversionsNearest'
  <1>1. CASE \E v \in SignedInt : FromInt(v)
    <2>1. PICK v \in SignedInt : FromInt(v)
      BY <1>1
    <2> DEFINE r == __floatsidf(v)
    <2>2. op' = "float" /\ x' = v /\ result' = r
      BY <2>1 DEF FromInt, Called
    <2>3. DoubleValue(r) = v * Unit /\ df_to_i(r, TRUE) = v
      BY FloatIsExact
    <2> HIDE DEF r
    <2>4. DoubleValue(r) = v * Unit /\ df_to_i(r, "float" = "float") = v
      BY <2>3
    <2> QED
      BY <2>2, <2>4 DEF ConversionsNearest, FloatsNearest, ExtendsExactly, TruncatesToNearest, IntegersExact
  <1>2. CASE \E v \in UnsignedInt : FromUnsigned(v)
    <2>1. PICK v \in UnsignedInt : FromUnsigned(v)
      BY <1>2
    <2> DEFINE r == __floatunsidf(v)
    <2>2. op' = "floatuns" /\ x' = v /\ result' = r
      BY <2>1 DEF FromUnsigned, Called
    <2>3. DoubleValue(r) = v * Unit /\ df_to_i(r, FALSE) = v
      BY FloatunsIsExact
    <2> HIDE DEF r
    <2>4. DoubleValue(r) = v * Unit /\ df_to_i(r, "floatuns" = "float") = v
      BY <2>3
    <2> QED
      BY <2>2, <2>4 DEF ConversionsNearest, FloatsNearest, ExtendsExactly, TruncatesToNearest, IntegersExact
  <1> QED
    BY <1>1, <1>2

(* So do calls of __fixdfsi and __fixunsdfsi. *)
LEMMA FixesAreExact ==
  ASSUME NEW a \in Double, ToInt(a) \/ ToUnsigned(a)
  PROVE  ConversionsNearest'
  <1>1. \/ op' = "fix" /\ x' = a /\ result' = df_to_i(a, TRUE)
        \/ op' = "fixuns" /\ x' = a /\ result' = df_to_i(a, FALSE)
    BY DEF ToInt, ToUnsigned, Called
  <1>2. IsFinite(a) => /\ Whole(a) \in SignedInt => df_to_i(a, TRUE) = Whole(a)
                       /\ Whole(a) \in UnsignedInt => df_to_i(a, FALSE) = Whole(a)
    BY TruncatesToInt
  <1>3. IntegersExact'
    BY <1>1, <1>2 DEF IntegersExact
  <1>4. ExtendsExactly' /\ TruncatesToNearest'
    BY <1>1, Zenon DEF ExtendsExactly, TruncatesToNearest
  <1> QED
    BY <1>3, <1>4 DEF ConversionsNearest, FloatsNearest

(* ConversionsNearest: __extendsfdf2 keeps the value of every float and    *)
(* __truncdfsf2 returns the one nearest to its operand, halfway between    *)
(* two the upper one, or the even one below the normal floats, so that a   *)
(* float that is extended comes back; __floatsidf and __floatunsidf are exact, and    *)
(* __fixdfsi and __fixunsdfsi truncate what fits, for every width of the   *)
(* formats and of int that the assumptions admit.                          *)
THEOREM ConversionsAreNearest == Spec => []ConversionsNearest
  <1>0. /\ Comparison \cap Conversion = {} /\ Arithmetic \cap Conversion = {}
        /\ "none" \notin Conversion
    BY DEF Arithmetic, Conversion, Comparison, Equality, Less, Greater
  <1>1. Init => ConversionsNearest
    BY <1>0, Zenon DEF Init, ConversionsNearest, FloatsNearest, ExtendsExactly, TruncatesToNearest,
      IntegersExact, Conversion
  <1>2. ASSUME ConversionsNearest, [Next]_vars PROVE ConversionsNearest'
    <2>1. CASE UNCHANGED vars
      BY <1>2, <2>1 DEF vars, ConversionsNearest, FloatsNearest, ExtendsExactly, TruncatesToNearest, IntegersExact
    <2>2. CASE op' \notin Conversion
      BY <2>2, Zenon DEF ConversionsNearest, FloatsNearest, ExtendsExactly, TruncatesToNearest,
        IntegersExact, Conversion
    <2>3. CASE Return
      BY <1>0, <2>2, <2>3 DEF Return
    <2>4. CASE Call
      <3>1. \/ \E a \in Double : Truncate(a) \/ ToInt(a) \/ ToUnsigned(a)
            \/ \E a \in Single : Extend(a)
            \/ \E v \in SignedInt : FromInt(v)
            \/ \E v \in UnsignedInt : FromUnsigned(v)
            \/ op' \in Comparison \cup Arithmetic
        BY <2>4 DEF Call, Called, Compare, Add, Subtract, Multiply, Divide, Arithmetic
      <3> QED
        BY <1>0, <2>2, <3>1, ExtensionIsExact, TruncationIsNearest, FloatsAreExact, FixesAreExact
    <2> QED
      BY <1>2, <2>1, <2>3, <2>4 DEF Next
  <1> QED
    BY <1>1, <1>2, PTL DEF Spec
=============================================================================
