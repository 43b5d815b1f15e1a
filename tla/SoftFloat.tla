------------------------------ MODULE SoftFloat ------------------------------
(***************************************************************************)
(* The floating-point helpers of lib/compiler_rt_softfloat.c: comparison,  *)
(* addition, subtraction, multiplication and division of doubles, and the  *)
(* conversions to and from single precision and integers.  A double is its *)
(* bit pattern, a number: sign, X bits of exponent, F bits of fraction.    *)
(*                                                                         *)
(* A definition named D_suffix in front of D is D with a plausible bug.    *)
(***************************************************************************)
EXTENDS Integers

CONSTANTS
  F, X,       \* fraction and exponent bits of a double, 52 and 11
  FS, XS,     \* the same of a float, 23 and 8
  G,          \* bits kept below the significand in a sum, 6
  WB,         \* bits of a machine word, 64
  FAR,        \* exponent distance beyond which a sum is its larger term, 122
  IB,         \* bits of an int, 32
  Operation   \* the helpers that are called

ASSUME FormatAssumption ==
  /\ {F, X, FS, XS, G, WB, FAR, IB} \subseteq Nat
  /\ FS > 0 /\ F > FS /\ XS > 1 /\ X > XS
  /\ G > 1 /\ WB >= F + G + 2 /\ FAR >= WB
  /\ IB > 1

(* A double fits in a word, and its exponent exceeds every shift.  The     *)
(* numbers that Special is compared with are exponents.  A double has room *)
(* for every float, the subnormal ones as normal numbers, and every int.   *)
ASSUME RangeAssumption ==
  /\ X + F < WB /\ WB <= 2 ^ X /\ 2 ^ X < 32767
  /\ 2 ^ (XS - 1) + FS <= 2 ^ (X - 1)
  /\ IB <= F + 1 /\ IB <= 2 ^ (X - 1)

(* What 2 ^ k is, for the exponents that sums and products have. *)
ASSUME PowersAssumption ==
  /\ 2 ^ 0 = 1 /\ 2 ^ X \in Nat
  /\ \A k \in 0 .. 2 * 2 ^ X + 4 * F : 2 ^ k \in Nat /\ 2 ^ (k + 1) = 2 * 2 ^ k

Equality == {"eq", "ne"}
Less == {"lt", "le"}
Greater == {"gt", "ge"}
Comparison == Equality \cup Less \cup Greater \cup {"unord"}
Arithmetic == {"add", "sub", "mul", "div"}
Conversion == {"extend", "trunc", "float", "floatuns", "fix", "fixuns"}

ASSUME OperationAssumption == Operation \subseteq Comparison \cup Arithmetic \cup Conversion

VARIABLES
  op, x, y,  \* the helper that has been called and its arguments
  result

vars == <<op, x, y, result>>

Bit(b) == IF b THEN 1 ELSE 0

D_SIGN == 2 ^ (X + F)
D_IMPL == 2 ^ F
D_EXP == (2 ^ X - 1) * D_IMPL
D_QUIET == 2 ^ (F - 1)
D_BIAS == 2 ^ (X - 1) - 1

Double == 0 .. 2 * D_SIGN - 1
Negative(v) == v >= D_SIGN
Sign(v) == v \div D_SIGN
Field(v) == (v \div D_IMPL) % 2 ^ X
Fraction(v) == v % D_IMPL

(* sign << 63 *)
Signed(sign) == sign * D_SIGN

(* v | D_QUIET *)
Quiet(v) == IF (v \div D_QUIET) % 2 = 1 THEN v ELSE v + D_QUIET

NaN == D_EXP + D_QUIET

-----------------------------------------------------------------------------
(* Comparison *)

df_is_nan(v) == Field(v) = 2 ^ X - 1 /\ Fraction(v) # 0

Unsigned_kept(v) == v

(* Signed zeros compare equal. *)
Unsigned(v) == IF v = D_SIGN THEN 0 ELSE v

(* A number that grows with the value of a double. *)
Key(v) == IF Negative(v) THEN 2 * D_SIGN - 1 - v ELSE v + D_SIGN

df_cmp3way(a, b, nan_result) ==
  LET ka == Key(Unsigned(a))
      kb == Key(Unsigned(b))
  IN  CASE df_is_nan(a) \/ df_is_nan(b) -> nan_result
        [] OTHER -> Bit(ka > kb) - Bit(ka < kb)

Compared(o, a, b) ==
  CASE o \in Equality \cup Less -> df_cmp3way(a, b, 1)
    [] o \in Greater -> df_cmp3way(a, b, -1)
    [] o = "unord" -> Bit(df_is_nan(a) \/ df_is_nan(b))

-----------------------------------------------------------------------------
(* Taking doubles apart and rounding them *)

(* The exponent that marks infinities and NaNs. *)
Special == 32767

(* df_msb: the place of the highest bit that is set, -1 for 0. *)
df_msb(v) ==
  IF v = 0 THEN -1 ELSE CHOOSE t \in 0 .. 2 * WB : 2 ^ t <= v /\ v < 2 ^ (t + 1)

(* value = sig * 2^exp, with the implicit bit of sig set unless it is zero *)
df_unpack(v) ==
  LET f == Field(v)
      m == Fraction(v)
      k == F - df_msb(m)
      Parts(exp, sig) == [sign |-> Sign(v), exp |-> exp, sig |-> sig, zero |-> f = 0 /\ m = 0]
  IN  CASE f = 2 ^ X - 1 -> Parts(Special, m)
        [] f = 0 /\ m = 0 -> Parts(0, 0)
        [] f = 0 /\ m # 0 -> Parts(1 - D_BIAS - F - k, m * 2 ^ k)
        [] OTHER -> Parts(f - D_BIAS - F, m + D_IMPL)

IsNaN(p) == p.exp = Special /\ p.sig # 0
IsInf(p) == p.exp = Special /\ p.sig = 0

(* A significand cut by n > 0 bits: what is left, the highest of the bits  *)
(* cut off, and whether s or any of the others is set.                     *)
Cut(q, n, s) ==
  [q |-> q \div 2 ^ n,
   g |-> (q \div 2 ^ (n - 1)) % 2,
   s |-> Bit(s = 1 \/ q % 2 ^ (n - 1) # 0)]

(* Round to nearest, ties to even. *)
RoundsUp(q, g, s) == g = 1 /\ (s = 1 \/ q % 2 = 1)

Overflows(e) == e > 2 ^ X - 2 - D_BIAS - F

(* value = q * 2^e, and g and s are the guard and sticky bits below q *)
df_pack(sign, e, q, g, s) ==
  LET lowest == 1 - D_BIAS - F
      shift == lowest - e
      subnormal == e < lowest
      c == IF subnormal THEN Cut(q, shift, Bit(s = 1 \/ g = 1)) ELSE [q |-> q, g |-> g, s |-> s]
      up == c.q + Bit(RoundsUp(c.q, c.g, c.s))
      carry == up = 2 * D_IMPL
      rounded == IF carry THEN D_IMPL ELSE up
      exp == (IF subnormal THEN lowest ELSE e) + Bit(carry)
  IN  CASE subnormal /\ shift > F + 2 -> Signed(sign)
        [] ~ subnormal /\ Overflows(exp) -> Signed(sign) + D_EXP
        [] subnormal /\ shift <= F + 2 -> Signed(sign) + rounded
        [] OTHER -> Signed(sign) + (exp + D_BIAS + F) * D_IMPL + (rounded % D_IMPL)

(* The pair of words whi, wlo is one number w here: both branches of the   *)
(* code that cut w down do the same to it.                                 *)
df_norm_pack128(sign, w, e, s_extra) ==
  LET cut == df_msb(w) - F
      c == Cut(w, cut, s_extra)
  IN  CASE w = 0 -> Signed(sign) + s_extra
        [] w # 0 /\ cut > 0 -> df_pack(sign, e + cut, c.q, c.g, c.s)
        [] OTHER -> df_pack(sign, e + cut, w * 2 ^ (- cut), 0, s_extra)

df_norm_pack(sign, w, e, g, s) ==
  LET cut == df_msb(w) - F
      c == Cut(w, cut, Bit(s = 1 \/ g = 1))
  IN  CASE w = 0 -> Signed(sign)
        [] w # 0 /\ cut > 0 -> df_pack(sign, e + cut, c.q, c.g, c.s)
        [] OTHER -> df_pack(sign, e + cut, w * 2 ^ (- cut), g, s)

-----------------------------------------------------------------------------
(* Addition and subtraction *)

SumOfSpecials_any_sign(a, b) ==
  LET p == df_unpack(a)
      q == df_unpack(b)
  IN  CASE p.exp = Special -> IF IsNaN(p) THEN Quiet(a) ELSE a
        [] OTHER -> IF IsNaN(q) THEN Quiet(b) ELSE b

(* A sum with an infinity or NaN in it. *)
SumOfSpecials(a, b) ==
  LET p == df_unpack(a)
      q == df_unpack(b)
  IN  CASE IsNaN(p) -> Quiet(a)
        [] IsInf(p) /\ q.exp = Special /\ q.sign # p.sign -> NaN
        [] IsInf(p) /\ ~ (q.exp = Special /\ q.sign # p.sign) -> a
        [] OTHER -> IF IsNaN(q) THEN Quiet(b) ELSE b

Borrow_not(difference, s_extra) == difference

(* The tail of b that was cut off makes the difference smaller. *)
Borrow(difference, s_extra) == IF difference # 0 THEN difference - s_extra ELSE 0

(* |p| >= |q|: both are aligned with G bits below p's significand. *)
SumOfAligned(p, q) ==
  LET align == p.exp - q.exp
      ga == p.sig * 2 ^ G
      low == q.sig * 2 ^ G
      bl == IF align >= WB THEN 0 ELSE low \div 2 ^ align
      s_extra == Bit(align >= WB \/ low % 2 ^ align # 0)
      difference == Borrow(ga - bl, s_extra)
  IN  CASE p.sign = q.sign -> df_norm_pack128(p.sign, ga + bl, p.exp - G, s_extra)
        [] p.sign # q.sign /\ ga = bl -> 0
        [] OTHER -> df_norm_pack128(p.sign, difference, p.exp - G, s_extra)

__adddf3(a, b) ==
  LET p == df_unpack(a)
      q == df_unpack(b)
      swapped == p.exp < q.exp \/ (p.exp = q.exp /\ p.sig < q.sig)
      large == IF swapped THEN q ELSE p
      small == IF swapped THEN p ELSE q
  IN  CASE p.exp = Special \/ q.exp = Special -> SumOfSpecials(a, b)
        [] p.zero /\ q.zero -> Signed(p.sign * q.sign)
        [] p.zero /\ ~ q.zero /\ q.exp # Special -> b
        [] q.zero /\ ~ p.zero /\ p.exp # Special -> a
        [] OTHER -> IF large.exp - small.exp > FAR
                    THEN IF swapped THEN b ELSE a
                    ELSE SumOfAligned(large, small)

(* b ^ D_SIGN *)
Negated(b) == (b + D_SIGN) % (2 * D_SIGN)

__subdf3(a, b) == __adddf3(a, Negated(b))

-----------------------------------------------------------------------------
(* Multiplication and division *)

(* Shift and add, from the highest bit of b down. *)
df_umul128(a, b) ==
  LET product[i \in 0 .. WB] ==
        IF i = 0 THEN 0 ELSE 2 * product[i - 1] + a * ((b \div 2 ^ (WB - i)) % 2)
  IN  product[WB]

Product(p, q) ==
  LET sign == (p.sign + q.sign) % 2
  IN  CASE IsNaN(p) \/ IsNaN(q) \/ (IsInf(p) /\ q.zero) \/ (IsInf(q) /\ p.zero) -> NaN
        [] (IsInf(p) /\ ~ q.zero /\ ~ IsNaN(q)) \/ (IsInf(q) /\ ~ p.zero /\ ~ IsNaN(p)) ->
             Signed(sign) + D_EXP
        [] (p.zero /\ q.exp # Special) \/ (q.zero /\ p.exp # Special) -> Signed(sign)
        [] OTHER -> df_norm_pack128(sign, df_umul128(p.sig, q.sig), p.exp + q.exp, 0)

__muldf3(a, b) == Product(df_unpack(a), df_unpack(b))

(* Restoring division: F + 3 bits of quotient and the remainder. *)
LongDivision(ma, mb) ==
  LET Subtracted(q, r) == IF r >= mb THEN [q |-> 2 * q + 1, r |-> r - mb] ELSE [q |-> 2 * q, r |-> r]
      quotient[i \in 0 .. F + 2] ==
        IF i = 0 THEN Subtracted(0, ma)
        ELSE Subtracted(quotient[i - 1].q, 2 * quotient[i - 1].r)
  IN  quotient[F + 2]

Remains_not(r) == 0

Remains(r) == Bit(r # 0)

Quotient(p, q) ==
  LET sign == (p.sign + q.sign) % 2
      long == LongDivision(p.sig, q.sig)
  IN  CASE IsNaN(p) \/ IsNaN(q) \/ (IsInf(p) /\ IsInf(q)) \/ (p.zero /\ q.zero) -> NaN
        [] (IsInf(p) /\ q.exp # Special) \/ (q.zero /\ ~ p.zero /\ ~ IsNaN(p)) -> Signed(sign) + D_EXP
        [] (IsInf(q) /\ p.exp # Special) \/ (p.zero /\ ~ q.zero /\ ~ IsNaN(q)) -> Signed(sign)
        [] OTHER -> df_norm_pack(sign, long.q, p.exp - q.exp - (F + 2), 0, Remains(long.r))

__divdf3(a, b) == Quotient(df_unpack(a), df_unpack(b))

-----------------------------------------------------------------------------
(* Single precision *)

S_SIGN == 2 ^ (XS + FS)
S_IMPL == 2 ^ FS
S_EXP == (2 ^ XS - 1) * S_IMPL
S_BIAS == 2 ^ (XS - 1) - 1
Single == 0 .. 2 * S_SIGN - 1

(* How far a subnormal fraction moves up to the implicit bit. *)
NormalizingShift(frac) == FS - df_msb(frac)

__extendsfdf2(a) ==
  LET exp == (a \div S_IMPL) % 2 ^ XS
      frac == a % S_IMPL
      sign == Signed(a \div S_SIGN)
      k == NormalizingShift(frac)
      Widened(m) == m * 2 ^ (F - FS)
  IN  CASE exp = 2 ^ XS - 1 /\ frac = 0 -> sign + D_EXP
        [] exp = 2 ^ XS - 1 /\ frac # 0 -> Quiet(sign + D_EXP + Widened(frac))
        [] exp = 0 /\ frac = 0 -> sign
        [] exp = 0 /\ frac # 0 ->
             sign + (1 - S_BIAS - k + D_BIAS) * D_IMPL + Widened((frac * 2 ^ k) % S_IMPL)
        [] OTHER -> sign + (exp + D_BIAS - S_BIAS) * D_IMPL + Widened(frac)

BelowNormal_late(fe) == fe < - S_BIAS

BelowNormal(fe) == fe < 1 - S_BIAS

(* The payload of a NaN is left out.  The mask of the first sticky bit     *)
(* takes in the guard bit as well.                                         *)
__truncdfsf2(a) ==
  LET p == df_unpack(a)
      sign == Sign(a) * S_SIGN
      sh == F - FS
      fe == p.exp + F
      first == [Cut(p.sig, sh, 0) EXCEPT !.s = Bit(p.sig % 2 ^ sh # 0)]
      extra == 1 - S_BIAS - fe
      subnormal == BelowNormal(fe)
      c == IF subnormal THEN Cut(first.q, extra, first.s) ELSE first
      up == c.q + Bit(RoundsUp(c.q, c.g, c.s))
      carry == up = 2 * S_IMPL
      exp == fe + Bit(carry)
  IN  CASE IsInf(p) -> sign + S_EXP
        [] IsNaN(p) -> sign + S_EXP + (S_IMPL \div 2)
        [] p.zero -> sign
        [] OTHER -> IF subnormal THEN sign + up
                    ELSE IF exp > S_BIAS THEN sign + S_EXP
                    ELSE sign + (exp + S_BIAS) * S_IMPL + (up % S_IMPL)

-----------------------------------------------------------------------------
(* Integers *)

SignedInt == - 2 ^ (IB - 1) .. 2 ^ (IB - 1) - 1
UnsignedInt == 0 .. 2 ^ IB - 1
INT_MIN == - 2 ^ (IB - 1)
INT_MAX == 2 ^ (IB - 1) - 1

df_from_mag(mag, sign) ==
  LET tm == df_msb(mag)
  IN  IF mag = 0 THEN Signed(sign)
      ELSE Signed(sign) + (tm + D_BIAS) * D_IMPL + ((mag * 2 ^ (F - tm)) % D_IMPL)

Magnitude_of_successor(v) == - (v + 1)

(* The magnitude of a negative int, computed without overflow. *)
Magnitude(v) == - (v + 1) + 1

__floatsidf(v) == IF v < 0 THEN df_from_mag(Magnitude(v), 1) ELSE df_from_mag(v, 0)
__floatunsidf(v) == df_from_mag(v, 0)

(* What is returned for infinities, NaNs and numbers found too large. *)
OutOfRange(is_signed) == IF is_signed THEN INT_MIN ELSE INT_MAX

(* q >> n *)
IntegerPart(q, n) == q \div 2 ^ n

(* ip is the truncated magnitude. *)
Narrowed(ip, sign, is_signed) ==
  CASE is_signed /\ sign = 1 -> IF ip > - INT_MIN THEN INT_MIN ELSE - ip
    [] is_signed /\ sign = 0 -> IF ip > INT_MAX THEN INT_MAX ELSE ip
    [] OTHER -> IF sign = 1 \/ ip > 2 ^ IB - 1 THEN OutOfRange(FALSE) ELSE ip

df_to_i(a, is_signed) ==
  LET q == Fraction(a) + D_IMPL
      re == Field(a) - D_BIAS
      sh2 == re - F
      shifted == (q * 2 ^ sh2) % 2 ^ WB   \* q << sh2 loses its high bits
  IN  CASE Field(a) = 2 ^ X - 1 -> OutOfRange(is_signed)
        [] Field(a) < 2 ^ X - 1 /\ (Field(a) = 0 \/ re < 0) -> 0
        [] Field(a) < 2 ^ X - 1 /\ re >= 0 /\ re <= F ->
             Narrowed(IntegerPart(q, F - re), Sign(a), is_signed)
        [] OTHER -> IF sh2 >= IB \/ shifted \div 2 ^ IB # 0 THEN OutOfRange(is_signed)
                    ELSE Narrowed(shifted, Sign(a), is_signed)

-----------------------------------------------------------------------------
Init == op = "none" /\ x = 0 /\ y = 0 /\ result = 0

Called(o, a, b, r) ==
  /\ o \in Operation
  /\ op' = o /\ x' = a /\ y' = b /\ result' = r

Compare(o, a, b) == Called(o, a, b, Compared(o, a, b))
Add(a, b) == Called("add", a, b, __adddf3(a, b))
Subtract(a, b) == Called("sub", a, b, __subdf3(a, b))
Multiply(a, b) == Called("mul", a, b, __muldf3(a, b))
Divide(a, b) == Called("div", a, b, __divdf3(a, b))
Extend(a) == Called("extend", a, 0, __extendsfdf2(a))
Truncate(a) == Called("trunc", a, 0, __truncdfsf2(a))
FromInt(v) == Called("float", v, 0, __floatsidf(v))
FromUnsigned(v) == Called("floatuns", v, 0, __floatunsidf(v))
ToInt(a) == Called("fix", a, 0, df_to_i(a, TRUE))
ToUnsigned(a) == Called("fixuns", a, 0, df_to_i(a, FALSE))

Return ==
  /\ op # "none"
  /\ op' = "none" /\ x' = 0 /\ y' = 0 /\ result' = 0

Call ==
  /\ op = "none"
  /\ \/ \E a, b \in Double :
          \/ \E o \in Operation \cap Comparison : Compare(o, a, b)
          \/ Add(a, b) \/ Subtract(a, b) \/ Multiply(a, b) \/ Divide(a, b)
     \/ \E a \in Double : Truncate(a) \/ ToInt(a) \/ ToUnsigned(a)
     \/ \E a \in Single : Extend(a)
     \/ \E v \in SignedInt : FromInt(v)
     \/ \E v \in UnsignedInt : FromUnsigned(v)

Next == Call \/ Return

Spec == Init /\ [][Next]_vars

-----------------------------------------------------------------------------
(* Properties.  What a pattern stands for is an integer in units of the    *)
(* smallest subnormal.                                                     *)

(* The magnitude of a pattern of f fraction bits without its sign.  That   *)
(* of infinity is the power of two that comes after the largest number.    *)
Amount(m, f) ==
  IF m < 2 ^ f THEN m ELSE ((m % 2 ^ f) + 2 ^ f) * 2 ^ ((m \div 2 ^ f) - 1)

Abs(i) == IF i < 0 THEN - i ELSE i
Unit == 2 ^ (D_BIAS + F - 1)   \* the pattern of 1.0 stands for this many

DoubleAmount(v) == Amount(v % D_SIGN, F)
DoubleValue(v) == IF Negative(v) THEN - DoubleAmount(v) ELSE DoubleAmount(v)

(* A float in the units of doubles. *)
SingleAmount(m) == Amount(m, FS) * 2 ^ (D_BIAS + F - S_BIAS - FS)

IsFinite(v) == Field(v) # 2 ^ X - 1
IsZero(v) == v % D_SIGN = 0

(* No pattern is nearer to num / den than m: num / den is not beyond the   *)
(* middle between m and either neighbour.  In the middle it is m only if m *)
(* is even or, where ties go away from zero, if m is the upper neighbour.  *)
IsNearest(m, last, Measure(_), num, den, away) ==
  LET Middle(k) == (Measure(k) + Measure(k + 1)) * den
      even == m % 2 = 0
  IN  /\ m > 0 => IF away \/ even THEN Middle(m - 1) <= 2 * num ELSE Middle(m - 1) < 2 * num
      /\ m < last => IF ~ away /\ even THEN 2 * num <= Middle(m) ELSE 2 * num < Middle(m)

RoundedDouble(r, num, den) == IsNearest(r % D_SIGN, D_EXP, DoubleAmount, num, den, FALSE)

FiniteArguments == IsFinite(x) /\ IsFinite(y)

(* Sums and differences of finite numbers are the exact result rounded to  *)
(* nearest even, with overflow to infinity; a zero sum is negative only if *)
(* both terms are negative zeros.                                          *)
SumsNearest ==
  op \in {"add", "sub"} /\ FiniteArguments =>
    LET b == IF op = "add" THEN y ELSE Negated(y)
        exact == DoubleValue(x) + DoubleValue(b)
    IN  /\ RoundedDouble(result, Abs(exact), 1)
        /\ exact # 0 => Negative(result) = (exact < 0)
        /\ exact = 0 => Negative(result) = (Negative(x) /\ Negative(b))

(* Products of finite numbers, and quotients by anything but zero, are     *)
(* rounded to nearest even, through the subnormal range and into overflow, *)
(* and signed as the operands say.                                         *)
ProductsNearest ==
  op \in {"mul", "div"} /\ FiniteArguments /\ ~ (op = "div" /\ IsZero(y)) =>
    /\ IF op = "mul"
       THEN RoundedDouble(result, DoubleAmount(x) * DoubleAmount(y), Unit)
       ELSE RoundedDouble(result, DoubleAmount(x) * Unit, DoubleAmount(y))
    /\ Negative(result) = (Negative(x) # Negative(y))

IsInfinite(v) == v % D_SIGN = D_EXP

(* A NaN comes out exactly when one goes in or the operation has no value: *)
(* inf - inf, 0 * inf, 0 / 0, inf / inf.  Otherwise an infinite term or    *)
(* factor, or a zero divisor, gives the infinity or zero with the sign of  *)
(* the limit.  An infinite first term and a NaN are left open: __adddf3    *)
(* returns the infinity when their signs agree.                            *)
SpecialsPropagate ==
  LET invalid ==
        CASE op = "add" -> IsInfinite(x) /\ y = Negated(x)
          [] op = "sub" -> IsInfinite(x) /\ y = x
          [] op = "mul" -> (IsInfinite(x) /\ IsZero(y)) \/ (IsZero(x) /\ IsInfinite(y))
          [] op = "div" -> (IsZero(x) /\ IsZero(y)) \/ (IsInfinite(x) /\ IsInfinite(y))
      sign == IF Negative(x) # Negative(y) THEN D_SIGN ELSE 0
      limit ==
        CASE op = "add" -> IF IsInfinite(x) THEN x ELSE y
          [] op = "sub" -> IF IsInfinite(x) THEN x ELSE Negated(y)
          [] op = "mul" -> sign + D_EXP
          [] op = "div" -> IF IsInfinite(y) THEN sign ELSE sign + D_EXP
      open == op \in {"add", "sub"} /\ IsInfinite(x) /\ df_is_nan(y)
  IN  op \in Arithmetic /\ ~ open =>
        IF df_is_nan(x) \/ df_is_nan(y) \/ invalid THEN df_is_nan(result)
        ELSE IF ~ FiniteArguments \/ (op = "div" /\ IsZero(y)) THEN result = limit
        ELSE ~ df_is_nan(result)

(* Arithmetic, whatever the operands: SumsNearest, ProductsNearest and     *)
(* SpecialsPropagate together.                                             *)
ArithmeticNearest == SumsNearest /\ ProductsNearest /\ SpecialsPropagate

(* What compiled code makes of the result of a comparison is the ordering  *)
(* of the values, zeros of either sign being equal, and no NaN compares    *)
(* less, equal or greater.                                                 *)
ComparesByValue ==
  op \in Comparison =>
    LET ordered == ~ df_is_nan(x) /\ ~ df_is_nan(y)
        a == DoubleValue(x)
        b == DoubleValue(y)
    IN  CASE op = "eq" -> (result = 0) <=> (ordered /\ a = b)
          [] op = "ne" -> (result # 0) <=> ~ (ordered /\ a = b)
          [] op = "lt" -> (result < 0) <=> (ordered /\ a < b)
          [] op = "le" -> (result <= 0) <=> (ordered /\ a <= b)
          [] op = "gt" -> (result > 0) <=> (ordered /\ a > b)
          [] op = "ge" -> (result >= 0) <=> (ordered /\ a >= b)
          [] op = "unord" -> (result # 0) <=> ~ ordered

ExtendsExactly ==
  op = "extend" =>
    LET m == x % S_SIGN
    IN  /\ m <= S_EXP => __truncdfsf2(result) = x
        /\ m < S_EXP => DoubleAmount(result) = SingleAmount(m)
        /\ m > S_EXP => df_is_nan(result) /\ __truncdfsf2(result) % S_SIGN > S_EXP

RoundedSingle(r, num, away) == IsNearest(r % S_SIGN, S_EXP, SingleAmount, num, 1, away)

TruncatesToNearest ==
  op = "trunc" /\ IsFinite(x) =>
    /\ RoundedSingle(result, DoubleAmount(x), DoubleAmount(x) >= SingleAmount(S_IMPL))
    /\ result \div S_SIGN = Sign(x)

(* A float extended to a double keeps its value, and comes back unchanged  *)
(* (a NaN comes back as a NaN); a double becomes the float nearest to it.  *)
(* Halfway between two floats a double below the normal floats becomes the *)
(* even one, any other the one away from zero: the sticky mask of the      *)
(* first cut takes in the guard bit.  NarrowsToEven is what the comment    *)
(* there says.                                                             *)
FloatsNearest == ExtendsExactly /\ TruncatesToNearest

(* A double becomes the float nearest to it, halfway between two the even  *)
(* one, whatever its size: the significand is cut "rounding RNE".          *)
NarrowsToEven ==
  op = "trunc" /\ IsFinite(x) => RoundedSingle(result, DoubleAmount(x), FALSE)

(* The integer part of a finite number, toward zero. *)
Whole(v) ==
  LET m == DoubleAmount(v) \div Unit
  IN  IF Negative(v) THEN - m ELSE m

(* Integers, the smallest negative one too, become doubles exactly, and    *)
(* come back; a number whose integer part fits in the type is truncated to *)
(* it.                                                                     *)
IntegersExact ==
  /\ op \in {"float", "floatuns"} =>
       DoubleValue(result) = x * Unit /\ df_to_i(result, op = "float") = x
  /\ op = "fix" /\ IsFinite(x) /\ Whole(x) \in SignedInt => result = Whole(x)
  /\ op = "fixuns" /\ IsFinite(x) /\ Whole(x) \in UnsignedInt => result = Whole(x)

(* Between floats, doubles and integers: FloatsNearest and IntegersExact.  *)
ConversionsNearest == FloatsNearest /\ IntegersExact

(* A number beyond the range of int becomes the end of the range it is     *)
(* beyond: "saturate on overflow".                                         *)
FixSaturates ==
  op = "fix" /\ IsFinite(x) =>
    /\ Whole(x) > INT_MAX => result = INT_MAX
    /\ Whole(x) < INT_MIN => result = INT_MIN
=============================================================================
