------------------------------- MODULE DivMod -------------------------------
(***************************************************************************)
(* The 64-bit integer helpers of lib/compiler_rt_divmod.c: division by     *)
(* shifting and subtracting, its signed forms, multiplication by shifting  *)
(* and adding, and shifts put together from two half words.  Words have W  *)
(* bits and are numbers from 0 to 2^W - 1; a signed word is read in two's  *)
(* complement.                                                             *)
(*                                                                         *)
(* A definition named D_suffix in front of D is D with a plausible bug.    *)
(***************************************************************************)
EXTENDS Integers

CONSTANTS
  W,          \* bits of a word, 64 in the code; a half word has W / 2
  Pow2,       \* the powers of two up to 2^W
  Operation,  \* the helpers that are called
  Count,      \* the shift counts, read as unsigned
  OverShift   \* what the machine makes of a half word shifted by its width

ASSUME PowersAssumption ==
  /\ W \in Nat /\ W > 0 /\ W = 2 * (W \div 2)
  /\ Pow2 \in [0 .. W -> Nat] /\ Pow2[0] = 1
  /\ \A n \in 0 .. W - 1 : Pow2[n + 1] = 2 * Pow2[n]

ASSUME CountAssumption == Count \subseteq Nat

ASSUME OperationAssumption ==
  Operation \subseteq {"udiv", "umod", "div", "mod", "mul", "shl", "shr", "sar"}

ASSUME OverShiftAssumption == OverShift \subseteq {"zero", "same"} /\ OverShift # {}

VARIABLES
  pc,        \* "idle", "widen", "subtract", "multiply" or "done"
  op, z, y,  \* the helper called and its arguments
  n, d,      \* dividend and divisor of __udivmoddi4 as it was called
  a, div, quot, shift,  \* its variables; a and div also those of __muldi3
  result

vars == <<pc, op, z, y, n, d, a, div, quot, shift, result>>

Size == Pow2[W]
Top == Pow2[W - 1]
Word == 0 .. Size - 1

Negative(v) == v >= Top

(* What a word stands for when it is signed. *)
Signed(v) == IF Negative(v) THEN v - Size ELSE v

(* 0 - v in W bits *)
Neg(v) == IF v = 0 THEN 0 ELSE Size - v

uabsdi(v) == IF Negative(v) THEN Neg(v) ELSE v

Odd(v) == v % 2 = 1

Half_rounded_up(v) == (v + 1) \div 2

(* v >> 1 *)
Half(v) == v \div 2

(* v << 1 *)
Doubled(v) == (2 * v) % Size

Init ==
  /\ pc = "idle" /\ op = "none" /\ z = 0 /\ y = 0
  /\ n = 0 /\ d = 0 /\ a = 0 /\ div = 0 /\ quot = 0 /\ shift = 0
  /\ result = 0

-----------------------------------------------------------------------------
(* Shifts, from half words *)

H == W \div 2
HalfSize == Pow2[H]
Lo(v) == v % HalfSize
Hi(v) == v \div HalfSize
di_join(lo, hi) == lo + hi * HalfSize

(* h << k and h >> k on half words, for k < H *)
Left(h, k) == (h * Pow2[k]) % HalfSize
Right(h, k) == h \div Pow2[k]

__ashldi3(v, k) ==
  CASE k >= W -> 0
    [] k >= H /\ k < W -> di_join(0, Left(Lo(v), k - H))
    [] k = 0 -> v
    [] OTHER -> di_join(Left(Lo(v), k), Left(Hi(v), k) + Right(Lo(v), H - k))

__lshrdi3(v, k) ==
  CASE k >= W -> 0
    [] k >= H /\ k < W -> di_join(Right(Hi(v), k - H), 0)
    [] k = 0 -> v
    [] OTHER -> di_join(Right(Lo(v), k) + Left(Hi(v), H - k), Right(Hi(v), k))

(* The k high bits of a half word. *)
HighBits(k) == HalfSize - Pow2[H - k]

AllOnes == HalfSize - 1

Fill_never(v, k) == {0}

(* What is or'ed into a half word of v shifted right by k: for a negative  *)
(* word all ones << (H - k).  With k = 0 that shifts by the whole width,   *)
(* which C leaves open.                                                    *)
Fill(v, k) ==
  CASE ~ Negative(v) -> {0}
    [] Negative(v) /\ k > 0 -> {HighBits(k)}
    [] OTHER -> {IF o = "same" THEN AllOnes ELSE 0 : o \in OverShift}

(* Or: the bits that Fill sets are clear in h, unless it sets them all. *)
Filled(h, fill) == IF fill = AllOnes THEN AllOnes ELSE h + fill

(* The values __ashrdi3 may return. *)
__ashrdi3(v, k) ==
  LET ones == IF Negative(v) THEN AllOnes ELSE 0
  IN  CASE k >= W -> {IF Negative(v) THEN Size - 1 ELSE 0}
        [] k >= H /\ k < W ->
             {di_join(Filled(Right(Hi(v), k - H), f), ones) : f \in Fill(v, k - H)}
        [] k = 0 -> {v}
        [] OTHER ->
             {di_join(Right(Lo(v), k) + Left(Hi(v), H - k), Filled(Right(Hi(v), k), f)) :
                f \in Fill(v, k)}

Shift(o, v, k) ==
  /\ pc = "idle"
  /\ pc' = "done" /\ op' = o /\ z' = v /\ y' = k
  /\ result' \in CASE o = "shl" -> {__ashldi3(v, k)}
                   [] o = "shr" -> {__lshrdi3(v, k)}
                   [] o = "sar" -> __ashrdi3(v, k)
  /\ UNCHANGED <<n, d, a, div, quot, shift>>

-----------------------------------------------------------------------------
(* __muldi3: a and div are its a and b, result its r *)

More_above_one(b) == b > 1

(* Bits of b are left. *)
More(b) == b # 0

Multiply(v, w) ==
  /\ pc = "idle"
  /\ pc' = "multiply" /\ op' = "mul" /\ z' = v /\ y' = w
  /\ a' = v /\ div' = w /\ result' = 0
  /\ UNCHANGED <<n, d, quot, shift>>

MultiplyStep ==
  /\ pc = "multiply" /\ More(div)
  /\ result' = IF Odd(div) THEN (result + a) % Size ELSE result
  /\ a' = Doubled(a) /\ div' = Half(div)
  /\ UNCHANGED <<pc, op, z, y, n, d, quot, shift>>

MultiplyDone ==
  /\ pc = "multiply" /\ ~ More(div)
  /\ pc' = "done"
  /\ UNCHANGED <<op, z, y, n, d, a, div, quot, shift, result>>

-----------------------------------------------------------------------------
(* Division.  The signed helpers divide absolute values. *)

IsSigned(o) == o \in {"div", "mod"}
Operand(o, v) == IF IsSigned(o) THEN uabsdi(v) ELSE v

QuotientSign_of_dividend(o, q) == IF o = "div" /\ Negative(z) THEN Neg(q) ELSE q

(* What the caller of __udivmoddi4 makes of the quotient. *)
QuotientSign(o, q) == IF o = "div" /\ Negative(z) # Negative(y) THEN Neg(q) ELSE q

RemainderSign(o, r) == IF o = "mod" /\ Negative(z) THEN Neg(r) ELSE r

(* A helper is called; the signed ones answer 0 to a zero divisor, and so  *)
(* does __udivmoddi4.                                                      *)
DivideByZero(o, v) ==
  /\ pc = "idle"
  /\ pc' = "done" /\ op' = o /\ z' = v /\ y' = 0 /\ result' = 0
  /\ UNCHANGED <<n, d, a, div, quot, shift>>

Divide(o, v, w) ==
  /\ pc = "idle" /\ w # 0
  /\ pc' = "widen" /\ op' = o /\ z' = v /\ y' = w
  /\ n' = Operand(o, v) /\ d' = Operand(o, w)
  /\ a' = Operand(o, v) /\ div' = Operand(o, w)
  /\ quot' = 0 /\ shift' = 0 /\ result' = 0

(* The answer of the helper, from quotient q and remainder r. *)
Answer(q, r) ==
  IF op \in {"udiv", "div"} THEN QuotientSign(op, q) ELSE RemainderSign(op, r)

(* The test in front of the loop. *)
Small == shift = 0 /\ a < div

DivideSmall ==
  /\ pc = "widen" /\ Small
  /\ pc' = "done" /\ result' = Answer(0, a)
  /\ UNCHANGED <<op, z, y, n, d, a, div, quot, shift>>

CanWiden_strictly == div < Top /\ div < Half(a)

(* The loop that shifts the divisor up below the dividend. *)
CanWiden == div < Top /\ div <= Half(a)

Widen ==
  /\ pc = "widen" /\ ~ Small /\ CanWiden
  /\ div' = 2 * div /\ shift' = shift + 1
  /\ UNCHANGED <<pc, op, z, y, n, d, a, quot, result>>

WidenDone ==
  /\ pc = "widen" /\ ~ Small /\ ~ CanWiden
  /\ pc' = "subtract"
  /\ UNCHANGED <<op, z, y, n, d, a, div, quot, shift, result>>

Subtracts == a >= div

NextQuotient == (Doubled(quot) + (IF Subtracts THEN 1 ELSE 0)) % Size

NextRemainder == IF Subtracts THEN a - div ELSE a

SubtractStep ==
  /\ pc = "subtract" /\ shift > 0
  /\ quot' = NextQuotient /\ a' = NextRemainder
  /\ div' = Half(div) /\ shift' = shift - 1
  /\ UNCHANGED <<pc, op, z, y, n, d, result>>

SubtractLast ==
  /\ pc = "subtract" /\ shift = 0
  /\ quot' = NextQuotient /\ a' = NextRemainder
  /\ pc' = "done" /\ result' = Answer(NextQuotient, NextRemainder)
  /\ UNCHANGED <<op, z, y, n, d, div, shift>>

-----------------------------------------------------------------------------
Return ==
  /\ pc = "done"
  /\ pc' = "idle" /\ op' = "none" /\ z' = 0 /\ y' = 0
  /\ n' = 0 /\ d' = 0 /\ a' = 0 /\ div' = 0 /\ quot' = 0 /\ shift' = 0
  /\ result' = 0

Call ==
  /\ pc = "idle"
  /\ \/ \E o \in Operation \cap {"shl", "shr", "sar"}, v \in Word, k \in Count : Shift(o, v, k)
     \/ "mul" \in Operation /\ \E v, w \in Word : Multiply(v, w)
     \/ \E o \in Operation \cap {"udiv", "umod", "div", "mod"}, v \in Word :
          DivideByZero(o, v) \/ \E w \in Word : Divide(o, v, w)

Step ==
  \/ MultiplyStep \/ MultiplyDone
  \/ DivideSmall \/ Widen \/ WidenDone \/ SubtractStep \/ SubtractLast

Next == Call \/ Step \/ Return

Spec == Init /\ [][Next]_vars

(* The helpers are straight-line loops: they go on until they return. *)
FairSpec == Spec /\ WF_vars(Step)

-----------------------------------------------------------------------------
(* Properties *)

(* While the divisor moves back down, what has been subtracted so far is   *)
(* the partial quotient times twice the divisor in place, and what is left *)
(* is smaller than that: the division neither loses a bit of the quotient  *)
(* nor overflows the shifted divisor.                                      *)
PartialDivision ==
  pc = "subtract" => /\ div = d * Pow2[shift]
                     /\ n = 2 * (quot * div) + a
                     /\ a < 2 * div

Abs(i) == IF i < 0 THEN - i ELSE i

(* The quotient of integers, truncated toward zero. *)
Truncated(i, j) ==
  IF (i < 0) = (j < 0) THEN Abs(i) \div Abs(j) ELSE - (Abs(i) \div Abs(j))

(* Division by anything but zero truncates toward zero, in all four forms, *)
(* also for the smallest signed number; its quotient by -1 wraps.  The     *)
(* remainder has the sign of the dividend.  Division by zero is 0.         *)
DivisionExact ==
  pc = "done" /\ op \in {"udiv", "umod", "div", "mod"} =>
    LET Value(v) == IF IsSigned(op) THEN Signed(v) ELSE v
        q == Truncated(Value(z), Value(y))
    IN  IF y = 0 THEN result = 0
        ELSE IF op \in {"udiv", "div"}
        THEN Value(result) = q \/ Value(result) = q - Size
        ELSE Value(result) = Value(z) - Value(y) * q

(* Every turn of the loop and every result: PartialDivision and            *)
(* DivisionExact together.                                                 *)
DivisionCorrect == PartialDivision /\ DivisionExact

(* The product is exact modulo 2^W. *)
ProductExact == pc = "done" /\ op = "mul" => result = (z * y) % Size

(* The shifts built from half words are the shifts of the whole word; by W *)
(* or more, nothing or only the sign is left.  One case is the machine's:  *)
(* a negative number shifted by exactly the half may come out as -1, since *)
(* __ashrdi3 shifts its fill by the width of the half word.                *)
ShiftsExact ==
  pc = "done" /\ op \in {"shl", "shr", "sar"} =>
    LET k == IF y < W THEN y ELSE W
    IN  CASE op = "shl" -> result = (z * Pow2[k]) % Size
          [] op = "shr" -> result = z \div Pow2[k]
          [] op = "sar" -> \/ Signed(result) = Signed(z) \div Pow2[k]
                           \/ k = H /\ Negative(z) /\ Signed(result) = -1

(* The helpers without a division: ProductExact and ShiftsExact together.  *)
ProductsAndShiftsExact == ProductExact /\ ShiftsExact

(* Every helper returns. *)
HelpersReturn == (pc # "idle") ~> (pc = "done")
=============================================================================
