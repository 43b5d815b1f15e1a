---------------------------- MODULE DivModProofs ----------------------------
(***************************************************************************)
(* The 64-bit helpers are exact, for words of every even width: division   *)
(* by shifting and subtracting, multiplication by shifting and adding, and *)
(* the shifts put together from half words.                                *)
(*                                                                         *)
(* The inductive invariant follows the two loops of __udivmoddi4.  While   *)
(* the divisor is shifted up it is d * 2^shift and not above the dividend; *)
(* while it is shifted down, dividend = 2 * quotient * divisor + rest with *)
(* a rest below twice the divisor.  At shift 0 that is the definition of   *)
(* quotient and remainder.  While __muldi3 runs, the product is the sum so *)
(* far plus a * div, up to multiples of 2^W.  The shifts take one step;    *)
(* their lemmas split a word into half words of 2^k * 2^(H-k) values.      *)
(***************************************************************************)
EXTENDS DivMod, WellFoundedInduction, TLAPS

DivOps == {"udiv", "umod", "div", "mod"}

(* The arguments of __udivmoddi4 are what the helper made of its own. *)
Called ==
  /\ op \in DivOps /\ z \in Word /\ y \in Word /\ y # 0
  /\ n = Operand(op, z) /\ d = Operand(op, y)

(* The divisor is still being shifted up. *)
Widening ==
  /\ Called /\ a = n /\ quot = 0 /\ shift \in 0 .. W - 1
  /\ div = d * Pow2[shift]
  /\ shift > 0 => div <= a

(* The divisor is being shifted down. *)
Subtracting ==
  /\ Called /\ quot \in Nat /\ a \in Nat /\ shift \in 0 .. W - 1
  /\ PartialDivision

DivInv ==
  /\ pc \in {"idle", "widen", "subtract", "multiply", "done"}
  /\ pc = "widen" => Widening
  /\ pc = "subtract" => Subtracting
  /\ pc = "multiply" => op = "mul"
  /\ DivisionExact

-----------------------------------------------------------------------------
(* The powers of two are numbers, and a word has twice as many values as   *)
(* a half of its range.                                                    *)
LEMMA Powers ==
  /\ \A k \in 0 .. W : Pow2[k] \in Nat
  /\ Size = 2 * Top /\ Size \in Nat /\ Top \in Nat
  <1>1. Pow2[W] = 2 * Pow2[W - 1]
    <2>1. W - 1 \in 0 .. W - 1 /\ (W - 1) + 1 = W
      BY PowersAssumption
    <2> QED
      BY <2>1, PowersAssumption
  <1> QED
    BY <1>1, PowersAssumption DEF Size, Top

(* What is below a multiple determines the quotient. *)
LEMMA QuotientUnique ==
  ASSUME NEW q \in Nat, NEW v \in Nat, NEW r \in Nat, v > 0, r < v
  PROVE  (q * v + r) \div v = q
  BY Z3

(* The helpers pass __udivmoddi4 the absolute values of their arguments. *)
LEMMA Operands ==
  ASSUME NEW o, NEW v \in Word
  PROVE  /\ Operand(o, v) \in Word
         /\ v # 0 => Operand(o, v) > 0
         /\ IsSigned(o) => /\ Operand(o, v) = Abs(Signed(v)) /\ Operand(o, v) <= Top
                           /\ (Signed(v) < 0) = Negative(v)
                           /\ Signed(v) \in Int
         /\ ~ IsSigned(o) => Operand(o, v) = v
  BY Powers DEF Operand, uabsdi, Neg, Negative, Signed, Abs, Word

-----------------------------------------------------------------------------
(* The quotient and the remainder of the operands answer the helper. *)

(* What the division helpers make of an exact quotient is exact. *)
LEMMA QuotientAnswer ==
  ASSUME Called, op \in {"udiv", "div"}, NEW q \in Nat, NEW r \in Nat,
         n = q * d + r, r < d,
         op' = op, z' = z, y' = y, result' = Answer(q, r)
  PROVE  DivisionExact'
  <1>1. n \in Word /\ d \in Word /\ d > 0
    BY Operands DEF Called
  <1>2. n \div d = q
    BY <1>1, QuotientUnique DEF Word
  <1>3. q <= n
    BY <1>1, Powers, q * d >= q DEF Word
  <1>4. CASE op = "udiv"
    <2>1. n = z /\ d = y /\ result' = q
      BY <1>4, Operands DEF Called, IsSigned, Answer, QuotientSign
    <2>2. Truncated(z, y) = q
      BY <1>1, <1>2, <2>1, Powers DEF Truncated, Abs, Word
    <2> QED
      BY <1>4, <2>1, <2>2 DEF DivisionExact, IsSigned, Called
  <1>5. CASE op = "div"
    <2>1. /\ n = Abs(Signed(z)) /\ d = Abs(Signed(y)) /\ n <= Top
          /\ (Signed(z) < 0) = Negative(z) /\ (Signed(y) < 0) = Negative(y)
      BY <1>5, Operands DEF Called, IsSigned
    <2>2. Truncated(Signed(z), Signed(y)) = IF Negative(z) = Negative(y) THEN q ELSE - q
      BY <1>2, <2>1 DEF Truncated
    <2>3. result' = IF Negative(z) # Negative(y) THEN Neg(q) ELSE q
      BY <1>5 DEF Answer, QuotientSign
    <2>4. q <= Top
      BY <1>1, <1>3, <2>1, Powers DEF Word
    <2>5. Signed(q) = q \/ Signed(q) = q - Size
      BY DEF Signed
    <2>6. Signed(Neg(q)) = - q
      BY <2>4, Powers DEF Signed, Neg, Negative
    <2>7. \/ Signed(result') = Truncated(Signed(z), Signed(y))
          \/ Signed(result') = Truncated(Signed(z), Signed(y)) - Size
      <3>1. CASE Negative(z) = Negative(y)
        BY <3>1, <2>2, <2>3, <2>5
      <3>2. CASE Negative(z) # Negative(y)
        BY <3>2, <2>2, <2>3, <2>6
      <3> QED
        BY <3>1, <3>2
    <2> QED
      BY <1>5, <2>7 DEF DivisionExact, IsSigned, Called, Signed, Negative, Size, Top
  <1> QED
    BY <1>4, <1>5

(* What the remainder helpers make of an exact remainder is exact. *)
LEMMA RemainderAnswer ==
  ASSUME Called, op \in {"umod", "mod"}, NEW q \in Nat, NEW r \in Nat,
         n = q * d + r, r < d,
         op' = op, z' = z, y' = y, result' = Answer(q, r)
  PROVE  DivisionExact'
  <1>1. n \in Word /\ d \in Word /\ d > 0
    BY Operands DEF Called
  <1>2. n \div d = q
    BY <1>1, QuotientUnique DEF Word
  <1>3. CASE op = "umod"
    <2>1. n = z /\ d = y /\ result' = r
      BY <1>3, Operands DEF Called, IsSigned, Answer, RemainderSign
    <2>2. Truncated(z, y) = q
      BY <1>1, <1>2, <2>1, Powers DEF Truncated, Abs, Word
    <2>3. r = z - y * q
      BY <1>1, <2>1, Powers DEF Word
    <2> QED
      BY <1>3, <2>1, <2>2, <2>3 DEF DivisionExact, IsSigned, Called
  <1>4. CASE op = "mod"
    <2> DEFINE sx == Signed(z)
               sy == Signed(y)
    <2>1. /\ n = Abs(sx) /\ d = Abs(sy) /\ d <= Top /\ sx \in Int /\ sy \in Int
          /\ (sx < 0) = Negative(z)
      BY <1>4, Operands DEF Called, IsSigned
    <2>2. result' = IF Negative(z) THEN Neg(r) ELSE r
      BY <1>4 DEF Answer, RemainderSign
    <2>3. r < Top
      BY <1>1, <2>1, Powers DEF Word
    <2>4. Signed(r) = r /\ Signed(Neg(r)) = - r
      BY <2>3, Powers DEF Signed, Neg, Negative
    <2>5. Truncated(sx, sy) = IF (sx < 0) = (sy < 0) THEN q ELSE - q
      BY <1>2, <2>1 DEF Truncated
    <2>6. sx - sy * Truncated(sx, sy) = IF sx < 0 THEN - r ELSE r
      <3> HIDE DEF sx, sy
      <3>1. CASE sx < 0 /\ sy < 0
        <4>1. sx = - (q * d + r) /\ sy = - d /\ Truncated(sx, sy) = q
          BY <3>1, <2>1, <2>5 DEF Abs
        <4> QED
          BY <4>1, <3>1, <1>1, Powers DEF Word
      <3>2. CASE sx < 0 /\ ~ (sy < 0)
        <4>1. sx = - (q * d + r) /\ sy = d /\ Truncated(sx, sy) = - q
          BY <3>2, <2>1, <2>5 DEF Abs
        <4> QED
          BY <4>1, <3>2, <1>1, Powers DEF Word
      <3>3. CASE ~ (sx < 0) /\ sy < 0
        <4>1. sx = q * d + r /\ sy = - d /\ Truncated(sx, sy) = - q
          BY <3>3, <2>1, <2>5 DEF Abs
        <4> QED
          BY <4>1, <3>3, <1>1, Powers DEF Word
      <3>4. CASE ~ (sx < 0) /\ ~ (sy < 0)
        <4>1. sx = q * d + r /\ sy = d /\ Truncated(sx, sy) = q
          BY <3>4, <2>1, <2>5 DEF Abs
        <4> QED
          BY <4>1, <3>4, <1>1, Powers DEF Word
      <3> QED
        BY <3>1, <3>2, <3>3, <3>4
    <2>7. Signed(result') = sx - sy * Truncated(sx, sy)
      BY <2>1, <2>2, <2>4, <2>6
    <2> QED
      BY <1>4, <2>7 DEF DivisionExact, IsSigned, Called, Signed, Negative, Size, Top
  <1> QED
    BY <1>3, <1>4

(* Either answer, for the helper that was called. *)
LEMMA AnswerIsExact ==
  ASSUME Called, NEW q \in Nat, NEW r \in Nat, n = q * d + r, r < d,
         op' = op, z' = z, y' = y, result' = Answer(q, r)
  PROVE  DivisionExact'
  BY QuotientAnswer, RemainderAnswer DEF Called, DivOps

-----------------------------------------------------------------------------
(* The steps of __udivmoddi4 *)

(* The divisor in place is positive, and in the shifting loops a word. *)
LEMMA DivisorPositive ==
  ASSUME Called, NEW k \in 0 .. W
  PROVE  n \in Nat /\ n < Size /\ d \in Nat /\ d > 0 /\ d < Size
         /\ Pow2[k] \in Nat /\ d * Pow2[k] \in Nat
  BY Operands, Powers DEF Called, Word

(* A call of a division helper starts with the divisor unshifted. *)
LEMMA DivideStarts ==
  ASSUME NEW o \in DivOps, NEW v \in Word, NEW w \in Word, Divide(o, v, w)
  PROVE  DivInv'
  <1>1. Operand(o, w) \in Word
    BY Operands
  <1>2. Operand(o, w) * Pow2[0] = Operand(o, w)
    BY <1>1, Powers, PowersAssumption DEF Word
  <1>3. 0 \in 0 .. W - 1
    BY PowersAssumption
  <1>4. Widening'
    BY <1>2, <1>3 DEF Divide, Widening, Called, Operand, IsSigned, uabsdi, Neg, Negative, Word, Size, Top
  <1> QED
    BY <1>4 DEF Divide, DivInv, DivisionExact

(* A dividend below the divisor is the remainder, and the quotient is 0. *)
LEMMA DivideSmallStep ==
  ASSUME DivInv, DivideSmall
  PROVE  DivInv'
  <1>1. Widening
    BY DEF DivInv, DivideSmall
  <1>2. 0 \in 0 .. W /\ Pow2[0] = 1
    BY PowersAssumption
  <1>3. a \in Nat /\ d \in Nat /\ div = d /\ a < d /\ n = a
    BY <1>1, <1>2, DivisorPositive DEF Widening, DivideSmall, Small
  <1>4. n = 0 * d + a
    BY <1>3
  <1>5. DivisionExact'
    BY <1>1, <1>3, <1>4, AnswerIsExact DEF Widening, DivideSmall
  <1> QED
    BY <1>5 DEF DivInv, DivideSmall

(* Shifting the divisor up keeps it below the dividend, within the word. *)
LEMMA WidenStep ==
  ASSUME DivInv, Widen
  PROVE  DivInv'
  <1>1. Widening
    BY DEF DivInv, Widen
  <1>2. shift \in 0 .. W - 1 /\ shift \in 0 .. W
    BY <1>1, PowersAssumption DEF Widening
  <1>3. n \in Nat /\ d \in Nat /\ d > 0 /\ div \in Nat /\ a \in Nat
    BY <1>1, <1>2, DivisorPositive DEF Widening
  <1>4. Pow2[shift + 1] = 2 * Pow2[shift] /\ Pow2[shift] \in Nat
    BY <1>2, Powers, PowersAssumption
  <1>5. div' = d * Pow2[shift + 1]
    BY <1>1, <1>3, <1>4 DEF Widening, Widen
  <1>6. div' <= a
    BY <1>3 DEF Widen, CanWiden, Half
  <1>7. shift + 1 \in 0 .. W - 1
    <2>1. div < Top
      BY DEF Widen, CanWiden
    <2>2. SUFFICES ASSUME shift = W - 1 PROVE FALSE
      BY <1>2, <2>2, PowersAssumption
    <2>3. div = d * Top
      BY <1>1, <2>2 DEF Widening, Top
    <2>4. d * Top >= Top
      BY <1>3, Powers
    <2> QED
      BY <2>1, <2>3, <2>4, <1>3, Powers
  <1>8. Widening'
    BY <1>1, <1>5, <1>6, <1>7
    DEF Widening, Widen, Called, Operand, IsSigned, uabsdi, Neg, Negative, Word, Size, Top
  <1> QED
    BY <1>8 DEF DivInv, Widen, DivisionExact

(* When the divisor stops, the dividend is below twice the divisor. *)
LEMMA WidenDoneStep ==
  ASSUME DivInv, WidenDone
  PROVE  DivInv'
  <1>1. Widening
    BY DEF DivInv, WidenDone
  <1>2. shift \in 0 .. W - 1 /\ shift \in 0 .. W
    BY <1>1, PowersAssumption DEF Widening
  <1>3. n \in Nat /\ n < Size /\ d \in Nat /\ d > 0 /\ div \in Nat /\ a \in Nat
    BY <1>1, <1>2, DivisorPositive DEF Widening
  <1>4. a < 2 * div
    <2>1. CASE div < Top
      BY <2>1, <1>3 DEF WidenDone, CanWiden, Half
    <2>2. CASE ~ (div < Top)
      BY <2>2, <1>1, <1>3, Powers DEF Widening
    <2> QED
      BY <2>1, <2>2
  <1>5. n = 2 * (quot * div) + a
    BY <1>1, <1>3 DEF Widening
  <1>6. Subtracting'
    BY <1>1, <1>3, <1>4, <1>5
    DEF Widening, WidenDone, Subtracting, PartialDivision, Called, Operand, IsSigned,
        uabsdi, Neg, Negative, Word, Size, Top
  <1> QED
    BY <1>6 DEF DivInv, WidenDone, DivisionExact

(* One turn of the loop: the quotient gains a bit without overflowing, and *)
(* what is left is below the divisor.                                      *)
LEMMA OneTurn ==
  ASSUME Subtracting, pc = "subtract"
  PROVE  /\ NextQuotient \in Nat /\ NextRemainder \in Nat
         /\ n = NextQuotient * div + NextRemainder
         /\ NextRemainder < div
  <1>1. shift \in 0 .. W
    BY PowersAssumption DEF Subtracting
  <1>2. n \in Nat /\ n < Size /\ d \in Nat /\ d > 0 /\ div \in Nat
    BY <1>1, DivisorPositive DEF Subtracting, PartialDivision
  <1>3. quot \in Nat /\ a \in Nat /\ n = 2 * (quot * div) + a /\ a < 2 * div
    BY DEF Subtracting, PartialDivision
  <1>4. div > 0
    BY <1>2, <1>3
  <1>5. quot * div >= quot
    BY <1>2, <1>3, <1>4
  <1>6. 2 * quot <= n /\ (a >= div => 2 * quot + 1 <= n)
    BY <1>2, <1>3, <1>4, <1>5
  <1>7. Doubled(quot) = 2 * quot
    BY <1>2, <1>3, <1>6, Powers DEF Doubled
  <1>8. NextQuotient = IF Subtracts THEN 2 * quot + 1 ELSE 2 * quot
    BY <1>2, <1>3, <1>6, <1>7, Powers DEF NextQuotient, Subtracts
  <1>9. CASE Subtracts
    <2>1. NextRemainder = a - div /\ NextQuotient = 2 * quot + 1
      BY <1>8, <1>9 DEF NextRemainder
    <2>2. (2 * quot + 1) * div = 2 * (quot * div) + div
      BY <1>2, <1>3
    <2> QED
      BY <1>9, <2>1, <2>2, <1>2, <1>3 DEF Subtracts
  <1>10. CASE ~ Subtracts
    <2>1. NextRemainder = a /\ NextQuotient = 2 * quot
      BY <1>8, <1>10 DEF NextRemainder
    <2>2. (2 * quot) * div = 2 * (quot * div)
      BY <1>2, <1>3
    <2> QED
      BY <1>10, <2>1, <2>2, <1>2, <1>3 DEF Subtracts
  <1> QED
    BY <1>9, <1>10

(* One turn of the subtraction loop keeps dividend, quotient and rest. *)
LEMMA SubtractStepStep ==
  ASSUME DivInv, SubtractStep
  PROVE  DivInv'
  <1>1. Subtracting /\ pc = "subtract"
    BY DEF DivInv, SubtractStep
  <1>2. shift \in 0 .. W /\ shift - 1 \in 0 .. W - 1
    BY <1>1, PowersAssumption DEF Subtracting, SubtractStep
  <1>3. d \in Nat /\ div \in Nat /\ div = d * Pow2[shift]
    BY <1>1, <1>2, DivisorPositive DEF Subtracting, PartialDivision
  <1>4. Pow2[(shift - 1) + 1] = 2 * Pow2[shift - 1] /\ Pow2[shift - 1] \in Nat
    BY <1>2, Powers, PowersAssumption
  <1>5. div = 2 * (d * Pow2[shift - 1])
    BY <1>2, <1>3, <1>4
  <1>6. div' = d * Pow2[shift - 1] /\ div = 2 * div' /\ div' \in Nat
    BY <1>3, <1>4, <1>5 DEF SubtractStep, Half
  <1>7. /\ quot' \in Nat /\ a' \in Nat /\ n = quot' * div + a' /\ a' < div
    BY <1>1, OneTurn DEF SubtractStep
  <1>8. n = 2 * (quot' * div') + a' /\ a' < 2 * div'
    BY <1>6, <1>7
  <1>9. Subtracting'
    BY <1>1, <1>2, <1>6, <1>7, <1>8
    DEF Subtracting, SubtractStep, PartialDivision, Called, Operand, IsSigned,
        uabsdi, Neg, Negative, Word, Size, Top
  <1> QED
    BY <1>1, <1>9 DEF DivInv, SubtractStep, DivisionExact

(* The last turn leaves the quotient and the remainder. *)
LEMMA SubtractLastStep ==
  ASSUME DivInv, SubtractLast
  PROVE  DivInv'
  <1>1. Subtracting /\ pc = "subtract"
    BY DEF DivInv, SubtractLast
  <1>2. 0 \in 0 .. W /\ Pow2[0] = 1
    BY PowersAssumption
  <1>3. div = d
    BY <1>1, <1>2, DivisorPositive DEF Subtracting, PartialDivision, SubtractLast
  <1>4. DivisionExact'
    BY <1>1, <1>3, OneTurn, AnswerIsExact DEF Subtracting, SubtractLast
  <1> QED
    BY <1>4 DEF DivInv, SubtractLast

-----------------------------------------------------------------------------
(* No step of a helper disturbs the division in progress. *)
THEOREM DivisionInvariance == Spec => []DivInv
  <1>1. Init => DivInv
    BY DEF Init, DivInv, DivisionExact
  <1>2. ASSUME DivInv, [Next]_vars PROVE DivInv'
    <2>1. CASE UNCHANGED vars
      BY <1>2, <2>1
      DEF DivInv, vars, Widening, Subtracting, PartialDivision, Called, Operand, IsSigned,
          uabsdi, Neg, Negative, Word, Size, Top, DivisionExact, Truncated, Abs, Signed
    <2>2. ASSUME NEW o \in Operation \cap {"shl", "shr", "sar"}, NEW v \in Word,
                 NEW k \in Count, Shift(o, v, k)
          PROVE  DivInv'
      BY <2>2 DEF Shift, DivInv, DivisionExact
    <2>3. ASSUME NEW v \in Word, NEW w \in Word, Multiply(v, w) PROVE DivInv'
      BY <2>3 DEF Multiply, DivInv, DivisionExact
    <2>4. ASSUME NEW o \in DivOps, NEW v \in Word, DivideByZero(o, v) PROVE DivInv'
      BY <2>4 DEF DivideByZero, DivInv, DivisionExact
    <2>5. ASSUME NEW o \in DivOps, NEW v \in Word, NEW w \in Word, Divide(o, v, w)
          PROVE  DivInv'
      BY <2>5, DivideStarts
    <2>6. CASE MultiplyStep
      BY <1>2, <2>6 DEF MultiplyStep, DivInv, DivisionExact
    <2>7. CASE MultiplyDone
      BY <1>2, <2>7 DEF MultiplyDone, DivInv, DivisionExact
    <2>8. CASE DivideSmall
      BY <1>2, <2>8, DivideSmallStep
    <2>9. CASE Widen
      BY <1>2, <2>9, WidenStep
    <2>10. CASE WidenDone
      BY <1>2, <2>10, WidenDoneStep
    <2>11. CASE SubtractStep
      BY <1>2, <2>11, SubtractStepStep
    <2>12. CASE SubtractLast
      BY <1>2, <2>12, SubtractLastStep
    <2>13. CASE Return
      BY <2>13 DEF Return, DivInv, DivisionExact
    <2>14. CASE Call
      BY <2>14, <2>2, <2>3, <2>4, <2>5 DEF Call, DivOps
    <2> QED
      BY <1>2, <2>1, <2>6, <2>7, <2>8, <2>9, <2>10, <2>11, <2>12, <2>13, <2>14, SMTT(60) DEF Next, Step
  <1> QED
    BY <1>1, <1>2, PTL DEF Spec

(* Dividend, partial quotient and rest fit together in every turn of the   *)
(* loop of __udivmoddi4, for words of any width.                           *)
LEMMA PartialDivisionHolds == Spec => []PartialDivision
  <1>1. DivInv => PartialDivision
    BY DEF DivInv, Subtracting, PartialDivision
  <1> QED
    BY <1>1, DivisionInvariance, PTL

(* The four division helpers return the truncated quotient and the         *)
(* remainder that goes with it, for words of any width and all operands.   *)
LEMMA DivisionIsExact == Spec => []DivisionExact
  <1>1. DivInv => DivisionExact
    BY DEF DivInv
  <1> QED
    BY <1>1, DivisionInvariance, PTL

(* The loop neither loses a bit of the quotient nor overflows the shifted  *)
(* divisor, and what comes out is the truncated quotient and the remainder *)
(* that goes with it.                                                      *)
THEOREM DivisionIsCorrect == Spec => []DivisionCorrect
  BY PartialDivisionHolds, DivisionIsExact, PTL DEF DivisionCorrect
-----------------------------------------------------------------------------
(* Shifts.  A half word has p * q values; shifting it by p splits it into  *)
(* the part that stays and the part that moves to the other half.          *)

(* What is below a multiple is the remainder. *)
LEMMA RemainderUnique ==
  ASSUME NEW q \in Nat, NEW v \in Nat, NEW r \in Nat, v > 0, r < v
  PROVE  (q * v + r) % v = r
  BY Z3

(* Quotient and remainder of a number. *)
LEMMA Parts ==
  ASSUME NEW v \in Nat, NEW q \in Nat, q > 0
  PROVE  /\ v \div q \in Nat /\ v % q \in Nat /\ v % q < q /\ v = (v \div q) * q + (v % q)
  BY Z3

(* The quotient of a number below p * q is below p. *)
LEMMA QuotientBelow ==
  ASSUME NEW v \in Nat, NEW q \in Nat, q > 0, NEW p \in Nat, v < p * q
  PROVE  v \div q < p
  BY Parts, Z3

(* A half word of p * q values, multiplied by p: what is left of it. *)
LEMMA LeftPart ==
  ASSUME NEW p \in Nat, NEW q \in Nat, p > 0, q > 0, NEW h \in Nat
  PROVE  (h * p) % (p * q) = (h % q) * p
  <1> DEFINE c == h \div q
             s == h % q
  <1>1. c \in Nat /\ s \in Nat /\ s < q /\ h = c * q + s
    BY Parts
  <1> HIDE DEF c, s
  <1>2. h * p = c * (p * q) + s * p
    BY <1>1
  <1>3. s * p \in Nat /\ p * q \in Nat /\ p * q > 0 /\ s * p < p * q
    BY <1>1
  <1>4. (c * (p * q) + s * p) % (p * q) = s * p
    BY <1>1, <1>3, RemainderUnique
  <1> QED
    BY <1>2, <1>4 DEF s

(* A word v in two half words of b = p * q values each. *)
TwoHalves(p, q, b, lo, hi, v) ==
  /\ p \in Nat /\ p > 0 /\ q \in Nat /\ q > 0 /\ b \in Nat /\ b = p * q
  /\ lo \in Nat /\ lo < b /\ hi \in Nat /\ hi < b
  /\ v \in Nat /\ v = lo + hi * b

(* Two half words of p * q values joined after a shift up by p. *)
LEMMA JoinUp ==
  ASSUME NEW p, NEW q, NEW b, NEW lo, NEW hi, NEW v, TwoHalves(p, q, b, lo, hi, v)
  PROVE  ((lo * p) % b) + (((hi * p) % b) + lo \div q) * b = (v * p) % (b * b)
  <1> USE DEF TwoHalves
  <1> DEFINE u == lo \div q
             r == lo % q
             c == hi \div q
             s == hi % q
             joined == r * p + (s * p + u) * b
  <1>1. /\ u \in Nat /\ r \in Nat /\ r < q /\ lo = u * q + r /\ u < p
        /\ c \in Nat /\ s \in Nat /\ s < q /\ hi = c * q + s
    BY Parts, QuotientBelow
  <1>2. (lo * p) % b = r * p /\ (hi * p) % b = s * p
    BY LeftPart
  <1>3. b \in Nat /\ b > 0
    BY Z3
  <1> HIDE DEF u, r, c, s
  <1>4. r * p \in Nat /\ s * p \in Nat /\ r * p + p <= b /\ s * p + p <= b
    <2>1. (r + 1) * p <= q * p /\ (s + 1) * p <= q * p
      BY <1>1
    <2>2. (r + 1) * p = r * p + p /\ (s + 1) * p = s * p + p /\ q * p = b
      BY <1>1
    <2> QED
      BY <1>1, <2>1, <2>2
  <1>5. (lo + hi * b) * p = c * (b * b) + joined
    <2> DEFINE sp == s * p
    <2>0. sp \in Nat
      BY <1>4
    <2>1. lo * p = u * b + r * p /\ hi * p = c * b + s * p
      BY <1>1
    <2> HIDE DEF sp
    <2>2. (lo + hi * b) * p = lo * p + (hi * p) * b
      BY <1>3
    <2>3. (c * b + sp) * b = c * (b * b) + sp * b
      BY <1>1, <1>3, <2>0
    <2>4. (sp + u) * b = sp * b + u * b
      BY <1>1, <1>3, <2>0
    <2> QED
      BY <1>1, <1>3, <1>4, <2>0, <2>1, <2>2, <2>3, <2>4 DEF sp
  <1>6. joined \in Nat /\ joined < b * b /\ b * b \in Nat /\ b * b > 0
    <2>1. s * p + u + 1 <= b
      BY <1>1, <1>3, <1>4
    <2>2. (s * p + u + 1) * b <= b * b
      BY <1>1, <1>3, <1>4, <2>1
    <2>3. (s * p + u + 1) * b = (s * p + u) * b + b
      BY <1>1, <1>3, <1>4
    <2>4. (s * p + u) * b \in Nat /\ b * b \in Nat /\ b * b > 0
      BY <1>1, <1>3, <1>4
    <2> QED
      BY <1>1, <1>3, <1>4, <2>2, <2>3, <2>4
  <1>7. (c * (b * b) + joined) % (b * b) = joined
    BY <1>1, <1>6, RemainderUnique
  <1> QED
    BY <1>2, <1>5, <1>7 DEF u

(* The low half word shifted into the high one, and further. *)
LEMMA HighUp ==
  ASSUME NEW p, NEW q, NEW b, NEW lo, NEW hi, NEW v, TwoHalves(p, q, b, lo, hi, v)
  PROVE  ((lo * p) % b) * b = (v * (p * b)) % (b * b)
  <1> USE DEF TwoHalves
  <1> DEFINE c == (lo * p) \div b
             l == (lo * p) % b
  <1>1. b \in Nat /\ b > 0 /\ lo * p \in Nat
    BY Z3
  <1>2. c \in Nat /\ l \in Nat /\ l < b /\ lo * p = c * b + l
    BY <1>1, Parts
  <1> HIDE DEF c, l
  <1>3. (lo + hi * b) * (p * b) = (c + hi * p) * (b * b) + l * b
    <2>1. (lo + hi * b) * (p * b) = (lo * p) * b + (hi * p) * (b * b)
      BY <1>1
    <2>2. (c * b + l) * b = c * (b * b) + l * b
      BY <1>1, <1>2
    <2>3. (c + hi * p) * (b * b) = c * (b * b) + (hi * p) * (b * b)
      BY <1>1, <1>2
    <2> QED
      BY <1>1, <1>2, <2>1, <2>2, <2>3
  <1>4. l * b \in Nat /\ l * b < b * b /\ b * b \in Nat /\ b * b > 0 /\ c + hi * p \in Nat
    BY <1>1, <1>2
  <1>5. ((c + hi * p) * (b * b) + l * b) % (b * b) = l * b
    BY <1>4, RemainderUnique
  <1> QED
    BY <1>3, <1>5 DEF l

(* Two half words joined after a shift down by p. *)
LEMMA JoinDown ==
  ASSUME NEW p, NEW q, NEW b, NEW lo, NEW hi, NEW w, TwoHalves(p, q, b, lo, hi, w)
  PROVE  /\ lo \div p + ((hi * q) % b) + (hi \div p) * b = w \div p
         /\ lo \div p + ((hi * q) % b) \in 0 .. b - 1
         /\ lo \div p \in 0 .. q - 1 /\ hi \div p \in 0 .. q - 1
  <1> USE DEF TwoHalves
  <1> DEFINE u == lo \div p
             r == lo % p
             v == hi \div p
             t == hi % p
             joined == u + t * q + v * b
  <1>0. b \in Nat /\ b > 0 /\ b = q * p
    BY Z3
  <1>1. /\ u \in Nat /\ r \in Nat /\ r < p /\ lo = u * p + r /\ u < q
        /\ v \in Nat /\ t \in Nat /\ t < p /\ hi = v * p + t /\ v < q
    BY <1>0, Parts, QuotientBelow
  <1>2. (hi * q) % b = t * q
    <2>1. (hi * q) % (q * p) = (hi % p) * q
      BY LeftPart
    <2> QED
      BY <1>0, <2>1
  <1> HIDE DEF u, r, v, t
  <1>3. lo + hi * b = joined * p + r
    <2>1. hi * b = (v * b) * p + (t * q) * p
      BY <1>0, <1>1
    <2>2. joined * p = u * p + (t * q) * p + (v * b) * p
      BY <1>0, <1>1
    <2> QED
      BY <1>0, <1>1, <2>1, <2>2
  <1>4. joined \in Nat
    BY <1>0, <1>1
  <1>5. (joined * p + r) \div p = joined
    BY <1>1, <1>4, QuotientUnique
  <1>6. u + t * q \in 0 .. b - 1
    <2>1. (t + 1) * q <= p * q /\ (t + 1) * q = t * q + q /\ t * q \in Nat
      BY <1>1
    <2> QED
      BY <1>0, <1>1, <2>1
  <1> QED
    BY <1>1, <1>2, <1>3, <1>5, <1>6 DEF u, v

(* The high half word shifted into the low one, and further. *)
LEMMA LowDown ==
  ASSUME NEW p \in Nat, NEW b \in Nat, p > 0, b > 0, NEW lo \in Nat, NEW hi \in Nat, lo < b
  PROVE  hi \div p = (lo + hi * b) \div (p * b)
  <1> DEFINE v == hi \div p
             t == hi % p
  <1>1. v \in Nat /\ t \in Nat /\ t < p /\ hi = v * p + t
    BY Parts
  <1> HIDE DEF v, t
  <1>2. lo + hi * b = v * (p * b) + (lo + t * b)
    BY <1>1
  <1>3. lo + t * b \in Nat /\ p * b \in Nat /\ p * b > 0 /\ lo + t * b < p * b
    <2>1. (t + 1) * b <= p * b /\ (t + 1) * b = t * b + b /\ t * b \in Nat
      BY <1>1
    <2> QED
      BY <1>1, <2>1
  <1>4. (v * (p * b) + (lo + t * b)) \div (p * b) = v
    BY <1>1, <1>3, QuotientUnique
  <1> QED
    BY <1>2, <1>4 DEF v

-----------------------------------------------------------------------------
(* Every nonempty set of numbers has a least one: the induction of the     *)
(* next lemma.                                                             *)
LEMMA LeastNumber ==
  ASSUME NEW S \in SUBSET Nat, S # {}
  PROVE  \E m \in S : \A i \in S : m <= i
  <1>1. PICK m \in S : \A i \in S : ~ (<<i, m>> \in OpToRel(<, Nat))
    BY NatLessThanWellFounded, WFMin, Zenon
  <1>2. ASSUME NEW i \in S PROVE m <= i
    <2>1. m \in Nat /\ i \in Nat
      OBVIOUS
    <2>2. ~ (i < m)
      BY <1>1, <2>1 DEF OpToRel
    <2> QED
      BY <2>1, <2>2
  <1> QED
    BY <1>2

(* Powers multiply, and none is zero. *)
LEMMA PowersMultiply ==
  ASSUME NEW i \in Nat, NEW j \in Nat, i + j <= W
  PROVE  Pow2[i + j] = Pow2[i] * Pow2[j]
  <1> DEFINE bad == {e \in Nat : i + e <= W /\ Pow2[i + e] # Pow2[i] * Pow2[e]}
  <1> SUFFICES ASSUME bad # {} PROVE FALSE
    OBVIOUS
  <1>0. W \in Nat /\ \A e \in 0 .. W : Pow2[e] \in Nat
    BY PowersAssumption, Powers
  <1>1. PICK m \in bad : \A e \in bad : m <= e
    BY LeastNumber
  <1>2. CASE m = 0
    <2>1. i + m = i /\ Pow2[m] = 1 /\ i \in 0 .. W
      BY <1>0, <1>2, PowersAssumption
    <2>2. Pow2[i] * 1 = Pow2[i]
      BY <1>0, <2>1
    <2> QED
      BY <1>1, <2>1, <2>2
  <1>3. CASE m # 0
    <2>1. m - 1 \in Nat /\ i + (m - 1) <= W /\ m - 1 \notin bad
      BY <1>0, <1>1, <1>3
    <2>2. Pow2[i + (m - 1)] = Pow2[i] * Pow2[m - 1]
      BY <2>1
    <2>3. i + (m - 1) \in 0 .. W - 1 /\ m - 1 \in 0 .. W - 1 /\ i \in 0 .. W
      BY <1>0, <1>1, <2>1
    <2>4. (i + (m - 1)) + 1 = i + m /\ (m - 1) + 1 = m
      BY <2>1
    <2>5. Pow2[i + m] = 2 * Pow2[i + (m - 1)] /\ Pow2[m] = 2 * Pow2[m - 1]
      BY <2>3, <2>4, PowersAssumption
    <2>6. Pow2[m - 1] \in Nat /\ Pow2[i] \in Nat
      BY <1>0, <2>3
    <2>7. 2 * (Pow2[i] * Pow2[m - 1]) = Pow2[i] * (2 * Pow2[m - 1])
      BY <2>6
    <2> QED
      BY <1>1, <2>2, <2>5, <2>7
  <1> QED
    BY <1>2, <1>3

(* A power of two is not zero, and twice it is even. *)
LEMMA PowersPositive ==
  ASSUME NEW k \in 0 .. W
  PROVE  Pow2[k] \in Nat /\ Pow2[k] > 0
  <1> DEFINE bad == {e \in Nat : e <= W /\ Pow2[e] = 0}
  <1>0. W \in Nat /\ \A e \in 0 .. W : Pow2[e] \in Nat
    BY PowersAssumption, Powers
  <1>1. bad = {}
    <2> SUFFICES ASSUME bad # {} PROVE FALSE
      OBVIOUS
    <2>1. PICK m \in bad : \A e \in bad : m <= e
      BY LeastNumber
    <2>2. m # 0
      BY <2>1, PowersAssumption
    <2>3. m - 1 \in 0 .. W - 1 /\ (m - 1) + 1 = m /\ m - 1 \notin bad
      BY <1>0, <2>1, <2>2
    <2>4. Pow2[m] = 2 * Pow2[m - 1] /\ Pow2[m - 1] \in Nat /\ Pow2[m - 1] # 0
      BY <1>0, <2>1, <2>3, PowersAssumption
    <2> QED
      BY <2>1, <2>4
  <1> QED
    BY <1>0, <1>1

(* A word is two half words. *)
LEMMA Halves ==
  /\ H \in Nat /\ H > 0 /\ W = H + H /\ HalfSize \in Nat /\ HalfSize > 1
  /\ Size = HalfSize * HalfSize /\ Size > 0
  /\ HalfSize = 2 * Pow2[H - 1] /\ Top = Pow2[H - 1] * HalfSize /\ Pow2[H - 1] \in Nat
  <1>1. H \in Nat /\ H > 0 /\ W = H + H
    BY PowersAssumption DEF H
  <1>2. H \in 0 .. W /\ H - 1 \in 0 .. W - 1 /\ H - 1 \in Nat /\ (H - 1) + 1 = H /\ H + H <= W
        /\ H - 1 \in 0 .. W /\ (H - 1) + H = W - 1 /\ (H - 1) + H <= W /\ W \in 0 .. W
    BY <1>1
  <1> HIDE DEF H
  <1>3. Pow2[H] = 2 * Pow2[H - 1] /\ Pow2[H - 1] \in Nat /\ Pow2[H - 1] > 0
    BY <1>2, PowersAssumption, PowersPositive
  <1>4. Pow2[H + H] = Pow2[H] * Pow2[H]
    BY <1>1, <1>2, PowersMultiply
  <1>5. Pow2[(H - 1) + H] = Pow2[H - 1] * Pow2[H]
    BY <1>1, <1>2, PowersMultiply
  <1>6. Size > 0
    BY <1>2, PowersPositive DEF Size
  <1> QED
    BY <1>1, <1>2, <1>3, <1>4, <1>5, <1>6 DEF HalfSize, Size, Top

(* The half words of a word. *)
LEMMA LowAndHigh ==
  ASSUME NEW v \in Word
  PROVE  /\ Lo(v) \in Nat /\ Lo(v) < HalfSize /\ Hi(v) \in Nat /\ Hi(v) < HalfSize
         /\ v = Lo(v) + Hi(v) * HalfSize /\ v \in Nat /\ v < Size
  <1>1. v \in Nat /\ v < Size /\ HalfSize \in Nat /\ HalfSize > 0 /\ v < HalfSize * HalfSize
    BY Halves DEF Word
  <1>2. /\ v \div HalfSize \in Nat /\ v % HalfSize \in Nat /\ v % HalfSize < HalfSize
        /\ v = (v \div HalfSize) * HalfSize + (v % HalfSize) /\ v \div HalfSize < HalfSize
    BY <1>1, Parts, QuotientBelow
  <1> QED
    BY <1>1, <1>2 DEF Lo, Hi

(* The factors of a shift by k of a half word. *)
LEMMA Factors ==
  ASSUME NEW k \in 0 .. H
  PROVE  /\ Pow2[k] \in Nat /\ Pow2[k] > 0 /\ Pow2[H - k] \in Nat /\ Pow2[H - k] > 0
         /\ Pow2[k] * Pow2[H - k] = HalfSize
         /\ Pow2[H + k] = Pow2[k] * HalfSize
  <1>1. H \in Nat /\ W = H + H
    BY Halves
  <1>2. k \in 0 .. W /\ H - k \in 0 .. W /\ k \in Nat /\ H - k \in Nat /\ k + (H - k) = H
        /\ k + (H - k) <= W /\ k + H <= W /\ k + H = H + k
    BY <1>1
  <1>3. Pow2[k + (H - k)] = Pow2[k] * Pow2[H - k]
    BY <1>2, PowersMultiply
  <1>4. Pow2[k + H] = Pow2[k] * Pow2[H]
    BY <1>1, <1>2, PowersMultiply
  <1> QED
    BY <1>2, <1>3, <1>4, PowersPositive DEF HalfSize

(* Which power a count stands for. *)
Shifted(k) == IF k < W THEN k ELSE W

(* __ashldi3 is multiplication by a power of two. *)
LEMMA ShiftLeft ==
  ASSUME NEW v \in Word, NEW k \in Nat
  PROVE  __ashldi3(v, k) = (v * Pow2[Shifted(k)]) % Size
  <1> DEFINE lo == Lo(v)
             hi == Hi(v)
  <1>0. /\ lo \in Nat /\ lo < HalfSize /\ hi \in Nat /\ hi < HalfSize
        /\ v = lo + hi * HalfSize /\ v \in Nat /\ v < Size
        /\ H \in Nat /\ W = H + H /\ Size \in Nat /\ Size = HalfSize * HalfSize /\ Size > 0
        /\ HalfSize \in Nat
    BY LowAndHigh, Halves
  <1>1. CASE k >= W
    <2>1. __ashldi3(v, k) = 0
      BY <1>0, <1>1, Halves DEF __ashldi3
    <2>2. Pow2[Shifted(k)] = Size
      BY <1>0, <1>1 DEF Shifted, Size
    <2>3. (v * Size + 0) % Size = 0
      BY <1>0, RemainderUnique
    <2>4. v * Size + 0 = v * Size
      BY <1>0
    <2> QED
      BY <2>1, <2>2, <2>3, <2>4
  <1>2. CASE k >= H /\ k < W
    <2> DEFINE j == k - H
               p == Pow2[j]
               q == Pow2[H - j]
    <2>1. j \in 0 .. H /\ H + j = k /\ Shifted(k) = k
      BY <1>0, <1>2 DEF Shifted
    <2>2. p \in Nat /\ p > 0 /\ q \in Nat /\ q > 0 /\ p * q = HalfSize /\ Pow2[k] = p * HalfSize
      BY <2>1, Factors
    <2>3. __ashldi3(v, k) = di_join(0, Left(lo, j))
      BY <1>0, <1>2 DEF __ashldi3
    <2> HIDE DEF j, p, q
    <2>4. (lo * p) % HalfSize \in Nat
      BY <1>0, <2>2, Parts
    <2>5. __ashldi3(v, k) = ((lo * p) % HalfSize) * HalfSize
      BY <1>0, <2>3, <2>4 DEF di_join, Left, p
    <2> HIDE DEF lo, hi
    <2>6. TwoHalves(p, q, HalfSize, lo, hi, v)
      BY <1>0, <2>2 DEF TwoHalves
    <2>7. ((lo * p) % HalfSize) * HalfSize = (v * (p * HalfSize)) % (HalfSize * HalfSize)
      BY <2>6, HighUp
    <2> QED
      BY <1>0, <2>1, <2>2, <2>5, <2>7
  <1>3. CASE k = 0
    <2>1. __ashldi3(v, k) = v
      BY <1>0, <1>3, Halves DEF __ashldi3
    <2>2. Pow2[Shifted(k)] = 1 /\ v * 1 = v
      BY <1>0, <1>3, PowersAssumption DEF Shifted
    <2>3. (0 * Size + v) % Size = v /\ 0 * Size + v = v
      BY <1>0, RemainderUnique
    <2> QED
      BY <2>1, <2>2, <2>3
  <1>4. CASE k > 0 /\ k < H
    <2> DEFINE p == Pow2[k]
               q == Pow2[H - k]
    <2>1. k \in 0 .. H /\ Shifted(k) = k
      BY <1>0, <1>4 DEF Shifted
    <2>2. p \in Nat /\ p > 0 /\ q \in Nat /\ q > 0 /\ p * q = HalfSize
      BY <2>1, Factors
    <2>3. __ashldi3(v, k) = di_join(Left(lo, k), Left(hi, k) + Right(lo, H - k))
      BY <1>0, <1>4 DEF __ashldi3
    <2> HIDE DEF p, q
    <2>4. __ashldi3(v, k) = ((lo * p) % HalfSize) + (((hi * p) % HalfSize) + lo \div q) * HalfSize
      BY <2>3 DEF di_join, Left, Right, p, q
    <2> HIDE DEF lo, hi
    <2>6. TwoHalves(p, q, HalfSize, lo, hi, v)
      BY <1>0, <2>2 DEF TwoHalves
    <2>5. ((lo * p) % HalfSize) + (((hi * p) % HalfSize) + lo \div q) * HalfSize =
            (v * p) % (HalfSize * HalfSize)
      BY <2>6, JoinUp
    <2> QED
      BY <1>0, <2>1, <2>2, <2>4, <2>5 DEF p
  <1> QED
    BY <1>0, <1>1, <1>2, <1>3, <1>4

(* The two halves of a word shifted down by k, before any sign is filled in. *)
LEMMA DownParts ==
  ASSUME NEW v \in Word, NEW k \in Nat, k > 0, k < H
  PROVE  /\ Right(Lo(v), k) + Left(Hi(v), H - k) \in 0 .. HalfSize - 1
         /\ Right(Hi(v), k) \in 0 .. Pow2[H - k] - 1
         /\ Right(Lo(v), k) + Left(Hi(v), H - k) + Right(Hi(v), k) * HalfSize = v \div Pow2[k]
  <1> DEFINE lo == Lo(v)
             hi == Hi(v)
             p == Pow2[k]
             q == Pow2[H - k]
  <1>0. /\ lo \in Nat /\ lo < HalfSize /\ hi \in Nat /\ hi < HalfSize /\ v = lo + hi * HalfSize
        /\ H \in Nat /\ HalfSize \in Nat /\ v \in Nat
    BY LowAndHigh, Halves
  <1>1. p \in Nat /\ p > 0 /\ q \in Nat /\ q > 0 /\ p * q = HalfSize
    <2>1. k \in 0 .. H
      BY <1>0
    <2> QED
      BY <2>1, Factors
  <1> HIDE DEF p, q, lo, hi
  <1>5. TwoHalves(p, q, HalfSize, lo, hi, v)
    BY <1>0, <1>1 DEF TwoHalves
  <1>2. /\ lo \div p + ((hi * q) % HalfSize) + (hi \div p) * HalfSize = v \div p
        /\ lo \div p + ((hi * q) % HalfSize) \in 0 .. HalfSize - 1
        /\ hi \div p \in 0 .. q - 1
    BY <1>5, JoinDown
  <1>3. Right(lo, k) + Left(hi, H - k) \in 0 .. HalfSize - 1
    BY <1>2, Zenon DEF Right, Left, p, q
  <1>4. Right(hi, k) \in 0 .. q - 1
    BY <1>2, Zenon DEF Right, p
  <1>6. Right(lo, k) + Left(hi, H - k) + Right(hi, k) * HalfSize = v \div p
    BY <1>2, Zenon DEF Right, Left, p, q
  <1> QED
    BY <1>3, <1>4, <1>6, Zenon DEF p, q, lo, hi

(* The same from the high half down. *)
LEMMA LowParts ==
  ASSUME NEW v \in Word, NEW k \in Nat, k >= H, k < W
  PROVE  /\ Right(Hi(v), k - H) = v \div Pow2[k]
         /\ Right(Hi(v), k - H) \in 0 .. Pow2[H - (k - H)] - 1
         /\ k - H \in 0 .. H - 1 /\ Pow2[k] = Pow2[k - H] * HalfSize
  <1> DEFINE lo == Lo(v)
             hi == Hi(v)
             j == k - H
             p == Pow2[j]
             q == Pow2[H - j]
  <1>0. /\ lo \in Nat /\ lo < HalfSize /\ hi \in Nat /\ hi < HalfSize /\ v = lo + hi * HalfSize
        /\ H \in Nat /\ HalfSize \in Nat /\ HalfSize > 0 /\ W = H + H
    BY LowAndHigh, Halves
  <1>1. j \in 0 .. H - 1 /\ H + j = k
    BY <1>0
  <1>2. p \in Nat /\ p > 0 /\ q \in Nat /\ q > 0 /\ p * q = HalfSize /\ Pow2[k] = p * HalfSize
        /\ q * p = HalfSize
    <2>1. j \in 0 .. H
      BY <1>0, <1>1
    <2>2. p \in Nat /\ p > 0 /\ q \in Nat /\ q > 0 /\ p * q = HalfSize /\ Pow2[k] = p * HalfSize
      BY <1>1, <2>1, Factors
    <2> QED
      BY <2>2
  <1> HIDE DEF p, q, lo, hi
  <1>3. hi \div p = (lo + hi * HalfSize) \div (p * HalfSize)
    BY <1>0, <1>2, LowDown
  <1>4. hi \div p \in Nat /\ hi \div p < q
    BY <1>0, <1>2, Parts, QuotientBelow
  <1>5. hi \div p \in 0 .. q - 1
    BY <1>2, <1>4
  <1> QED
    BY <1>0, <1>1, <1>2, <1>3, <1>5 DEF Right, p, q, hi

(* __lshrdi3 is division by a power of two. *)
LEMMA ShiftRight ==
  ASSUME NEW v \in Word, NEW k \in Nat
  PROVE  __lshrdi3(v, k) = v \div Pow2[Shifted(k)]
  <1>0. /\ v \in Nat /\ v < Size /\ H \in Nat /\ H > 0 /\ W = H + H /\ Size \in Nat /\ Size > 0
        /\ HalfSize \in Nat
    BY LowAndHigh, Halves
  <1>1. CASE k >= W
    <2>1. __lshrdi3(v, k) = 0 /\ Pow2[Shifted(k)] = Size
      BY <1>0, <1>1 DEF __lshrdi3, Shifted, Size
    <2>2. (0 * Size + v) \div Size = 0 /\ 0 * Size + v = v
      BY <1>0, QuotientUnique
    <2> QED
      BY <2>1, <2>2
  <1>2. CASE k >= H /\ k < W
    <2>1. __lshrdi3(v, k) = di_join(Right(Hi(v), k - H), 0) /\ Shifted(k) = k
      BY <1>0, <1>2 DEF __lshrdi3, Shifted
    <2>2. Right(Hi(v), k - H) = v \div Pow2[k] /\ Right(Hi(v), k - H) \in Int
      <3>1. Pow2[H - (k - H)] \in Nat
        BY <1>0, <1>2, Factors
      <3> QED
        BY <1>2, <3>1, LowParts
    <2>3. di_join(Right(Hi(v), k - H), 0) = Right(Hi(v), k - H)
      BY <1>0, <2>2 DEF di_join
    <2> QED
      BY <2>1, <2>2, <2>3
  <1>3. CASE k = 0
    <2>1. __lshrdi3(v, k) = v /\ Pow2[Shifted(k)] = 1 /\ v \div 1 = v
      BY <1>0, <1>3, PowersAssumption DEF __lshrdi3, Shifted
    <2> QED
      BY <2>1
  <1>4. CASE k > 0 /\ k < H
    <2>1. /\ __lshrdi3(v, k) = di_join(Right(Lo(v), k) + Left(Hi(v), H - k), Right(Hi(v), k))
          /\ Shifted(k) = k
      BY <1>0, <1>4 DEF __lshrdi3, Shifted
    <2> QED
      BY <1>4, <2>1, DownParts DEF di_join
  <1> QED
    BY <1>0, <1>1, <1>2, <1>3, <1>4

(* A quotient of integers, rounded down, is known by its remainder. *)
LEMMA FloorUnique ==
  ASSUME NEW q \in Int, NEW v \in Nat, NEW r \in Nat, v > 0, r < v
  PROVE  (q * v + r) \div v = q
  BY Z3

(* Taking a multiple of the divisor away takes as much off the quotient. *)
LEMMA FloorDown ==
  ASSUME NEW v \in Nat, NEW f \in Nat, f > 0, NEW m \in Nat, NEW s, s = m * f
  PROVE  (v - s) \div f = (v \div f) - m
  <1> DEFINE c == v \div f
             r == v % f
  <1>1. c \in Nat /\ r \in Nat /\ r < f /\ v = c * f + r
    BY Parts
  <1> HIDE DEF c, r
  <1>2. v - s = (c - m) * f + r
    BY <1>1
  <1>3. ((c - m) * f + r) \div f = c - m
    <2>1. c - m \in Int
      BY <1>1
    <2> QED
      BY <1>1, <2>1, FloorUnique
  <1> QED
    BY <1>2, <1>3 DEF c

(* The factors of a half word, and its sign bit T.  Shifted by less than   *)
(* its width, a half word does not lose it, and it is not among the bits   *)
(* that are left unset.                                                    *)
LEMMA SignFactors ==
  ASSUME NEW k \in 0 .. H - 1
  PROVE  /\ Pow2[H - k] = 2 * Pow2[H - 1 - k] /\ Pow2[H - 1 - k] \in Nat
         /\ Pow2[H - 1 - k] > 0 /\ Pow2[H - 1] = Pow2[H - 1 - k] * Pow2[k]
         /\ Pow2[H - k] <= HalfSize
  <1>0. H \in Nat /\ H > 0 /\ W = H + H /\ HalfSize \in Nat
    BY Halves
  <1> DEFINE e == H - 1 - k
  <1>1. e \in 0 .. W - 1 /\ e + 1 = H - k /\ e \in Nat /\ k \in Nat /\ e + k = H - 1
        /\ e + k <= W /\ k \in 0 .. H /\ e \in 0 .. W
    BY <1>0
  <1> HIDE DEF e
  <1>2. Pow2[e + 1] = 2 * Pow2[e] /\ Pow2[e + k] = Pow2[e] * Pow2[k]
    BY <1>1, PowersAssumption, PowersMultiply
  <1>3. Pow2[e] \in Nat /\ Pow2[e] > 0
    BY <1>1, PowersPositive
  <1>4. Pow2[H - k] <= HalfSize
    <2> DEFINE p == Pow2[k]
               q == Pow2[H - k]
    <2>1. p \in Nat /\ p > 0 /\ q \in Nat /\ p * q = HalfSize
      BY <1>1, Factors
    <2> HIDE DEF p, q
    <2>2. 1 * q <= p * q /\ 1 * q = q
      BY <2>1
    <2> QED
      BY <2>1, <2>2 DEF q
  <1> QED
    BY <1>1, <1>2, <1>3, <1>4 DEF e

(* The sign of a word is the sign of its high half. *)
LEMMA HighSign ==
  ASSUME NEW v \in Word, Negative(v)
  PROVE  Hi(v) >= Pow2[H - 1]
  <1> DEFINE t == Pow2[H - 1]
             hi == Hi(v)
             lo == Lo(v)
  <1>0. /\ lo \in Nat /\ lo < HalfSize /\ hi \in Nat /\ v = lo + hi * HalfSize
        /\ HalfSize \in Nat /\ HalfSize > 0 /\ Top = t * HalfSize /\ t \in Nat /\ v >= Top
    BY LowAndHigh, Halves DEF Negative
  <1> HIDE DEF t, hi, lo
  <1>1. CASE hi < t
    <2>1. (hi + 1) * HalfSize <= t * HalfSize
      BY <1>0, <1>1
    <2>2. (hi + 1) * HalfSize = hi * HalfSize + HalfSize
      BY <1>0
    <2> QED
      BY <1>0, <2>1, <2>2
  <1> QED
    BY <1>0, <1>1 DEF t, hi

(* The high half of a negative word, shifted down and filled: its sign bit *)
(* is set.                                                                 *)
LEMMA FilledSign ==
  ASSUME NEW v \in Word, Negative(v), NEW k \in 0 .. H - 1
  PROVE  Right(Hi(v), k) + (HalfSize - Pow2[H - k]) >= Pow2[H - 1]
  <1> DEFINE p == Pow2[k]
             e == Pow2[H - 1 - k]
             q == Pow2[H - k]
             t == Pow2[H - 1]
             hi == Hi(v)
             c == hi \div p
             r == hi % p
  <1>0. H \in Nat /\ H > 0 /\ HalfSize \in Nat /\ HalfSize = 2 * t /\ t \in Nat
    BY Halves
  <1>1. p \in Nat /\ p > 0 /\ q \in Nat
    <2>1. k \in 0 .. H
      BY <1>0
    <2> QED
      BY <2>1, Factors
  <1>2. q = 2 * e /\ e \in Nat /\ t = e * p /\ q <= HalfSize
    BY SignFactors
  <1>3. hi \in Nat /\ hi >= t
    BY LowAndHigh, HighSign
  <1> HIDE DEF p, q, e, t, hi
  <1>4. c \in Nat /\ r \in Nat /\ r < p /\ hi = c * p + r
    BY <1>1, <1>3, Parts
  <1> HIDE DEF c, r
  <1>5. c >= e
    <2>1. CASE c < e
      <3>1. (c + 1) * p <= e * p
        BY <1>1, <1>2, <1>4, <2>1
      <3>2. (c + 1) * p = c * p + p
        BY <1>1, <1>4
      <3> QED
        BY <1>1, <1>2, <1>3, <1>4, <3>1, <3>2
    <2> QED
      BY <1>2, <1>4, <2>1
  <1>6. c + (HalfSize - q) >= t
    BY <1>0, <1>2, <1>4, <1>5
  <1> QED
    BY <1>6 DEF c, q, t, p, hi, Right

(* What __ashrdi3 may return: the quotient, rounded down, of the signed    *)
(* word, and for a shift by half the width perhaps -1.                     *)
ShiftedDown(r, v, k) ==
  \/ Signed(r) = Signed(v) \div Pow2[Shifted(k)]
  \/ Shifted(k) = H /\ Negative(v) /\ Signed(r) = -1

(* A word that is not negative is shifted down as it is. *)
LEMMA PositiveShift ==
  ASSUME NEW v \in Word, ~ Negative(v), NEW k \in Nat, NEW r \in __ashrdi3(v, k)
  PROVE  ShiftedDown(r, v, k)
  <1>0. /\ v \in Nat /\ v < Top /\ Top \in Nat /\ H \in Nat /\ H > 0 /\ W = H + H
        /\ HalfSize \in Nat /\ HalfSize > 1 /\ W \in Nat
    BY LowAndHigh, Halves, Powers DEF Negative
  <1>1. Fill(v, k) = {0} /\ Fill(v, k - H) = {0}
    BY DEF Fill
  <1>2. \A h \in Int : Filled(h, 0) = h
    BY <1>0 DEF Filled, AllOnes
  <1>3. r = __lshrdi3(v, k)
    <2>1. CASE k >= W
      BY <1>0, <2>1 DEF __ashrdi3, __lshrdi3
    <2>2. CASE k >= H /\ k < W
      <3>1. Right(Hi(v), k - H) \in Int
        <4>1. k - H \in 0 .. W
          BY <1>0, <2>2
        <4>2. Pow2[k - H] \in Nat /\ Pow2[k - H] > 0
          BY <4>1, PowersPositive
        <4> QED
          BY <4>2, LowAndHigh DEF Right
      <3>2. r = di_join(Filled(Right(Hi(v), k - H), 0), 0)
        BY <1>0, <1>1, <2>2 DEF __ashrdi3
      <3>3. __lshrdi3(v, k) = di_join(Right(Hi(v), k - H), 0)
        BY <1>0, <2>2 DEF __lshrdi3
      <3> QED
        BY <1>2, <3>1, <3>2, <3>3
    <2>3. CASE k = 0
      BY <1>0, <2>3 DEF __ashrdi3, __lshrdi3
    <2>4. CASE k > 0 /\ k < H
      <3>1. Right(Hi(v), k) \in Int
        <4>1. k \in 0 .. W
          BY <1>0, <2>4
        <4>2. Pow2[k] \in Nat /\ Pow2[k] > 0
          BY <4>1, PowersPositive
        <4> QED
          BY <4>2, LowAndHigh DEF Right
      <3>2. r = di_join(Right(Lo(v), k) + Left(Hi(v), H - k), Filled(Right(Hi(v), k), 0))
        BY <1>0, <1>1, <2>4 DEF __ashrdi3
      <3>3. __lshrdi3(v, k) = di_join(Right(Lo(v), k) + Left(Hi(v), H - k), Right(Hi(v), k))
        BY <1>0, <2>4 DEF __lshrdi3
      <3> QED
        BY <1>2, <3>1, <3>2, <3>3
    <2> QED
      BY <1>0, <2>1, <2>2, <2>3, <2>4
  <1>4. r = v \div Pow2[Shifted(k)]
    BY <1>3, ShiftRight
  <1> DEFINE f == Pow2[Shifted(k)]
  <1>5. f \in Nat /\ f > 0
    <2>1. Shifted(k) \in 0 .. W
      BY <1>0 DEF Shifted
    <2> QED
      BY <2>1, PowersPositive
  <1> HIDE DEF f
  <1>6. v \div f \in Nat /\ v \div f <= v
    <2> DEFINE c == v \div f
               e == v % f
    <2>1. c \in Nat /\ e \in Nat /\ v = c * f + e
      BY <1>0, <1>5, Parts
    <2> HIDE DEF c, e
    <2>2. c * 1 <= c * f /\ c * 1 = c /\ c * f \in Nat
      BY <1>5, <2>1
    <2>3. c \in Nat /\ c <= v
      BY <2>1, <2>2
    <2> QED
      BY <2>3 DEF c
  <1>7. r \in Nat /\ r <= v /\ r = v \div f
    BY <1>4, <1>6 DEF f
  <1>8. ~ Negative(r)
    BY <1>0, <1>7 DEF Negative
  <1>9. Signed(r) = r /\ Signed(v) = v
    BY <1>8 DEF Signed
  <1> QED
    BY <1>7, <1>9 DEF ShiftedDown, f

(* A negative word shifted down by less than half its width. *)
LEMMA NegativeShort ==
  ASSUME NEW v \in Word, Negative(v), NEW k \in Nat, k > 0, k < H, NEW r \in __ashrdi3(v, k)
  PROVE  Signed(r) = Signed(v) \div Pow2[k]
  <1> DEFINE p == Pow2[k]
             q == Pow2[H - k]
             t == Pow2[H - 1]
             l == Right(Lo(v), k) + Left(Hi(v), H - k)
             h == Right(Hi(v), k)
  <1>0. /\ v \in Nat /\ Size \in Nat /\ Top \in Nat /\ H \in Nat /\ W = H + H
        /\ HalfSize \in Nat /\ HalfSize > 1 /\ Size = HalfSize * HalfSize
        /\ Top = t * HalfSize /\ t \in Nat
    BY LowAndHigh, Halves, Powers
  <1>1. k \in 0 .. H - 1 /\ k \in 0 .. H
    BY <1>0
  <1>2. p \in Nat /\ p > 0 /\ q \in Nat /\ p * q = HalfSize
    BY <1>1, Factors
  <1>3. q > 1 /\ q <= HalfSize
    <2> DEFINE e == Pow2[H - 1 - k]
    <2>1. q = 2 * e /\ e \in Nat /\ e > 0 /\ q <= HalfSize
      BY <1>1, SignFactors
    <2> HIDE DEF e, q
    <2> QED
      BY <2>1
  <1>4. r = di_join(l, h + (HalfSize - q))
    <2>1. Fill(v, k) = {HalfSize - q}
      BY <1>0 DEF Fill, HighBits
    <2>2. Filled(h, HalfSize - q) = h + (HalfSize - q)
      BY <1>0, <1>2, <1>3 DEF Filled, AllOnes
    <2>3. r \in {di_join(l, Filled(h, f)) : f \in Fill(v, k)}
      BY <1>0 DEF __ashrdi3
    <2> HIDE DEF l, h, q
    <2> QED
      BY <2>1, <2>2, <2>3
  <1>5. l \in 0 .. HalfSize - 1 /\ h \in 0 .. q - 1 /\ l + h * HalfSize = v \div p
    BY DownParts
  <1>6. h + (HalfSize - q) >= t
    BY <1>1, FilledSign
  <1>7. r = l + (h + (HalfSize - q)) * HalfSize
    BY <1>4 DEF di_join
  <1> HIDE DEF p, q, t, l, h
  <1>8. r = (v \div p) + (Size - q * HalfSize)
    <2>1. (h + (HalfSize - q)) * HalfSize = h * HalfSize + (HalfSize * HalfSize - q * HalfSize)
      BY <1>0, <1>2, <1>5
    <2>2. h * HalfSize \in Nat /\ q * HalfSize \in Nat /\ l \in Nat
      BY <1>0, <1>2, <1>5
    <2> QED
      BY <1>0, <1>5, <1>7, <2>1, <2>2
  <1>9. r >= Top /\ r \in Int
    <2>1. (h + (HalfSize - q)) * HalfSize >= t * HalfSize
      BY <1>0, <1>2, <1>5, <1>6
    <2>2. (h + (HalfSize - q)) * HalfSize \in Int /\ l \in Nat
      BY <1>0, <1>2, <1>5
    <2> QED
      BY <1>0, <1>7, <2>1, <2>2
  <1>10. (v - Size) \div p = (v \div p) - q * HalfSize
    <2>1. Size = (q * HalfSize) * p /\ q * HalfSize \in Nat
      BY <1>0, <1>2
    <2> QED
      BY <1>0, <1>2, <2>1, FloorDown
  <1>11. Signed(r) = r - Size /\ Signed(v) = v - Size
    BY <1>9 DEF Signed, Negative
  <1>12. v \div p \in Int /\ q * HalfSize \in Int
    BY <1>0, <1>2
  <1> QED
    BY <1>0, <1>8, <1>10, <1>11, <1>12 DEF p

(* A negative word shifted down by half its width or more. *)
LEMMA NegativeLong ==
  ASSUME NEW v \in Word, Negative(v), NEW k \in Nat, k >= H, k < W, NEW r \in __ashrdi3(v, k)
  PROVE  \/ Signed(r) = Signed(v) \div Pow2[k]
         \/ k = H /\ Signed(r) = -1
  <1> DEFINE j == k - H
             f == Pow2[k]
             q == Pow2[H - j]
             h == Right(Hi(v), j)
  <1>0. /\ v \in Nat /\ Size \in Nat /\ Top \in Nat /\ H \in Nat /\ H > 0 /\ W = H + H
        /\ HalfSize \in Nat /\ HalfSize > 1 /\ Size = HalfSize * HalfSize /\ Size = 2 * Top
    BY LowAndHigh, Halves, Powers
  <1>1. j \in 0 .. H - 1 /\ j \in 0 .. H /\ k \in 0 .. W
    BY <1>0
  <1>2. h = v \div f /\ h \in 0 .. q - 1
    BY LowParts
  <1>3. f \in Nat /\ f > 0 /\ q \in Nat
    BY <1>1, PowersPositive, Factors
  <1>4. q > 1 /\ q <= HalfSize
    <2> DEFINE e == Pow2[H - 1 - j]
    <2>1. q = 2 * e /\ e \in Nat /\ e > 0 /\ q <= HalfSize
      BY <1>1, SignFactors
    <2> HIDE DEF e, q
    <2> QED
      BY <2>1
  <1>5. Size = q * f
    <2> DEFINE p == Pow2[j]
    <2>1. p \in Nat /\ p * q = HalfSize /\ f = p * HalfSize
      <3>1. f = p * HalfSize
        BY LowParts
      <3> QED
        BY <1>1, <3>1, Factors
    <2> HIDE DEF p, q, f
    <2> QED
      BY <1>0, <1>3, <2>1
  <1>6. PICK g \in Fill(v, j) : r = di_join(Filled(h, g), AllOnes)
    BY <1>0 DEF __ashrdi3
  <1>7. g = HalfSize - q \/ (j = 0 /\ g = AllOnes)
    <2>1. CASE j = 0
      <3>1. q = HalfSize
        BY <1>0, <2>1 DEF HalfSize
      <3>2. HalfSize - q = 0
        BY <1>0, <3>1
      <3> QED
        BY <1>6, <2>1, <3>2 DEF Fill
    <2>2. CASE j > 0
      BY <1>6, <2>2 DEF Fill, HighBits
    <2> QED
      BY <1>1, <2>1, <2>2
  <1> DEFINE u == AllOnes * HalfSize
  <1>8. u = Size - HalfSize /\ u >= Top
    <2>1. u = HalfSize * HalfSize - HalfSize
      BY <1>0 DEF AllOnes
    <2>2. 2 * HalfSize <= HalfSize * HalfSize
      BY <1>0
    <2> HIDE DEF u
    <2> QED
      BY <1>0, <2>1, <2>2
  <1>9. Signed(v) = v - Size
    BY DEF Signed
  <1> HIDE DEF f, q, h, u
  <1>10. CASE g = HalfSize - q
    <2>1. Filled(h, g) = h + (HalfSize - q)
      BY <1>0, <1>2, <1>3, <1>4, <1>10 DEF Filled, AllOnes
    <2>2. r = h + (HalfSize - q) + u
      BY <1>6, <2>1 DEF di_join, u
    <2>3. r = h + Size - q /\ r >= Top /\ r \in Int
      BY <1>0, <1>2, <1>3, <1>4, <1>8, <2>2
    <2>4. Signed(r) = r - Size
      BY <2>3 DEF Signed, Negative
    <2>5. (v - Size) \div f = (v \div f) - q
      BY <1>0, <1>3, <1>5, FloorDown
    <2> QED
      BY <1>0, <1>2, <1>3, <1>9, <2>3, <2>4, <2>5 DEF f
  <1>11. CASE j = 0 /\ g = AllOnes
    <2>1. Filled(h, g) = AllOnes
      BY <1>11 DEF Filled
    <2>2. r = AllOnes + u
      BY <1>6, <2>1 DEF di_join, u
    <2>3. r = Size - 1 /\ r >= Top /\ r \in Int
      BY <1>0, <1>8, <2>2 DEF AllOnes
    <2>4. Signed(r) = -1
      BY <1>0, <2>3 DEF Signed, Negative
    <2>5. k = H
      BY <1>0, <1>11
    <2> QED
      BY <2>4, <2>5
  <1> QED
    BY <1>7, <1>10, <1>11

(* __ashrdi3 is division of the signed word by a power of two. *)
LEMMA SignedShift ==
  ASSUME NEW v \in Word, NEW k \in Nat, NEW r \in __ashrdi3(v, k)
  PROVE  ShiftedDown(r, v, k)
  <1>0. /\ v \in Nat /\ v < Size /\ Size \in Nat /\ Size > 0 /\ Top \in Nat /\ Size = 2 * Top
        /\ H \in Nat /\ H > 0 /\ W = H + H /\ W \in Nat
    BY LowAndHigh, Halves, Powers
  <1>1. CASE ~ Negative(v)
    BY <1>1, PositiveShift
  <1>2. CASE Negative(v)
    <2>0. Signed(v) = v - Size
      BY <1>2 DEF Signed
    <2>1. CASE k >= W
      <3>1. r = Size - 1 /\ Pow2[Shifted(k)] = Size
        BY <1>0, <1>2, <2>1 DEF __ashrdi3, Shifted, Size
      <3>2. Signed(r) = -1
        BY <1>0, <3>1 DEF Signed, Negative
      <3>3. (v - Size) \div Size = (v \div Size) - 1
        <4>1. Size = 1 * Size
          BY <1>0
        <4> QED
          BY <1>0, <4>1, FloorDown
      <3>4. (0 * Size + v) \div Size = 0 /\ 0 * Size + v = v
        BY <1>0, QuotientUnique
      <3> QED
        BY <2>0, <3>1, <3>2, <3>3, <3>4 DEF ShiftedDown
    <2>2. CASE k >= H /\ k < W
      <3>1. Shifted(k) = k
        BY <2>2 DEF Shifted
      <3> QED
        BY <1>2, <2>2, <3>1, NegativeLong DEF ShiftedDown
    <2>3. CASE k = 0
      <3>1. r = v /\ Pow2[Shifted(k)] = 1 /\ (v - Size) \div 1 = v - Size
        BY <1>0, <2>3, PowersAssumption DEF __ashrdi3, Shifted
      <3> QED
        BY <2>0, <3>1 DEF ShiftedDown
    <2>4. CASE k > 0 /\ k < H
      <3>1. Shifted(k) = k
        BY <1>0, <2>4 DEF Shifted
      <3> QED
        BY <1>2, <2>4, <3>1, NegativeShort DEF ShiftedDown
    <2> QED
      BY <1>0, <2>1, <2>2, <2>3, <2>4
  <1> QED
    BY <1>1, <1>2

-----------------------------------------------------------------------------
(* While __muldi3 runs, the product is what it has added up, plus what is  *)
(* left to multiply, up to multiples of 2^W.                               *)
Multiplying ==
  /\ z \in Nat /\ y \in Nat /\ a \in Word /\ div \in Nat /\ result \in Word
  /\ \E c \in Nat : z * y = result + a * div + c * Size

ProductInv ==
  /\ pc = "multiply" => Multiplying
  /\ ProductsAndShiftsExact

(* The sum after a turn of __muldi3 is s, from r, a = m and div = b. *)
Added(r, m, b, s) ==
  /\ r \in Word /\ m \in Word /\ b \in Nat /\ s \in Word
  /\ s = IF Odd(b) THEN (r + m) % Size ELSE r

(* One turn of the loop of __muldi3: the lowest bit of div is 0 or 1. *)
LEMMA MultiplyTurn ==
  ASSUME NEW r, NEW m, NEW b, NEW s, Added(r, m, b, s), NEW c \in Nat
  PROVE  /\ Doubled(m) \in Word /\ Half(b) \in Nat
         /\ \E e \in Nat : r + m * b + c * Size = s + Doubled(m) * Half(b) + e * Size
  <1> USE DEF Added
  <1>0. r \in Nat /\ m \in Nat /\ s \in Nat /\ Size \in Nat /\ Size > 0
    BY Halves, Powers DEF Word
  <1> DEFINE h == b \div 2
             o == b % 2
             u == (2 * m) \div Size
             k == (2 * m) % Size
  <1>1. h \in Nat /\ o \in {0, 1} /\ b = 2 * h + o
    OBVIOUS
  <1>2. u \in Nat /\ k \in Nat /\ k < Size /\ 2 * m = u * Size + k
    <2>1. 2 * m \in Nat
      BY <1>0
    <2> QED
      BY <1>0, <2>1, Parts
  <1>3. \E w \in Nat : r + o * m = w * Size + s
    <2>1. CASE o = 1
      <3> DEFINE w == (r + m) \div Size
      <3>1. s = (r + m) % Size
        BY <2>1 DEF Odd
      <3>2. w \in Nat /\ r + m = w * Size + s
        <4>1. r + m \in Nat
          BY <1>0
        <4> QED
          BY <1>0, <3>1, <4>1, Parts
      <3>3. o * m = m
        BY <1>0, <2>1
      <3> QED
        BY <3>2, <3>3
    <2>2. CASE o = 0
      <3>1. s = r /\ o * m = 0 /\ r + 0 = 0 * Size + s
        BY <1>0, <2>2 DEF Odd
      <3> QED
        BY <3>1
    <2> QED
      BY <1>1, <2>1, <2>2
  <1> HIDE DEF h, o, u, k
  <1>4. PICK w \in Nat : r + o * m = w * Size + s
    BY <1>3
  <1> DEFINE e == w + u * h + c
  <1>5. m * b = (2 * m) * h + o * m
    <2>1. m * (2 * h + o) = (2 * m) * h + m * o /\ m * o = o * m
      BY <1>0, <1>1
    <2> QED
      BY <1>1, <2>1
  <1>6. (u * Size + k) * h = (u * h) * Size + k * h
    BY <1>0, <1>1, <1>2
  <1>7. e * Size = w * Size + (u * h) * Size + c * Size /\ e \in Nat
    <2>1. u * h \in Nat
      BY <1>1, <1>2
    <2> DEFINE uh == u * h
    <2> HIDE DEF uh
    <2>2. (w + uh + c) * Size = w * Size + uh * Size + c * Size
      BY <1>0, <2>1 DEF uh
    <2> QED
      BY <2>1, <2>2 DEF uh
  <1>8. /\ m * b \in Nat /\ o * m \in Nat /\ k * h \in Nat /\ (u * h) * Size \in Nat
        /\ w * Size \in Nat /\ c * Size \in Nat /\ (2 * m) * h \in Nat /\ e * Size \in Nat
    <2>1. u * h \in Nat
      BY <1>1, <1>2
    <2> QED
      BY <1>0, <1>1, <1>2, <1>7, <2>1
  <1>9. r + m * b + c * Size = s + k * h + e * Size
    <2>1. (2 * m) * h = (u * h) * Size + k * h
      BY <1>2, <1>6
    <2> HIDE DEF e
    <2> QED
      BY <1>0, <1>4, <1>5, <1>7, <1>8, <2>1
  <1>10. Doubled(m) = k /\ Half(b) = h
    BY DEF Doubled, Half, h, k
  <1>11. k \in Word
    BY <1>0, <1>2 DEF Word
  <1> QED
    BY <1>1, <1>7, <1>9, <1>10, <1>11

(* A turn of __muldi3 keeps the product, up to multiples of 2^W. *)
LEMMA MultiplyStepStep ==
  ASSUME pc = "multiply", Multiplying, MultiplyStep
  PROVE  Multiplying'
  <1>0. z' = z /\ y' = y /\ a' = Doubled(a) /\ div' = Half(div)
    BY DEF MultiplyStep
  <1>1. PICK c \in Nat : z * y = result + a * div + c * Size
    BY DEF Multiplying
  <1>2. result' = IF Odd(div) THEN (result + a) % Size ELSE result
    BY DEF MultiplyStep
  <1>3. result' \in Word
    <2>1. result \in Nat /\ a \in Nat /\ Size \in Nat /\ Size > 0 /\ result \in Word
      BY Halves, Powers DEF Word, Multiplying
    <2>2. result + a \in Nat
      BY <2>1
    <2>3. (result + a) % Size \in Nat /\ (result + a) % Size < Size
      BY <2>1, <2>2, Parts
    <2>4. (result + a) % Size \in Word
      BY <2>1, <2>3 DEF Word
    <2> QED
      BY <1>2, <2>1, <2>4
  <1>4. /\ Doubled(a) \in Word /\ Half(div) \in Nat
        /\ \E e \in Nat : result + a * div + c * Size = result' + Doubled(a) * Half(div) + e * Size
    <2>1. Added(result, a, div, result')
      BY <1>2, <1>3 DEF Multiplying, Added
    <2> QED
      BY <2>1, MultiplyTurn
  <1>5. PICK e \in Nat : result + a * div + c * Size = result' + Doubled(a) * Half(div) + e * Size
    BY <1>4
  <1>6. z' * y' = result' + a' * div' + e * Size
    BY <1>0, <1>1, <1>5
  <1> QED
    BY <1>0, <1>3, <1>4, <1>6 DEF Multiplying

(* When no bit of the multiplier is left, the sum is the product. *)
LEMMA MultiplyDoneStep ==
  ASSUME Multiplying, div = 0
  PROVE  result = (z * y) % Size
  <1>0. /\ z \in Nat /\ y \in Nat /\ a \in Nat /\ result \in Nat /\ result < Size
        /\ Size \in Nat /\ Size > 0
    BY Halves, Powers DEF Word, Multiplying
  <1>1. PICK c \in Nat : z * y = result + a * div + c * Size
    BY DEF Multiplying
  <1>2. z * y = c * Size + result
    <2>1. a * div = 0 /\ c * Size \in Nat
      BY <1>0
    <2> QED
      BY <1>0, <1>1, <2>1
  <1>3. (c * Size + result) % Size = result
    BY <1>0, RemainderUnique
  <1> QED
    BY <1>2, <1>3

(* A shift answers as the reference says. *)
LEMMA ShiftStep ==
  ASSUME NEW o \in {"shl", "shr", "sar"}, NEW v \in Word, NEW k \in Count, Shift(o, v, k)
  PROVE  ShiftsExact'
  <1>0. k \in Nat /\ op' = o /\ z' = v /\ y' = k
    BY CountAssumption DEF Shift
  <1> DEFINE s == Shifted(k)
  <1>1. CASE o = "shl"
    <2>1. result' = __ashldi3(v, k)
      BY <1>1 DEF Shift
    <2>2. result' = (v * Pow2[s]) % Size
      BY <1>0, <2>1, ShiftLeft
    <2> QED
      BY <1>0, <1>1, <2>2 DEF ShiftsExact, Shifted
  <1>2. CASE o = "shr"
    <2>1. result' = __lshrdi3(v, k)
      BY <1>2 DEF Shift
    <2>2. result' = v \div Pow2[s]
      BY <1>0, <2>1, ShiftRight
    <2> QED
      BY <1>0, <1>2, <2>2 DEF ShiftsExact, Shifted
  <1>3. CASE o = "sar"
    <2>1. result' \in __ashrdi3(v, k)
      BY <1>3 DEF Shift
    <2>2. ShiftedDown(result', v, k)
      BY <1>0, <2>1, SignedShift
    <2> QED
      BY <1>0, <1>3, <2>2 DEF ShiftsExact, Shifted, ShiftedDown, Signed, Negative
  <1> QED
    BY <1>1, <1>2, <1>3

(* Both invariants hold in every state of a behaviour of the helpers. *)
THEOREM ProductInvariance == Spec => [](DivInv /\ ProductInv)
  <1>1. Init => ProductInv
    BY DEF Init, ProductInv, ProductsAndShiftsExact, ProductExact, ShiftsExact
  <1>2. ASSUME DivInv, ProductInv, [Next]_vars PROVE ProductInv'
    <2> USE DEF ProductInv, ProductsAndShiftsExact
    <2>1. CASE UNCHANGED vars
      BY <1>2, <2>1
      DEF vars, Multiplying, ProductExact, ShiftsExact, Signed, Negative
    <2>2. ASSUME NEW o \in Operation \cap {"shl", "shr", "sar"}, NEW v \in Word,
                 NEW k \in Count, Shift(o, v, k)
          PROVE  ProductInv'
      <3>1. ShiftsExact'
        BY <2>2, ShiftStep
      <3>2. pc' = "done" /\ op' # "mul"
        BY <2>2 DEF Shift
      <3> QED
        BY <3>1, <3>2 DEF ProductExact
    <2>3. ASSUME NEW v \in Word, NEW w \in Word, Multiply(v, w) PROVE ProductInv'
      <3>1. /\ z' = v /\ y' = w /\ a' = v /\ div' = w /\ result' = 0 /\ pc' = "multiply"
        BY <2>3 DEF Multiply
      <3>2. v \in Nat /\ w \in Nat /\ 0 \in Word /\ Size \in Nat
        BY Halves, Powers DEF Word
      <3>3. v * w = 0 + v * w + 0 * Size
        BY <3>2
      <3>4. Multiplying'
        BY <3>1, <3>2, <3>3 DEF Multiplying, Word, Size
      <3> QED
        BY <3>1, <3>4 DEF ProductExact, ShiftsExact
    <2>4. CASE MultiplyStep
      <3>1. pc' = "multiply" /\ Multiplying'
        BY <1>2, <2>4, MultiplyStepStep DEF MultiplyStep
      <3> QED
        BY <3>1 DEF ProductExact, ShiftsExact
    <2>5. CASE MultiplyDone
      <3>1. result = (z * y) % Size
        BY <1>2, <2>5, MultiplyDoneStep DEF MultiplyDone, More
      <3>2. pc' = "done" /\ op' = "mul" /\ z' = z /\ y' = y /\ result' = result
        BY <1>2, <2>5 DEF MultiplyDone, DivInv
      <3> QED
        BY <3>1, <3>2 DEF ProductExact, ShiftsExact, Size
    <2>6. ASSUME op' \in DivOps, pc' # "multiply" PROVE ProductInv'
      BY <2>6 DEF DivOps, ProductExact, ShiftsExact
    <2>7. ASSUME NEW o \in DivOps, NEW v \in Word, DivideByZero(o, v) PROVE ProductInv'
      BY <2>6, <2>7 DEF DivideByZero
    <2>8. ASSUME NEW o \in DivOps, NEW v \in Word, NEW w \in Word, Divide(o, v, w)
          PROVE  ProductInv'
      BY <2>6, <2>8 DEF Divide
    <2>9. CASE DivideSmall \/ Widen \/ WidenDone \/ SubtractStep \/ SubtractLast
      <3>1. op' = op /\ pc \in {"widen", "subtract"} /\ pc' # "multiply"
        BY <2>9 DEF DivideSmall, Widen, WidenDone, SubtractStep, SubtractLast
      <3>2. op \in DivOps
        BY <1>2, <3>1 DEF DivInv, Widening, Subtracting, Called
      <3> QED
        BY <2>6, <3>1, <3>2
    <2>10. CASE Return
      BY <2>10 DEF Return, ProductExact, ShiftsExact
    <2>11. CASE Call
      BY <2>11, <2>2, <2>3, <2>7, <2>8 DEF Call, DivOps
    <2> QED
      BY <1>2, <2>1, <2>4, <2>5, <2>9, <2>10, <2>11 DEF Next, Step
  <1> QED
    BY <1>1, <1>2, DivisionInvariance, PTL DEF Spec

(* __muldi3 is exact modulo 2^W, and __ashldi3, __lshrdi3 and __ashrdi3    *)
(* are the shifts of the whole word, by any count and for words of any     *)
(* even width.                                                             *)
THEOREM ProductsAndShiftsAreExact == Spec => []ProductsAndShiftsExact
  <1>1. DivInv /\ ProductInv => ProductsAndShiftsExact
    BY DEF ProductInv
  <1> QED
    BY <1>1, ProductInvariance, PTL
=============================================================================
