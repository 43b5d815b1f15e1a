------------------------------- MODULE Numbers -------------------------------
(***************************************************************************)
(* Numbers and text: the printf and scanf families of lib/libc_stdio.c,    *)
(* strtol and its relatives of lib/libc_stdlib.c, and the dotted addresses *)
(* of lib/libc_misc.c.  A text is a sequence of characters, without the    *)
(* terminator.  A format is a sequence of directives: a directive carries  *)
(* what its characters say: flags, width, precision; a width may come from *)
(* an argument, with its sign.                                            *)
(*                                                                         *)
(* A definition named D_suffix in front of D is D with a plausible bug.    *)
(***************************************************************************)
EXTENDS Integers, Sequences, SequencesExt, FiniteSetsExt

CONSTANT WordMod     \* 2^32 in the code: the values of an unsigned long

ASSUME NumbersAssumption == WordMod \in Nat \ {0} /\ WordMod % 2 = 0

Lower == <<"0", "1", "2", "3", "4", "5", "6", "7", "8", "9", "a", "b", "c", "d", "e", "f">>
Upper == <<"0", "1", "2", "3", "4", "5", "6", "7", "8", "9", "A", "B", "C", "D", "E", "F">>
Space == {" ", "nl"}
NUL   == "nul"

AsSigned(v) == IF v >= WordMod \div 2 THEN v - WordMod ELSE v

(* The character at an offset; the terminator behind the last one. *)
At(s, i) == IF i < Len(s) THEN s[i + 1] ELSE NUL
Repeat(c, n) == [i \in 1 .. Max({0, n}) |-> c]

-----------------------------------------------------------------------------
(* printf.  The digits are produced backwards and written in order. *)
utoa(v, base, digits) ==
  LET text[x \in 0 .. v] ==
        (IF x < base THEN <<>> ELSE text[x \div base]) \o <<digits[(x % base) + 1]>>
  IN  text[v]

out_uint_fmt_ZeroesFirst(v, base, sign, digits, f, prefix) ==
  LET total == sign \o prefix \o utoa(v, base, digits)
      padding(c) == Repeat(c, f.width - Len(total))
  IN  IF f.left THEN total \o padding(" ")
      ELSE padding(IF f.zero THEN "0" ELSE " ") \o total

out_uint_fmt(v, base, sign, digits, f, prefix) ==
  LET number == IF f.precision = 0 /\ v = 0 THEN <<>> ELSE utoa(v, base, digits)
      zeroes == Repeat("0", f.precision - Len(number))
      total  == sign \o prefix \o zeroes \o number
      padding(c) == Repeat(c, f.width - Len(total))
  IN  IF f.left THEN total \o padding(" ")
      ELSE IF f.zero /\ f.precision < 0 THEN sign \o prefix \o padding("0") \o zeroes \o number
      ELSE padding(" ") \o total

out_padded(s, f) ==
  IF f.left THEN s \o Repeat(" ", f.width - Len(s)) ELSE Repeat(" ", f.width - Len(s)) \o s

(* A negative width from an argument means left adjustment. *)
Width(f) == IF f.width < 0 THEN [f EXCEPT !.left = TRUE, !.width = - f.width] ELSE f

Sign(f) ==
  CASE f.arg < 0 -> <<"-">> [] f.plus -> <<"+">> [] f.space -> <<" ">> [] OTHER -> <<>>

Prefix(f) ==
  CASE f.spec = "p" -> <<"0", "x">>
    [] f.alt /\ f.arg # 0 /\ f.spec = "x" -> <<"0", "x">>
    [] f.alt /\ f.arg # 0 /\ f.spec = "X" -> <<"0", "X">>
    [] f.alt /\ f.arg # 0 /\ f.spec = "o" -> <<"0">>
    [] OTHER -> <<>>

Base(spec) == CASE spec = "o" -> 8 [] spec \in {"x", "X", "p"} -> 16 [] OTHER -> 10

Converted(g) ==
  LET f == Width(g) IN
  CASE f.spec \in {"d", "i"} ->
         out_uint_fmt(IF f.arg < 0 THEN - f.arg ELSE f.arg, 10, Sign(f), Lower, f, <<>>)
    [] f.spec \in {"u", "x", "X", "o"} ->
         out_uint_fmt(f.arg, Base(f.spec), <<>>, IF f.spec = "X" THEN Upper ELSE Lower, f, Prefix(f))
    [] f.spec = "p" ->
         out_uint_fmt(f.arg, 16, <<>>, Lower, [f EXCEPT !.width = IF @ = 0 THEN 1 ELSE @], Prefix(f))
    [] f.spec = "s" ->
         out_padded(SubSeq(f.arg, 1, IF f.precision < 0 THEN Len(f.arg)
                                     ELSE Min({f.precision, Len(f.arg)})), f)
    [] f.spec = "c" -> out_padded(<<f.arg>>, f)
    [] f.spec = "literal" -> <<f.arg>>

Text(fmt) == FlattenSeq([i \in 1 .. Len(fmt) |-> Converted(fmt[i])])

(* One character: kept while room is left for the terminator, counted      *)
(* always.                                                                 *)
out_char_NoRoom(st, c) ==
  IF st.left > 0 THEN [buf |-> Append(st.buf, c), left |-> st.left - 1, count |-> st.count + 1]
  ELSE [st EXCEPT !.count = @ + 1]

out_char(st, c) ==
  IF st.left > 1 THEN [buf |-> Append(st.buf, c), left |-> st.left - 1, count |-> st.count + 1]
  ELSE [st EXCEPT !.count = @ + 1]

vsnprintf(size, fmt) ==
  FoldLeft(out_char, [buf |-> <<>>, left |-> size, count |-> 0], Text(fmt))

(* The stream functions format into 512 bytes and write what is there. *)
vfprintf(fmt, room) == [written |-> vsnprintf(room, fmt).buf, ret |-> vsnprintf(room, fmt).count]

(* A first pass counts, into no buffer; the second fills exactly that. *)
vasprintf(fmt) == vsnprintf(vsnprintf(0, fmt).count + 1, fmt).buf

-----------------------------------------------------------------------------
(* Scanning: all of it skips spaces, takes a base prefix, then digits. *)
Skip(s, i) == Min({k \in i .. Len(s) : At(s, k) \notin Space})

(* strtoul takes letters up to z; scan_digit itself stops at f, which is   *)
(* the same for its bases of at most 16.                                   *)
LowerDigits == Lower \o <<"g", "h", "i", "j", "k", "l", "m", "n", "o", "p",
                          "q", "r", "s", "t", "u", "v", "w", "x", "y", "z">>
UpperDigits == Upper \o <<"G", "H", "I", "J", "K", "L", "M", "N", "O", "P",
                          "Q", "R", "S", "T", "U", "V", "W", "X", "Y", "Z">>
DigitOf ==
  [c \in Range(LowerDigits) \cup Range(UpperDigits) |->
     CHOOSE v \in 0 .. 35 : c \in {LowerDigits[v + 1], UpperDigits[v + 1]}]

scan_digit(c) == IF c \in DOMAIN DigitOf THEN DigitOf[c] ELSE 99

HasX(s, i) == At(s, i) = "0" /\ At(s, i + 1) \in {"x", "X"}

Radix(s, i, base) ==
  IF base # 0 THEN base ELSE IF HasX(s, i) THEN 16 ELSE IF At(s, i) = "0" THEN 8 ELSE 10

FirstDigit(s, i, base) == IF base \in {0, 16} /\ HasX(s, i) THEN i + 2 ELSE i

(* The digits from i, at most width of them when width is not 0. *)
DigitsEnd(s, i, base, width) ==
  Min({k \in i .. Len(s) : scan_digit(At(s, k)) >= base}
        \cup (IF width = 0 THEN {} ELSE {i + width}))

Value(s, i, k, base) ==
  FoldLeft(LAMBDA v, c : (v * base + scan_digit(c)) % WordMod, 0, SubSeq(s, i + 1, k))

(* From an offset: the value, the offset behind the number (the start if   *)
(* there is none) and errno.                                               *)
strtoul_EndAnyway(s, start, base) ==
  LET i == Skip(s, start)
      k == DigitsEnd(s, FirstDigit(s, i, base), Radix(s, i, base), 0)
  IN  [v |-> Value(s, FirstDigit(s, i, base), k, Radix(s, i, base)), end |-> k, errno |-> "none"]

strtoul(s, start, base) ==
  LET i == Skip(s, start)
      r == Radix(s, i, base)
      first == FirstDigit(s, i, base)
      k == DigitsEnd(s, first, r, 0)
  IN  IF r \notin 2 .. 36 THEN [v |-> 0, end |-> start, errno |-> "EINVAL"]
      ELSE IF k = first THEN [v |-> 0, end |-> start, errno |-> "EINVAL"]
      ELSE [v |-> Value(s, first, k, r), end |-> k, errno |-> "none"]

strtol(s, base) ==
  LET i == Skip(s, 0)
      r == strtoul(s, IF At(s, i) \in {"-", "+"} THEN i + 1 ELSE i, base)
  IN  [r EXCEPT !.v = AsSigned(IF At(s, i) = "-" THEN (WordMod - r.v) % WordMod ELSE r.v)]

(* strtod moves the end over a number and returns 0.0. *)
strtod_end(s) ==
  LET Dec(i) == DigitsEnd(s, i, 10, 0)
      Opt(i, set) == IF At(s, i) \in set THEN i + 1 ELSE i
      whole == Dec(Opt(Skip(s, 0), {"-", "+"}))
      p == IF At(s, whole) = "." THEN Dec(whole + 1) ELSE whole
      e == Opt(p + 1, {"-", "+"})
  IN  IF At(s, p) \in {"e", "E"} /\ Dec(e) > e THEN Dec(e) ELSE p

scan_unsigned(s, start, width, base) ==
  LET i == Skip(s, start)
      j == IF At(s, i) = "+" THEN i + 1 ELSE i
      first == FirstDigit(s, j, base)
      k == DigitsEnd(s, first, Radix(s, j, base), width)
  IN  [ok |-> k > first, end |-> k, v |-> Value(s, first, k, Radix(s, j, base))]

(* sscanf: one directive, from the offset that the last one reached. *)
ScanNumber(s, st, d) ==
  LET i == Skip(s, st.pos)
      signs == d.spec \in {"d", "i"} /\ At(s, i) \in {"-", "+"}
      r == scan_unsigned(s, IF signs THEN i + 1 ELSE i, d.width,
                         IF d.spec = "i" THEN 0 ELSE Base(d.spec))
      v == IF signs /\ At(s, i) = "-" THEN (WordMod - r.v) % WordMod ELSE r.v
  IN  IF ~ r.ok THEN [st EXCEPT !.stop = TRUE]
      ELSE [st EXCEPT !.pos = r.end,
                      !.out = IF d.suppress THEN @
                              ELSE Append(@, IF d.spec \in {"d", "i"} THEN AsSigned(v) ELSE v)]

ScanString(s, st, d) ==
  LET i == Skip(s, st.pos)
      k == Min({k \in i .. Len(s) : At(s, k) \in Space \cup {NUL}}
                 \cup (IF d.width = 0 THEN {} ELSE {i + d.width}))
  IN  IF k = i THEN [st EXCEPT !.stop = TRUE]
      ELSE [st EXCEPT !.pos = k, !.out = IF d.suppress THEN @ ELSE Append(@, SubSeq(s, i + 1, k))]

ScanChars(s, st, d) ==
  LET k == st.pos + (IF d.width = 0 THEN 1 ELSE d.width)
  IN  IF k > Len(s) THEN [st EXCEPT !.stop = TRUE]
      ELSE [st EXCEPT !.pos = k, !.out = IF d.suppress THEN @ ELSE Append(@, SubSeq(s, st.pos + 1, k))]

Scan(s, st, d) ==
  CASE st.stop -> st
    [] ~ st.stop /\ d.spec = "space" -> [st EXCEPT !.pos = Skip(s, @)]
    [] ~ st.stop /\ d.spec = "literal" ->
         IF At(s, st.pos) = d.arg THEN [st EXCEPT !.pos = @ + 1] ELSE [st EXCEPT !.stop = TRUE]
    [] ~ st.stop /\ d.spec = "c" -> ScanChars(s, st, d)
    [] ~ st.stop /\ d.spec = "s" -> ScanString(s, st, d)
    [] ~ st.stop /\ d.spec = "n" -> [st EXCEPT !.out = Append(@, st.pos)]
    [] OTHER -> ScanNumber(s, st, d)

sscanf(s, fmt) ==
  FoldLeft(LAMBDA st, d : Scan(s, st, d), [pos |-> 0, out |-> <<>>, stop |-> FALSE], fmt)

-----------------------------------------------------------------------------
(* Addresses: four numbers of a byte, most significant first. *)
inet_ntoa(bytes) ==
  utoa(bytes[1], 10, Lower) \o <<".">> \o utoa(bytes[2], 10, Lower) \o <<".">>
    \o utoa(bytes[3], 10, Lower) \o <<".">> \o utoa(bytes[4], 10, Lower)

inet_aton_Any(s) ==
  LET part(st, i) ==
        LET r == strtoul(s, st.pos, 10) IN
        IF st.ok /\ r.end > st.pos /\ (i < 4 => At(s, r.end) = ".")
        THEN [ok |-> TRUE, pos |-> r.end + 1, parts |-> Append(st.parts, r.v)]
        ELSE [st EXCEPT !.ok = FALSE]
  IN  FoldLeft(part, [ok |-> TRUE, pos |-> 0, parts |-> <<>>], <<1, 2, 3, 4>>)

inet_aton(s) ==
  LET part(st, i) ==
        LET r == strtoul(s, st.pos, 10) IN
        IF /\ st.ok /\ r.end > st.pos /\ r.v <= 255
           /\ At(s, r.end) = IF i < 4 THEN "." ELSE NUL
        THEN [ok |-> TRUE, pos |-> r.end + 1, parts |-> Append(st.parts, r.v)]
        ELSE [st EXCEPT !.ok = FALSE]
  IN  FoldLeft(part, [ok |-> TRUE, pos |-> 0, parts |-> <<>>], <<1, 2, 3, 4>>)

=============================================================================
