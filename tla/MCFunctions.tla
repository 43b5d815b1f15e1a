----------------------------- MODULE MCFunctions -----------------------------
(***************************************************************************)
(* The functions of the library that only compute, against what they       *)
(* should compute, over every input of a small kind: the 64-bit helpers on *)
(* words of a few bits with every count up to one beyond the width;        *)
(* formatted numbers, texts of a few characters, days around every leap    *)
(* rule, short arrays and strings.  One call is made at a time; the 64-bit *)
(* helpers take steps, the others answer at once.                          *)
(***************************************************************************)
EXTENDS DivMod, Calendar, Arrays, Options

CONSTANTS
  TextLength,  \* bound: characters of a text to scan
  Years,       \* years whose days are tried
  ArrayLength  \* bound: elements of an array, characters of a string

Samples    == {-8192, -10, 0, 9, 255, 8191}   \* numbers to print
Fields     == {-7, 0, 1, 7}                   \* widths, with their signs
Precisions == {-1, 0, 2, 6}                   \* -1 for none

VARIABLE input   \* the arguments of a function that answers at once

MCPow2 == [i \in 0 .. W |-> 2 ^ i]
MCCount == 0 .. W + 1

SeqUpTo(set, most) == UNION {[1 .. k -> set] : k \in 0 .. most}

Plain == [left |-> FALSE, zero |-> FALSE, alt |-> FALSE, plus |-> FALSE,
          space |-> FALSE, width |-> 0, precision |-> -1]
Conv(spec, arg) == [spec |-> spec, arg |-> arg] @@ Plain
Into(spec) == [spec |-> spec, width |-> 0, suppress |-> FALSE]

-----------------------------------------------------------------------------
Nothing == [kind |-> "none"]

PrintNumber ==
  \E f \in [spec : {"d", "u", "x", "X", "o"}, arg : Samples, left : BOOLEAN, zero : BOOLEAN,
            alt : BOOLEAN, plus : BOOLEAN, space : BOOLEAN, width : Fields,
            precision : Precisions] :
    /\ f.arg < 0 => f.spec = "d"
    /\ input' = [kind |-> "number", f |-> f]

PrintText ==
  \E s \in SeqUpTo({"a", "b"}, 2), precision \in Precisions, width \in Fields, size \in 0 .. 8 :
    input' = [kind |-> "text", size |-> size,
              fmt |-> <<[Conv("s", s) EXCEPT !.width = width, !.precision = precision],
                        Conv("literal", ":"), Conv("c", "c"), Conv("p", 0)>>]

ScanText ==
  \E s \in SeqUpTo({" ", "-", "+", "0", "x", "7", "f"}, TextLength), base \in {0, 10, 16} :
    input' = [kind |-> "scan", s |-> s, base |-> base]

ScanLetters ==
  \E s \in SeqUpTo({" ", "-", "7", "z"}, 4), base \in {1, 35, 36, 37} :
    input' = [kind |-> "scan", s |-> s, base |-> base]

ScanReal ==
  \E s \in SeqUpTo({" ", "-", "1", ".", "e"}, TextLength) :
    input' = [kind |-> "real", s |-> s]

ParseAddress ==
  \E parts \in [1 .. 4 -> {0, 10, 255, 256, WordMod + 1}], extra \in {<<>>, <<".">>, <<"x">>} :
    input' = [kind |-> "address", parts |-> parts, s |-> inet_ntoa(parts) \o extra]

NoTime == [hour |-> 0, min |-> 0, sec |-> 0, wday |-> 0, yday |-> 0]

ADay ==
  \E year \in Years, days \in 0 .. 366, s \in {0, 86399} :
    LET t == mktime([year |-> year - 1900, mon |-> 0, mday |-> 1] @@ NoTime).t
    IN  /\ t.day + days + 1 < Modulus.day
        /\ input' = [kind |-> "day", t |-> [day |-> t.day + days, sec |-> s]]

ADate ==
  \E year \in 1968 .. 1971, mon \in 0 .. 11, mday \in {1, 28} :
    input' = [kind |-> "date", tm |-> [year |-> year - 1900, mon |-> mon, mday |-> mday] @@ NoTime]

AnArray ==
  \E b \in SeqUpTo(1 .. 3, ArrayLength), size \in {4, 65} :
    input' = [kind |-> "array", b |-> b, size |-> size]

AString ==
  \E s \in SeqUpTo({"a", "b", ",", ";"}, ArrayLength) :
    input' = [kind |-> "string", s |-> s]

Args == {<<"-", "a">>, <<"-", "a", "z", "b">>, <<"-", "b">>, <<"-", "a", "b", "x">>, <<"-", "z">>,
         <<"-", "-">>, <<"-">>, <<"x">>}

AVector ==
  \E args \in SeqUpTo(Args, 3), optstring \in {<<"a", "b", ":">>, <<":", "b", ":", "a">>} :
    input' = [kind |-> "argv", argv |-> << <<"prog">> >> \o args, optstring |-> optstring]

CallFunction ==
  /\ pc = "idle" /\ input = Nothing
  /\ \/ PrintNumber \/ PrintText \/ ScanText \/ ScanLetters \/ ScanReal \/ ParseAddress
     \/ ADay \/ ADate \/ AnArray \/ AString \/ AVector
  /\ UNCHANGED vars

FunctionReturns == input # Nothing /\ input' = Nothing /\ UNCHANGED vars

HelperStep == input = Nothing /\ Next /\ UNCHANGED input

MCInit == Init /\ input = Nothing

MCSpec ==
  /\ MCInit
  /\ [][CallFunction \/ FunctionReturns \/ HelperStep]_<<vars, input>>
  /\ WF_<<vars, input>>(Step /\ UNCHANGED input)

-----------------------------------------------------------------------------
(* A number that printf writes, with any flags, width and precision, is    *)
(* the number that sscanf reads back (but 0 with precision 0, which is     *)
(* written as nothing); the field is exactly as wide as asked or as the    *)
(* number needs, and pads with spaces on the side the flags say.           *)
IntegersPrinted ==
  input.kind = "number" =>
    LET f == input.f
        text == Text(<<f>>)
        bare == Text(<<[f EXCEPT !.width = 0]>>)
        width == Max({f.width, - f.width})
    IN  /\ (f.precision = 0 /\ f.arg = 0) \/ sscanf(text, <<Into(f.spec)>>).out = <<f.arg>>
        /\ Len(text) = Max({width, Len(bare)})
        /\ f.left \/ f.width < 0 => IsPrefix(bare, text)
        /\ ~ (f.left \/ f.width < 0 \/ (f.zero /\ f.precision < 0)) => IsSuffix(bare, text)

(* vsnprintf keeps the first size - 1 characters, never writes at or       *)
(* behind size, and returns the length of the whole text, so that the      *)
(* buffer of vasprintf holds all of it and a stream writes a prefix while  *)
(* it reports the whole.                                                   *)
TruncatesToPrefix ==
  input.kind = "text" =>
    LET whole == Text(input.fmt)
        kept  == vsnprintf(input.size, input.fmt)
    IN  /\ kept.buf = SubSeq(whole, 1, Min({input.size - 1, Len(whole)}))
        /\ input.size > 0 => Len(kept.buf) < input.size
        /\ kept.count = Len(whole)
        /\ vasprintf(input.fmt) = whole
        /\ LET f == vfprintf(input.fmt, input.size)
           IN  IsPrefix(f.written, whole) /\ f.ret = Len(whole)

(* What C takes as a number: spaces, a sign, a base prefix, digits. *)
Number(s, base, blank, sign, prefix, k) ==
  /\ base \in {0} \cup 2 .. 36
  /\ \A i \in 1 .. blank : s[i] \in Space
  /\ sign = blank \/ (sign = blank + 1 /\ s[sign] \in {"-", "+"})
  /\ prefix = sign \/ (prefix = sign + 2 /\ base \in {0, 16} /\ HasX(s, sign))
  /\ k > prefix /\ \A i \in prefix + 1 .. k : scan_digit(s[i]) <
       (IF base # 0 THEN base ELSE IF prefix > sign THEN 16 ELSE IF s[sign + 1] = "0" THEN 8 ELSE 10)

Readings(s, base) ==
  {r \in (0 .. Len(s)) \X (0 .. Len(s)) \X (0 .. Len(s)) \X (0 .. Len(s)) :
     Number(s, base, r[1], r[2], r[3], r[4])}

(* The same for a floating-point number; a text without digits counts. *)
Real(s, blank, sign, point, p, k) ==
  /\ \A i \in 1 .. blank : s[i] \in Space
  /\ sign = blank \/ (sign = blank + 1 /\ s[sign] = "-")
  /\ \A i \in sign + 1 .. p : s[i] = IF i = point THEN "." ELSE "1"
  /\ \/ k = p
     \/ /\ k > p + 1 /\ s[p + 1] = "e" /\ s[k] = "1"
        /\ \A i \in p + 2 .. k : s[i] = "1" \/ (i = p + 2 /\ s[i] = "-")

(* strtol finds the longest number at the start of the text, with its      *)
(* value modulo the word, and where it ends; sscanf finds the same.  When  *)
(* there is no number, or the base is none, the answer is 0 with EINVAL,   *)
(* and strtol's end lies behind the spaces and the sign, not at the start  *)
(* of the text as in C; strtoul's is at the start, and it takes no sign.   *)
(* Two kinds of text are excepted: a sign that is not followed by a digit, *)
(* where the code goes on to look for spaces (and sscanf for a plus), and  *)
(* 0x without a digit, where it does not fall back to the 0.  strtod ends  *)
(* behind the longest floating-point number.  An address that inet_ntoa    *)
(* writes is read back by inet_aton; nothing is accepted with anything     *)
(* behind it, or with a part above 255 once it is reduced to a word: a     *)
(* part of 2^32 + 1 is taken for 1.                                        *)
NumbersScanned ==
  /\ input.kind = "scan" =>
    LET s == input.s
        i == Skip(s, 0)
        r == strtol(s, input.base)
        scanned == sscanf(s, <<Into(IF input.base = 0 THEN "i" ELSE "d"), Into("n")>>)
        readings == Readings(s, input.base)
        best == CHOOSE r1 \in readings : \A r2 \in readings : r2[4] <= r1[4]
        minus == At(s, i) = "-"
        j == IF At(s, i) \in {"-", "+"} THEN i + 1 ELSE i
        odd == \/ j > i /\ At(s, j) \in Space \cup {"+"}
               \/ input.base \in {0, 16} /\ HasX(s, j) /\ scan_digit(At(s, j + 2)) >= 16
    IN  ~ odd =>
          /\ readings = {} => r = [v |-> 0, errno |-> "EINVAL", end |-> j]
          /\ readings # {} =>
               LET base == IF input.base # 0 THEN input.base
                           ELSE IF best[3] > best[2] THEN 16 ELSE IF s[best[2] + 1] = "0" THEN 8 ELSE 10
                   digits == SubSeq(s, best[3] + 1, best[4])
                   len == Len(digits)
                   v == MapThenSumSet(LAMBDA p : scan_digit(digits[p]) * base ^ (len - p), 1 .. len)
               IN  /\ r.end = best[4] /\ r.errno = "none"
                   /\ (r.v - (IF minus THEN - v ELSE v)) % WordMod = 0
          /\ LET u == strtoul(s, 0, input.base)
             IN  IF readings = {} \/ j > i THEN u = [v |-> 0, errno |-> "EINVAL", end |-> 0]
                 ELSE AsSigned(u.v) = r.v /\ u.end = r.end
          /\ input.base \in {0, 10} => scanned.out = IF readings = {} THEN <<>> ELSE <<r.v, r.end>>
  /\ input.kind = "real" =>
    LET s == input.s
        I == 0 .. Len(s)
    IN  strtod_end(s) = Max({k \in I : \E blank, sign, point, p \in I : Real(s, blank, sign, point, p, k)})
  /\ input.kind = "address" =>
    LET r == inet_aton(input.s)
        word == [i \in 1 .. 4 |-> input.parts[i] % WordMod]
    IN  /\ r.ok <=> (\A i \in 1 .. 4 : word[i] <= 255) /\ input.s = inet_ntoa(input.parts)
        /\ r.ok => r.parts = word

(* The day after a day of the calendar. *)
Tomorrow(tm) ==
  IF tm.mday < MonthDays(tm.year + 1900, tm.mon) THEN [tm EXCEPT !.mday = @ + 1]
  ELSE IF tm.mon < 11 THEN [tm EXCEPT !.mday = 1, !.mon = @ + 1]
  ELSE [tm EXCEPT !.mday = 1, !.mon = 0, !.year = @ + 1]

Date(tm) == [year |-> tm.year, mon |-> tm.mon, mday |-> tm.mday]

Padded(width, v) == [Conv("d", v) EXCEPT !.zero = TRUE, !.width = width]
Colon == Conv("literal", ":")
Dash  == Conv("literal", "-")

(* localtime_r follows the Gregorian calendar day by day, across 2000 and  *)
(* 2100; mktime takes the broken-down time back to the second, with the    *)
(* same day of the week; a time printed as a date and read by strptime is  *)
(* the same time; and a date is one of those that come back exactly when   *)
(* it is not before 1970 (tm_yday counts from 1 March).                    *)
DatesRoundTrip ==
  /\ input.kind = "day" =>
       LET tm == localtime_r(input.t)
           next == localtime_r([input.t EXCEPT !.day = @ + 1])
           text == Text(<<Padded(4, tm.year + 1900), Dash, Padded(2, tm.mon + 1), Dash, Padded(2, tm.mday),
                          Conv("literal", " "), Padded(2, tm.hour), Colon, Padded(2, tm.min), Colon,
                          Padded(2, tm.sec)>>)
           parsed == strptime(text, <<"%F", " ", "%T">>, [tm EXCEPT !.year = 0, !.mon = 0])
       IN  /\ Date(next) = Tomorrow(Date(tm))
           /\ next.wday = (tm.wday + 1) % 7
           /\ mktime(tm) = [t |-> input.t, tm |-> tm]
           /\ parsed.ok /\ parsed.pos = Len(text) /\ mktime(parsed.tm).t = input.t
           /\ tm.yday = 0 <=> tm.mon = 2 /\ tm.mday = 1
  /\ input.kind = "date" =>
       LET tm == mktime(input.tm)
       IN  Date(localtime_r(tm.t)) = Date(input.tm) <=> input.tm.year >= 70

compar == [v, w \in 0 .. 4 |-> v - w]

(* qsort returns its elements in order, when they fit its temporary, and   *)
(* as they were otherwise; bsearch then finds an element exactly when it   *)
(* is there; memmove copies what was there before, however the two ranges  *)
(* overlap.                                                                *)
ArraysOrdered ==
  input.kind = "array" =>
    LET b == input.b
        sorted == qsort(b, input.size, 64, compar)
        len == Len(b)
    IN  /\ \A v \in 1 .. 3 : Cardinality({i \in 1 .. len : b[i] = v}) = Cardinality({i \in 1 .. len : sorted[i] = v})
        /\ IF input.size > 64 THEN sorted = b
           ELSE /\ \A i, j \in 1 .. len : i < j => sorted[i] <= sorted[j]
                /\ \A key \in 0 .. 4 :
                     LET at == bsearch(key, sorted, compar)
                     IN  IF key \in Range(b) THEN at \in 1 .. len /\ sorted[at] = key ELSE at = 0
        /\ \A to, from \in 0 .. len : \A k \in 0 .. len - Max({to, from}) :
             memmove(b, to, from, k) =
               [i \in 1 .. len |-> IF i \in to + 1 .. to + k THEN b[i - to + from] ELSE b[i]]

(* The tokens of n calls, each from where the last one stopped. *)
Times(next(_), calls) == FoldLeft(LAMBDA st, i : LET r == next(st.cursor) IN
                              [cursor |-> r.cursor, out |-> Append(st.out, r.token)],
                            [cursor |-> 0, out |-> <<>>], [i \in 1 .. calls |-> i])

(* strtok_r gives the maximal runs without a separator, in order, and then *)
(* null for ever; strsep gives the fields between separators, the empty    *)
(* ones too, and, unlike its BSD model, empty fields for ever afterwards.  *)
TokensInOrder ==
  input.kind = "string" =>
    LET s == input.s
        delim == {",", ";"}
        cuts == <<0>> \o SetToSortSeq({i \in 1 .. Len(s) : s[i] \in delim}, LAMBDA i, j : i < j)
                  \o <<Len(s) + 1>>
        fields == [i \in 1 .. Len(cuts) - 1 |-> SubSeq(s, cuts[i] + 1, cuts[i + 1] - 1)]
        tokens == SelectSeq(fields, LAMBDA f : f # <<>>)
        tok(c) == strtok_r(s, c, delim)
        sep(c) == strsep(s, c, delim)
    IN  /\ Times(tok, Len(tokens) + 2).out = tokens \o << <<"null">>, <<"null">> >>
        /\ Times(sep, Len(fields) + 2).out = fields \o << <<>>, <<>> >>

(* What the letters of a vector mean, argument by argument: up to the      *)
(* first one that is no option or behind --, each letter of an argument in *)
(* turn, until one that takes the rest of it, or else the next, as its     *)
(* own argument.                                                           *)
Meaning(argv, optstring) ==
  LET argc == Len(argv)
      Known(c) == c # ":" /\ c \in Range(optstring)
      Takes(c) == Known(c) /\ At(optstring, SelectInSeq(optstring, LAMBDA o : o = c)) = ":"
      Letter(c) == <<IF Known(c) THEN c ELSE "?", NoArg>>
      from[i \in 1 .. argc + 1] ==
        LET arg == argv[i + 1]
            taking == {k \in 2 .. Len(arg) : Takes(arg[k])}
            k == IF taking = {} THEN Len(arg) + 1 ELSE Min(taking)
            letters == [j \in 1 .. k - 2 |-> Letter(arg[j + 1])]
            On(events, next) == [events |-> letters \o events \o from[next].events, optind |-> from[next].optind]
        IN  IF i >= argc \/ arg[1] # "-" \/ Len(arg) = 1 THEN [events |-> <<>>, optind |-> i]
            ELSE IF arg = <<"-", "-">> THEN [events |-> <<>>, optind |-> i + 1]
            ELSE IF taking = {} THEN On(<<>>, i + 1)
            ELSE IF k < Len(arg) THEN On(<< <<arg[k], SubSeq(arg, k + 1, Len(arg))>> >>, i + 1)
            ELSE IF i + 1 < argc THEN On(<< <<arg[k], argv[i + 2]>> >>, i + 2)
            ELSE On(<< <<IF optstring[1] = ":" THEN ":" ELSE "?", NoArg>> >>, i + 1)
  IN  from[1]

(* Calling getopt until it ends gives every letter once and in order, with *)
(* its argument, whatever was wrong with the ones before it, and leaves    *)
(* optind at the first operand.  A scan broken off after any number of     *)
(* calls and restarted with optind = 0 gives the same; restarted with      *)
(* optind = 1 it does so if it was not broken off inside an argument.      *)
OptionsInOrder ==
  input.kind = "argv" =>
    LET argv == input.argv
        all == Meaning(argv, input.optstring)
        len == Len(all.events)
        calls == [i \in 1 .. len |-> i]
        OneCall(st) == getopt(argv, input.optstring, st)
        Run(st) == FoldLeft(LAMBDA r, i : LET next == OneCall(r.st) IN
                              [st |-> next, events |-> Append(r.events, <<next.ret, next.optarg>>)],
                            [st |-> st, events |-> <<>>], calls)
        Complete(r) == /\ r.events = all.events
                       /\ OneCall(r.st).ret = "end" /\ OneCall(r.st).optind = all.optind
        after == [k \in 0 .. len |-> FoldLeft(LAMBDA st, i : OneCall(st), AtStart, [i \in 1 .. k |-> i])]
    IN  /\ Complete(Run(AtStart))
        /\ \A k \in 0 .. len :
             /\ Complete(Run([after[k] EXCEPT !.optind = 0]))
             /\ LET pos == after[k].pos
                    inside == pos # NoPos /\ At(argv[pos[1] + 1], pos[2]) # NUL
                IN  ~ inside => Complete(Run([after[k] EXCEPT !.optind = 1]))
=============================================================================
