---------------------------- MODULE RegexCompile ----------------------------
(***************************************************************************)
(* regcomp of lib/libc_regex.c: a recursive-descent compiler from patterns *)
(* to programs for RegexVM.  A pattern is a sequence of characters, an     *)
(* escaped character or a whole bracket expression counting as one.  The   *)
(* compiler c is passed along as a record; addresses are those of the C    *)
(* array, from 0.                                                          *)
(*                                                                         *)
(* A definition named D_suffix in front of D is D with a plausible bug.    *)
(***************************************************************************)
EXTENDS Integers, Sequences

CONSTANTS
  ClassSet,     \* the sets of the bracket expressions and of \w, \d, \s...
  Escaped,      \* the characters that escapes such as \n and \. stand for
  MaxProgram,   \* how long a program the heap has room for
  MaxJumps      \* length of jumps in re_compile_alternation, 128 in the code

MaxRepeat == 10000
Infinity == -1

Digit == [d \in {"0", "1", "2", "3"} |->
            CASE d = "0" -> 0 [] d = "1" -> 1 [] d = "2" -> 2 [] d = "3" -> 3]

(* A new instruction is all zeros but for its operation. *)
Inst(op) == [op |-> op, ch |-> "", set |-> {}, x |-> 0, y |-> 0]

length(c) == Len(c.prog)
Token(c, i) == IF c.cursor + i <= Len(c.pattern) THEN c.pattern[c.cursor + i] ELSE "end"
Advance(c, n) == [c EXCEPT !.cursor = @ + n]
Failed(c) == c.error # "none"

(* The first error ends the compilation: from then on nothing is emitted. *)
Error(c, e) == IF Failed(c) THEN c ELSE [c EXCEPT !.error = e]

-----------------------------------------------------------------------------
(* Building the program *)

HasRoom_unchecked(c, n) == TRUE

(* Room for n more instructions, with realloc where the array is full. *)
HasRoom(c, n) == length(c) + n <= MaxProgram

re_emit(c, inst) ==
  IF Failed(c) \/ ~ HasRoom(c, 1) THEN Error(c, "ESPACE")
  ELSE [c EXCEPT !.prog = Append(@, inst)]

SetX(c, i, x) == IF Failed(c) THEN c ELSE [c EXCEPT !.prog[i + 1].x = x]
SetY(c, i, y) == IF Failed(c) THEN c ELSE [c EXCEPT !.prog[i + 1].y = y]

Shifted_not(inst, index) == inst

(* re_insert moves every x and y that is not below the new instruction. *)
Shifted(inst, index) ==
  [inst EXCEPT !.x = IF @ >= index THEN @ + 1 ELSE @,
               !.y = IF @ >= index THEN @ + 1 ELSE @]

Inserted(prog, index, inst) == SubSeq(prog, 1, index) \o <<inst>> \o SubSeq(prog, index + 1, Len(prog))

re_insert(c, index, inst) ==
  IF Failed(c) \/ ~ HasRoom(c, 1) THEN Error(c, "ESPACE")
  ELSE [c EXCEPT !.prog = Inserted([i \in DOMAIN @ |-> Shifted(@[i], index)], index, inst)]

(* A copy's x and y move along with it where they point into the block.    *)
Relocated(inst, from, to, delta) ==
  [inst EXCEPT !.x = IF @ >= from /\ @ <= to THEN @ + delta ELSE @,
               !.y = IF @ >= from /\ @ <= to THEN @ + delta ELSE @]

re_copy_block(c, from, to) ==
  IF to = from \/ Failed(c) THEN c
  ELSE IF ~ HasRoom(c, to - from) THEN Error(c, "ESPACE")
  ELSE [c EXCEPT !.prog = @ \o [i \in 1 .. to - from |->
                                  Relocated(@[from + i], from, to, Len(@) - from)]]

(* Split: the body is entered first, and is skipped by y. *)
Split(x, y) == [Inst("SPLIT") EXCEPT !.x = x, !.y = y]
Jump(x) == [Inst("JMP") EXCEPT !.x = x]
Save(slot) == [Inst("SAVE") EXCEPT !.x = slot]

re_wrap_optional(c, from) == re_insert(c, from, Split(from + 1, length(c) + 1))

(* The split's y is the length before the jump is emitted: the jump.       *)
re_wrap_star(c, from) == re_emit(re_wrap_optional(c, from), Jump(from))

(* The y of the split at i is where the program ends now. *)
SkipsToEnd(c, i) == SetY(c, i, length(c))

(* A split, then a copy of the block it may skip. *)
OptionalCopy(c, from, to) ==
  SkipsToEnd(re_copy_block(re_emit(c, Split(length(c) + 1, 0)), from, to), length(c))

RECURSIVE Copies(_, _, _, _)
Copies(c, from, to, n) ==
  IF n <= 0 \/ Failed(c) THEN c ELSE Copies(re_copy_block(c, from, to), from, to, n - 1)

RECURSIVE OptionalCopies(_, _, _, _)
OptionalCopies(c, from, to, n) ==
  IF n <= 0 \/ Failed(c) THEN c
  ELSE OptionalCopies(OptionalCopy(c, from, to), from, to, n - 1)

-----------------------------------------------------------------------------
(* Syntax: what is an operator depends on REG_EXTENDED *)

re_is_alt_delimiter(c) == Token(c, 0) = IF c.extended THEN "|" ELSE "\\|"

re_is_group_close(c, in_group) ==
  in_group /\ Token(c, 0) = IF c.extended THEN ")" ELSE "\\)"

AtEnd(c, in_group) ==
  Token(c, 0) = "end" \/ re_is_alt_delimiter(c) \/ re_is_group_close(c, in_group)

Quantifier(c) ==
  LET t == Token(c, 0)
  IN  CASE t = "*" -> "star"
        [] t = IF c.extended THEN "+" ELSE "\\+" -> "plus"
        [] t = IF c.extended THEN "?" ELSE "\\?" -> "question"
        [] t = IF c.extended THEN "{" ELSE "\\{" -> "interval"
        [] OTHER -> "none"

-----------------------------------------------------------------------------
(* Intervals *)

RECURSIVE Number(_, _)
Number(c, value) ==
  IF Token(c, 0) \in DOMAIN Digit /\ value <= MaxRepeat
  THEN Number(Advance(c, 1), value * 10 + Digit[Token(c, 0)])
  ELSE [c |-> IF value > MaxRepeat THEN Error(c, "BADBR") ELSE c, value |-> value]

Interval(c, min, max) == [c |-> c, min |-> min, max |-> max]

ClosedInterval(i) ==
  IF Failed(i.c) \/ Token(i.c, 0) # "}" \/ (i.max # Infinity /\ i.max < i.min)
  THEN [i EXCEPT !.c = Error(@, "BADBR")] ELSE [i EXCEPT !.c = Advance(@, 1)]

Maximum(n, min) == Interval(n.c, min, n.value)

AfterMinimum(m) ==
  CASE Failed(m.c) \/ Token(m.c, 0) # "," -> Interval(m.c, m.value, m.value)
    [] Token(m.c, 1) \in DOMAIN Digit -> Maximum(Number(Advance(m.c, 1), 0), m.value)
    [] OTHER -> Interval(Advance(m.c, 1), m.value, Infinity)

(* {m}, {m,}, {m,n}, {,n}; also the check that m is not above n. *)
re_parse_interval(c) == ClosedInterval(AfterMinimum(Number(c, 0)))

(* The split at i goes around a loop: a jump back to it. *)
Loop(c, i) == re_emit(c, Jump(i))

AtLeast(c, from, to) == Loop(OptionalCopy(c, from, to), length(c))

(* With min 0 the atom is made optional first, which moves it by one; the  *)
(* copies are still taken from atom_start to the old end.                  *)
Repeat(c, from, to, min, max) ==
  CASE Failed(c) -> c
    [] min = 0 /\ max = Infinity -> re_wrap_star(c, from)
    [] min = 0 /\ max # Infinity ->
         OptionalCopies(re_wrap_optional(c, from), from, to, max - 1)
    [] min > 0 /\ max = Infinity -> AtLeast(Copies(c, from, to, min - 1), from, to)
    [] min > 0 /\ max # Infinity ->
         OptionalCopies(Copies(c, from, to, min - 1), from, to, max - min)

RepeatInterval(i, from) == Repeat(i.c, from, length(i.c), i.min, i.max)

re_compile_quantifier(c, atom_start) ==
  IF Failed(c) THEN c
  ELSE CASE Quantifier(c) = "none" -> c
         [] Quantifier(c) = "star" -> re_wrap_star(Advance(c, 1), atom_start)
         [] Quantifier(c) = "plus" ->
              re_emit(Advance(c, 1), Split(atom_start, length(c) + 1))
         [] Quantifier(c) = "question" -> re_wrap_optional(Advance(c, 1), atom_start)
         [] Quantifier(c) = "interval" ->
              RepeatInterval(re_parse_interval(Advance(c, 1)), atom_start)

-----------------------------------------------------------------------------
(* Atoms, sequences and alternations *)

(* The instruction of an atom that is not a group. *)
AtomInst(t) ==
  CASE t = "^" -> Inst("BOL")
    [] t = "$" -> Inst("EOL")
    [] t = "." -> Inst("ANY")
    [] t = "\\b" -> Inst("WORDB")
    [] t = "\\B" -> Inst("NOT_WORDB")
    [] t \in DOMAIN ClassSet -> [Inst("CLASS") EXCEPT !.set = ClassSet[t]]
    [] t \in DOMAIN Escaped -> [Inst("CHAR") EXCEPT !.ch = Escaped[t]]
    [] OTHER -> [Inst("CHAR") EXCEPT !.ch = t]

SimpleAtom(c) ==
  CASE Token(c, 0) = "\\" -> Error(c, "EESCAPE")
    [] Token(c, 0) = "[" -> Error(c, "EBRACK")
    [] OTHER -> re_emit(Advance(c, 1), AtomInst(Token(c, 0)))

OpensGroup(c) == Token(c, 0) = IF c.extended THEN "(" ELSE "\\("

Captures(c) == ~ (c.extended /\ Token(c, 1) = "?" /\ Token(c, 2) = ":")

OpenGroup(c) ==
  IF Captures(c)
  THEN re_emit([Advance(c, 1) EXCEPT !.groups = @ + 1], Save((c.groups + 1) * 2))
  ELSE Advance(c, 3)

(* The closing save uses the number of groups seen by now. *)
CloseGroup(c, capture) ==
  CASE Failed(c) -> c
    [] ~ Failed(c) /\ ~ re_is_group_close(c, TRUE) -> Error(c, "EPAREN")
    [] OTHER -> IF capture THEN re_emit(Advance(c, 1), Save(c.groups * 2 + 1))
                           ELSE Advance(c, 1)

RECURSIVE re_compile_alternation(_, _), re_compile_sequence(_, _), Alternatives(_, _, _, _)

re_compile_atom(c) ==
  IF OpensGroup(c)
  THEN CloseGroup(re_compile_alternation(OpenGroup(c), TRUE), Captures(c))
  ELSE SimpleAtom(c)

re_compile_sequence(c, in_group) ==
  IF Failed(c) \/ AtEnd(c, in_group) THEN c
  ELSE re_compile_sequence(re_compile_quantifier(re_compile_atom(c), length(c)), in_group)

(* The last split and all the jumps lead to the end. *)
Closed(c, last_split, jumps) ==
  [c EXCEPT !.prog = [i \in DOMAIN @ |->
     CASE i - 1 = last_split -> [@[i] EXCEPT !.y = length(c)]
       [] \E k \in DOMAIN jumps : jumps[k] = i - 1 -> [@[i] EXCEPT !.x = length(c)]
       [] OTHER -> @[i]]]

(* One alternative was compiled: emit its jump, go on with the next one. *)
AlternativeEnds(c, in_group, split, jumps) ==
  CASE Failed(c) -> c
    [] ~ Failed(c) /\ Len(jumps) > MaxJumps -> Error(c, "BADPAT")
    [] OTHER -> IF re_is_alt_delimiter(c) THEN Alternatives(c, in_group, split, jumps)
                                          ELSE Closed(c, split, jumps)

AlternativeJump(c, in_group, split, jumps) ==
  AlternativeEnds(re_emit(c, Inst("JMP")), in_group, split, Append(jumps, length(c)))

(* A further alternative has a split of its own, which the split before it *)
(* falls through to.  Its x is set when the alternative is compiled.       *)
NewSplit(c, last_split) ==
  SetY(re_emit(Advance(c, 1), Inst("SPLIT")), last_split, length(c))

Alternatives(c, in_group, last_split, jumps) ==
  AlternativeJump(
    SetX(re_compile_sequence(NewSplit(c, last_split), in_group), length(c), length(c) + 1),
    in_group, length(c), jumps)

FirstAlternative(c, in_group, first_start) ==
  IF Failed(c) \/ ~ re_is_alt_delimiter(c) THEN c
  ELSE AlternativeJump(re_insert(c, first_start, Split(first_start + 1, length(c) + 1)),
                       in_group, first_start, <<>>)

re_compile_alternation(c, in_group) ==
  FirstAlternative(re_compile_sequence(c, in_group), in_group, length(c))

-----------------------------------------------------------------------------
(* regcomp: the program, empty when the pattern was refused. *)

Compiler(pattern, extended) ==
  [pattern |-> pattern, cursor |-> 1, extended |-> extended, prog |-> <<>>,
   groups |-> 0, error |-> "none"]

WholePattern(c) == IF Token(c, 0) # "end" THEN Error(c, "BADPAT") ELSE c

Compiled(c) ==
  IF Failed(c) THEN [prog |-> <<>>, nsub |-> 0, error |-> c.error]
  ELSE [prog |-> c.prog, nsub |-> c.groups, error |-> "none"]

regcomp(pattern, extended) ==
  Compiled(
    re_emit(re_emit(WholePattern(
      re_compile_alternation(re_emit(Compiler(pattern, extended), Save(0)), FALSE)),
      Save(1)), Inst("MATCH")))
=============================================================================
