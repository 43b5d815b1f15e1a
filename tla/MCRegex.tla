------------------------------ MODULE MCRegex ------------------------------
(***************************************************************************)
(* regcomp and regexec together, on small patterns and texts, against a    *)
(* reference that knows nothing of programs: the set of positions where a  *)
(* match that begins at a given position may end.                          *)
(*                                                                         *)
(* A pattern is a sequence of pieces [t, body, q]: an atom t, the pieces   *)
(* inside it if it is a group, and its quantifier q.                       *)
(***************************************************************************)
EXTENDS RegexVM, TLC

MCLower == ("a" :> "a") @@ ("b" :> "b") @@ ("A" :> "a") @@ (NL :> NL) @@ ("+" :> "+")
MCUpper == ("a" :> "A") @@ ("b" :> "B") @@ ("A" :> "A") @@ (NL :> NL) @@ ("+" :> "+")
MCWord == {"a", "b", "A", "c", "x", "y"}
MCClassSet == ("[ab]" :> {"a", "b"}) @@ ("[^a]" :> {"b", "A", NL, "+"})
MCEscaped == ("\\+" :> "+") @@ ("\\?" :> "?") @@ ("\\(" :> "(") @@ ("\\)" :> ")")

CONSTANTS MaxProgram, MaxJumps

C == INSTANCE RegexCompile WITH ClassSet <- MCClassSet, Escaped <- MCEscaped

-----------------------------------------------------------------------------
(* Patterns *)

Bounds == ("none" :> <<1, 1>>) @@ ("+" :> <<1, C!Infinity>>) @@ ("?" :> <<0, 1>>)
          @@ ("{2}" :> <<2, 2>>) @@ ("{1,2}" :> <<1, 2>>) @@ ("*" :> <<0, C!Infinity>>)

Piece(t, q) == [t |-> t, body |-> <<>>, q |-> q]
GroupPiece(t, body, q) == [t |-> t, body |-> body, q |-> q]
IsGroup(p) == p.t \in {"(", "(?:"}

Spelled(q, extended) ==
  CASE q = "none" -> <<>>
    [] q = "{2}" -> <<"{", "2", "}">>
    [] q = "{1,2}" -> <<"{", "1", ",", "2", "}">>
    [] q = "*" -> <<"*">>
    [] q = "+" -> IF extended THEN <<"+">> ELSE <<"\\+">>
    [] q = "?" -> IF extended THEN <<"?">> ELSE <<"\\?">>

RECURSIVE Spell(_, _)
Spell(pieces, extended) ==
  IF pieces = <<>> THEN <<>>
  ELSE LET p == Head(pieces)
           inner == Spell(p.body, extended)
           atom == CASE p.t = "(?:" -> <<"(", "?", ":">> \o inner \o <<")">>
                     [] p.t = "(" -> IF extended THEN <<"(">> \o inner \o <<")">>
                                     ELSE <<"\\(">> \o inner \o <<"\\)">>
                     [] OTHER -> <<p.t>>
       IN  atom \o Spelled(p.q, extended) \o Spell(Tail(pieces), extended)

-----------------------------------------------------------------------------
(* The reference *)

CharMatches(t, ch, flags) ==
  LET same(s) == ch \in s \/ ("ICASE" \in flags /\ {MCLower[ch], MCUpper[ch]} \cap s # {})
  IN  CASE t = "." -> ~ ("NEWLINE" \in flags /\ ch = NL)
        [] t \in DOMAIN MCClassSet -> same(MCClassSet[t])
        [] OTHER -> IF "ICASE" \in flags THEN MCLower[ch] = MCLower[t] ELSE ch = t

(* The first and the last position of a line. *)
LineStart(text, i, flags) ==
  \/ i = 0 /\ "NOTBOL" \notin flags
  \/ i > 0 /\ "NEWLINE" \in flags /\ text[i] = NL

LineEnd(text, i, flags) ==
  \/ i = Len(text) /\ "NOTEOL" \notin flags
  \/ i < Len(text) /\ "NEWLINE" \in flags /\ text[i + 1] = NL

WordEdge(text, i) ==
  (i > 0 /\ text[i] \in MCWord) # (i < Len(text) /\ text[i + 1] \in MCWord)

RECURSIVE SeqEnds(_, _, _, _), Times(_, _, _, _, _, _)

AtomEnds(p, text, I, flags) ==
  CASE IsGroup(p) -> SeqEnds(p.body, text, I, flags)
    [] p.t = "^" -> {i \in I : LineStart(text, i, flags)}
    [] p.t = "$" -> {i \in I : LineEnd(text, i, flags)}
    [] p.t = "\\b" -> {i \in I : WordEdge(text, i)}
    [] p.t = "\\B" -> {i \in I : ~ WordEdge(text, i)}
    [] OTHER -> {i + 1 : i \in {j \in I : j < Len(text) /\ CharMatches(p.t, text[j + 1], flags)}}

(* The ends of min to min + more repetitions. *)
Times(p, text, I, min, more, flags) ==
  IF min > 0 THEN Times(p, text, AtomEnds(p, text, I, flags), min - 1, more, flags)
  ELSE IF more = 0 THEN I
  ELSE I \cup Times(p, text, AtomEnds(p, text, I, flags), 0, more - 1, flags)

SeqEnds(pieces, text, I, flags) ==
  IF pieces = <<>> THEN I
  ELSE LET p == Head(pieces)
           min == Bounds[p.q][1]
           max == Bounds[p.q][2]
           more == IF max = C!Infinity THEN Len(text) ELSE max - min
       IN  SeqEnds(Tail(pieces), text, Times(p, text, I, min, more, flags), flags)

Ends(j, i) == SeqEnds(j.pieces, j.text, {i}, j.flags)

-----------------------------------------------------------------------------
(* Jobs *)

Texts(chars, n) == UNION {[1 .. k -> chars] : k \in 0 .. n}

(* A call of regcomp, then of regexec.  judge says what its answer is      *)
(* compared with, expect is the match that tests/regex.c asks for.         *)
Job(pieces, pattern, extended, text, flags, judge, expect) ==
  LET r == C!regcomp(pattern, extended)
  IN  [pieces |-> pieces, prog |-> r.prog, nsub |-> r.nsub, error |-> r.error,
       text |-> text, flags |-> flags, nmatch |-> 2, judge |-> judge, expect |-> expect]

PatternJobs(patterns, extended, texts, flags) ==
  {Job(ps, Spell(ps, extended), extended, t, f, "reference", <<>>) :
     ps \in patterns, t \in texts, f \in flags}

Quantified(ts, qs) == {Piece(t, q) : t \in ts, q \in qs}

One(S) == {<<p>> : p \in S}
Two(S, T) == {<<p, q>> : p \in S, q \in T}

Plain == Quantified({"a", "b", "[^a]"}, {"none", "+", "{2}", "{1,2}"})
Optional == Quantified({"a", "."}, {"?"})

(* re_insert moves a target that is equal to its index, so a ? must not    *)
(* follow a piece that ends in a split; and it moves the slots of saves,   *)
(* so that no pattern here has both a ? and a capturing group, nor copies  *)
(* of one.                                                                 *)
Flat == Two(Plain, Plain) \cup Two(Optional, Plain)

Bodies ==
  {<<Piece("a", "+")>>, <<Piece("a", "?")>>, <<Piece("a", "?"), Piece("b", "+")>>,
   <<Piece("b", "none"), Piece("a", "?")>>, <<Piece("b", "+"), Piece(".", "{1,2}")>>}

Nested ==
  One({GroupPiece("(?:", b, q) : b \in Bodies, q \in {"+", "?", "{2}", "{1,2}"}})
    \cup {<<GroupPiece("(?:", b, q), Piece("b", "none")>> : b \in Bodies, q \in {"+", "?", "{2}"}}
    \cup {<<GroupPiece("(?:", <<GroupPiece("(?:", b, "+"), Piece("a", "none")>>, q)>> :
            b \in Bodies, q \in {"+", "?"}}

CapturedBodies ==
  {<<Piece("a", "+")>>, <<Piece("b", "none"), Piece("a", "+")>>,
   <<Piece("b", "+"), Piece(".", "{1,2}")>>}

Captured ==
  {<<GroupPiece("(", b, q), p>> :
     b \in CapturedBodies, q \in {"none", "+"}, p \in Quantified({"a", "b"}, {"none", "+"})}

Anchored ==
  {<<Piece("^", "none"), p>> : p \in Plain}
    \cup {<<p, Piece("$", "none")>> : p \in Plain}
    \cup {<<Piece("\\b", "none"), Piece("a", "none"), Piece("\\B", "none")>>}

AllFlags == {{}, {"ICASE"}, {"NEWLINE"}, {"NOTBOL"}, {"NOTEOL", "NOSUB"}}

(* Patterns regcomp refuses: an open group, a bad interval, a lone         *)
(* backslash, and one too long for the heap.                               *)
Refused == {<<"(", "a">>, <<"a", "{", "2", ",", "1", "}">>, <<"a", "{", "2">>, <<"\\">>,
            [i \in 1 .. MaxProgram |-> "a"]}

(* Loops in loops that may match the empty string; re_wrap_star leaves no  *)
(* way out of them, so only that regexec returns is asked.                 *)
Stars ==
  {<<GroupPiece("(?:", b, "*"), Piece("a", "none")>> : b \in Bodies}

(* Capturing groups inside an inserted split, or copied: the slots of      *)
(* their saves move, behind the table or to another group.  What they      *)
(* answer is left open.                                                    *)
Moved ==
  One({GroupPiece("(", <<Piece("a", "none")>>, q) : q \in {"?", "*", "{2}", "{1,2}"}})
    \cup {<<GroupPiece("(", <<Piece("a", "none")>>, q), Piece("b", "none")>> : q \in {"?", "{2}"}}

MovedAlternative == {<<"(", "a", ")", "|", "b">>, <<"a", "|", "(", "b", ")">>}

MCJobs ==
  PatternJobs(Flat \cup Nested, TRUE, Texts({"a", "b"}, 3), {{}})
    \cup PatternJobs(Captured, TRUE, Texts({"a", "b"}, 3), {{}})
    \cup PatternJobs({ps \in Captured : Len(ps[1].body) = 1}, FALSE, Texts({"a", "b"}, 2), {{}})
    \cup PatternJobs(Anchored, TRUE, Texts({"a", "A", NL}, 2), AllFlags)
    \cup {[j EXCEPT !.judge = "open"] : j \in PatternJobs(Stars, TRUE, Texts({"a", "b"}, 3), {{}})}
    \cup {[j EXCEPT !.judge = "open"] : j \in PatternJobs(Moved, TRUE, Texts({"a", "b"}, 3), {{}})}
    \cup {Job(<<>>, s, TRUE, t, {}, "open", <<>>) : s \in MovedAlternative, t \in Texts({"a", "b"}, 2)}
    \cup {Job(<<>>, s, TRUE, <<"a">>, {}, "refused", <<>>) : s \in Refused}

(* Calls that tests/regex.c makes, in basic syntax, and the match they     *)
(* ask for.                                                                *)
Tested(pattern, text, so, eo) == {Job(<<>>, pattern, FALSE, text, {}, "test", <<so, eo>>)}

PlainTest == Tested(<<"a", "b", "c">>, <<"x", "x", "a", "b", "c", "y", "y">>, 2, 5)
StarTest == Tested(<<"a", "*">>, <<"a", "a", "a">>, 0, 3)

-----------------------------------------------------------------------------
(* Properties *)

Answered == phase = "done" /\ result # "ESPACE"

(* regcomp and regexec agree with the reference: they find a match exactly *)
(* when there is one, at the leftmost position where one begins, and with  *)
(* an end that is possible from there.                                     *)
AgreesWithReference ==
  Answered /\ job.judge = "reference" =>
    LET starts == {i \in 0 .. text_length : Ends(job, i) # {}}
    IN  /\ result = IF starts = {} THEN "NOMATCH" ELSE "match"
        /\ pmatch # <<>> =>
             /\ pmatch[1].so \in starts
             /\ \A i \in starts : pmatch[1].so <= i
             /\ pmatch[1].eo \in Ends(job, pmatch[1].so)

(* What a capturing group reports lies inside the match and is text that   *)
(* the group's body matches: re_run takes back every capture it made on a  *)
(* path that failed, so a loop reports its last complete turn.             *)
GroupsMatch ==
  Answered /\ job.judge = "reference" /\ Len(pmatch) = 2 =>
    LET group == pmatch[2]
    IN  /\ pmatch[1].so <= group.so /\ group.eo <= pmatch[1].eo
        /\ group.eo \in SeqEnds(job.pieces[1].body, job.text, {group.so}, job.flags)

(* A pattern that is not well formed, or that needs a longer program than  *)
(* fits, is refused: regexec is left without a program to run.             *)
RefusesBadPatterns == Answered /\ job.judge = "refused" => result = "BADPAT"

(* The programs that are compared with the reference save to slots of      *)
(* their own groups only.                                                  *)
SavesInside == job.judge = "reference" => phase # "wild" /\ Intact

(* The answer of regcomp and regexec: AgreesWithReference,                 *)
(* RefusesBadPatterns and SavesInside together.  It says nothing of the    *)
(* shapes regcomp gets wrong, which are left out of the reference jobs:    *)
(* stars, a ? behind a piece that ends in a split, and captured groups     *)
(* under ?, *, an interval or an alternative.                              *)
AnswersRight == AgreesWithReference /\ RefusesBadPatterns /\ SavesInside

(* The call has the outcome that tests/regex.c checks for. *)
AsTested ==
  Answered /\ job.judge = "test" =>
    result = "match" /\ <<pmatch[1].so, pmatch[1].eo>> = job.expect
=============================================================================
