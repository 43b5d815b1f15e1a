------------------------------ MODULE RegexVM ------------------------------
(***************************************************************************)
(* regexec of lib/libc_regex.c: the backtracking interpreter re_run over a *)
(* compiled program, tried at every start position.  The recursion of      *)
(* re_run is the explicit stack below: a split leaves the second branch on *)
(* it, a save the old value of the capture slot.  A call re_run(pc, pos)   *)
(* that was already made for this start fails at once; the table           *)
(* generations remembers the calls made.                                   *)
(*                                                                         *)
(* A definition named D_suffix in front of D is D with a plausible bug.    *)
(***************************************************************************)
EXTENDS Integers, Sequences, FiniteSets

CONSTANTS
  Jobs,      \* the calls of regexec: compiled expression, text and flags
  GenMod,    \* 2^w for the w bits of generation
  Garbage,   \* what malloc may leave in the table of generations
  Lower, Upper,  \* tolower and toupper
  Word       \* the characters of words: letters, digits and the underscore

ASSUME VMAssumption ==
  /\ GenMod \in Nat /\ GenMod > 1
  /\ Garbage \subseteq 0 .. GenMod - 1 /\ Garbage # {}
  /\ \A j \in Jobs :
       /\ j.nsub \in Nat /\ j.nmatch \in Nat
       /\ Len(j.text) \in Nat /\ Len(j.prog) \in Nat
       /\ \A i \in 1 .. Len(j.prog) : j.prog[i].x \in Nat /\ j.prog[i].y \in Nat

NL == "NL"
Unset == -1

(* A heap header has three words, size, next and free; what they hold is   *)
(* of no interest.                                                         *)
HeaderWords == 3
Header == -2

VARIABLES
  job,          \* the arguments of regexec
  phase,        \* "entry", "allocated", "run", "fail", "matched", "done";
                \* "wild" once the heap or memory beyond it is damaged
  start, generation,
  generations,  \* by pc and position; absent: never accessed since malloc
  captures,     \* the table, and behind it a header of the heap
  pc, pos,      \* the call of re_run being made
  stack,        \* what is left to do when it fails
  held,         \* the tables allocated and not yet freed
  result, pmatch

vars == <<job, phase, start, generation, generations, captures, pc, pos,
          stack, held, result, pmatch>>

text_length == Len(job.text)
program_length == Len(job.prog)
Flag(f) == f \in job.flags

CaptureCount_no_whole_match(nsub) == nsub * 2

CaptureCount(nsub) == (nsub + 1) * 2

(* The words behind the table of captures are as malloc left them. *)
Intact == \A i \in DOMAIN captures : i >= CaptureCount(job.nsub) => captures[i] = Header

inst == job.prog[pc + 1]

(* text[i] *)
At(i) == job.text[i + 1]

-----------------------------------------------------------------------------
Init ==
  /\ job \in Jobs
  /\ phase = "entry"
  /\ start = 0 /\ generation = 0 /\ generations = [s \in {} |-> 0]
  /\ captures = [i \in {} |-> Unset]
  /\ pc = 0 /\ pos = 0 /\ stack = <<>>
  /\ held = {} /\ result = "none" /\ pmatch = <<>>

-----------------------------------------------------------------------------
(* Entering regexec *)

(* regcomp failed, so there is no program. *)
BadPattern ==
  /\ phase = "entry" /\ job.prog = <<>>
  /\ phase' = "done" /\ result' = "BADPAT"
  /\ UNCHANGED <<job, start, generation, generations, captures, pc, pos, stack,
                 held, pmatch>>

(* Both tables are asked for, whether or not the first was to be had. *)
AllocTables ==
  /\ phase = "entry" /\ job.prog # <<>>
  /\ held' \in SUBSET {"captures", "generations"}
  /\ captures' = [i \in 0 .. CaptureCount(job.nsub) + HeaderWords - 1 |->
                    IF i < CaptureCount(job.nsub) THEN Unset ELSE Header]
  /\ phase' = "allocated"
  /\ UNCHANGED <<job, start, generation, generations, pc, pos, stack, result, pmatch>>

FreeTables_only_captures ==
  held' = IF phase = "allocated" THEN held \ {"captures"} ELSE {}

FreeTables == held' = {}

(* One of them is missing; the other is freed. *)
NoSpace ==
  /\ phase = "allocated" /\ held # {"captures", "generations"}
  /\ phase' = "done" /\ result' = "ESPACE"
  /\ FreeTables
  /\ UNCHANGED <<job, start, generation, generations, captures, pc, pos, stack, pmatch>>

NextGeneration(g) == (g + 1) % GenMod

(* A new start: generation 0 is skipped, and reached only by wrapping,     *)
(* when the table is cleared.                                              *)
Attempt(s) ==
  LET g == NextGeneration(generation)
  IN  /\ phase' = "run" /\ start' = s
      /\ generation' = IF g = 0 THEN 1 ELSE g
      /\ generations' = IF g = 0
                        THEN [q \in (0 .. program_length - 1) \X (0 .. text_length) |-> 0]
                        ELSE generations
      /\ captures' = [i \in DOMAIN captures |->
                        IF i = 0 THEN s
                        ELSE IF i < CaptureCount(job.nsub) THEN Unset ELSE captures[i]]
      /\ pc' = 0 /\ pos' = s /\ stack' = <<>>
      /\ UNCHANGED <<job, held, result, pmatch>>

Enter ==
  /\ phase = "allocated" /\ held = {"captures", "generations"}
  /\ Attempt(0)

-----------------------------------------------------------------------------
(* re_run: the test and the mark at its top *)

InProgram == pc >= 0 /\ pc < program_length

(* The values the word of the table for this call may hold. *)
TableWord == IF <<pc, pos>> \in DOMAIN generations THEN {generations[<<pc, pos>>]} ELSE Garbage

Visited(g) == g = generation

Mark ==
  generations' = [q \in DOMAIN generations \cup {<<pc, pos>>} |->
                    IF q = <<pc, pos>> THEN generation ELSE generations[q]]

(* The call is new: it is marked and its instruction executed. *)
Fresh(op) ==
  /\ phase = "run" /\ InProgram /\ inst.op \in op
  /\ \E g \in TableWord : ~ Visited(g)
  /\ Mark
  /\ UNCHANGED <<job, start, generation, held, result, pmatch>>

(* The call was made before, or the program counter is out of range. *)
Cut ==
  /\ phase = "run"
  /\ ~ InProgram \/ \E g \in TableWord : Visited(g)
  /\ phase' = "fail"
  /\ UNCHANGED <<job, start, generation, generations, captures, pc, pos, stack,
                 held, result, pmatch>>

-----------------------------------------------------------------------------
(* re_run: the instructions *)

ClassMatch(set, ch) ==
  ch \in set \/ (Flag("ICASE") /\ (Lower[ch] \in set \/ Upper[ch] \in set))

(* Does the instruction accept the character at pos? *)
Consumes ==
  /\ pos < text_length
  /\ CASE inst.op = "CHAR" ->
            IF Flag("ICASE") THEN Lower[At(pos)] = Lower[inst.ch] ELSE At(pos) = inst.ch
       [] inst.op = "ANY" -> ~ (Flag("NEWLINE") /\ At(pos) = NL)
       [] inst.op = "CLASS" -> ClassMatch(inst.set, At(pos))

AtLineStart ==
  IF pos = 0 THEN ~ Flag("NOTBOL") ELSE Flag("NEWLINE") /\ At(pos - 1) = NL

AtLineEnd ==
  IF pos = text_length THEN ~ Flag("NOTEOL") ELSE Flag("NEWLINE") /\ At(pos) = NL

AtWordBoundary ==
  (pos > 0 /\ At(pos - 1) \in Word) # (pos < text_length /\ At(pos) \in Word)

(* Does the condition the instruction stands for hold at pos? *)
Holds ==
  CASE inst.op = "BOL" -> AtLineStart
    [] inst.op = "EOL" -> AtLineEnd
    [] inst.op = "WORDB" -> AtWordBoundary
    [] inst.op = "NOT_WORDB" -> ~ AtWordBoundary

Call(to, at) == pc' = to /\ pos' = at /\ UNCHANGED <<phase, captures, stack>>

Fail == phase' = "fail" /\ UNCHANGED <<pc, pos, captures, stack>>

RunConsume ==
  /\ Fresh({"CHAR", "ANY", "CLASS"})
  /\ IF Consumes THEN Call(pc + 1, pos + 1) ELSE Fail

RunAssertion ==
  /\ Fresh({"BOL", "EOL", "WORDB", "NOT_WORDB"})
  /\ IF Holds THEN Call(pc + 1, pos) ELSE Fail

RunJump == Fresh({"JMP"}) /\ Call(inst.x, pos)

RunSplit ==
  /\ Fresh({"SPLIT"})
  /\ stack' = Append(stack, [kind |-> "branch", arg |-> inst.y, old |-> pos])
  /\ pc' = inst.x
  /\ UNCHANGED <<phase, captures, pos>>

(* The slot may lie behind the table, as re_insert and re_copy_block move  *)
(* the slots of saves as if they were targets: in the header of the block  *)
(* that follows, or further out, where the model ends.                     *)
RunSave ==
  /\ Fresh({"SAVE"})
  /\ IF inst.x \in DOMAIN captures
     THEN /\ captures' = [captures EXCEPT ![inst.x] = pos]
          /\ stack' = Append(stack, [kind |-> "restore", arg |-> inst.x,
                                     old |-> captures[inst.x]])
          /\ pc' = pc + 1
          /\ UNCHANGED <<phase, pos>>
     ELSE phase' = "wild" /\ UNCHANGED <<captures, stack, pc, pos>>

-----------------------------------------------------------------------------
(* re_run has returned 0: its callers go on *)

Top == stack[Len(stack)]
Popped == SubSeq(stack, 1, Len(stack) - 1)

TakeBranch ==
  /\ phase = "fail" /\ stack # <<>> /\ Top.kind = "branch"
  /\ phase' = "run" /\ pc' = Top.arg /\ pos' = Top.old
  /\ stack' = Popped
  /\ UNCHANGED <<job, start, generation, generations, captures, held, result, pmatch>>

Restored_kept(c, slot, old) == c

Restored_in_table(c, slot, old) ==
  IF slot < CaptureCount(job.nsub) THEN [c EXCEPT ![slot] = old] ELSE c

Restored(c, slot, old) == [c EXCEPT ![slot] = old]

RestoreCapture ==
  /\ phase = "fail" /\ stack # <<>> /\ Top.kind = "restore"
  /\ captures' = Restored(captures, Top.arg, Top.old)
  /\ stack' = Popped
  /\ UNCHANGED <<job, phase, start, generation, generations, pc, pos, held, result, pmatch>>

NextPosition_stuck(s) == s

NextPosition(s) == s + 1

NextStart ==
  /\ phase = "fail" /\ stack = <<>> /\ start < text_length
  /\ Attempt(NextPosition(start))

-----------------------------------------------------------------------------
(* Leaving regexec *)

NoMatch ==
  /\ phase = "fail" /\ stack = <<>> /\ start = text_length
  /\ phase' = "done" /\ result' = "NOMATCH"
  /\ FreeTables
  /\ UNCHANGED <<job, start, generation, generations, captures, pc, pos, stack, pmatch>>

(* How many entries of pmatch are written. *)
Published ==
  IF Flag("NOSUB") THEN 0
  ELSE IF job.nmatch > job.nsub + 1 THEN job.nsub + 1 ELSE job.nmatch

Match ==
  /\ Fresh({"MATCH"})
  /\ UNCHANGED <<captures, pc, pos, stack>>
  /\ phase' = "matched"

(* Every re_run returns 1, then regexec copies the captures. *)
Publish ==
  /\ phase = "matched"
  /\ phase' = "done" /\ result' = "match"
  /\ pmatch' = [i \in 1 .. Published |->
                  [so |-> captures[(i - 1) * 2], eo |-> captures[(i - 1) * 2 + 1]]]
  /\ FreeTables
  /\ UNCHANGED <<job, start, generation, generations, captures, pc, pos, stack>>

(* The match kept a save behind the table: free finds a damaged header,    *)
(* unless the block is larger than the table and the words were spare.     *)
FreeDamaged ==
  /\ phase = "matched" /\ ~ Intact
  /\ phase' = "wild"
  /\ UNCHANGED <<job, start, generation, generations, captures, pc, pos, stack,
                 held, result, pmatch>>

-----------------------------------------------------------------------------
Next ==
  \/ BadPattern \/ AllocTables \/ NoSpace \/ Enter
  \/ Cut \/ RunConsume \/ RunAssertion \/ RunJump \/ RunSplit \/ RunSave \/ Match
  \/ TakeBranch \/ RestoreCapture \/ NextStart
  \/ NoMatch \/ Publish \/ FreeDamaged

Spec == Init /\ [][Next]_vars

(* regexec is sequential code: it goes on as long as it has a step to take. *)
FairSpec == Spec /\ WF_vars(Next)

-----------------------------------------------------------------------------
(* Properties *)

(* Every access to the table of generations is inside it. *)
MarksInside ==
  DOMAIN generations \subseteq (0 .. program_length - 1) \X (0 .. text_length)

(* Whatever the outcome, regexec gives back the tables it got. *)
TablesFreed == phase = "done" => held = {}

(* A call that finds no match has taken back every save it made, those     *)
(* behind the table too.                                                   *)
FailureHarmless == result = "NOMATCH" => Intact

(* Memory, whatever the program: MarksInside, TablesFreed and              *)
(* FailureHarmless together.                                               *)
TablesSound == MarksInside /\ TablesFreed /\ FailureHarmless

(* regexec returns. *)
RegexecReturns == <>(phase \in {"done", "wild"})
=============================================================================
