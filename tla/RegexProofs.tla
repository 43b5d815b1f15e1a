---------------------------- MODULE RegexProofs ----------------------------
(***************************************************************************)
(* Proofs about RegexVM, for every program, text and number of groups:     *)
(* re_run stays inside the table of generations and the text, a failed     *)
(* attempt takes all its captures back, behind their table too, every      *)
(* start begins with a table of generations that marks nothing, and the    *)
(* offsets reported lie in the text.                                       *)
(***************************************************************************)
EXTENDS RegexVM, TLAPS, SequenceTheorems

(* The slots of the table, and with the words behind it. *)
Table == 0 .. 2 * job.nsub + 1
Slots == 0 .. 2 * job.nsub + 4
Offsets == start .. text_length
Busy == phase \in {"run", "fail", "matched", "wild"}

(* What a new attempt puts in a slot, or finds behind the table, and what  *)
(* may be there later.                                                     *)
Cleared(i) == IF i = 0 THEN start ELSE IF i < CaptureCount(job.nsub) THEN Unset ELSE Header
Values(i) == {Cleared(i)} \cup Offsets

TypeOK ==
  /\ job \in Jobs
  /\ phase \in {"entry", "allocated", "run", "fail", "matched", "wild", "done"}
  /\ start \in 0 .. text_length
  /\ generation \in 0 .. GenMod - 1
  /\ pc \in Nat
  /\ stack \in Seq([kind : {"branch", "restore"}, arg : Nat, old : Int])

(* The table of generations: no access outside it, and no mark newer than  *)
(* the current start.                                                      *)
MarksOld ==
  /\ generations = [q \in DOMAIN generations |-> generations[q]]
  /\ \A q \in DOMAIN generations : generations[q] \in 0 .. generation

(* Positions are in the text, from the start of the attempt on. *)
Positions ==
  Busy => /\ pos \in Offsets
          /\ captures \in [Slots -> Int]
          /\ \A i \in Slots : captures[i] \in Values(i)
          /\ \A k \in 1 .. Len(stack) :
               \/ stack[k].kind = "branch" /\ stack[k].old \in Offsets
               \/ /\ stack[k].kind = "restore" /\ stack[k].arg \in Slots
                  /\ stack[k].old \in Values(stack[k].arg)

RestoresSlot(st, k, i) == st[k].kind = "restore" /\ st[k].arg = i

(* Unwinding the stack brings every slot back to what the attempt began    *)
(* with: the oldest entry for the slot holds that value, and a slot        *)
(* without an entry has not been changed.                                  *)
Unwinds ==
  phase \in {"run", "fail"} =>
    \A i \in Slots :
      /\ (\A k \in 1 .. Len(stack) : ~ RestoresSlot(stack, k, i)) => captures[i] = Cleared(i)
      /\ \A k \in 1 .. Len(stack) :
           RestoresSlot(stack, k, i) /\ (\A l \in 1 .. k - 1 : ~ RestoresSlot(stack, l, i)) =>
             stack[k].old = Cleared(i)

HeldOK == phase \in {"entry", "done"} => held = {}

(* What lies behind a new table. *)
Allocated ==
  phase = "allocated" =>
    /\ captures \in [Slots -> Int]
    /\ \A i \in Slots : i >= CaptureCount(job.nsub) => captures[i] = Header

(* There is no result before the end, and no damage after a failure. *)
Settled ==
  /\ phase # "done" => result = "none"
  /\ FailureHarmless

(* What pmatch reports lies in the text. *)
Reported ==
  /\ phase # "done" => pmatch = <<>>
  /\ \A i \in 1 .. Len(pmatch) :
       pmatch[i].so \in {Unset} \cup Offsets /\ pmatch[i].eo \in {Unset} \cup Offsets

IInv ==
  /\ TypeOK /\ MarksInside /\ MarksOld /\ Positions /\ Unwinds /\ HeldOK /\ Reported
  /\ Allocated /\ Settled

(* When an attempt has failed, its captures are as it found them. *)
FailsClean ==
  phase = "fail" /\ stack = <<>> => \A i \in DOMAIN captures : captures[i] = Cleared(i)
-----------------------------------------------------------------------------
(* The sizes of the tables, as long as job does not change. *)
LEMMA Sizes ==
  ASSUME TypeOK
  PROVE  /\ text_length \in Nat /\ program_length \in Nat /\ job.nsub \in Nat
         /\ job.nmatch \in Nat /\ start \in Nat /\ start <= text_length
         /\ CaptureCount(job.nsub) = 2 * job.nsub + 2
         /\ GenMod \in Nat /\ GenMod > 1
<1>1. /\ text_length \in Nat /\ program_length \in Nat /\ job.nsub \in Nat
      /\ job.nmatch \in Nat
  BY VMAssumption DEF TypeOK, text_length, program_length
<1> QED BY <1>1, VMAssumption DEF TypeOK, CaptureCount

(* A new start: the tables are cleared, and whatever marks the table of    *)
(* generations holds are of earlier starts.                                *)
LEMMA AttemptKeeps ==
  ASSUME TypeOK, MarksInside, MarksOld, pmatch = <<>>, NEW s \in 0 .. text_length, Attempt(s),
         captures \in [Slots -> Int], result = "none",
         \A i \in Slots : i >= CaptureCount(job.nsub) => captures[i] = Header
  PROVE  /\ TypeOK' /\ MarksInside' /\ MarksOld' /\ Positions' /\ Unwinds' /\ HeldOK'
         /\ Reported' /\ Allocated' /\ Settled'
         /\ \A q \in DOMAIN generations' : generations'[q] < generation'
<1> DEFINE g == NextGeneration(generation)
<1>1. /\ text_length \in Nat /\ program_length \in Nat /\ job.nsub \in Nat
      /\ CaptureCount(job.nsub) = 2 * job.nsub + 2
      /\ GenMod \in Nat /\ GenMod > 1
  BY Sizes
<1>2. /\ UNCHANGED <<job, held, result, pmatch>> /\ phase' = "run" /\ start' = s
      /\ pc' = 0 /\ pos' = s /\ stack' = <<>>
      /\ captures' = [i \in DOMAIN captures |->
                        IF i = 0 THEN s
                        ELSE IF i < CaptureCount(job.nsub) THEN Unset ELSE captures[i]]
      /\ generation' = IF g = 0 THEN 1 ELSE g
      /\ generations' = IF g = 0
                        THEN [q \in (0 .. program_length - 1) \X (0 .. text_length) |-> 0]
                        ELSE generations
  BY DEF Attempt
<1>3. text_length' = text_length /\ program_length' = program_length /\ Slots' = Slots
  BY <1>2 DEF text_length, program_length, Slots
<1>4. g \in 0 .. GenMod - 1 /\ (g # 0 => g = generation + 1)
  <2>1. generation \in 0 .. GenMod - 1
    BY DEF TypeOK
  <2> QED BY <1>1, <2>1 DEF NextGeneration
<1> HIDE DEF g
<1>5. generation' \in 1 .. GenMod - 1
  BY <1>1, <1>2, <1>4
<1>6. TypeOK'
  <2>1. stack' \in Seq([kind : {"branch", "restore"}, arg : Nat, old : Int])
    BY <1>2
  <2>2. start' \in 0 .. text_length' /\ pc' \in Nat
        /\ phase' \in {"entry", "allocated", "run", "fail", "matched", "wild", "done"}
    BY <1>2, <1>3
  <2>3. generation' \in 0 .. GenMod - 1
    BY <1>1, <1>5
  <2>4. job' \in Jobs
    BY <1>2 DEF TypeOK
  <2> QED BY <2>1, <2>2, <2>3, <2>4 DEF TypeOK
<1>7. /\ MarksInside' /\ MarksOld'
      /\ \A q \in DOMAIN generations' : generations'[q] < generation'
  <2>1. CASE g = 0
    BY <1>2, <1>3, <1>5, <2>1 DEF MarksInside, MarksOld
  <2>2. CASE g # 0
    <3>1. generations' = generations /\ generation' = generation + 1
      BY <1>2, <1>4, <2>2
    <3>2. generation \in Nat
      BY <1>1 DEF TypeOK
    <3> QED BY <1>3, <3>1, <3>2 DEF MarksInside, MarksOld
  <2> QED BY <2>1, <2>2
<1>8. captures' \in [Slots -> Int] /\ (\A i \in Slots : captures'[i] = Cleared(i)')
      /\ Len(stack') = 0
  BY <1>1, <1>2, <1>3 DEF Slots, Cleared, Unset
<1>9. Positions'
  <2>1. s \in Offsets'
    BY <1>1, <1>2, <1>3 DEF Offsets
  <2>2. \A i \in Slots' : captures'[i] \in Values(i)'
    BY <1>3, <1>8 DEF Values
  <2> QED BY <1>2, <1>3, <1>8, <2>1, <2>2 DEF Positions
<1>10. Unwinds'
  BY <1>3, <1>8 DEF Unwinds
<1>11. Reported'
  BY <1>2 DEF Reported
<1> QED BY <1>2, <1>6, <1>7, <1>9, <1>10, <1>11 DEF HeldOK, Allocated, Settled, FailureHarmless

(* re_run marks the call it makes: a word of the table, as pc and pos are  *)
(* in range.                                                               *)
LEMMA MarkKeeps ==
  ASSUME TypeOK, MarksInside, MarksOld, Positions, Busy, InProgram, Mark,
         UNCHANGED <<job, start, generation>>
  PROVE  MarksInside' /\ MarksOld'
<1>1. text_length' = text_length /\ program_length' = program_length
  BY DEF text_length, program_length
<1>2. <<pc, pos>> \in (0 .. program_length - 1) \X (0 .. text_length)
  BY Sizes DEF TypeOK, Positions, Offsets, InProgram
<1>3. generation \in Nat
  BY DEF TypeOK
<1>4. /\ DOMAIN generations' = DOMAIN generations \cup {<<pc, pos>>}
      /\ generations' = [q \in DOMAIN generations' |-> generations'[q]]
      /\ \A q \in DOMAIN generations' : generations'[q] \in {generation, generations[q]}
      /\ \A q \in DOMAIN generations' : generations'[q] = generation \/ q \in DOMAIN generations
  BY DEF Mark
<1>5. \A q \in DOMAIN generations' : generations'[q] \in 0 .. generation
  BY <1>3, <1>4 DEF MarksOld
<1> QED BY <1>1, <1>2, <1>4, <1>5 DEF MarksInside, MarksOld

(* What the definitions about job and start say after a step of re_run. *)
LEMMA SameJob ==
  ASSUME UNCHANGED <<job, start>>
  PROVE  /\ text_length' = text_length /\ program_length' = program_length
         /\ Slots' = Slots /\ Offsets' = Offsets
         /\ \A i : Cleared(i)' = Cleared(i) /\ Values(i)' = Values(i)
BY DEF text_length, program_length, Slots, Offsets, Cleared, Values

(* The type invariant after a step of re_run. *)
LEMMA TypeKept ==
  ASSUME TypeOK, UNCHANGED <<job, start, generation>>, pc' \in Nat,
         phase' \in {"run", "fail", "matched", "wild", "done"},
         stack' \in Seq([kind : {"branch", "restore"}, arg : Nat, old : Int])
  PROVE  TypeOK'
BY SameJob DEF TypeOK

(* Calls that neither split nor save, and calls that fail at once. *)
LEMMA StackKept ==
  ASSUME IInv, UNCHANGED <<job, start, generation, captures, stack, held, result, pmatch>>,
         phase \in {"run", "fail"}, phase' \in {"run", "fail", "matched"},
         pos' \in Offsets, pc' \in Nat, MarksInside', MarksOld'
  PROVE  IInv'
<1>1. TypeOK'
  BY TypeKept DEF IInv, TypeOK
<1>2. Positions'
  <2>1. Busy /\ Positions
    BY DEF IInv, Busy
  <2> QED BY <2>1, SameJob DEF Positions
<1>3. Unwinds'
  <2> USE SameJob DEF IInv
  <2> QED BY DEF Unwinds, RestoresSlot
<1>4. HeldOK' /\ Reported' /\ Allocated' /\ Settled'
  BY SameJob DEF IInv, HeldOK, Reported, Allocated, Settled, FailureHarmless
<1> QED BY <1>1, <1>2, <1>3, <1>4 DEF IInv

(* What a call being executed finds. *)
LEMMA FreshFacts ==
  ASSUME IInv, NEW op, Fresh(op)
  PROVE  /\ phase = "run" /\ pos \in Offsets /\ pc \in Nat /\ pc < program_length
         /\ inst.op \in op /\ inst.x \in Nat /\ inst.y \in Nat
         /\ pc + 1 \in 1 .. Len(job.prog)
         /\ MarksInside' /\ MarksOld'
         /\ UNCHANGED <<job, start, generation, held, result, pmatch>>
<1>1. /\ phase = "run" /\ InProgram /\ Mark /\ inst.op \in op
      /\ UNCHANGED <<job, start, generation, held, result, pmatch>>
  BY DEF Fresh
<1>2. TypeOK /\ MarksInside /\ MarksOld /\ Positions /\ Busy
  BY <1>1 DEF IInv, Busy
<1>3. MarksInside' /\ MarksOld'
  BY <1>1, <1>2, MarkKeeps
<1>4. pc \in Nat /\ pc < program_length /\ pos \in Offsets
  BY <1>1, <1>2 DEF InProgram, TypeOK, Positions
<1>5. pc + 1 \in 1 .. Len(job.prog)
  BY <1>2, <1>4, Sizes DEF program_length
<1>6. inst.x \in Nat /\ inst.y \in Nat
  BY <1>2, <1>5, VMAssumption DEF inst, TypeOK
<1> QED BY <1>1, <1>3, <1>4, <1>5, <1>6

(* A consuming instruction moves on only before the end of the text. *)
LEMMA RunConsumeKeeps ==
  ASSUME IInv, RunConsume
  PROVE  IInv'
<1>1. Fresh({"CHAR", "ANY", "CLASS"}) /\ ((Call(pc + 1, pos + 1) /\ Consumes) \/ Fail)
  BY DEF RunConsume
<1>2. /\ phase = "run" /\ pos \in Offsets /\ pc \in Nat /\ MarksInside' /\ MarksOld'
      /\ UNCHANGED <<job, start, generation, held, result, pmatch>>
  BY <1>1, FreshFacts
<1>3. Consumes => pos + 1 \in Offsets
  BY <1>2, Sizes DEF Consumes, Offsets, IInv
<1>4. CASE Call(pc + 1, pos + 1) /\ Consumes
  BY <1>2, <1>3, <1>4, StackKept DEF Call
<1>5. CASE Fail
  BY <1>2, <1>5, StackKept DEF Fail
<1> QED BY <1>1, <1>4, <1>5

(* The other instructions that leave captures and stack alone. *)
LEMMA RunOtherKeeps ==
  ASSUME IInv, RunAssertion \/ RunJump \/ Match
  PROVE  IInv'
<1>1. CASE RunAssertion
  <2>1. Fresh({"BOL", "EOL", "WORDB", "NOT_WORDB"}) /\ (Call(pc + 1, pos) \/ Fail)
    BY <1>1 DEF RunAssertion
  <2>2. /\ phase = "run" /\ pos \in Offsets /\ pc \in Nat /\ MarksInside' /\ MarksOld'
        /\ UNCHANGED <<job, start, generation, held, result, pmatch>>
    BY <2>1, FreshFacts
  <2> QED BY <2>1, <2>2, StackKept DEF Call, Fail
<1>2. CASE RunJump
  <2>1. Fresh({"JMP"}) /\ Call(inst.x, pos)
    BY <1>2 DEF RunJump
  <2>2. /\ phase = "run" /\ pos \in Offsets /\ inst.x \in Nat /\ MarksInside' /\ MarksOld'
        /\ UNCHANGED <<job, start, generation, held, result, pmatch>>
    BY <2>1, FreshFacts
  <2> QED BY <2>1, <2>2, StackKept DEF Call
<1>3. CASE Match
  <2>1. Fresh({"MATCH"}) /\ UNCHANGED <<captures, pc, pos, stack>> /\ phase' = "matched"
    BY <1>3 DEF Match
  <2>2. /\ phase = "run" /\ pos \in Offsets /\ pc \in Nat /\ MarksInside' /\ MarksOld'
        /\ UNCHANGED <<job, start, generation, held, result, pmatch>>
    BY <2>1, FreshFacts
  <2> QED BY <2>1, <2>2, StackKept
<1> QED BY <1>1, <1>2, <1>3

(* A call that was made before, or that is out of the program, fails. *)
LEMMA CutKeeps ==
  ASSUME IInv, Cut
  PROVE  IInv'
<1>1. /\ phase = "run" /\ phase' = "fail"
      /\ UNCHANGED <<job, start, generation, generations, captures, pc, pos, stack,
                     held, result, pmatch>>
  BY DEF Cut
<1>2. pos \in Offsets /\ pc \in Nat
  BY <1>1 DEF IInv, Positions, Busy, TypeOK
<1>3. MarksInside' /\ MarksOld'
  BY <1>1 DEF IInv, MarksInside, MarksOld, text_length, program_length
<1> QED BY <1>1, <1>2, <1>3, StackKept

Entry == [kind : {"branch", "restore"}, arg : Nat, old : Int]

(* Pushing an entry. *)
LEMMA Pushed ==
  ASSUME TypeOK, NEW e \in Entry, stack' = Append(stack, e)
  PROVE  /\ stack' \in Seq(Entry) /\ Len(stack) \in Nat /\ Len(stack') = Len(stack) + 1
         /\ stack'[Len(stack) + 1] = e
         /\ \A k \in 1 .. Len(stack) : stack'[k] = stack[k]
BY DEF TypeOK, Entry

(* Popping one. *)
LEMMA PoppedFacts ==
  ASSUME TypeOK, stack # <<>>, stack' = Popped
  PROVE  /\ stack' \in Seq(Entry) /\ Len(stack) \in Nat \ {0} /\ Len(stack') = Len(stack) - 1
         /\ Top \in Entry
         /\ \A k \in 1 .. Len(stack) - 1 : stack'[k] = stack[k]
<1>1. stack \in Seq(Entry) /\ Len(stack) # 0
  BY EmptySeq DEF TypeOK, Entry
<1>2. stack' = SubSeq(stack, 1, Len(stack) - 1)
  BY DEF Popped
<1>3. Len(stack) \in Nat \ {0}
  BY <1>1
<1>4. Top \in Entry
  BY <1>1, <1>3 DEF Top
<1>5. /\ stack' \in Seq(Entry) /\ Len(stack') = Len(stack) - 1
      /\ \A k \in 1 .. Len(stack) - 1 : stack'[k] = stack[k]
  <2> DEFINE m == Len(stack) - 1
  <2>1. m \in Int /\ m >= 0 /\ \A k \in 1 .. m : k \in 1 .. Len(stack)
    BY <1>3
  <2>2. \A k \in 1 .. m : stack[k] \in Entry
    BY <1>1, <2>1
  <2> HIDE DEF m
  <2>3. /\ SubSeq(stack, 1, m) \in Seq(Entry)
        /\ Len(SubSeq(stack, 1, m)) = IF 1 <= m THEN m - 1 + 1 ELSE 0
        /\ \A k \in 1 .. m - 1 + 1 : SubSeq(stack, 1, m)[k] = stack[1 + k - 1]
    BY <2>1, <2>2, SubSeqProperties
  <2>4. stack' = SubSeq(stack, 1, m)
    BY <1>2 DEF m
  <2>5. stack' \in Seq(Entry) /\ Len(stack') = m
    BY <2>1, <2>3, <2>4
  <2>6. \A k \in 1 .. m : stack'[k] = stack[k]
    BY <2>1, <2>3, <2>4
  <2> QED BY <2>5, <2>6 DEF m
<1> QED BY <1>3, <1>4, <1>5

(* A split leaves its second branch on the stack. *)
LEMMA RunSplitKeeps ==
  ASSUME IInv, RunSplit
  PROVE  IInv'
<1> DEFINE n == Len(stack)
           e == [kind |-> "branch", arg |-> inst.y, old |-> pos]
<1>1. /\ Fresh({"SPLIT"}) /\ stack' = Append(stack, e) /\ pc' = inst.x
      /\ UNCHANGED <<phase, captures, pos>>
  BY DEF RunSplit
<1>2. /\ phase = "run" /\ pos \in Offsets /\ inst.x \in Nat /\ inst.y \in Nat
      /\ MarksInside' /\ MarksOld'
      /\ UNCHANGED <<job, start, generation, held, result, pmatch>>
  BY <1>1, FreshFacts
<1>3. TypeOK /\ Positions /\ Unwinds /\ Reported
  BY DEF IInv
<1>4. e \in Entry
  BY <1>2, <1>3, Sizes DEF Entry, Offsets
<1>5. /\ stack' \in Seq(Entry) /\ n \in Nat /\ Len(stack') = n + 1
      /\ stack'[n + 1] = e /\ \A k \in 1 .. n : stack'[k] = stack[k]
  BY <1>1, <1>3, <1>4, Pushed
<1>6. e.kind = "branch" /\ e.old = pos
  OBVIOUS
<1> HIDE DEF e
<1>7. TypeOK'
  BY <1>1, <1>2, <1>3, <1>5, TypeKept DEF Entry
<1>8. Positions'
  <2>1. \A k \in 1 .. n + 1 : k \in 1 .. n \/ k = n + 1
    BY <1>5
  <2>2. \A k \in 1 .. n + 1 :
          \/ stack'[k].kind = "branch" /\ stack'[k].old \in Offsets
          \/ /\ stack'[k].kind = "restore" /\ stack'[k].arg \in Slots
             /\ stack'[k].old \in Values(stack'[k].arg)
    BY <1>2, <1>3, <1>5, <1>6, <2>1 DEF Positions, Busy
  <2> QED BY <1>1, <1>2, <1>3, <1>5, <2>2, SameJob DEF Positions, Busy
<1>9. Unwinds'
  <2>1. \A k \in 1 .. n, i \in Slots : RestoresSlot(stack', k, i) = RestoresSlot(stack, k, i)
    BY <1>5 DEF RestoresSlot
  <2>2. \A i \in Slots : ~ RestoresSlot(stack', n + 1, i)
    BY <1>5, <1>6 DEF RestoresSlot
  <2> SUFFICES ASSUME NEW i \in Slots
               PROVE  /\ (\A k \in 1 .. n + 1 : ~ RestoresSlot(stack', k, i)) => captures[i] = Cleared(i)
                      /\ \A k \in 1 .. n + 1 :
                           RestoresSlot(stack', k, i) /\ (\A l \in 1 .. k - 1 : ~ RestoresSlot(stack', l, i)) =>
                             stack'[k].old = Cleared(i)
    BY <1>1, <1>2, <1>5, SameJob DEF Unwinds
  <2>3. (\A k \in 1 .. n + 1 : ~ RestoresSlot(stack', k, i)) => captures[i] = Cleared(i)
    BY <1>2, <1>3, <1>5, <2>1 DEF Unwinds
  <2>4. ASSUME NEW k \in 1 .. n + 1, RestoresSlot(stack', k, i),
               \A l \in 1 .. k - 1 : ~ RestoresSlot(stack', l, i)
        PROVE  stack'[k].old = Cleared(i)
    <3>1. k \in 1 .. n /\ \A l \in 1 .. k - 1 : l \in 1 .. n
      BY <1>5, <2>2, <2>4
    <3>2. RestoresSlot(stack, k, i) /\ \A l \in 1 .. k - 1 : ~ RestoresSlot(stack, l, i)
      BY <2>1, <2>4, <3>1
    <3> QED BY <1>2, <1>3, <1>5, <3>1, <3>2 DEF Unwinds
  <2> QED BY <2>3, <2>4
<1>10. HeldOK' /\ Reported' /\ Allocated' /\ Settled'
  BY <1>1, <1>2, <1>3, SameJob DEF IInv, HeldOK, Reported, Allocated, Settled, FailureHarmless
<1> QED BY <1>2, <1>7, <1>8, <1>9, <1>10 DEF IInv

(* A save remembers the value it overwrites, behind the table too. *)
LEMMA RunSaveKeeps ==
  ASSUME IInv, RunSave
  PROVE  IInv'
<1> DEFINE n == Len(stack)
           x == inst.x
           e == [kind |-> "restore", arg |-> x, old |-> captures[x]]
<1>1. Fresh({"SAVE"})
  BY DEF RunSave
<1>2. /\ phase = "run" /\ pos \in Offsets /\ x \in Nat /\ pc \in Nat
      /\ inst.op = "SAVE" /\ pc + 1 \in 1 .. Len(job.prog)
      /\ MarksInside' /\ MarksOld'
      /\ UNCHANGED <<job, start, generation, held, result, pmatch>>
  BY <1>1, FreshFacts
<1>3. TypeOK /\ Positions /\ Unwinds /\ Reported
  BY DEF IInv
<1>4. captures \in [Slots -> Int] /\ \A i \in Slots : captures[i] \in Values(i)
  BY <1>2, <1>3 DEF Positions, Busy
<1>5. CASE x \notin DOMAIN captures
  <2>1. phase' = "wild" /\ UNCHANGED <<captures, stack, pc, pos>>
    BY <1>5 DEF RunSave
  <2>3. TypeOK'
    BY <1>2, <1>3, <2>1, TypeKept DEF TypeOK
  <2>4. Positions'
    BY <1>2, <1>3, <2>1, SameJob DEF Positions, Busy
  <2>5. Unwinds' /\ HeldOK' /\ Reported' /\ Allocated' /\ Settled'
    BY <1>2, <1>3, <2>1, SameJob DEF IInv, Unwinds, HeldOK, Reported, Allocated, Settled, FailureHarmless
  <2> QED BY <1>2, <2>3, <2>4, <2>5 DEF IInv
<1>6. CASE x \in DOMAIN captures
  <2>1. /\ captures' = [captures EXCEPT ![x] = pos] /\ stack' = Append(stack, e)
        /\ pc' = pc + 1 /\ UNCHANGED <<phase, pos>>
    BY <1>6 DEF RunSave
  <2>2. x \in Slots /\ captures[x] \in Values(x) /\ captures[x] \in Int
    BY <1>4, <1>6
  <2>3. e \in Entry
    BY <1>2, <2>2 DEF Entry
  <2>4. /\ stack' \in Seq(Entry) /\ n \in Nat /\ Len(stack') = n + 1
        /\ stack'[n + 1] = e /\ \A k \in 1 .. n : stack'[k] = stack[k]
    BY <1>3, <2>1, <2>3, Pushed
  <2>5. e.kind = "restore" /\ e.arg = x /\ e.old = captures[x]
    OBVIOUS
  <2> HIDE DEF e, x
  <2>6. TypeOK'
    BY <1>2, <1>3, <2>1, <2>4, TypeKept DEF Entry
  <2>7. Positions'
    <3>1. \A k \in 1 .. n + 1 : k \in 1 .. n \/ k = n + 1
      BY <2>4
    <3>2. \A k \in 1 .. n + 1 :
            \/ stack'[k].kind = "branch" /\ stack'[k].old \in Offsets
            \/ /\ stack'[k].kind = "restore" /\ stack'[k].arg \in Slots
               /\ stack'[k].old \in Values(stack'[k].arg)
      BY <1>2, <1>3, <2>2, <2>4, <2>5, <3>1 DEF Positions, Busy
    <3>3. captures' \in [Slots -> Int] /\ \A i \in Slots : captures'[i] \in Values(i)
      <4>1. pos \in Int
        BY <1>2, <1>3, Sizes DEF Offsets
      <4> QED BY <1>2, <1>4, <2>1, <2>2, <4>1 DEF Values
    <3> QED BY <1>2, <2>1, <2>4, <3>2, <3>3, SameJob DEF Positions
  <2>8. Unwinds'
    <3>1. \A k \in 1 .. n, i \in Slots : RestoresSlot(stack', k, i) = RestoresSlot(stack, k, i)
      BY <2>4 DEF RestoresSlot
    <3>2. \A i \in Slots : RestoresSlot(stack', n + 1, i) <=> i = x
      BY <2>4, <2>5 DEF RestoresSlot
    <3> SUFFICES ASSUME NEW i \in Slots
                 PROVE  /\ (\A k \in 1 .. n + 1 : ~ RestoresSlot(stack', k, i)) => captures'[i] = Cleared(i)
                        /\ \A k \in 1 .. n + 1 :
                             RestoresSlot(stack', k, i) /\ (\A l \in 1 .. k - 1 : ~ RestoresSlot(stack', l, i)) =>
                               stack'[k].old = Cleared(i)
      BY <1>2, <2>1, <2>4, SameJob DEF Unwinds
    <3>3. ASSUME \A k \in 1 .. n + 1 : ~ RestoresSlot(stack', k, i)
          PROVE  captures'[i] = Cleared(i)
      <4>1. i # x /\ \A k \in 1 .. n : ~ RestoresSlot(stack, k, i)
        BY <2>4, <3>1, <3>2, <3>3
      <4>2. captures'[i] = captures[i]
        BY <1>4, <2>1, <4>1
      <4> QED BY <1>2, <1>3, <4>1, <4>2 DEF Unwinds
    <3>4. ASSUME NEW k \in 1 .. n + 1, RestoresSlot(stack', k, i),
                 \A l \in 1 .. k - 1 : ~ RestoresSlot(stack', l, i)
          PROVE  stack'[k].old = Cleared(i)
      <4>1. CASE k = n + 1
        <5>1. i = x /\ \A l \in 1 .. n : ~ RestoresSlot(stack, l, i)
          BY <2>4, <3>1, <3>2, <3>4, <4>1
        <5> QED BY <1>2, <1>3, <2>4, <2>5, <4>1, <5>1 DEF Unwinds
      <4>2. CASE k # n + 1
        <5>1. k \in 1 .. n /\ \A l \in 1 .. k - 1 : l \in 1 .. n
          BY <2>4, <4>2
        <5>2. RestoresSlot(stack, k, i) /\ \A l \in 1 .. k - 1 : ~ RestoresSlot(stack, l, i)
          BY <3>1, <3>4, <5>1
        <5> QED BY <1>2, <1>3, <2>4, <5>1, <5>2 DEF Unwinds
      <4> QED BY <4>1, <4>2
    <3> QED BY <3>3, <3>4
  <2>9. HeldOK' /\ Reported' /\ Allocated' /\ Settled'
    BY <1>2, <1>3, <2>1, SameJob DEF IInv, HeldOK, Reported, Allocated, Settled, FailureHarmless
  <2> QED BY <1>2, <2>6, <2>7, <2>8, <2>9 DEF IInv
<1> QED BY <1>5, <1>6

(* The second branch of a split is taken. *)
LEMMA TakeBranchKeeps ==
  ASSUME IInv, TakeBranch
  PROVE  IInv'
<1> DEFINE n == Len(stack)
<1>1. /\ phase = "fail" /\ stack # <<>> /\ Top.kind = "branch" /\ phase' = "run"
      /\ pc' = Top.arg /\ pos' = Top.old /\ stack' = Popped
      /\ UNCHANGED <<job, start, generation, generations, captures, held, result, pmatch>>
  BY DEF TakeBranch
<1>2. TypeOK /\ Positions /\ Unwinds /\ Reported
  BY DEF IInv
<1>3. /\ stack' \in Seq(Entry) /\ n \in Nat \ {0} /\ Len(stack') = n - 1 /\ Top \in Entry
      /\ \A k \in 1 .. n - 1 : stack'[k] = stack[k]
  BY <1>1, <1>2, PoppedFacts
<1>4. n \in 1 .. n /\ \A k \in 1 .. n - 1 : k \in 1 .. n
  BY <1>3
<1>5. Top = stack[n] /\ Top.old \in Offsets
  BY <1>1, <1>2, <1>4 DEF Top, Positions, Busy
<1>6. TypeOK'
  <2>1. pc' \in Nat
    BY <1>1, <1>3 DEF Entry
  <2> QED BY <1>1, <1>2, <1>3, <2>1, TypeKept DEF Entry
<1>7. Positions'
  BY <1>1, <1>2, <1>3, <1>4, <1>5, SameJob DEF Positions, Busy
<1>8. Unwinds'
  <2>1. \A k \in 1 .. n - 1, i \in Slots : RestoresSlot(stack', k, i) = RestoresSlot(stack, k, i)
    BY <1>3 DEF RestoresSlot
  <2>2. \A i \in Slots : ~ RestoresSlot(stack, n, i)
    BY <1>1, <1>5 DEF RestoresSlot
  <2> SUFFICES ASSUME NEW i \in Slots
               PROVE  /\ (\A k \in 1 .. n - 1 : ~ RestoresSlot(stack', k, i)) =>
                           captures[i] = Cleared(i)
                      /\ \A k \in 1 .. n - 1 :
                           RestoresSlot(stack', k, i)
                             /\ (\A l \in 1 .. k - 1 : ~ RestoresSlot(stack', l, i)) =>
                             stack'[k].old = Cleared(i)
    BY <1>1, <1>3, SameJob DEF Unwinds
  <2>3. ASSUME \A k \in 1 .. n - 1 : ~ RestoresSlot(stack', k, i)
        PROVE  captures[i] = Cleared(i)
    <3>1. \A k \in 1 .. n : k = n \/ k \in 1 .. n - 1
      BY <1>3
    <3>2. \A k \in 1 .. n : ~ RestoresSlot(stack, k, i)
      BY <2>1, <2>2, <2>3, <3>1
    <3> QED BY <1>1, <1>2, <3>2 DEF Unwinds
  <2>4. ASSUME NEW k \in 1 .. n - 1, RestoresSlot(stack', k, i),
               \A l \in 1 .. k - 1 : ~ RestoresSlot(stack', l, i)
        PROVE  stack'[k].old = Cleared(i)
    <3>1. k \in 1 .. n /\ \A l \in 1 .. k - 1 : l \in 1 .. n - 1
      BY <1>3
    <3>2. RestoresSlot(stack, k, i) /\ \A l \in 1 .. k - 1 : ~ RestoresSlot(stack, l, i)
      BY <2>1, <2>4, <3>1
    <3> QED BY <1>1, <1>2, <1>3, <3>1, <3>2 DEF Unwinds
  <2> QED BY <2>3, <2>4
<1>9. MarksInside' /\ MarksOld' /\ HeldOK' /\ Reported' /\ Allocated' /\ Settled'
  BY <1>1, <1>2, SameJob DEF IInv, MarksInside, MarksOld, HeldOK, Reported, Allocated, Settled, FailureHarmless
<1> QED BY <1>6, <1>7, <1>8, <1>9 DEF IInv

(* A capture is taken back. *)
LEMMA RestoreCaptureKeeps ==
  ASSUME IInv, RestoreCapture
  PROVE  IInv'
<1> DEFINE n == Len(stack)
           a == Top.arg
<1>1. /\ phase = "fail" /\ stack # <<>> /\ Top.kind = "restore" /\ stack' = Popped
      /\ captures' = [captures EXCEPT ![a] = Top.old]
      /\ UNCHANGED <<job, phase, start, generation, generations, pc, pos, held, result, pmatch>>
  BY DEF RestoreCapture, Restored
<1>2. TypeOK /\ Positions /\ Unwinds /\ Reported
  BY DEF IInv
<1>3. /\ stack' \in Seq(Entry) /\ n \in Nat \ {0} /\ Len(stack') = n - 1 /\ Top \in Entry
      /\ \A k \in 1 .. n - 1 : stack'[k] = stack[k]
  BY <1>1, <1>2, PoppedFacts
<1>4. n \in 1 .. n /\ \A k \in 1 .. n - 1 : k \in 1 .. n
  BY <1>3
<1>5. Top = stack[n] /\ a \in Slots /\ Top.old \in Values(a)
  BY <1>1, <1>2, <1>4 DEF Top, Positions, Busy
<1>6. captures \in [Slots -> Int] /\ (\A i \in Slots : captures[i] \in Values(i)) /\ Top.old \in Int
  BY <1>1, <1>2, <1>3 DEF Positions, Busy, Entry
<1> HIDE DEF a
<1>7. TypeOK'
  <2>1. pc' \in Nat
    BY <1>1, <1>2 DEF TypeOK
  <2> QED BY <1>1, <1>2, <1>3, <2>1, TypeKept DEF Entry
<1>8. Positions'
  <2>1. captures' \in [Slots -> Int] /\ \A i \in Slots : captures'[i] \in Values(i)
    BY <1>1, <1>5, <1>6
  <2>2. pos \in Offsets
    BY <1>1, <1>2 DEF Positions, Busy
  <2>3. \A k \in 1 .. n - 1 :
          \/ stack'[k].kind = "branch" /\ stack'[k].old \in Offsets
          \/ /\ stack'[k].kind = "restore" /\ stack'[k].arg \in Slots
             /\ stack'[k].old \in Values(stack'[k].arg)
    BY <1>1, <1>2, <1>3, <1>4 DEF Positions, Busy
  <2> QED BY <1>1, <1>3, <2>1, <2>2, <2>3, SameJob DEF Positions
<1>9. Unwinds'
  <2>1. \A k \in 1 .. n - 1, i \in Slots : RestoresSlot(stack', k, i) = RestoresSlot(stack, k, i)
    BY <1>3 DEF RestoresSlot
  <2>2. \A i \in Slots : RestoresSlot(stack, n, i) <=> i = a
    BY <1>1, <1>5 DEF RestoresSlot, a
  <2> SUFFICES ASSUME NEW i \in Slots
               PROVE  /\ (\A k \in 1 .. n - 1 : ~ RestoresSlot(stack', k, i)) =>
                           captures'[i] = Cleared(i)
                      /\ \A k \in 1 .. n - 1 :
                           RestoresSlot(stack', k, i)
                             /\ (\A l \in 1 .. k - 1 : ~ RestoresSlot(stack', l, i)) =>
                             stack'[k].old = Cleared(i)
    BY <1>1, <1>3, SameJob DEF Unwinds
  <2>3. ASSUME \A k \in 1 .. n - 1 : ~ RestoresSlot(stack', k, i)
        PROVE  captures'[i] = Cleared(i)
    <3>1. \A k \in 1 .. n : k = n \/ k \in 1 .. n - 1
      BY <1>3
    <3>2. \A k \in 1 .. n - 1 : ~ RestoresSlot(stack, k, i)
      BY <2>1, <2>3
    <3>3. CASE i = a
      <4>1. stack[n].old = Cleared(i)
        BY <1>1, <1>2, <1>4, <2>2, <3>2, <3>3 DEF Unwinds
      <4> QED BY <1>1, <1>5, <1>6, <3>3, <4>1
    <3>4. CASE i # a
      <4>1. \A k \in 1 .. n : ~ RestoresSlot(stack, k, i)
        BY <2>2, <3>1, <3>2, <3>4
      <4>2. captures'[i] = captures[i]
        BY <1>1, <1>6, <3>4
      <4> QED BY <1>1, <1>2, <4>1, <4>2 DEF Unwinds
    <3> QED BY <3>3, <3>4
  <2>4. ASSUME NEW k \in 1 .. n - 1, RestoresSlot(stack', k, i),
               \A l \in 1 .. k - 1 : ~ RestoresSlot(stack', l, i)
        PROVE  stack'[k].old = Cleared(i)
    <3>1. k \in 1 .. n /\ \A l \in 1 .. k - 1 : l \in 1 .. n - 1
      BY <1>3
    <3>2. RestoresSlot(stack, k, i) /\ \A l \in 1 .. k - 1 : ~ RestoresSlot(stack, l, i)
      BY <2>1, <2>4, <3>1
    <3> QED BY <1>1, <1>2, <1>3, <3>1, <3>2 DEF Unwinds
  <2> QED BY <2>3, <2>4
<1>10. MarksInside' /\ MarksOld' /\ HeldOK' /\ Reported' /\ Allocated' /\ Settled'
  BY <1>1, <1>2, SameJob DEF IInv, MarksInside, MarksOld, HeldOK, Reported, Allocated, Settled, FailureHarmless
<1> QED BY <1>7, <1>8, <1>9, <1>10 DEF IInv

(* An attempt that has failed left every slot as it found it. *)
LEMMA AllTakenBack ==
  ASSUME IInv, phase = "fail", stack = <<>>
  PROVE  /\ DOMAIN captures = Slots /\ \A i \in Slots : captures[i] = Cleared(i)
         /\ \A i \in Slots : i >= CaptureCount(job.nsub) => captures[i] = Header
<1>1. DOMAIN captures = Slots /\ Len(stack) = 0
  BY DEF IInv, Positions, Busy
<1>2. \A i \in Slots : captures[i] = Cleared(i)
  BY <1>1 DEF IInv, Unwinds
<1>3. CaptureCount(job.nsub) \in Nat /\ CaptureCount(job.nsub) > 0
  BY Sizes DEF IInv
<1>4. \A i \in Slots : i >= CaptureCount(job.nsub) => Cleared(i) = Header
  BY <1>3 DEF Cleared, Slots
<1> QED BY <1>1, <1>2, <1>4

(* Entering the loop over the starts, and going on with it. *)
LEMMA StartKeeps ==
  ASSUME IInv, Enter \/ NextStart
  PROVE  IInv' /\ \A q \in DOMAIN generations' : generations'[q] < generation'
<1>1. TypeOK /\ MarksInside /\ MarksOld /\ Reported
  BY DEF IInv
<1>2. /\ start \in Nat /\ text_length \in Nat /\ start <= text_length
  BY <1>1, Sizes
<1>3. CASE Enter
  <2>1. Attempt(0) /\ phase = "allocated"
    BY <1>3 DEF Enter
  <2>2. pmatch = <<>> /\ 0 \in 0 .. text_length
    BY <1>1, <1>2, <2>1 DEF Reported
  <2>3. /\ captures \in [Slots -> Int] /\ result = "none"
        /\ \A i \in Slots : i >= CaptureCount(job.nsub) => captures[i] = Header
    BY <2>1 DEF IInv, Allocated, Settled
  <2> QED BY <1>1, <2>1, <2>2, <2>3, AttemptKeeps DEF IInv
<1>4. CASE NextStart
  <2>1. Attempt(start + 1) /\ phase = "fail" /\ stack = <<>> /\ start < text_length
    BY <1>4 DEF NextStart, NextPosition
  <2>2. pmatch = <<>> /\ start + 1 \in 0 .. text_length
    BY <1>1, <1>2, <2>1 DEF Reported
  <2>3. captures \in [Slots -> Int] /\ result = "none"
    BY <2>1 DEF IInv, Positions, Busy, Settled
  <2>4. \A i \in Slots : i >= CaptureCount(job.nsub) => captures[i] = Header
    BY <2>1, AllTakenBack
  <2> QED BY <1>1, <2>1, <2>2, <2>3, <2>4, AttemptKeeps DEF IInv
<1> QED BY <1>3, <1>4

(* Both tables are asked for. *)
LEMMA AllocKeeps ==
  ASSUME IInv, AllocTables
  PROVE  IInv'
<1>1. /\ phase = "entry" /\ phase' = "allocated"
      /\ captures' = [i \in 0 .. CaptureCount(job.nsub) + HeaderWords - 1 |->
                        IF i < CaptureCount(job.nsub) THEN Unset ELSE Header]
      /\ UNCHANGED <<job, start, generation, generations, pc, pos, stack, result, pmatch>>
  BY DEF AllocTables
<1>2. TypeOK /\ job.nsub \in Nat /\ CaptureCount(job.nsub) = 2 * job.nsub + 2
  BY Sizes DEF IInv
<1>3. TypeOK'
  BY <1>1, <1>2, SameJob DEF TypeOK
<1>4. Positions' /\ Unwinds' /\ HeldOK'
  BY <1>1 DEF Positions, Busy, Unwinds, HeldOK
<1>5. MarksInside' /\ MarksOld' /\ Reported'
  BY <1>1, SameJob DEF IInv, MarksInside, MarksOld, Reported
<1>6. Allocated'
  <2>1. 0 .. CaptureCount(job.nsub) + HeaderWords - 1 = Slots
    BY <1>2 DEF HeaderWords, Slots
  <2>2. captures' \in [Slots -> Int] /\ \A i \in Slots : i >= CaptureCount(job.nsub) => captures'[i] = Header
    <3>1. captures' = [i \in Slots |-> IF i < CaptureCount(job.nsub) THEN Unset ELSE Header]
      BY <1>1, <2>1
    <3>2. Unset \in Int /\ Header \in Int
      BY DEF Unset, Header
    <3>3. \A i \in Slots : i >= CaptureCount(job.nsub) => ~ (i < CaptureCount(job.nsub))
      BY <1>2 DEF Slots
    <3> QED BY <3>1, <3>2, <3>3
  <2> QED BY <1>1, <2>2, SameJob DEF Allocated
<1>7. Settled'
  BY <1>1 DEF IInv, Settled, FailureHarmless
<1> QED BY <1>3, <1>4, <1>5, <1>6, <1>7 DEF IInv

(* Leaving regexec without a match. *)
LEMMA LeaveKeeps ==
  ASSUME IInv, BadPattern \/ NoSpace \/ NoMatch
  PROVE  IInv'
<1>1. /\ phase' = "done" /\ held' = {} /\ phase \in {"entry", "allocated", "fail"}
      /\ result' = "NOMATCH" => phase = "fail" /\ stack = <<>>
      /\ UNCHANGED <<job, start, generation, generations, captures, pc, pos, stack, pmatch>>
  BY DEF IInv, HeldOK, BadPattern, NoSpace, NoMatch, FreeTables
<1>2. TypeOK'
  <2>1. pc' \in Nat /\ stack' \in Seq([kind : {"branch", "restore"}, arg : Nat, old : Int])
    BY <1>1 DEF IInv, TypeOK
  <2> QED BY <1>1, <2>1, TypeKept DEF IInv
<1>3. Positions' /\ Unwinds' /\ HeldOK' /\ Allocated'
  BY <1>1 DEF Positions, Busy, Unwinds, HeldOK, Allocated
<1>4. MarksInside' /\ MarksOld' /\ Reported'
  BY <1>1, SameJob DEF IInv, MarksInside, MarksOld, Reported
<1>5. Settled'
  <2>1. result' = "NOMATCH" => Intact'
    BY <1>1, AllTakenBack DEF Intact
  <2> QED BY <1>1, <2>1 DEF Settled, FailureHarmless
<1> QED BY <1>2, <1>3, <1>4, <1>5 DEF IInv

(* Copying the captures to pmatch: every slot read is in the table. *)
LEMMA PublishKeeps ==
  ASSUME IInv, Publish
  PROVE  IInv'
<1>1. /\ phase = "matched" /\ phase' = "done" /\ held' = {} /\ result' = "match"
      /\ pmatch' = [i \in 1 .. Published |->
                      [so |-> captures[(i - 1) * 2], eo |-> captures[(i - 1) * 2 + 1]]]
      /\ UNCHANGED <<job, start, generation, generations, captures, pc, pos, stack>>
  BY DEF Publish, FreeTables
<1>2. TypeOK /\ Positions
  BY DEF IInv
<1>4. job.nsub \in Nat /\ Published \in Nat /\ Published <= job.nsub + 1
  BY <1>2, Sizes DEF Published
<1>3. \A i \in Table : captures[i] \in {Unset} \cup Offsets
  <2>1. Table \subseteq Slots /\ \A i \in Table : i < CaptureCount(job.nsub)
    BY <1>2, <1>4, Sizes DEF Table, Slots
  <2>2. \A i \in Table : captures[i] \in Values(i)
    BY <1>1, <1>2, <2>1 DEF Positions, Busy
  <2>3. start \in Offsets
    BY <1>2, Sizes DEF Offsets
  <2> QED BY <2>1, <2>2, <2>3 DEF Values, Cleared
<1>5. \A i \in 1 .. Published : (i - 1) * 2 \in Table /\ (i - 1) * 2 + 1 \in Table
  BY <1>4 DEF Table
<1>6. Len(pmatch') = Published
  BY <1>1, <1>4
<1>7. Reported'
  BY <1>1, <1>3, <1>5, <1>6, SameJob DEF Reported
<1>8. TypeOK'
  <2>1. pc' \in Nat /\ stack' \in Seq([kind : {"branch", "restore"}, arg : Nat, old : Int])
    BY <1>1, <1>2 DEF TypeOK
  <2> QED BY <1>1, <1>2, <2>1, TypeKept
<1>9. Positions' /\ Unwinds' /\ HeldOK' /\ Allocated' /\ Settled'
  BY <1>1 DEF Positions, Busy, Unwinds, HeldOK, Allocated, Settled, FailureHarmless
<1>10. MarksInside' /\ MarksOld'
  BY <1>1, SameJob DEF IInv, MarksInside, MarksOld
<1> QED BY <1>7, <1>8, <1>9, <1>10 DEF IInv

(* A free that finds a damaged header. *)
LEMMA FreeDamagedKeeps ==
  ASSUME IInv, FreeDamaged
  PROVE  IInv'
<1>1. /\ phase = "matched" /\ phase' = "wild"
      /\ UNCHANGED <<job, start, generation, generations, captures, pc, pos, stack,
                     held, result, pmatch>>
  BY DEF FreeDamaged
<1>2. TypeOK'
  <2>1. pc' \in Nat /\ stack' \in Seq([kind : {"branch", "restore"}, arg : Nat, old : Int])
    BY <1>1 DEF IInv, TypeOK
  <2> QED BY <1>1, <2>1, TypeKept DEF IInv
<1>3. Positions'
  <2>1. Busy /\ Positions
    BY <1>1 DEF IInv, Busy
  <2> QED BY <1>1, <2>1, SameJob DEF Positions
<1>4. MarksInside' /\ MarksOld' /\ Unwinds' /\ HeldOK' /\ Reported' /\ Allocated' /\ Settled'
  BY <1>1, SameJob DEF IInv, MarksInside, MarksOld, Unwinds, HeldOK, Reported, Allocated, Settled,
     FailureHarmless
<1> QED BY <1>2, <1>3, <1>4 DEF IInv

-----------------------------------------------------------------------------
(* The theorems *)

(* The invariant holds when regexec is called. *)
LEMMA InitKeeps == Init => IInv
<1> SUFFICES ASSUME Init PROVE IInv
  OBVIOUS
<1>1. Len(job.text) \in Nat
  BY VMAssumption DEF Init
<1>2. stack \in Seq([kind : {"branch", "restore"}, arg : Nat, old : Int])
  BY DEF Init
<1>3. TypeOK
  BY <1>1, <1>2, VMAssumption DEF Init, TypeOK, text_length
<1>4. MarksInside /\ MarksOld
  BY DEF Init, MarksInside, MarksOld
<1>5. Positions /\ Unwinds /\ HeldOK /\ Allocated /\ Settled /\ Reported
  BY DEF Init, Positions, Busy, Unwinds, HeldOK, Allocated, Settled, FailureHarmless, Reported
<1> QED BY <1>3, <1>4, <1>5 DEF IInv

(* Every step of regexec preserves it. *)
LEMMA NextKeeps == IInv /\ [Next]_vars => IInv'
<1> SUFFICES ASSUME IInv, [Next]_vars PROVE IInv'
  OBVIOUS
<1>1. CASE Next
  BY <1>1, StartKeeps, CutKeeps, RunConsumeKeeps, RunOtherKeeps, RunSplitKeeps,
     RunSaveKeeps, TakeBranchKeeps, RestoreCaptureKeeps, LeaveKeeps, PublishKeeps,
     AllocKeeps, FreeDamagedKeeps DEF Next
<1>2. CASE UNCHANGED vars
  <2>1. TypeOK' /\ MarksInside' /\ MarksOld' /\ Unwinds' /\ HeldOK' /\ Reported' /\ Allocated'
    BY <1>2, SameJob DEF vars, IInv, TypeOK, MarksInside, MarksOld, Unwinds, HeldOK, Reported, Allocated
  <2>2. Positions'
    BY <1>2, SameJob DEF vars, IInv, Positions, Busy
  <2>3. Settled'
    BY <1>2 DEF vars, IInv, Settled, FailureHarmless, Intact
  <2> QED BY <2>1, <2>2, <2>3 DEF IInv
<1> QED BY <1>1, <1>2

(* The invariant above holds of every call of regexec. *)
THEOREM Invariance == Spec => []IInv
BY InitKeeps, NextKeeps, PTL DEF Spec

(* TablesSound: for any text and any program, wherever its saves point,    *)
(* regexec stays inside the table of generations and frees the tables it   *)
(* got, and when it finds no match has left the words behind the table of  *)
(* captures as they were.                                                  *)
THEOREM MemorySafe == Spec => []TablesSound
<1>1. IInv => TablesSound
  BY DEF IInv, HeldOK, Settled, TablesSound, TablesFreed
<1> QED BY <1>1, Invariance, PTL

(* Backtracking: when re_run has failed at a start, every slot it saved to *)
(* holds again what it held before.                                        *)
THEOREM BacktracksCleanly == Spec => []FailsClean
<1>1. IInv => FailsClean
  <2> SUFFICES ASSUME IInv, phase = "fail", stack = <<>>, NEW i \in DOMAIN captures
               PROVE  captures[i] = Cleared(i)
    BY DEF FailsClean
  <2> QED BY AllTakenBack
<1> QED BY <1>1, Invariance, PTL

(* The offsets regexec reports are unset, or in the text and not before    *)
(* the start of the match.                                                 *)
THEOREM OffsetsInText == Spec => []Reported
<1>1. IInv => Reported
  BY DEF IInv
<1> QED BY <1>1, Invariance, PTL

(* Generations: when an attempt begins, no word written so far counts as   *)
(* visited, after generation has wrapped around as well.                   *)
StartsUnmarked ==
  [][(start' # start \/ (phase = "allocated" /\ phase' = "run")) =>
       \A q \in DOMAIN generations' : generations'[q] < generation']_vars

(* Every start is tried with a table that marks nothing. *)
THEOREM EveryStartUnmarked == Spec => StartsUnmarked
<1>1. IInv /\ [Next]_vars =>
        [(start' # start \/ (phase = "allocated" /\ phase' = "run")) =>
           \A q \in DOMAIN generations' : generations'[q] < generation']_vars
  <2> SUFFICES ASSUME IInv, Next, start' # start \/ (phase = "allocated" /\ phase' = "run")
               PROVE  \A q \in DOMAIN generations' : generations'[q] < generation'
    OBVIOUS
  <2>1. Enter \/ NextStart
    BY DEF Next, BadPattern, NoSpace, Cut, RunConsume, RunAssertion, RunJump, RunSplit,
           RunSave, Match, TakeBranch, RestoreCapture, NoMatch, Publish, Fresh,
           AllocTables, FreeDamaged
  <2> QED BY <2>1, StartKeeps
<1> QED BY <1>1, Invariance, PTL DEF Spec, StartsUnmarked
=============================================================================
