----------------------------- MODULE ExitProofs -----------------------------
(***************************************************************************)
(* Proofs about ExitHandlers, for tables of any length, any statuses and   *)
(* any number of calls.  The three properties rest on how the table        *)
(* relates to the history: the table is sorted by registration, holds no   *)
(* handler that was called, and together with the history accounts for     *)
(* every registration.                                                     *)
(***************************************************************************)
EXTENDS ExitHandlers, SequenceTheorems, TLAPS

(* One earlier count is kept for each handler called, none from the future. *)
History ==
  /\ Len(before) = Len(ran)
  /\ \A i \in 1 .. Len(ran) : before[i] <= registered

(* The table is sorted, oldest registration first. *)
Sorted ==
  \A p, q \in 1 .. Len(g_exit_handlers) :
    p < q => g_exit_handlers[p] < g_exit_handlers[q]

(* A handler waiting in the table is not one that was called, and calling  *)
(* it next would respect the order.                                        *)
Waiting ==
  \A p \in 1 .. Len(g_exit_handlers), i \in 1 .. Len(ran) :
    /\ g_exit_handlers[p] # ran[i]
    /\ g_exit_handlers[p] < ran[i] \/ g_exit_handlers[p] > before[i]

(* Every registration was called or waits in the table. *)
Accounted ==
  \A id \in 1 .. registered :
    \/ \E p \in 1 .. Len(g_exit_handlers) : g_exit_handlers[p] = id
    \/ \E i \in 1 .. Len(ran) : ran[i] = id

(* main is at the bottom of the stack. *)
Rooted == stack[1].fn = "main"

Inv ==
  /\ TypeOK /\ Rooted /\ History /\ Sorted /\ Waiting /\ Accounted
  /\ CalledOnce /\ NewestFirst /\ ExitCallsAll

-----------------------------------------------------------------------------
(* The process starts with an empty table and an empty history. *)
LEMMA InitInv == Init => Inv
<1> SUFFICES ASSUME Init PROVE Inv
  OBVIOUS
<1> USE DEF Init
<1>1. TypeOK
  <2>1. MainFrame \in Frame
    BY DEF MainFrame, Frame
  <2>2. ended \in [by : {"none", "exit", "_exit", "abort", "return"},
                   status : Status \cup {0, AbortStatus}]
    BY DEF NotYet
  <2>3. stack \in Seq(Frame) /\ Len(stack) > 0
    BY <2>1
  <2>4. g_exit_handlers \in Seq(1 .. registered) /\ Len(g_exit_handlers) <= MaxHandlers
    BY ExitAssumption
  <2>5. ran \in Seq(1 .. registered) /\ before \in Seq(Nat)
    OBVIOUS
  <2>6. refused \in BOOLEAN
    OBVIOUS
  <2>7. registered \in Nat /\ calls \in Nat /\ exits \in Nat
    OBVIOUS
  <2> HIDE DEF Init
  <2> QED
    BY <2>2, <2>3, <2>4, <2>5, <2>6, <2>7 DEF TypeOK
<1>2. History /\ Sorted /\ Waiting /\ Accounted /\ CalledOnce /\ NewestFirst
  BY DEF History, Sorted, Waiting, Accounted, CalledOnce, NewestFirst
<1>3. ExitCallsAll
  BY DEF ExitCallsAll, NotYet
<1>4. Rooted
  BY DEF Rooted, MainFrame
<1> QED
  BY <1>1, <1>2, <1>3, <1>4 DEF Inv

(* What Append does, and that its argument's entries are of its type. *)
LEMMA AppendFacts ==
  ASSUME NEW S, NEW s \in Seq(S), NEW e \in S
  PROVE  /\ Len(s) \in Nat /\ \A p \in 1 .. Len(s) : s[p] \in S
         /\ Append(s, e) \in Seq(S)
         /\ Len(Append(s, e)) = Len(s) + 1
         /\ Append(s, e)[Len(s) + 1] = e
         /\ \A p \in 1 .. Len(s) : Append(s, e)[p] = s[p]
OBVIOUS

(* What dropping the last entry does. *)
LEMMA DropFacts ==
  ASSUME NEW S, NEW s \in Seq(S), s # <<>>
  PROVE  /\ Len(s) \in Nat \ {0} /\ \A p \in 1 .. Len(s) : s[p] \in S
         /\ s[Len(s)] \in S
         /\ SubSeq(s, 1, Len(s) - 1) \in Seq(S)
         /\ Len(SubSeq(s, 1, Len(s) - 1)) = Len(s) - 1
         /\ \A p \in 1 .. Len(s) - 1 : SubSeq(s, 1, Len(s) - 1)[p] = s[p]
<1>1. Len(s) \in Nat \ {0} /\ \A p \in 1 .. Len(s) : s[p] \in S
  OBVIOUS
<1> DEFINE k == Len(s) - 1
<1>2. k \in Int /\ (1 <= k \/ k = 0) /\ \A p \in 1 .. k : s[p] \in S
  <2>1. k \in Int /\ (1 <= k \/ k = 0)
    <3>1. \A x \in Nat \ {0} : x - 1 \in Int /\ (1 <= x - 1 \/ x - 1 = 0)
      OBVIOUS
    <3> QED
      BY <3>1, <1>1, Zenon
  <2>2. ASSUME NEW p \in 1 .. k PROVE s[p] \in S
    <3>1. p \in 1 .. Len(s)
      BY <1>1
    <3> QED
      BY <3>1, <1>1
  <2> QED
    BY <2>1, <2>2
<1> HIDE DEF k
<1>3. /\ SubSeq(s, 1, k) \in Seq(S)
      /\ Len(SubSeq(s, 1, k)) = IF 1 <= k THEN k - 1 + 1 ELSE 0
      /\ \A p \in 1 .. k - 1 + 1 : SubSeq(s, 1, k)[p] = s[1 + p - 1]
  BY <1>2, SubSeqProperties
<1>4. /\ SubSeq(s, 1, k) \in Seq(S) /\ Len(SubSeq(s, 1, k)) = k
      /\ \A p \in 1 .. k : SubSeq(s, 1, k)[p] = s[p]
  BY <1>2, <1>3
<1> QED
  BY <1>1, <1>4 DEF k

(* A stack of frames stays one when more handlers have been registered. *)
LEMMA FramesGrow ==
  ASSUME NEW S1, NEW S2, S1 \subseteq S2, NEW s \in Seq(S1)
  PROVE  s \in Seq(S2)
OBVIOUS

(* atexit: a new registration is newer than everything, and goes last. *)
LEMMA AtexitStep ==
  ASSUME Inv, NEW function \in {"function", "null"}, Atexit(function)
  PROVE  Inv'
<1> USE DEF Inv
<1>0. /\ registered \in Nat /\ calls \in Nat /\ exits \in Nat
      /\ g_exit_handlers \in Seq(1 .. registered)
      /\ ran \in Seq(1 .. registered) /\ before \in Seq(Nat)
      /\ stack \in Seq(Frame) /\ Len(stack) > 0
  BY DEF TypeOK
<1>1. /\ UNCHANGED <<stack, ended, exits, ran, before>>
      /\ calls' = calls + 1 /\ refused' \in BOOLEAN /\ ended.by # "exit"
  BY DEF Atexit, ghosts, InUserCode, Alive, NotYet
<1>2. ExitCallsAll'
  BY <1>1 DEF ExitCallsAll
<1>3. Rooted' /\ CalledOnce' /\ NewestFirst'
  BY <1>1 DEF Rooted, CalledOnce, NewestFirst
<1>4. CASE UNCHANGED <<g_exit_handlers, registered>>
  <2>1. TypeOK'
    BY <1>0, <1>1, <1>4 DEF TypeOK, Frame
  <2>2. History' /\ Sorted' /\ Waiting' /\ Accounted'
    BY <1>1, <1>4 DEF History, Sorted, Waiting, Accounted
  <2> QED
    BY <2>1, <2>2, <1>2, <1>3
<1>5. CASE /\ registered' = registered + 1
           /\ g_exit_handlers' = Append(g_exit_handlers, registered + 1)
           /\ Len(g_exit_handlers) < MaxHandlers
  <2> DEFINE T == g_exit_handlers
             n == Len(g_exit_handlers)
             m == Len(ran)
  <2>0. T \in Seq(1 .. registered') /\ registered' \in 1 .. registered'
    BY <1>0, <1>5
  <2>1. /\ n \in Nat /\ m \in Nat
        /\ T' \in Seq(1 .. registered') /\ Len(T') = n + 1
        /\ T'[n + 1] = registered + 1
        /\ \A p \in 1 .. n : T'[p] = T[p]
    BY <2>0, <1>0, <1>5, AppendFacts
  <2>2. /\ \A p \in 1 .. n : T[p] \in 1 .. registered
        /\ \A i \in 1 .. m : ran[i] \in 1 .. registered /\ before[i] \in Nat
        /\ Len(before) = m
    <3>1. Len(before) = m
      BY DEF History
    <3>2. ASSUME NEW p \in 1 .. n  PROVE T[p] \in 1 .. registered
      BY <1>0, ElementOfSeq, <3>2
    <3>3. ASSUME NEW i \in 1 .. m  PROVE ran[i] \in 1 .. registered
      BY <1>0, ElementOfSeq, <3>3
    <3>4. ASSUME NEW i \in 1 .. m  PROVE before[i] \in Nat
      BY <1>0, ElementOfSeq, <3>1, <3>4
    <3> HIDE DEF T, n, m
    <3> QED
      BY <3>1, <3>2, <3>3, <3>4
  <2>3. ran \in Seq(1 .. registered')
    BY <1>0, <1>5
  <2>4. stack \in Seq(Frame')
    <3>1. Frame \subseteq Frame'
      BY <1>0, <1>5 DEF Frame
    <3> QED
      BY <3>1, <1>0, FramesGrow
  <2>5. TypeOK'
    BY <2>1, <2>3, <2>4, <1>0, <1>1, <1>5, ExitAssumption DEF TypeOK
  <2>6. History'
    BY <2>2, <1>0, <1>1, <1>5, SMTT(60) DEF History
  <2>7. Sorted'
    <3>1. ASSUME NEW p \in 1 .. n + 1, NEW q \in 1 .. n + 1, p < q
          PROVE  T'[p] < T'[q]
      <4>1. p \in 1 .. n /\ T'[p] = T[p] /\ T[p] \in 1 .. registered
        BY <3>1, <2>1, <2>2
      <4>2. CASE q = n + 1
        BY <4>1, <4>2, <2>1, <1>0, SMTT(60)
      <4>3. CASE q \in 1 .. n
        <5>1. T'[q] = T[q] /\ T[p] < T[q]
          BY <3>1, <4>1, <4>3, <2>1 DEF Sorted
        <5> QED
          BY <5>1, <4>1
      <4> QED
        BY <4>2, <4>3, <2>1
    <3> QED
      BY <3>1, <2>1 DEF Sorted
  <2>8. Waiting'
    <3>1. ASSUME NEW p \in 1 .. n + 1, NEW i \in 1 .. m
          PROVE  T'[p] # ran[i] /\ (T'[p] < ran[i] \/ T'[p] > before[i])
      <4>1. CASE p = n + 1
        <5>1. before[i] \in Nat /\ before[i] <= registered /\ ran[i] \in 1 .. registered
          BY <2>2 DEF History
        <5> QED
          BY <4>1, <5>1, <2>1, <1>0, SMTT(60)
      <4>2. CASE p \in 1 .. n
        <5>1. T'[p] = T[p]
          BY <4>2, <2>1
        <5> QED
          BY <5>1, <4>2 DEF Waiting
      <4> QED
        BY <4>1, <4>2, <2>1
    <3> QED
      BY <3>1, <2>1, <1>1 DEF Waiting
  <2>9. Accounted'
    <3>1. ASSUME NEW id \in 1 .. registered + 1
          PROVE  \/ \E p \in 1 .. n + 1 : T'[p] = id
                 \/ \E i \in 1 .. m : ran[i] = id
      <4>1. CASE id = registered + 1
        <5>1. n + 1 \in 1 .. n + 1 /\ T'[n + 1] = id
          BY <4>1, <2>1
        <5> QED
          BY <5>1
      <4>2. CASE id \in 1 .. registered
        <5>1. CASE \E i \in 1 .. m : ran[i] = id
          BY <5>1
        <5>2. CASE \E p \in 1 .. n : T[p] = id
          <6>1. PICK p \in 1 .. n : T[p] = id
            BY <5>2
          <6>2. p \in 1 .. n + 1 /\ T'[p] = id
            BY <6>1, <2>1
          <6> QED
            BY <6>2
        <5> QED
          BY <5>1, <5>2, <4>2 DEF Accounted
      <4> QED
        BY <4>1, <4>2, <1>0
    <3> QED
      BY <3>1, <2>1, <1>1, <1>5 DEF Accounted
  <2> QED
    BY <2>5, <2>6, <2>7, <2>8, <2>9, <1>2, <1>3
<1> QED
  BY <1>4, <1>5 DEF Atexit, HasRoom

(* exit's loop: the last handler moves from the table to the history. *)
LEMMA CallStep ==
  ASSUME Inv, ExitCallsHandler
  PROVE  Inv'
<1> USE DEF Inv
<1> DEFINE T == g_exit_handlers
           n == Len(g_exit_handlers)
           m == Len(ran)
<1>0. /\ registered \in Nat /\ calls \in Nat /\ exits \in Nat
      /\ T \in Seq(1 .. registered) /\ n <= MaxHandlers
      /\ ran \in Seq(1 .. registered) /\ before \in Seq(Nat)
      /\ stack \in Seq(Frame) /\ Len(stack) > 0 /\ Len(before) = m
  BY DEF TypeOK, History
<1>1. /\ UNCHANGED <<refused, ended, registered, calls, exits>>
      /\ ended.by # "exit" /\ T # <<>>
      /\ T' = SubSeq(T, 1, n - 1)
      /\ ran' = Append(ran, T[n]) /\ before' = Append(before, registered)
      /\ stack' = Append(stack, HandlerFrame(T[n]))
  BY DEF ExitCallsHandler, Alive, NotYet, LoopDone, Remaining, NextHandler, Push
<1>2. n \in Nat /\ n > 0 /\ T[n] \in 1 .. registered
  BY <1>0, <1>1, DropFacts
<1>3. /\ T' \in Seq(1 .. registered) /\ Len(T') = n - 1
      /\ \A p \in 1 .. n - 1 : T'[p] = T[p]
  BY <1>0, <1>1, DropFacts
<1>4. /\ ran' \in Seq(1 .. registered) /\ Len(ran') = m + 1
      /\ ran'[m + 1] = T[n] /\ \A i \in 1 .. m : ran'[i] = ran[i]
  BY <1>0, <1>1, <1>2, AppendFacts
<1>5. /\ before' \in Seq(Nat) /\ Len(before') = m + 1
      /\ before'[m + 1] = registered /\ \A i \in 1 .. m : before'[i] = before[i]
  BY <1>0, <1>1, AppendFacts
<1>6. /\ \A p \in 1 .. n : T[p] \in 1 .. registered
      /\ \A i \in 1 .. m : ran[i] \in 1 .. registered /\ before[i] \in Nat
      /\ m \in Nat
  <2>1. \A i \in 1 .. m : ran[i] \in 1 .. registered
    BY <1>0
  <2>2. \A i \in 1 .. m : before[i] \in Nat
    BY <1>0, SMTT(60)
  <2>3. \A p \in 1 .. n : T[p] \in 1 .. registered
    BY <1>0
  <2>4. m \in Nat
    BY <1>0
  <2> QED
    BY <2>1, <2>2, <2>3, <2>4
<1>7. TypeOK'
  <2>1. HandlerFrame(T[n]) \in Frame
    BY <1>2 DEF HandlerFrame, Frame
  <2>2. stack' \in Seq(Frame) /\ Len(stack') > 0
    BY <2>1, <1>0, <1>1
  <2>3. Frame' = Frame
    BY <1>1 DEF Frame
  <2>4. Len(T') <= MaxHandlers
    BY <1>0, <1>2, <1>3, ExitAssumption
  <2> QED
    BY <2>2, <2>3, <2>4, <1>0, <1>1, <1>3, <1>4, <1>5 DEF TypeOK
<1>8. History'
  <2>1. \A i \in 1 .. m : before'[i] <= registered
    BY <1>5 DEF History
  <2>2. \A i \in 1 .. m + 1 : before'[i] <= registered
    BY <2>1, <1>0, <1>5, <1>6
  <2> QED
    BY <2>2, <1>1, <1>4, <1>5 DEF History
<1>9. Sorted'
  <2>1. ASSUME NEW p \in 1 .. n - 1, NEW q \in 1 .. n - 1, p < q
        PROVE  T'[p] < T'[q]
    <3>1. p \in 1 .. n /\ q \in 1 .. n /\ T'[p] = T[p] /\ T'[q] = T[q]
      BY <1>2, <1>3
    <3> QED
      BY <2>1, <3>1 DEF Sorted
  <2> QED
    BY <2>1, <1>3 DEF Sorted
<1>10. \A p \in 1 .. n - 1 : T[p] < T[n]
  BY <1>0, <1>2, SMTT(60) DEF Sorted
<1>11. Waiting'
  <2> SUFFICES ASSUME NEW p \in 1 .. n - 1, NEW i \in 1 .. m + 1
               PROVE  T[p] # ran'[i] /\ (T[p] < ran'[i] \/ T[p] > before'[i])
    BY <1>3, <1>4 DEF Waiting
  <2>0. p \in 1 .. n /\ T[p] \in 1 .. registered /\ T[p] < T[n]
    BY <1>10, <1>6, <1>2
  <2>1. CASE i = m + 1
    <3>1. ran'[i] = T[n]
      BY <2>1, <1>4
    <3> QED
      BY <3>1, <2>0, <1>2
  <2>2. CASE i \in 1 .. m
    <3>1. ran'[i] = ran[i] /\ before'[i] = before[i]
      BY <2>2, <1>4, <1>5
    <3> QED
      BY <3>1, <2>0, <2>2 DEF Waiting
  <2> QED
    BY <2>1, <2>2, <1>6
<1>12. Accounted'
  <2> SUFFICES ASSUME NEW id \in 1 .. registered
               PROVE  \/ \E p \in 1 .. n - 1 : T'[p] = id
                      \/ \E i \in 1 .. m + 1 : ran'[i] = id
    BY <1>1, <1>3, <1>4, ZenonT(60) DEF Accounted
  <2>1. CASE \E i \in 1 .. m : ran[i] = id
    BY <2>1, <1>4, <1>6
  <2>2. CASE \E p \in 1 .. n : T[p] = id
    BY <2>2, <1>2, <1>3, <1>4, <1>6, SMTT(60)
  <2> QED
    BY <2>1, <2>2 DEF Accounted
<1>13. CalledOnce'
  <2> SUFFICES ASSUME NEW i \in 1 .. m + 1, NEW j \in 1 .. m + 1, ran'[i] = ran'[j]
               PROVE  i = j
    BY <1>4 DEF CalledOnce
  <2>1. \A k \in 1 .. m : ran[k] # T[n]
    BY <1>2 DEF Waiting
  <2> QED
    BY <2>1, <1>4, <1>6, SMTT(60) DEF CalledOnce
<1>14. NewestFirst'
  <2> SUFFICES ASSUME NEW i \in 1 .. m + 1, NEW j \in 1 .. m + 1, i < j
               PROVE  ran'[j] < ran'[i] \/ ran'[j] > before'[i]
    BY <1>4 DEF NewestFirst
  <2>1. i \in 1 .. m /\ ran'[i] = ran[i] /\ before'[i] = before[i]
    <3>1. \A k \in Nat : \A x, y \in 1 .. k + 1 : x < y => x \in 1 .. k
      OBVIOUS
    <3>2. i \in 1 .. m
      BY <3>1, <1>6, Zenon
    <3> QED
      BY <3>2, <1>4, <1>5, Zenon
  <2>2. CASE j = m + 1
    <3>1. ran'[j] = T[n] /\ n \in 1 .. n
      BY <2>2, <1>2, <1>4
    <3> QED
      BY <2>1, <3>1 DEF Waiting
  <2>3. CASE j \in 1 .. m
    <3>1. ran'[j] = ran[j]
      BY <2>3, <1>4
    <3> QED
      BY <2>1, <2>3, <3>1 DEF NewestFirst
  <2>4. j = m + 1 \/ j \in 1 .. m
    BY <1>6, SMTT(60)
  <2> QED
    BY <2>2, <2>3, <2>4
<1>15. ExitCallsAll'
  BY <1>1 DEF ExitCallsAll
<1>16. Rooted'
  BY <1>0, <1>1 DEF Rooted
<1> QED
  BY <1>16, <1>7, <1>8, <1>9, <1>11, <1>12, <1>13, <1>14, <1>15

(* The other steps leave the table and the history alone; only exit's own  *)
(* end can claim that everything was called, and the table is empty then.  *)
LEMMA OtherStep ==
  ASSUME Inv, UNCHANGED <<table, ghosts>>, exits' \in Nat,
         stack' \in Seq(Frame), Len(stack') > 0, stack'[1] = stack[1],
         ended' \in [by : {"none", "exit", "_exit", "abort", "return"},
                     status : Status \cup {0, AbortStatus}],
         ended'.by = "exit" => ended' = ended \/ g_exit_handlers = <<>>
  PROVE  Inv'
<1> USE DEF Inv
<1>1. UNCHANGED <<g_exit_handlers, refused, registered, calls, ran, before>>
  BY DEF table, ghosts
<1>2. TypeOK'
  BY <1>1 DEF TypeOK, Frame
<1>3. Rooted' /\ History' /\ Sorted' /\ Waiting' /\ Accounted' /\ CalledOnce' /\ NewestFirst'
  <2>1. Rooted' /\ History' /\ Sorted'
    BY <1>1 DEF Rooted, History, Sorted
  <2>2. Waiting' /\ Accounted'
    BY <1>1 DEF Waiting, Accounted
  <2>3. CalledOnce' /\ NewestFirst'
    BY <1>1 DEF CalledOnce, NewestFirst
  <2> QED
    BY <2>1, <2>2, <2>3
<1>4. ExitCallsAll'
  <2>1. CASE ended' = ended
    BY <2>1, <1>1 DEF ExitCallsAll
  <2>2. CASE g_exit_handlers = <<>>
    BY <2>2, <1>1 DEF ExitCallsAll, Accounted
  <2>3. CASE ended'.by # "exit"
    BY <2>3 DEF ExitCallsAll
  <2> QED
    BY <2>1, <2>2, <2>3
<1> QED
  BY <1>2, <1>3, <1>4

(* Every step keeps the invariant: one case for each action. *)
LEMMA StepInv == Inv /\ [Next]_vars => Inv'
<1> SUFFICES ASSUME Inv, [Next]_vars PROVE Inv'
  OBVIOUS
<1> DEFINE Ends == [by : {"none", "exit", "_exit", "abort", "return"},
                    status : Status \cup {0, AbortStatus}]
<1>0. /\ exits \in Nat /\ stack \in Seq(Frame) /\ Len(stack) > 0 /\ ended \in Ends
  BY DEF Inv, TypeOK
<1>1. ASSUME NEW function \in {"function", "null"}, Atexit(function) PROVE Inv'
  BY <1>1, AtexitStep
<1>2. ASSUME NEW status \in Status, Exit(status) PROVE Inv'
  <2>1. ExitFrame(status) \in Frame
    BY DEF ExitFrame, Frame
  <2>2. stack' \in Seq(Frame) /\ Len(stack') > 0 /\ stack'[1] = stack[1]
    BY <1>2, <2>1, <1>0 DEF Exit, Push
  <2> QED
    BY <1>2, <2>2, <1>0, OtherStep DEF Exit
<1>3. ASSUME NEW status \in Status, _Exit(status) PROVE Inv'
  <2>1. ended' \in Ends /\ ended'.by # "exit"
    BY <1>3 DEF _Exit, SysExit
  <2> QED
    BY <1>3, <2>1, <1>0, OtherStep DEF _Exit
<1>4. ASSUME Abort PROVE Inv'
  <2>1. ended' \in Ends /\ ended'.by # "exit"
    BY <1>4 DEF Abort, SysExit
  <2> QED
    BY <1>4, <2>1, <1>0, OtherStep DEF Abort
<1>5. ASSUME NEW code \in Status, MainReturns(code) PROVE Inv'
  <2>1. ended' \in Ends /\ ended'.by # "exit"
    BY <1>5 DEF MainReturns, SysExit
  <2> QED
    BY <1>5, <2>1, <1>0, OtherStep DEF MainReturns
<1>6. ASSUME ExitCallsHandler PROVE Inv'
  BY <1>6, CallStep
<1>7. ASSUME ExitEnds PROVE Inv'
  <2>1. Top \in Frame /\ Top.fn = "exit"
    BY <1>7, <1>0 DEF ExitEnds, Top
  <2>2. Top.arg \in Status
    BY <2>1 DEF Frame
  <2>3. ended' \in Ends /\ g_exit_handlers = <<>>
    BY <1>7, <2>2 DEF ExitEnds, SysExit, LoopDone
  <2> QED
    BY <1>7, <2>3, <1>0, OtherStep DEF ExitEnds
<1>8. ASSUME HandlerReturns PROVE Inv'
  <2>1. stack' = SubSeq(stack, 1, Len(stack) - 1) /\ stack[Len(stack)].fn = "handler"
    BY <1>8 DEF HandlerReturns, Pop, Top
  <2>2. Len(stack) > 1
    BY <2>1, <1>0 DEF Inv, Rooted
  <2>3. stack' \in Seq(Frame) /\ Len(stack') > 0 /\ stack'[1] = stack[1]
    BY <2>1, <2>2, <1>0
  <2> QED
    BY <1>8, <2>3, <1>0, OtherStep DEF HandlerReturns
<1>9. CASE UNCHANGED vars
  BY <1>9, <1>0, OtherStep DEF vars, table, ghosts
<1> QED
  BY <1>1, <1>2, <1>3, <1>4, <1>5, <1>6, <1>7, <1>8, <1>9
     DEF Next, UserStep, LibraryStep

-----------------------------------------------------------------------------
(* The invariant holds in every reachable state. *)
THEOREM ExitInvariance == Spec => []Inv
BY InitInv, StepInv, PTL DEF Spec

(* atexit, exit and their nesting keep the variables' types; the table of  *)
(* exit handlers is never overrun, whatever its length.                    *)
THEOREM ExitTypeCorrect == Spec => []TypeOK
<1>1. Inv => TypeOK
  BY DEF Inv
<1> QED
  BY <1>1, ExitInvariance, PTL

(* exit never calls a registration twice. *)
THEOREM NeverCalledTwice == Spec => []CalledOnce
<1>1. Inv => CalledOnce
  BY DEF Inv
<1> QED
  BY <1>1, ExitInvariance, PTL

(* exit calls the handlers newest first. *)
THEOREM CalledNewestFirst == Spec => []NewestFirst
<1>1. Inv => NewestFirst
  BY DEF Inv
<1> QED
  BY <1>1, ExitInvariance, PTL

(* A process that ends through exit has called every handler. *)
THEOREM AllCalled == Spec => []ExitCallsAll
<1>1. Inv => ExitCallsAll
  BY DEF Inv
<1> QED
  BY <1>1, ExitInvariance, PTL
=============================================================================
