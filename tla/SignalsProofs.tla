--------------------------- MODULE SignalsProofs ---------------------------
(***************************************************************************)
(* Proofs about Signals: whatever handlers interrupt it, a system call     *)
(* returns the kernel's answer to that very call, errno is its own error   *)
(* number, raise returns only after the handler it owes has been started,  *)
(* and no handler runs off its end.                                        *)
(***************************************************************************)
EXTENDS Signals, TLAPS, FiniteSetTheorems, SequenceTheorems

(* What sigaction hands to the kernel. *)
Installed == {SIG_DFL, SIG_IGN, [Handler EXCEPT !.restorer = TRUE]}

AnswerSet == {a \in [ret : {-1, 0, Pid}, err : Nat] : a.ret # -1 => a.err = 0}

CallSet ==
  [op : {"none", "plain", "sigaction", "sigprocmask", "getpid", "kill"},
   sig : Signal \cup {NONE},
   arg : Installed \cup {"block", "unblock"} \cup {NONE, Pid},
   rc : {-1, 0, Pid}, truth : AnswerSet, disturbed : BOOLEAN, owed : Nat]

Frames ==
  [pc : {"user", "trap", "load", "store", "wrap", "ret", "restorer"},
   left : Nat, call : CallSet, hsig : Signal \cup {NONE},
   saved : SUBSET Signal, restorer : BOOLEAN]

TypeOK ==
  /\ ctx \in Seq(Frames) /\ Len(ctx) > 0
  /\ abi \in [1 .. MaxDepth + 1 -> AnswerSet]
  /\ libsys_errno \in Nat /\ errno \in Nat
  /\ disp \in [Signal -> Installed]
  /\ blocked \in SUBSET Signal /\ pending \in SUBSET Signal
  /\ irq \in BOOLEAN
  /\ status \in {"alive", "killed", "exit127"}
  /\ sends \in Nat
  /\ seen \in [Signal -> Nat]

(* The mask in force while the code at depth d runs. *)
Mask(d) == IF d = Len(ctx) THEN blocked ELSE ctx[d + 1].saved

(* A handler runs with its signal blocked, and so does everything nested   *)
(* on it; only the main program changes actions and the mask.              *)
Nested ==
  \A d \in 2 .. Len(ctx) :
    /\ ctx[d].hsig \in Signal /\ ctx[d].restorer
    /\ ctx[d].hsig \notin ctx[d].saved
    /\ ctx[d].hsig \in blocked
    /\ \A e \in d + 1 .. Len(ctx) : ctx[d].hsig \in ctx[e].saved
    /\ ctx[d].call.op \notin {"sigaction", "sigprocmask"}

Answered(pc) == pc \in {"load", "store", "wrap", "ret"}

(* What is known of a frame by itself: what the call was given, and that   *)
(* its result is the kernel's answer once it has been loaded.              *)
Sane(f) ==
  /\ f.call.op = "sigaction" => f.call.arg \in Installed
  /\ f.call.op \in {"sigaction", "sigprocmask", "getpid", "kill"} =>
       f.call.sig \in Signal
  /\ f.call.op = "kill" => f.call.arg = Pid
  /\ f.pc \in {"store", "wrap", "ret"} => f.call.rc = f.call.truth.ret
  /\ Answered(f.pc) /\ f.call.op = "getpid" => f.call.truth.ret = Pid
  /\ f.pc = "restorer" => f.restorer

FramesSane == ~ ctx[1].restorer /\ \A d \in 1 .. Len(ctx) : Sane(ctx[d])

(* The ABI block of a call still holds the answer to it. *)
BlockKept ==
  \A d \in 1 .. Len(ctx) :
    ctx[d].pc \in {"load", "store"} => abi[d] = ctx[d].call.truth

(* libsys_errno is the call's own until another call stores to it. *)
ErrnoKept ==
  \A d \in 1 .. Len(ctx) :
    ctx[d].pc = "wrap" /\ ~ ctx[d].call.disturbed =>
      libsys_errno = ErrnoOf(ctx[d].call.rc, ctx[d].call.truth.err)

(* The signal of a successful raise, until its handler has been started,   *)
(* is pending and would be delivered before the caller runs again.         *)
Due(d) ==
  LET c == ctx[d].call IN
  Answered(ctx[d].pc) /\ c.op = "kill" /\ c.truth.ret >= 0 /\ c.owed > 0 =>
    \/ seen[c.sig] >= c.owed
    \/ /\ c.sig \in pending /\ c.sig \notin Mask(d)
       /\ c.owed <= seen[c.sig] + 1
       /\ disp[c.sig].handler = "fn"
       /\ d = Len(ctx) => irq

RaisesDue == status = "alive" => \A d \in 1 .. Len(ctx) : Due(d)

IInv == TypeOK /\ Nested /\ FramesSane /\ BlockKept /\ ErrnoKept /\ RaisesDue

-----------------------------------------------------------------------------
(* The frames *)

(* Handlers of different depths belong to different signals, so that the   *)
(* nesting never exceeds the stack slots there are.                        *)
LEMMA DepthBound ==
  ASSUME TypeOK, Nested
  PROVE  Len(ctx) \in 1 .. MaxDepth + 1
<1> DEFINE S == 2 .. Len(ctx)
           f == [d \in S |-> ctx[d].hsig]
<1>1. Len(ctx) \in Nat /\ Len(ctx) > 0
  BY DEF TypeOK
<1>2. MaxDepth \in Nat /\ IsFiniteSet(Signal)
  BY SignalsAssumption, FS_CardinalityType DEF MaxDepth
<1>3. f \in [S -> Signal]
  BY DEF Nested
<1>4. IsFiniteSet(S) /\ Cardinality(S) = Len(ctx) - 1
  BY <1>1, FS_Interval
<1>5. \A x, y \in S : x < y => f[x] # f[y]
  BY <1>1 DEF Nested
<1>6. \A x, y \in S : x # y => f[x] # f[y]
  BY <1>5, <1>1
<1>7. ~ (Cardinality(Signal) < Cardinality(S))
  <2> SUFFICES ASSUME Cardinality(Signal) < Cardinality(S) PROVE FALSE
    OBVIOUS
  <2>1. \E x, y \in S : x # y /\ f[x] = f[y]
    <3> HIDE DEF f, S
    <3> QED BY <1>2, <1>3, <1>4, FS_PigeonHole
  <2> QED BY <2>1, <1>6
<1> QED BY <1>1, <1>2, <1>4, <1>7 DEF MaxDepth

(* Rewriting the topmost frame. *)
LEMMA TopRewritten ==
  ASSUME TypeOK, NEW c \in Frames, SetTop(c)
  PROVE  /\ ctx' \in Seq(Frames) /\ Len(ctx') = Len(ctx) /\ Len(ctx) \in Nat \ {0}
         /\ \A d \in 1 .. Len(ctx) : ctx'[d] = IF d = Len(ctx) THEN c ELSE ctx[d]
         /\ Top \in Frames
BY DEF TypeOK, SetTop, Top

(* A step of the topmost code that keeps the frame's signal and saved      *)
(* mask, and makes no call a handler may not make.                         *)
LEMMA TopStep ==
  ASSUME TypeOK, Nested, FramesSane, NEW c \in Frames, SetTop(c), Sane(c),
         c.hsig = Top.hsig, c.saved = Top.saved, c.restorer = Top.restorer,
         Len(ctx) > 1 => c.call.op \notin {"sigaction", "sigprocmask"},
         Len(ctx) > 1 => blocked' = blocked
  PROVE  Nested' /\ FramesSane'
<1>1. /\ Len(ctx') = Len(ctx) /\ Len(ctx) \in Nat \ {0}
      /\ \A d \in 1 .. Len(ctx) : ctx'[d] = IF d = Len(ctx) THEN c ELSE ctx[d]
  BY TopRewritten
<1>2. \A d \in 1 .. Len(ctx) :
        /\ ctx'[d].hsig = ctx[d].hsig /\ ctx'[d].saved = ctx[d].saved
        /\ ctx'[d].restorer = ctx[d].restorer
  BY <1>1 DEF Top
<1>3. Nested'
  <2> SUFFICES ASSUME NEW d \in 2 .. Len(ctx)
               PROVE  /\ ctx'[d].hsig \in Signal /\ ctx'[d].restorer
                      /\ ctx'[d].hsig \notin ctx'[d].saved
                      /\ ctx'[d].hsig \in blocked'
                      /\ \A e \in d + 1 .. Len(ctx) : ctx'[d].hsig \in ctx'[e].saved
                      /\ ctx'[d].call.op \notin {"sigaction", "sigprocmask"}
    BY <1>1 DEF Nested
  <2>1. d \in 1 .. Len(ctx) /\ Len(ctx) > 1 /\ blocked' = blocked
    BY <1>1
  <2>2. ctx'[d].call.op \notin {"sigaction", "sigprocmask"}
    BY <1>1, <2>1 DEF Nested
  <2>3. \A e \in d + 1 .. Len(ctx) : ctx'[d].hsig \in ctx'[e].saved
    BY <1>1, <1>2, <2>1 DEF Nested
  <2> QED BY <1>2, <2>1, <2>2, <2>3 DEF Nested
<1>4. FramesSane'
  BY <1>1, <1>2 DEF FramesSane
<1> QED BY <1>3, <1>4

(* What such a step owes the raises below it, when the kernel's view of    *)
(* the signals stays: only the topmost frame can become overdue.           *)
LEMMA TopStepDue ==
  ASSUME TypeOK, RaisesDue, NEW c \in Frames, SetTop(c), c.saved = Top.saved,
         Len(ctx) > 1 => UNCHANGED <<disp, blocked>>,
         UNCHANGED <<seen, status>>, pending \subseteq pending',
         status = "alive" => Due(Len(ctx))'
  PROVE  RaisesDue'
<1>1. /\ Len(ctx') = Len(ctx) /\ Len(ctx) \in Nat \ {0}
      /\ \A d \in 1 .. Len(ctx) : ctx'[d] = IF d = Len(ctx) THEN c ELSE ctx[d]
  BY TopRewritten
<1> SUFFICES ASSUME status = "alive", NEW d \in 1 .. Len(ctx), d # Len(ctx)
             PROVE  Due(d)'
  BY <1>1 DEF RaisesDue
<1>2. ctx'[d] = ctx[d] /\ Mask(d)' = Mask(d)
  <2>1. ctx'[d + 1].saved = ctx[d + 1].saved
    BY <1>1 DEF Top
  <2> QED BY <1>1, <2>1 DEF Mask
<1>3. Due(d)
  BY DEF RaisesDue
<1> QED BY <1>1, <1>2, <1>3 DEF Due

-----------------------------------------------------------------------------
(* One lemma for every step: it preserves the invariant. *)

(* The kernel variables a step of user code leaves alone. *)
LEMMA EnterKeeps ==
  ASSUME IInv,
         NEW op \in {"plain", "sigaction", "sigprocmask", "getpid"},
         NEW sig \in Signal \cup {NONE},
         NEW arg \in Installed \cup {"block", "unblock"} \cup {NONE, Pid},
         op # "plain" => sig \in Signal, op = "sigaction" => arg \in Installed,
         Len(ctx) > 1 => op \in {"plain", "getpid"},
         Enter(op, sig, arg), sends' \in Nat
  PROVE  IInv'
<1> DEFINE call == [Idle EXCEPT !.op = op, !.sig = sig, !.arg = arg]
           c == [Top EXCEPT !.pc = "trap", !.left = @ - 1, !.call = call]
<1>1. TypeOK /\ Nested /\ FramesSane /\ BlockKept /\ ErrnoKept /\ RaisesDue
  BY DEF IInv
<1>2. Top \in Frames /\ Top.left > 0 /\ SetTop(c)
  BY <1>1 DEF TypeOK, Top, Enter
<1>3. Answer \in AnswerSet
  BY DEF Answer, AnswerSet
<1>4. call \in CallSet /\ call.op = op /\ call.sig = sig /\ call.arg = arg
  BY <1>3 DEF CallSet, Idle
<1> HIDE DEF call
<1>5. c \in Frames /\ c.pc = "trap" /\ c.call = call /\ c.hsig = Top.hsig
      /\ c.saved = Top.saved /\ c.restorer = Top.restorer
  <2>1. Top.left - 1 \in Nat
    BY <1>2 DEF Frames
  <2>2. c = [Top EXCEPT !.pc = "trap", !.left = Top.left - 1, !.call = call]
    BY Zenon
  <2> QED BY <1>2, <1>4, <2>1, <2>2 DEF Frames
<1> HIDE DEF c
<1>6. Sane(c)
  BY <1>4, <1>5 DEF Sane, Answered
<1>7. UNCHANGED <<abi, libsys_errno, errno, disp, blocked, pending, irq, status, seen>>
  BY DEF Enter
<1>8. /\ ctx' \in Seq(Frames) /\ Len(ctx') = Len(ctx) /\ Len(ctx) \in Nat \ {0}
      /\ \A d \in 1 .. Len(ctx) : ctx'[d] = IF d = Len(ctx) THEN c ELSE ctx[d]
  BY <1>1, <1>2, <1>5, TopRewritten
<1>9. TypeOK'
  BY <1>1, <1>7, <1>8 DEF TypeOK
<1>10. Nested' /\ FramesSane'
  <2>1. Len(ctx) > 1 => c.call.op \notin {"sigaction", "sigprocmask"}
    BY <1>4, <1>5
  <2> QED BY <1>1, <1>2, <1>5, <1>6, <1>7, <2>1, TopStep
<1>11. BlockKept'
  BY <1>1, <1>5, <1>7, <1>8 DEF BlockKept
<1>12. ErrnoKept'
  BY <1>1, <1>5, <1>7, <1>8 DEF ErrnoKept
<1>13. RaisesDue'
  <2>1. Due(Len(ctx))'
    BY <1>5, <1>8 DEF Due, Answered
  <2> QED BY <1>1, <1>2, <1>5, <1>7, <2>1, TopStepDue
<1> QED BY <1>9, <1>10, <1>11, <1>12, <1>13 DEF IInv

(* A call made by user code: what it hands to the stub is what Enter       *)
(* expects, and sigaction never passes a handler without a restorer.       *)
LEMMA UserCallKeeps ==
  ASSUME IInv, UserCall
  PROVE  IInv'
<1>0. sends \in Nat
  BY DEF IInv, TypeOK
<1>1. CASE PlainCall
  BY <1>0, <1>1, EnterKeeps DEF PlainCall
<1>2. CASE \E s \in Signal : Raise(s)
  <2> PICK s \in Signal : Raise(s)
    BY <1>2
  <2>1. Enter("getpid", s, NONE) /\ sends' \in Nat
    BY <1>0 DEF Raise
  <2> QED BY <2>1, EnterKeeps
<1>3. ASSUME Len(ctx) = 1, NEW s \in Signal, NEW act \in {SIG_DFL, SIG_IGN, Handler},
             Sigaction(s, act)
      PROVE  IInv'
  <2>1. DefaultRestorer(act) \in Installed
    <3>1. CASE act = SIG_DFL
      BY <3>1 DEF DefaultRestorer, Installed, SIG_DFL
    <3>2. CASE act = SIG_IGN
      BY <3>2 DEF DefaultRestorer, Installed, SIG_IGN
    <3>3. CASE act = Handler
      BY <3>3 DEF DefaultRestorer, Installed, Handler
    <3> QED BY <3>1, <3>2, <3>3
  <2>2. Enter("sigaction", s, DefaultRestorer(act)) /\ sends' \in Nat
    BY <1>0, <1>3 DEF Sigaction
  <2> QED BY <1>3, <2>1, <2>2, EnterKeeps
<1>4. ASSUME Len(ctx) = 1, NEW s \in Signal, NEW how \in {"block", "unblock"},
             Sigprocmask(s, how)
      PROVE  IInv'
  <2>1. Enter("sigprocmask", s, how) /\ sends' \in Nat
    BY <1>0, <1>4 DEF Sigprocmask
  <2> QED BY <1>4, <2>1, EnterKeeps
<1> QED BY <1>1, <1>2, <1>3, <1>4 DEF UserCall

(* Steps that only rewrite the topmost frame, errno and nothing in the     *)
(* kernel: loading the result, returning, going on, raise's second call.   *)
LEMMA QuietStep ==
  ASSUME IInv, NEW c \in Frames, SetTop(c), Sane(c),
         c.hsig = Top.hsig, c.saved = Top.saved, c.restorer = Top.restorer,
         Len(ctx) > 1 => c.call.op \notin {"sigaction", "sigprocmask"},
         UNCHANGED <<abi, libsys_errno, kernel>>, errno' \in Nat,
         c.pc # "wrap", ~ irq,
         c.pc \in {"load", "store"} => abi[Len(ctx)] = c.call.truth,
         Answered(c.pc) =>
           /\ Answered(Top.pc) /\ c.call.op = Top.call.op
           /\ c.call.sig = Top.call.sig
           /\ c.call.truth = Top.call.truth /\ c.call.owed = Top.call.owed
  PROVE  IInv'
<1>1. TypeOK /\ Nested /\ FramesSane /\ BlockKept /\ ErrnoKept /\ RaisesDue
  BY DEF IInv
<1>2. UNCHANGED <<disp, blocked, pending, irq, status, sends, seen>>
  BY DEF kernel
<1>3. /\ ctx' \in Seq(Frames) /\ Len(ctx') = Len(ctx) /\ Len(ctx) \in Nat \ {0}
      /\ \A d \in 1 .. Len(ctx) : ctx'[d] = IF d = Len(ctx) THEN c ELSE ctx[d]
  BY <1>1, TopRewritten
<1>4. TypeOK'
  BY <1>1, <1>2, <1>3 DEF TypeOK
<1>5. Nested' /\ FramesSane'
  BY <1>1, <1>2, TopStep
<1>6. BlockKept'
  BY <1>1, <1>3 DEF BlockKept
<1>7. ErrnoKept'
  BY <1>1, <1>3 DEF ErrnoKept
<1>8. RaisesDue'
  <2>1. status = "alive" => Due(Len(ctx))'
    <3> SUFFICES ASSUME status = "alive" PROVE Due(Len(ctx))'
      OBVIOUS
    <3>1. Due(Len(ctx))
      BY <1>1, <1>3 DEF RaisesDue
    <3>2. ctx'[Len(ctx')] = c /\ ctx[Len(ctx)] = Top
      BY <1>3 DEF Top
    <3> QED BY <1>2, <1>3, <3>1, <3>2 DEF Due, Mask
  <2> QED BY <1>1, <1>2, <2>1, TopStepDue
<1> QED BY <1>4, <1>5, <1>6, <1>7, <1>8 DEF IInv

(* libsys_call6 loads the result from its own ABI block. *)
LEMMA LoadRetKeeps ==
  ASSUME IInv, LoadRet
  PROVE  IInv'
<1> DEFINE r == abi[AbiSlot(Len(ctx))].ret
           c == [Top EXCEPT !.pc = "store", !.call.rc = r]
<1>1. TypeOK /\ Nested /\ FramesSane /\ BlockKept /\ ~ irq
  BY DEF IInv, LoadRet, Running
<1>2. /\ Top \in Frames /\ Top.pc = "load" /\ Sane(Top) /\ Len(ctx) \in Nat \ {0}
      /\ abi[Len(ctx)] = Top.call.truth
  BY <1>1 DEF TypeOK, FramesSane, BlockKept, Top, LoadRet, Running
<1>3. r = Top.call.truth.ret /\ r \in {-1, 0, Pid}
  BY <1>2 DEF AbiSlot, Frames, CallSet, AnswerSet
<1> HIDE DEF r
<1>4. /\ c \in Frames /\ c.pc = "store" /\ c.hsig = Top.hsig /\ c.saved = Top.saved
      /\ c.restorer = Top.restorer /\ c.call = [Top.call EXCEPT !.rc = r]
  BY <1>2, <1>3 DEF Frames, CallSet
<1>5. SetTop(c) /\ UNCHANGED <<abi, libsys_errno, errno, kernel>>
  BY DEF LoadRet, r
<1> HIDE DEF c
<1>6. /\ c.call.rc = c.call.truth.ret /\ c.call.op = Top.call.op
      /\ c.call.sig = Top.call.sig /\ c.call.arg = Top.call.arg
      /\ c.call.truth = Top.call.truth /\ c.call.owed = Top.call.owed
  BY <1>2, <1>3, <1>4 DEF Frames, CallSet
<1>7. Sane(c)
  BY <1>2, <1>4, <1>6 DEF Sane, Answered
<1>8. Len(ctx) > 1 => c.call.op \notin {"sigaction", "sigprocmask"}
  BY <1>1, <1>2, <1>6 DEF Nested, Top
<1>9. errno' \in Nat
  BY <1>1, <1>5 DEF TypeOK
<1> QED BY <1>1, <1>2, <1>4, <1>5, <1>6, <1>7, <1>8, <1>9, QuietStep DEF Answered

(* ret_errno: the result is already 0, the process id or -1. *)
LEMMA WrapKeeps ==
  ASSUME IInv, Wrap
  PROVE  IInv'
<1> DEFINE r == IF Top.call.rc < 0 THEN -1 ELSE Top.call.rc
           c == [Top EXCEPT !.pc = "ret", !.call.rc = IF @ < 0 THEN -1 ELSE @]
<1>1. TypeOK /\ Nested /\ FramesSane /\ BlockKept /\ ~ irq
  BY DEF IInv, Wrap, Running
<1>2. Top \in Frames /\ Top.pc = "wrap" /\ Sane(Top) /\ Len(ctx) \in Nat \ {0}
  BY <1>1 DEF TypeOK, FramesSane, Top, Wrap, Running
<1>3. r = Top.call.rc /\ r \in {-1, 0, Pid}
  BY <1>2, SignalsAssumption DEF Frames, CallSet
<1>4. c = [Top EXCEPT !.pc = "ret", !.call.rc = r]
  BY Zenon DEF r
<1> HIDE DEF r
<1>5. /\ c \in Frames /\ c.pc = "ret" /\ c.hsig = Top.hsig /\ c.saved = Top.saved
      /\ c.restorer = Top.restorer /\ c.call = [Top.call EXCEPT !.rc = r]
  BY <1>2, <1>3, <1>4 DEF Frames, CallSet
<1>6. SetTop(c) /\ UNCHANGED <<abi, libsys_errno, kernel>>
  BY DEF Wrap
<1> HIDE DEF c
<1>7. /\ c.call.rc = c.call.truth.ret /\ c.call.op = Top.call.op
      /\ c.call.sig = Top.call.sig /\ c.call.arg = Top.call.arg
      /\ c.call.truth = Top.call.truth /\ c.call.owed = Top.call.owed
  BY <1>2, <1>3, <1>5 DEF Frames, CallSet, Sane
<1>8. Sane(c)
  BY <1>2, <1>5, <1>7 DEF Sane, Answered
<1>9. Len(ctx) > 1 => c.call.op \notin {"sigaction", "sigprocmask"}
  BY <1>1, <1>2, <1>7 DEF Nested, Top
<1>10. errno' \in Nat
  BY <1>1 DEF Wrap, TypeOK
<1> QED BY <1>1, <1>2, <1>5, <1>6, <1>7, <1>8, <1>9, <1>10, QuietStep DEF Answered

(* raise goes on with kill: what getpid returned is the process's id. *)
LEMMA RaiseKillKeeps ==
  ASSUME IInv, RaiseKill
  PROVE  IInv'
<1> DEFINE call == [Idle EXCEPT !.op = "kill", !.sig = Top.call.sig,
                                !.arg = KillArg(Top.call.rc)]
           c == [Top EXCEPT !.pc = "trap", !.call = call]
<1>1. TypeOK /\ Nested /\ FramesSane /\ ~ irq
  BY DEF IInv, RaiseKill, Running
<1>2. /\ Top \in Frames /\ Top.pc = "wrap" /\ Top.call.op = "getpid" /\ Sane(Top)
      /\ Len(ctx) \in Nat \ {0}
  BY <1>1 DEF TypeOK, FramesSane, Top, RaiseKill, Running
<1>3. KillArg(Top.call.rc) = Pid /\ Top.call.sig \in Signal
  BY <1>2 DEF Sane, Answered, KillArg
<1>4. Answer \in AnswerSet
  BY DEF Answer, AnswerSet
<1>5. call \in CallSet /\ call.op = "kill" /\ call.sig \in Signal /\ call.arg = Pid
  BY <1>3, <1>4 DEF CallSet, Idle
<1>6. SetTop(c) /\ UNCHANGED <<abi, libsys_errno, kernel>>
  BY DEF RaiseKill
<1> HIDE DEF call
<1>7. /\ c \in Frames /\ c.pc = "trap" /\ c.hsig = Top.hsig /\ c.saved = Top.saved
      /\ c.restorer = Top.restorer /\ c.call = call
  BY <1>2, <1>5 DEF Frames
<1> HIDE DEF c
<1>8. Sane(c) /\ c.call.op \notin {"sigaction", "sigprocmask"} /\ ~ Answered(c.pc)
  BY <1>5, <1>7 DEF Sane, Answered
<1>9. errno' \in Nat
  BY <1>1 DEF RaiseKill, TypeOK
<1> QED BY <1>1, <1>6, <1>7, <1>8, <1>9, QuietStep

(* The application goes on after a call. *)
LEMMA ResumeKeeps ==
  ASSUME IInv, Resume
  PROVE  IInv'
<1> DEFINE c == [Top EXCEPT !.pc = "user", !.call = Idle]
<1>1. TypeOK /\ ~ irq
  BY DEF IInv, Resume, Running
<1>2. Top \in Frames
  BY <1>1 DEF TypeOK, Top
<1>3. Answer \in AnswerSet
  BY DEF Answer, AnswerSet
<1>4. Idle \in CallSet /\ Idle.op = "none"
  BY <1>3 DEF CallSet, Idle
<1>5. /\ c \in Frames /\ c.pc = "user" /\ c.hsig = Top.hsig /\ c.saved = Top.saved
      /\ c.restorer = Top.restorer /\ c.call = Idle
  BY <1>2, <1>4 DEF Frames
<1>6. SetTop(c) /\ UNCHANGED <<abi, libsys_errno, kernel>> /\ errno' \in Nat
  BY <1>1 DEF Resume, TypeOK
<1> HIDE DEF c
<1>7. Sane(c) /\ c.call.op \notin {"sigaction", "sigprocmask"} /\ ~ Answered(c.pc)
  BY <1>4, <1>5 DEF Sane, Answered
<1> QED BY <1>1, <1>5, <1>6, <1>7, QuietStep

(* A handler returns: sigaction gave it a restorer, so it never crashes. *)
LEMMA HandlerReturnsKeeps ==
  ASSUME IInv, HandlerReturns
  PROVE  IInv'
<1> DEFINE c == [Top EXCEPT !.pc = "restorer"]
<1>1. TypeOK /\ Nested /\ FramesSane /\ ~ irq /\ Len(ctx) > 1
  BY DEF IInv, HandlerReturns, Running
<1>2. /\ Top \in Frames /\ Sane(Top) /\ Len(ctx) \in Nat \ {0} /\ Top.restorer
      /\ Top.call.op \notin {"sigaction", "sigprocmask"}
  BY <1>1 DEF TypeOK, Top, Nested, FramesSane
<1>3. /\ SetTop(c) /\ UNCHANGED <<abi, libsys_errno, kernel>> /\ errno' \in Nat
  BY <1>1, <1>2 DEF HandlerReturns, TypeOK, kernel
<1>4. /\ c \in Frames /\ c.pc = "restorer" /\ c.hsig = Top.hsig /\ c.saved = Top.saved
      /\ c.restorer = Top.restorer /\ c.call = Top.call
  BY <1>2 DEF Frames
<1> HIDE DEF c
<1>5. Sane(c) /\ ~ Answered(c.pc)
  BY <1>2, <1>4 DEF Sane, Answered
<1> QED BY <1>1, <1>2, <1>3, <1>4, <1>5, QuietStep

(* The kernel serves a call: the answer goes to the caller's own block,    *)
(* only the main program's calls touch the mask and the actions, and the   *)
(* signal of a successful raise is pending with an interrupt to return.    *)
LEMMA TrapKeeps ==
  ASSUME IInv, Trap
  PROVE  IInv'
<1> DEFINE n == Len(ctx)
           k == Top.call
           w == Owed(k)
<1>1. TypeOK /\ Nested /\ FramesSane /\ BlockKept /\ ErrnoKept /\ RaisesDue
  BY DEF IInv
<1>2. /\ Top \in Frames /\ Top.pc = "trap" /\ Sane(Top) /\ n \in Nat \ {0}
      /\ status = "alive"
  BY <1>1 DEF TypeOK, FramesSane, Top, Trap, Running
<1>3. n \in 1 .. MaxDepth + 1
  BY <1>1, DepthBound
<1>4. k \in CallSet /\ w \in Nat
  <2>1. k \in CallSet
    BY <1>2 DEF Frames
  <2>2. CASE k.op = "kill"
    <3>1. k.sig \in Signal
      BY <1>2, <2>2 DEF Sane
    <3>2. seen[k.sig] \in Nat
      BY <1>1, <3>1 DEF TypeOK
    <3> QED BY <2>1, <3>2 DEF Owed
  <2> QED BY <2>1, <2>2 DEF Owed
<1> PICK a \in Answers(k) :
       /\ abi' = [abi EXCEPT ![AbiSlot(n)] = a]
       /\ SetTop([Top EXCEPT !.pc = "load", !.call.truth = a, !.call.owed = w])
       /\ IF a.ret < 0 THEN UNCHANGED <<disp, blocked, pending>> ELSE KernelEffect(k)
  BY DEF Trap
<1> DEFINE c == [Top EXCEPT !.pc = "load", !.call.truth = a, !.call.owed = w]
<1>5. a \in AnswerSet /\ (k.op = "getpid" => a.ret = Pid)
  BY SignalsAssumption DEF Answers, Ok, Failed, AnswerSet
<1>6. UNCHANGED <<libsys_errno, errno, status, sends, seen>> /\ irq' = TRUE
  BY DEF Trap
<1> HIDE DEF w, k
<1>7. /\ c.pc = "load" /\ c.hsig = Top.hsig /\ c.saved = Top.saved
      /\ c.restorer = Top.restorer /\ c.left = Top.left
      /\ c.call = [k EXCEPT !.truth = a, !.owed = w]
  BY <1>2 DEF Frames, CallSet, k
<1>8. c = [Top EXCEPT !.pc = "load", !.call = c.call]
  BY <1>2 DEF Frames, CallSet
<1>9. SetTop(c)
  OBVIOUS
<1> HIDE DEF c
<1>10. /\ c \in Frames /\ c.call.op = k.op /\ c.call.sig = k.sig
       /\ c.call.arg = k.arg /\ c.call.truth = a /\ c.call.owed = w
  <2>1. c.call \in CallSet
    BY <1>4, <1>5, <1>7 DEF CallSet
  <2>2. c \in Frames
    BY <1>2, <1>8, <2>1 DEF Frames
  <2> QED BY <1>4, <1>7, <2>2 DEF CallSet
<1>11. Sane(c)
  BY <1>2, <1>5, <1>7, <1>10 DEF Sane, k
<1>12. n > 1 => k.op \notin {"sigaction", "sigprocmask"}
  BY <1>1, <1>2 DEF Nested, Top, k
<1>13. /\ n > 1 => UNCHANGED <<disp, blocked>>
       /\ k.op = "kill" => UNCHANGED <<disp, blocked>>
       /\ pending \subseteq pending'
       /\ disp' \in [Signal -> Installed] /\ blocked' \in SUBSET Signal
       /\ pending' \in SUBSET Signal
  <2>1. CASE a.ret < 0
    BY <1>1, <2>1 DEF TypeOK
  <2>2. CASE ~ (a.ret < 0)
    <3>1. KernelEffect(k)
      BY <2>2
    <3>2. k.op = "sigaction" => k.arg \in Installed /\ k.sig \in Signal
      BY <1>2 DEF Sane, k
    <3>3. k.op \in {"sigprocmask", "kill"} => k.sig \in Signal
      BY <1>2 DEF Sane, k
    <3>4. disp' \in [Signal -> Installed]
      BY <1>1, <3>1, <3>2 DEF KernelEffect, TypeOK
    <3>5. blocked' \in SUBSET Signal
      BY <1>1, <3>1, <3>3 DEF KernelEffect, TypeOK
    <3>6. pending \subseteq pending' /\ pending' \in SUBSET Signal
      BY <1>1, <3>1, <3>3 DEF KernelEffect, Sent, TypeOK
    <3>7. k.op \notin {"sigaction", "sigprocmask"} => UNCHANGED <<disp, blocked>>
      BY <3>1 DEF KernelEffect
    <3> QED BY <1>12, <3>4, <3>5, <3>6, <3>7
  <2> QED BY <2>1, <2>2
<1>14. /\ ctx' \in Seq(Frames) /\ Len(ctx') = n
       /\ \A d \in 1 .. n : ctx'[d] = IF d = n THEN c ELSE ctx[d]
  BY <1>1, <1>9, <1>10, TopRewritten
<1>15. abi' \in [1 .. MaxDepth + 1 -> AnswerSet] /\ abi'[n] = a
       /\ \A d \in 1 .. n : d # n => abi'[d] = abi[d]
  BY <1>1, <1>3, <1>5 DEF TypeOK, AbiSlot
<1>16. TypeOK'
  BY <1>1, <1>2, <1>6, <1>13, <1>14, <1>15 DEF TypeOK
<1>17. Nested' /\ FramesSane'
  BY <1>1, <1>7, <1>9, <1>10, <1>11, <1>12, <1>13, TopStep
<1>18. BlockKept'
  BY <1>1, <1>10, <1>14, <1>15 DEF BlockKept
<1>19. ErrnoKept'
  BY <1>1, <1>6, <1>7, <1>14 DEF ErrnoKept
<1>20. RaisesDue'
  <2>1. Due(n)'
    <3> SUFFICES ASSUME k.op = "kill", a.ret >= 0, w > 0
                 PROVE  k.sig \in pending' /\ k.sig \notin blocked'
                        /\ disp'[k.sig].handler = "fn" /\ irq' /\ w <= seen[k.sig] + 1
      BY <1>2, <1>6, <1>10, <1>14 DEF Due, Mask
    <3>1. k.sig \notin blocked /\ disp[k.sig].handler = "fn"
      BY DEF w, Owed
    <3>2. a.ret \in Int /\ ~ (a.ret < 0)
      BY <1>5, SignalsAssumption DEF AnswerSet
    <3>3. KernelEffect(k) /\ k.arg = Pid
      BY <1>2, <3>2 DEF Sane, k
    <3>4. k.sig \in pending'
      BY <3>1, <3>3 DEF KernelEffect, Sent
    <3>5. w <= seen[k.sig] + 1
      <4>1. w = seen[k.sig] + 1
        BY DEF w, Owed
      <4> QED BY <1>4, <4>1
    <3> QED BY <1>6, <1>13, <3>1, <3>4, <3>5
  <2> QED BY <1>1, <1>6, <1>7, <1>9, <1>10, <1>13, <2>1, TopStepDue
<1> QED BY <1>16, <1>17, <1>18, <1>19, <1>20 DEF IInv

(* Marking an interrupted call changes nothing else of its frame. *)
LEMMA DisturbedFrame ==
  ASSUME NEW f \in Frames
  PROVE  /\ Disturbed(f) \in Frames
         /\ Disturbed(f).pc = f.pc /\ Disturbed(f).hsig = f.hsig
         /\ Disturbed(f).saved = f.saved /\ Disturbed(f).restorer = f.restorer
         /\ Disturbed(f).call.op = f.call.op /\ Disturbed(f).call.sig = f.call.sig
         /\ Disturbed(f).call.arg = f.call.arg /\ Disturbed(f).call.rc = f.call.rc
         /\ Disturbed(f).call.truth = f.call.truth
         /\ Disturbed(f).call.owed = f.call.owed
         /\ f.pc = "wrap" => Disturbed(f).call.disturbed
<1>1. CASE f.pc # "wrap"
  BY <1>1 DEF Disturbed
<1>2. CASE f.pc = "wrap"
  <2> DEFINE g == [f EXCEPT !.call.disturbed = TRUE]
  <2>1. Disturbed(f) = g
    BY <1>2 DEF Disturbed
  <2>2. g = [f EXCEPT !.call = [f.call EXCEPT !.disturbed = TRUE]]
    BY DEF Frames, CallSet
  <2> HIDE DEF g
  <2>3. [f.call EXCEPT !.disturbed = TRUE] \in CallSet
    BY DEF Frames, CallSet
  <2>4. g \in Frames
    BY <2>2, <2>3 DEF Frames
  <2>5. g.call = [f.call EXCEPT !.disturbed = TRUE]
    BY <2>2 DEF Frames
  <2>6. g.pc = f.pc /\ g.hsig = f.hsig /\ g.saved = f.saved /\ g.restorer = f.restorer
    BY <2>2 DEF Frames
  <2>7. /\ g.call.op = f.call.op /\ g.call.sig = f.call.sig /\ g.call.arg = f.call.arg
        /\ g.call.rc = f.call.rc /\ g.call.truth = f.call.truth
        /\ g.call.owed = f.call.owed
    <3>1. f.call \in CallSet
      BY DEF Frames
    <3> QED BY <2>5, <3>1 DEF CallSet
  <2>8. g.call.disturbed
    <3>1. f.call \in CallSet
      BY DEF Frames
    <3> QED BY <2>5, <3>1 DEF CallSet
  <2> QED BY <2>1, <2>4, <2>6, <2>7, <2>8, Zenon
<1> QED BY <1>1, <1>2

(* libsys_errno is stored: it is this call's own, and every interrupted    *)
(* call that had stored before is marked.                                  *)
LEMMA StoreErrnoKeeps ==
  ASSUME IInv, StoreErrno
  PROVE  IInv'
<1> DEFINE n == Len(ctx)
           c == [Top EXCEPT !.pc = "wrap"]
<1>1. TypeOK /\ Nested /\ FramesSane /\ BlockKept /\ ErrnoKept /\ RaisesDue
  BY DEF IInv
<1>2. /\ Top \in Frames /\ Top.pc = "store" /\ Sane(Top) /\ n \in Nat \ {0}
      /\ abi[n] = Top.call.truth /\ status = "alive" /\ ~ irq /\ Top = ctx[n]
      /\ DOMAIN ctx = 1 .. n
  BY <1>1 DEF TypeOK, FramesSane, BlockKept, Top, StoreErrno, Running
<1>3. UNCHANGED <<abi, errno, disp, blocked, pending, irq, status, sends, seen>>
  BY DEF StoreErrno, kernel
<1>4. c \in Frames /\ c.pc = "wrap" /\ c.hsig = Top.hsig /\ c.saved = Top.saved
      /\ c.restorer = Top.restorer /\ c.call = Top.call
  BY <1>2 DEF Frames
<1>5. ctx' = [d \in 1 .. n |-> IF d = n THEN c ELSE Disturbed(ctx[d])]
  BY <1>2 DEF StoreErrno
<1> HIDE DEF c
<1>6. \A d \in 1 .. n : ctx[d] \in Frames
  BY <1>1 DEF TypeOK
<1>7. \A d \in 1 .. n : ctx'[d] \in Frames
  <2>1. \A d \in 1 .. n : Disturbed(ctx[d]) \in Frames
    BY <1>6, DisturbedFrame
  <2>2. \A d \in 1 .. n : ctx'[d] = IF d = n THEN c ELSE Disturbed(ctx[d])
    BY <1>5
  <2> QED BY <1>4, <2>1, <2>2, Zenon
<1>8. ctx' \in Seq(Frames) /\ Len(ctx') = n
  <2>1. ctx' \in [1 .. n -> Frames]
    BY <1>5, <1>7, Zenon
  <2> HIDE DEF n
  <2> QED BY <1>2, <2>1
<1>9. \A d \in 1 .. n :
        LET f == ctx[d] g == ctx'[d] IN
        /\ d # n => g.pc = f.pc
        /\ g.hsig = f.hsig /\ g.saved = f.saved
        /\ g.restorer = f.restorer
        /\ g.call.op = f.call.op /\ g.call.sig = f.call.sig
        /\ g.call.arg = f.call.arg /\ g.call.rc = f.call.rc
        /\ g.call.truth = f.call.truth /\ g.call.owed = f.call.owed
        /\ (d # n /\ f.pc = "wrap") => g.call.disturbed
  <2> TAKE d \in 1 .. n
  <2>1. CASE d = n
    BY <1>2, <1>4, <1>5, <2>1
  <2>2. CASE d # n
    <3>1. ctx'[d] = Disturbed(ctx[d]) /\ ctx[d] \in Frames
      BY <1>5, <1>6, <2>2
    <3> QED BY <2>2, <3>1, DisturbedFrame
  <2> QED BY <2>1, <2>2
<1>n. n \in Nat /\ n \in 1 .. n
  BY <1>2
<1>10. ctx'[n] = c
  BY <1>n, <1>5
<1>p. \A d \in 1 .. n :
        /\ d = n => ctx'[d].pc = "wrap" /\ ctx[d].pc = "store"
        /\ d # n => ctx'[d].pc = ctx[d].pc
  <2>1. ctx'[n].pc = "wrap" /\ ctx[n].pc = "store"
    BY <1>2, <1>4, <1>10
  <2> QED BY <1>9, <2>1, Zenon
<1>11. libsys_errno' = ErrnoOf(c.call.rc, c.call.truth.err) /\ libsys_errno' \in Nat
  <2>1. libsys_errno' = ErrnoOf(c.call.rc, c.call.truth.err)
    BY <1>2, <1>4 DEF StoreErrno, AbiSlot
  <2>2. c.call.truth.err \in Nat
    BY <1>4 DEF Frames, CallSet, AnswerSet
  <2> QED BY <2>1, <2>2 DEF ErrnoOf
<1>12. TypeOK'
  BY <1>1, <1>2, <1>3, <1>8, <1>11 DEF TypeOK
<1>13. Nested'
  <2> SUFFICES ASSUME NEW d \in 2 .. n
               PROVE  /\ ctx'[d].hsig \in Signal /\ ctx'[d].restorer
                      /\ ctx'[d].hsig \notin ctx'[d].saved
                      /\ ctx'[d].hsig \in blocked
                      /\ \A e \in d + 1 .. n : ctx'[d].hsig \in ctx'[e].saved
                      /\ ctx'[d].call.op \notin {"sigaction", "sigprocmask"}
    BY <1>3, <1>8 DEF Nested
  <2>1. d \in 1 .. n /\ \A e \in d + 1 .. n : e \in 1 .. n
    BY <1>2
  <2> QED BY <1>1, <1>9, <2>1 DEF Nested
<1>14. FramesSane'
  <2>a. ~ ctx'[1].restorer
    BY <1>1, <1>n, <1>9 DEF FramesSane
  <2> SUFFICES ASSUME NEW d \in 1 .. n PROVE Sane(ctx'[d])
    BY <1>8, <2>a DEF FramesSane
  <2>1. Sane(ctx[d])
    BY <1>1 DEF FramesSane
  <2>p. (ctx'[d].pc = "wrap" /\ ctx[d].pc = "store") \/ ctx'[d].pc = ctx[d].pc
    BY <1>p, Zenon
  <2>2. Answered(ctx'[d].pc) => Answered(ctx[d].pc)
    BY <2>p DEF Answered
  <2>3. ctx'[d].pc \in {"store", "wrap", "ret"} => ctx[d].pc \in {"store", "wrap", "ret"}
    BY <2>p
  <2>4. ctx'[d].pc = "restorer" => ctx[d].pc = "restorer"
    BY <2>p
  <2> QED BY <1>9, <2>1, <2>2, <2>3, <2>4 DEF Sane
<1>15. BlockKept'
  <2> SUFFICES ASSUME NEW d \in 1 .. n, ctx'[d].pc \in {"load", "store"}
               PROVE  abi[d] = ctx'[d].call.truth
    BY <1>3, <1>8 DEF BlockKept
  <2>1. d # n
    BY <1>p
  <2> QED BY <1>1, <1>9, <2>1 DEF BlockKept
<1>16. ErrnoKept'
  <2> SUFFICES ASSUME NEW d \in 1 .. n, ctx'[d].pc = "wrap", ~ ctx'[d].call.disturbed
               PROVE  libsys_errno' = ErrnoOf(ctx'[d].call.rc, ctx'[d].call.truth.err)
    BY <1>8 DEF ErrnoKept
  <2>1. d = n
    BY <1>9
  <2> QED BY <1>10, <1>11, <2>1
<1>17. RaisesDue'
  <2> SUFFICES ASSUME NEW d \in 1 .. n PROVE Due(d)'
    BY <1>8 DEF RaisesDue
  <2>1. Due(d)
    BY <1>1, <1>2 DEF RaisesDue
  <2>2. Mask(d)' = Mask(d)
    <3>1. d # n => ctx'[d + 1].saved = ctx[d + 1].saved
      <4>1. d # n => d + 1 \in 1 .. n
        BY <1>n
      <4> QED BY <1>9, <4>1
    <3> QED BY <1>3, <1>8, <3>1 DEF Mask
  <2>p. (ctx'[d].pc = "wrap" /\ ctx[d].pc = "store") \/ ctx'[d].pc = ctx[d].pc
    BY <1>p, Zenon
  <2>3. Answered(ctx'[d].pc) => Answered(ctx[d].pc)
    BY <2>p DEF Answered
  <2> QED BY <1>3, <1>8, <1>9, <2>1, <2>2, <2>3 DEF Due
<1> QED BY <1>12, <1>13, <1>14, <1>15, <1>16, <1>17 DEF IInv

(* sigreturn: the mask goes back to what the interrupted code ran under,   *)
(* and the kernel looks for signals before it resumes that code.           *)
LEMMA SigreturnKeeps ==
  ASSUME IInv, Sigreturn
  PROVE  IInv'
<1> DEFINE n == Len(ctx)
<1>1. TypeOK /\ Nested /\ FramesSane /\ BlockKept /\ ErrnoKept /\ RaisesDue
  BY DEF IInv
<1>2. /\ Top \in Frames /\ Top.pc = "restorer" /\ Sane(Top) /\ Top = ctx[n]
      /\ status = "alive"
  BY <1>1 DEF TypeOK, FramesSane, Top, Sigreturn, Running
<1>3. n \in Nat /\ n > 1
  <2>1. n \in Nat /\ n > 0
    BY <1>1 DEF TypeOK
  <2>2. Top.restorer
    BY <1>2 DEF Sane
  <2> QED BY <1>1, <1>2, <2>1, <2>2 DEF FramesSane
<1>4. /\ UNCHANGED <<abi, libsys_errno, errno, disp, pending, status, sends, seen>>
      /\ blocked' = ctx[n].saved /\ irq' = TRUE /\ ctx' = SubSeq(ctx, 1, n - 1)
  BY <1>2 DEF Sigreturn
<1>5. /\ ctx' \in Seq(Frames) /\ Len(ctx') = n - 1
      /\ \A d \in 1 .. n - 1 : ctx'[d] = ctx[d]
  BY <1>1, <1>3, <1>4 DEF TypeOK
<1>6. blocked' \in SUBSET Signal
  BY <1>2, <1>4 DEF Frames
<1>7. TypeOK'
  BY <1>1, <1>3, <1>4, <1>5, <1>6 DEF TypeOK
<1>8. Nested'
  <2> SUFFICES ASSUME NEW d \in 2 .. n - 1
               PROVE  /\ ctx[d].hsig \in Signal /\ ctx[d].restorer
                      /\ ctx[d].hsig \notin ctx[d].saved
                      /\ ctx[d].hsig \in ctx[n].saved
                      /\ \A e \in d + 1 .. n - 1 : ctx[d].hsig \in ctx[e].saved
                      /\ ctx[d].call.op \notin {"sigaction", "sigprocmask"}
    <3>1. \A d \in 2 .. n - 1 : d \in 1 .. n - 1 /\ \A e \in d + 1 .. n - 1 : e \in 1 .. n - 1
      BY <1>3
    <3> QED BY <1>4, <1>5, <3>1 DEF Nested
  <2>1. d \in 2 .. n /\ n \in d + 1 .. n /\ \A e \in d + 1 .. n - 1 : e \in d + 1 .. n
    BY <1>3
  <2> QED BY <1>1, <2>1 DEF Nested
<1>a. 1 \in 1 .. n - 1 /\ \A d \in 1 .. n - 1 : d \in 1 .. n
  BY <1>3
<1>9. FramesSane'
  BY <1>1, <1>5, <1>a DEF FramesSane
<1>10. BlockKept'
  BY <1>1, <1>4, <1>5, <1>a DEF BlockKept
<1>11. ErrnoKept'
  BY <1>1, <1>4, <1>5, <1>a DEF ErrnoKept
<1>12. RaisesDue'
  <2> SUFFICES ASSUME NEW d \in 1 .. n - 1 PROVE Due(d)'
    BY <1>5 DEF RaisesDue
  <2>1. Due(d) /\ d # n
    BY <1>1, <1>2, <1>3 DEF RaisesDue
  <2>2. Mask(d)' = Mask(d) /\ ctx'[d] = ctx[d]
    BY <1>3, <1>4, <1>5 DEF Mask
  <2> QED BY <1>4, <1>5, <2>1, <2>2 DEF Due
<1> QED BY <1>7, <1>8, <1>9, <1>10, <1>11, <1>12 DEF IInv

(* The kernel starts a handler, drops an ignored signal or ends the        *)
(* process: the raise that waits for this signal has been served.          *)
LEMMA DeliverKeeps ==
  ASSUME IInv, NEW s \in Signal, Deliver(s)
  PROVE  IInv'
<1> DEFINE n == Len(ctx)
           h == [pc |-> "user", left |-> HandlerCalls, call |-> Idle,
                 hsig |-> s, saved |-> blocked, restorer |-> disp[s].restorer]
<1>1. TypeOK /\ Nested /\ FramesSane /\ BlockKept /\ ErrnoKept /\ RaisesDue
  BY DEF IInv
<1>2. /\ UNCHANGED <<abi, libsys_errno, errno, disp, sends>>
      /\ pending' = pending \ {s} /\ irq' = (disp[s].handler = "ign")
      /\ s \in pending /\ s \notin blocked /\ status = "alive" /\ irq
  BY DEF Deliver, Deliverable
<1>3. n \in Nat /\ n > 0 /\ irq' \in BOOLEAN
  BY <1>1, <1>2 DEF TypeOK
<1>4. disp[s] \in Installed
  BY <1>1 DEF TypeOK
<1>5. CASE disp[s].handler = "fn"
  <2>1. /\ ctx' = Append(ctx, h) /\ blocked' = blocked \cup {s}
        /\ seen' = [seen EXCEPT ![s] = @ + 1] /\ status' = status
    BY <1>5 DEF Deliver
  <2>2. disp[s].restorer = TRUE
    BY <1>4, <1>5 DEF Installed, SIG_DFL, SIG_IGN, Handler
  <2>3. Answer \in AnswerSet
    BY DEF Answer, AnswerSet
  <2>4. Idle \in CallSet /\ Idle.op = "none"
    BY <2>3 DEF CallSet, Idle
  <2>5. /\ h \in Frames /\ h.pc = "user" /\ h.call = Idle /\ h.hsig = s
        /\ h.saved = blocked /\ h.restorer
    BY <1>1, <2>2, <2>4, SignalsAssumption DEF Frames, TypeOK
  <2> HIDE DEF h
  <2>6. /\ ctx' \in Seq(Frames) /\ Len(ctx') = n + 1 /\ ctx'[n + 1] = h
        /\ \A d \in 1 .. n : ctx'[d] = ctx[d]
    BY <1>1, <2>1, <2>5 DEF TypeOK
  <2>7. seen' \in [Signal -> Nat] /\ seen'[s] = seen[s] + 1
        /\ \A t \in Signal : t # s => seen'[t] = seen[t]
    BY <1>1, <2>1 DEF TypeOK
  <2>8. TypeOK'
    BY <1>1, <1>2, <1>3, <2>1, <2>6, <2>7 DEF TypeOK
  <2>9. Nested'
    <3> SUFFICES ASSUME NEW d \in 2 .. n + 1
                 PROVE  /\ ctx'[d].hsig \in Signal /\ ctx'[d].restorer
                        /\ ctx'[d].hsig \notin ctx'[d].saved
                        /\ ctx'[d].hsig \in blocked'
                        /\ \A e \in d + 1 .. n + 1 : ctx'[d].hsig \in ctx'[e].saved
                        /\ ctx'[d].call.op \notin {"sigaction", "sigprocmask"}
      BY <2>6 DEF Nested
    <3>1. CASE d = n + 1
      BY <1>2, <1>3, <2>1, <2>4, <2>5, <2>6, <3>1
    <3>2. CASE d # n + 1
      <4>1. d \in 2 .. n /\ d \in 1 .. n /\ ctx'[d] = ctx[d]
        BY <1>3, <2>6, <3>2
      <4>2. \A e \in d + 1 .. n + 1 : e = n + 1 \/ (e \in d + 1 .. n /\ e \in 1 .. n)
        BY <1>3
      <4>3. \A e \in d + 1 .. n + 1 : ctx'[d].hsig \in ctx'[e].saved
        BY <1>1, <2>5, <2>6, <4>1, <4>2 DEF Nested
      <4> QED BY <1>1, <2>1, <4>1, <4>3 DEF Nested
    <3> QED BY <3>1, <3>2
  <2>10. FramesSane'
    <3>1. Sane(h)
      BY <2>4, <2>5 DEF Sane, Answered
    <3> QED BY <1>1, <1>3, <2>6, <3>1 DEF FramesSane
  <2>11. BlockKept'
    BY <1>1, <1>2, <1>3, <2>5, <2>6 DEF BlockKept
  <2>12. ErrnoKept'
    BY <1>1, <1>2, <1>3, <2>5, <2>6 DEF ErrnoKept
  <2>13. RaisesDue'
    <3> SUFFICES ASSUME NEW d \in 1 .. n + 1 PROVE Due(d)'
      BY <2>6 DEF RaisesDue
    <3>1. CASE d = n + 1
      BY <2>5, <2>6, <3>1 DEF Due, Answered
    <3>2. CASE d # n + 1
      <4>1. d \in 1 .. n /\ ctx'[d] = ctx[d] /\ Due(d) /\ Sane(ctx[d])
        BY <1>1, <1>2, <1>3, <2>6, <3>2 DEF RaisesDue, FramesSane
      <4>2. Mask(d)' = Mask(d)
        <5>1. CASE d = n
          BY <1>3, <2>5, <2>6, <5>1 DEF Mask
        <5>2. CASE d # n
          <6>1. d + 1 \in 1 .. n /\ d # n + 1
            BY <1>3, <4>1, <5>2
          <6> QED BY <2>6, <5>2, <6>1 DEF Mask
        <5> QED BY <5>1, <5>2
      <4> DEFINE c == ctx[d].call
      <4>3. SUFFICES ASSUME Answered(ctx[d].pc), c.op = "kill", c.truth.ret >= 0, c.owed > 0
                     PROVE  \/ seen'[c.sig] >= c.owed
                            \/ /\ c.sig \in pending' /\ c.sig \notin Mask(d)
                               /\ c.owed <= seen'[c.sig] + 1
                               /\ disp[c.sig].handler = "fn"
        BY <1>2, <2>6, <3>2, <4>1, <4>2 DEF Due
      <4>4. c.sig \in Signal /\ c.owed \in Nat /\ seen[c.sig] \in Nat
        <5>1. c.sig \in Signal
          BY <4>1, <4>3 DEF Sane
        <5>2. ctx[d] \in Frames
          BY <1>1, <4>1 DEF TypeOK
        <5> QED BY <1>1, <5>1, <5>2 DEF TypeOK, Frames, CallSet
      <4>5. \/ seen[c.sig] >= c.owed
            \/ /\ c.sig \in pending /\ c.sig \notin Mask(d)
               /\ c.owed <= seen[c.sig] + 1 /\ disp[c.sig].handler = "fn"
        BY <4>1, <4>3 DEF Due
      <4> HIDE DEF c
      <4>6. CASE c.sig = s
        BY <2>7, <4>4, <4>5, <4>6
      <4>7. CASE c.sig # s
        BY <1>2, <2>7, <4>4, <4>5, <4>7
      <4> QED BY <4>6, <4>7
    <3> QED BY <3>1, <3>2
  <2> QED BY <2>8, <2>9, <2>10, <2>11, <2>12, <2>13 DEF IInv
<1>6. CASE disp[s].handler # "fn"
  <2>1. UNCHANGED <<ctx, blocked, seen>> /\ status' \in {status, "killed"}
        /\ (status' = "alive" => disp[s].handler = "ign")
    <3>1. CASE disp[s].handler = "dfl"
      BY <3>1 DEF Deliver
    <3>2. CASE disp[s].handler # "dfl"
      <4>1. disp[s].handler = "ign"
        BY <1>4, <1>6, <3>2 DEF Installed, SIG_DFL, SIG_IGN, Handler
      <4> QED BY <1>6, <3>2, <4>1 DEF Deliver
    <3> QED BY <3>1, <3>2
  <2>2. TypeOK'
    BY <1>1, <1>2, <1>3, <2>1 DEF TypeOK
  <2>3. Nested' /\ FramesSane' /\ BlockKept' /\ ErrnoKept'
    BY <1>1, <1>2, <2>1 DEF Nested, FramesSane, BlockKept, ErrnoKept
  <2>4. RaisesDue'
    <3> SUFFICES ASSUME status' = "alive", NEW d \in 1 .. n PROVE Due(d)'
      BY <2>1 DEF RaisesDue
    <3>1. irq' = TRUE /\ disp[s].handler # "fn"
      BY <1>2, <2>1, <1>6
    <3>2. Due(d) /\ Mask(d)' = Mask(d)
      BY <1>1, <1>2, <2>1 DEF RaisesDue, Mask
    <3> QED BY <1>2, <2>1, <3>1, <3>2 DEF Due
  <2> QED BY <2>2, <2>3, <2>4 DEF IInv
<1> QED BY <1>5, <1>6

(* The remaining steps of the kernel and of other processes. *)
LEMMA KernelStepKeeps ==
  ASSUME IInv, SigreturnFails \/ IrqReturns \/ DeviceIrq \/ \E s \in Signal : Post(s)
  PROVE  IInv'
<1>1. TypeOK /\ Nested /\ FramesSane /\ BlockKept /\ ErrnoKept /\ RaisesDue
  BY DEF IInv
<1>2. /\ UNCHANGED <<ctx, abi, libsys_errno, errno, disp, blocked, seen>>
      /\ pending \subseteq pending' /\ pending' \in SUBSET Signal
      /\ irq' \in BOOLEAN /\ sends' \in Nat
      /\ status' \in {status, "exit127"}
      /\ irq' = irq \/ irq' = TRUE \/ Deliverable = {}
  <2>1. pending \in SUBSET Signal /\ irq \in BOOLEAN /\ sends \in Nat
    BY <1>1 DEF TypeOK
  <2>2. CASE SigreturnFails
    BY <2>1, <2>2 DEF SigreturnFails
  <2>3. CASE IrqReturns
    BY <2>1, <2>3 DEF IrqReturns
  <2>4. CASE DeviceIrq
    BY <2>1, <2>4 DEF DeviceIrq
  <2>5. CASE \E s \in Signal : Post(s)
    BY <2>1, <2>5 DEF Post, Sent
  <2> QED BY <2>2, <2>3, <2>4, <2>5
<1>3. TypeOK'
  BY <1>1, <1>2 DEF TypeOK
<1>4. Nested' /\ FramesSane' /\ BlockKept' /\ ErrnoKept'
  BY <1>1, <1>2 DEF Nested, FramesSane, BlockKept, ErrnoKept
<1>5. RaisesDue'
  <2> SUFFICES ASSUME status' = "alive", NEW d \in 1 .. Len(ctx) PROVE Due(d)'
    BY <1>2 DEF RaisesDue
  <2>1. Due(d) /\ Mask(d)' = Mask(d)
    BY <1>1, <1>2 DEF RaisesDue, Mask
  <2>2. CASE irq' = irq \/ irq' = TRUE
    BY <1>2, <2>1, <2>2 DEF Due
  <2>3. CASE Deliverable = {}
    BY <1>2, <2>1, <2>3 DEF Due, Mask, Deliverable
  <2> QED BY <1>2, <2>2, <2>3
<1> QED BY <1>3, <1>4, <1>5 DEF IInv

-----------------------------------------------------------------------------
(* The theorems *)

(* The invariant holds when the program starts. *)
LEMMA InitKeeps == Init => IInv
<1> SUFFICES ASSUME Init PROVE IInv
  OBVIOUS
<1>1. Answer \in AnswerSet
  BY DEF Answer, AnswerSet
<1>2. Idle \in CallSet /\ Idle.op = "none"
  BY <1>1 DEF CallSet, Idle
<1>3. Main \in Frames /\ Main.pc = "user" /\ ~ Main.restorer /\ Main.call = Idle
  BY <1>2, SignalsAssumption DEF Frames, Main
<1>4. ctx \in Seq(Frames) /\ Len(ctx) = 1 /\ ctx[1] = Main
  BY <1>3 DEF Init
<1>5. TypeOK
  <2>1. SIG_DFL \in Installed
    BY DEF Installed
  <2>2. disp \in [Signal -> Installed] /\ seen \in [Signal -> Nat]
        /\ abi \in [1 .. MaxDepth + 1 -> AnswerSet]
    BY <1>1, <2>1 DEF Init
  <2>3. libsys_errno \in Nat /\ errno \in Nat /\ sends \in Nat
        /\ blocked \in SUBSET Signal /\ pending \in SUBSET Signal
        /\ status \in {"alive", "killed", "exit127"}
    BY DEF Init
  <2>4. irq \in BOOLEAN
    BY DEF Init
  <2> QED BY <1>4, <2>2, <2>3, <2>4 DEF TypeOK
<1>6. Sane(Main)
  BY <1>2, <1>3 DEF Sane, Answered
<1>7. Nested /\ FramesSane /\ BlockKept /\ ErrnoKept /\ RaisesDue
  BY <1>3, <1>4, <1>6 DEF Nested, FramesSane, BlockKept, ErrnoKept, RaisesDue, Due, Answered
<1> QED BY <1>5, <1>7 DEF IInv

(* Every step preserves the invariant. *)
LEMMA NextKeeps == IInv /\ [Next]_vars => IInv'
<1> SUFFICES ASSUME IInv, [Next]_vars PROVE IInv'
  OBVIOUS
<1>1. CASE UserCall
  BY <1>1, UserCallKeeps
<1>2. CASE CpuStep
  BY <1>2, TrapKeeps, LoadRetKeeps, StoreErrnoKeeps, WrapKeeps, RaiseKillKeeps,
     ResumeKeeps, SigreturnKeeps, KernelStepKeeps, DeliverKeeps DEF CpuStep
<1>3. CASE HandlerReturns
  BY <1>3, HandlerReturnsKeeps
<1>4. CASE SigreturnFails \/ DeviceIrq \/ \E s \in Signal : Post(s)
  BY <1>4, KernelStepKeeps
<1>5. CASE UNCHANGED vars
  BY <1>5 DEF vars, IInv, TypeOK, Nested, FramesSane, BlockKept, ErrnoKept, RaisesDue,
              Due, Mask
<1> QED BY <1>1, <1>2, <1>3, <1>4, <1>5 DEF Next

(* The types of every variable, whatever the number of signals, and the    *)
(* nesting of handlers that keeps every call's ABI block apart.            *)
THEOREM Typed == Spec => [](TypeOK /\ Nested)
<1>1. IInv => TypeOK /\ Nested
  BY DEF IInv
<1> QED BY <1>1, InitKeeps, NextKeeps, PTL DEF Spec

(* ReturnsOwnAnswer: libsys_call6 and its wrappers return the kernel's     *)
(* answer to that very call, for any number of signals nested on it.       *)
THEOREM OwnAnswer == Spec => []ReturnsOwnAnswer
<1>1. IInv => ReturnsOwnAnswer
  BY DEF IInv, FramesSane, Sane, ReturnsOwnAnswer
<1> QED BY <1>1, InitKeeps, NextKeeps, PTL DEF Spec

(* RaiseDelivers: raise returns 0 only after the handler it owes has been  *)
(* started, whatever other signals were delivered in between.              *)
THEOREM RaiseIsSynchronous == Spec => []RaiseDelivers
<1>1. IInv => RaiseDelivers
  <2> SUFFICES ASSUME IInv, Top.pc = "ret", ~ irq, Top.call.op = "kill", Top.call.rc = 0,
                      Top.call.owed > 0, status = "alive"
               PROVE  seen[Top.call.sig] >= Top.call.owed
    BY DEF RaiseDelivers
  <2>1. Len(ctx) \in 1 .. Len(ctx) /\ Top = ctx[Len(ctx)]
    BY DEF IInv, TypeOK, Top
  <2>2. Due(Len(ctx)) /\ Sane(Top)
    BY <2>1 DEF IInv, RaisesDue, FramesSane
  <2>3. Top.call.truth.ret = 0
    BY <2>2 DEF Sane
  <2> QED BY <2>1, <2>2, <2>3 DEF Due, Answered
<1> QED BY <1>1, InitKeeps, NextKeeps, PTL DEF Spec

(* ErrnoIsOwn: the errno a wrapper leaves is the kernel's error number for *)
(* its own call, or 0, unless a handler made a call in the one window      *)
(* between the stub and the wrapper.                                       *)
THEOREM OwnErrno == Spec => ErrnoIsOwn
<1> DEFINE A == Wrap /\ Top.call.op # "sigaction" /\ (Top.call.disturbed => Top.call.rc >= 0)
                  => errno' = Top.call.truth.err
<1>1. IInv /\ [Next]_vars => [A]_vars
  <2> SUFFICES ASSUME IInv, Wrap, Top.call.op # "sigaction",
                      Top.call.disturbed => Top.call.rc >= 0
               PROVE  errno' = Top.call.truth.err
    OBVIOUS
  <2>1. /\ Len(ctx) \in 1 .. Len(ctx) /\ Top = ctx[Len(ctx)] /\ Top \in Frames
        /\ Top.pc = "wrap"
    BY DEF IInv, TypeOK, Top, Wrap, Running
  <2>2. Sane(Top)
    BY <2>1 DEF IInv, FramesSane
  <2>3. Top.call.rc = Top.call.truth.ret
    BY <2>1, <2>2 DEF Sane
  <2>4. /\ Top.call.rc \in {-1, 0, Pid}
        /\ Top.call.rc # -1 => Top.call.truth.err = 0
    BY <2>1, <2>3 DEF Frames, CallSet, AnswerSet
  <2>5. CASE Top.call.rc = -1
    <3>1. libsys_errno = Top.call.truth.err
      BY <2>1, <2>5 DEF IInv, ErrnoKept, ErrnoOf
    <3> QED BY <2>5, <3>1 DEF Wrap
  <2>6. CASE Top.call.rc # -1
    BY <2>4, <2>6, SignalsAssumption DEF Wrap
  <2> QED BY <2>5, <2>6
<1>2. Spec => []IInv
  BY InitKeeps, NextKeeps, PTL DEF Spec
<1> QED BY <1>1, <1>2, PTL DEF Spec, ErrnoIsOwn

(* The safety half of HandlersComeBack: no handler returns to nowhere,     *)
(* because sigaction supplies __lamp_signal_restorer to every handler.     *)
THEOREM NeverCrashes == Spec => [](status # "crashed")
<1>1. IInv => status # "crashed"
  BY DEF IInv, TypeOK
<1> QED BY <1>1, InitKeeps, NextKeeps, PTL DEF Spec
=============================================================================
