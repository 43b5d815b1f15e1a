------------------------------ MODULE Signals ------------------------------
(***************************************************************************)
(* System calls and signal handlers of one process.  The system-call stub  *)
(* libsys_call6 (lib/libsys.c), the errno wrapper ret_errno                *)
(* (lib/libc_internal.h) and the signal calls of lib/libc_signal.c run     *)
(* step by step; between any two steps an interrupt may enter the kernel,  *)
(* which starts a handler on top of the interrupted code.  The kernel is   *)
(* modelled from how the library and tests/signal_delivery.c use it.       *)
(*                                                                         *)
(* A definition named D_suffix in front of D is D with a plausible bug.    *)
(***************************************************************************)
EXTENDS Integers, Sequences, FiniteSets

CONSTANTS
  Signal,        \* the signals in play
  Errno,         \* the error numbers the kernel may answer with
  Pid,           \* the process's own id
  MainCalls,     \* bound: calls made by the main program
  HandlerCalls,  \* bound: calls made by one run of a handler
  MaxSends       \* bound: signals sent by raise and by other processes

ASSUME SignalsAssumption ==
  /\ Errno \subseteq Nat \ {0} /\ Pid \in Nat \ {0}
  /\ MainCalls \in Nat /\ HandlerCalls \in Nat
  /\ IsFiniteSet(Signal) /\ MaxSends \in Nat

VARIABLES
  ctx,           \* the main program, then the handlers nested on it
  abi,           \* the ABI blocks, by stack slot
  libsys_errno, errno,
  disp,          \* kernel: the action of every signal
  blocked,       \* kernel: the signal mask
  pending,       \* kernel: signals sent and not yet delivered
  irq,           \* kernel: an interrupt is about to return to user code
  status,        \* kernel: "alive", or how the process ended
  sends,         \* how many signals have been sent
  seen           \* ghost: how often the handler of a signal was started

vars == <<ctx, abi, libsys_errno, errno, disp, blocked, pending, irq, status,
          sends, seen>>

NONE == 0
SIG_DFL == [handler |-> "dfl", restorer |-> FALSE]
SIG_IGN == [handler |-> "ign", restorer |-> FALSE]

(* What an application passes to sigaction or signal: sa_restorer is 0. *)
Handler == [handler |-> "fn", restorer |-> FALSE]

Answer == [ret |-> 0, err |-> 0]

Idle == [op |-> "none", sig |-> NONE, arg |-> NONE, rc |-> 0,
         truth |-> Answer, disturbed |-> FALSE, owed |-> 0]

Main == [pc |-> "user", left |-> MainCalls, call |-> Idle,
         hsig |-> NONE, saved |-> {}, restorer |-> FALSE]

Top == ctx[Len(ctx)]

SetTop(c) == ctx' = [ctx EXCEPT ![Len(ctx)] = c]

(* User code runs only when no interrupt is being served. *)
Running(pc) == status = "alive" /\ ~ irq /\ Top.pc = pc

AbiSlot_fixed(depth) == 1

(* A signal is blocked while its handler runs: at most one handler of each *)
(* is nested on the main program.                                          *)
MaxDepth == Cardinality(Signal)

(* The stack slot of the ABI block of the call at this depth. *)
AbiSlot(depth) == depth

kernel == <<disp, blocked, pending, irq, status, sends, seen>>

-----------------------------------------------------------------------------
Init ==
  /\ ctx = <<Main>>
  /\ abi = [d \in 1 .. MaxDepth + 1 |-> Answer]
  /\ libsys_errno = 0 /\ errno = 0
  /\ disp = [s \in Signal |-> SIG_DFL]
  /\ blocked = {} /\ pending = {} /\ irq = FALSE
  /\ status = "alive" /\ sends = 0
  /\ seen = [s \in Signal |-> 0]

-----------------------------------------------------------------------------
(* Entering a libc call: everything up to the trap. *)

Enter(op, sig, arg) ==
  /\ Running("user") /\ Top.left > 0
  /\ SetTop([Top EXCEPT !.pc = "trap", !.left = @ - 1,
                        !.call = [Idle EXCEPT !.op = op, !.sig = sig, !.arg = arg]])
  /\ UNCHANGED <<abi, libsys_errno, errno, disp, blocked, pending, irq, status, seen>>

(* close, read, write...: any call that is one system call and ret_errno. *)
PlainCall == Enter("plain", NONE, NONE) /\ UNCHANGED sends

DefaultRestorer_missing(act) == act

(* sigaction supplies __lamp_signal_restorer when the caller gave none. *)
DefaultRestorer(act) ==
  IF act.handler = "fn" /\ ~ act.restorer
  THEN [act EXCEPT !.restorer = TRUE] ELSE act

Sigaction(s, act) ==
  Enter("sigaction", s, DefaultRestorer(act)) /\ UNCHANGED sends

Sigprocmask(s, how) == Enter("sigprocmask", s, how) /\ UNCHANGED sends

(* raise(sig) is kill(getpid(), sig): it starts with getpid. *)
Raise(s) ==
  /\ sends < MaxSends /\ sends' = sends + 1
  /\ Enter("getpid", s, NONE)

-----------------------------------------------------------------------------
(* The kernel serves the trap and fills the caller's ABI block. *)

Ok(v) == [ret |-> v, err |-> 0]
Failed(e) == [ret |-> -1, err |-> e]

(* getpid cannot fail; any other call succeeds or answers an error. *)
Answers(c) ==
  IF c.op = "getpid" THEN {Ok(Pid)} ELSE {Ok(0)} \cup {Failed(e) : e \in Errno}

(* A signal is remembered unless it is ignored. *)
Sent(s) == IF disp[s].handler = "ign" THEN pending ELSE pending \cup {s}

(* What a successful call does in the kernel. *)
KernelEffect(c) ==
  /\ disp' = IF c.op = "sigaction" THEN [disp EXCEPT ![c.sig] = c.arg] ELSE disp
  /\ blocked' = CASE c.op = "sigprocmask" /\ c.arg = "block" -> blocked \cup {c.sig}
                  [] c.op = "sigprocmask" /\ c.arg = "unblock" -> blocked \ {c.sig}
                  [] OTHER -> blocked
  /\ pending' = IF c.op = "kill" /\ c.arg = Pid THEN Sent(c.sig) ELSE pending

(* Ghost: how often the handler must have started once raise returns. *)
Owed(c) ==
  IF c.op = "kill" /\ c.sig \notin blocked /\ disp[c.sig].handler = "fn"
  THEN seen[c.sig] + 1 ELSE 0

Trap ==
  /\ Running("trap")
  /\ \E a \in Answers(Top.call) :
       /\ abi' = [abi EXCEPT ![AbiSlot(Len(ctx))] = a]
       /\ SetTop([Top EXCEPT !.pc = "load", !.call.truth = a,
                             !.call.owed = Owed(Top.call)])
       /\ IF a.ret < 0 THEN UNCHANGED <<disp, blocked, pending>>
                       ELSE KernelEffect(Top.call)
  /\ irq' = TRUE
  /\ UNCHANGED <<libsys_errno, errno, status, sends, seen>>

-----------------------------------------------------------------------------
(* Back from the trap: the rest of libsys_call6, then ret_errno. *)

LoadRet ==
  /\ Running("load")
  /\ SetTop([Top EXCEPT !.pc = "store", !.call.rc = abi[AbiSlot(Len(ctx))].ret])
  /\ UNCHANGED <<abi, libsys_errno, errno, kernel>>

(* Ghost: a call interrupted between its store of libsys_errno and its     *)
(* copy of it has now lost the value.                                      *)
Disturbed(c) == IF c.pc = "wrap" THEN [c EXCEPT !.call.disturbed = TRUE] ELSE c

ErrnoOf(rc, e) == IF rc = -1 THEN e ELSE 0

StoreErrno ==
  /\ Running("store")
  /\ libsys_errno' = ErrnoOf(Top.call.rc, abi[AbiSlot(Len(ctx))].err)
  /\ ctx' = [d \in DOMAIN ctx |->
               IF d = Len(ctx) THEN [Top EXCEPT !.pc = "wrap"] ELSE Disturbed(ctx[d])]
  /\ UNCHANGED <<abi, errno, kernel>>

(* ret_errno; sigaction copies errno only on failure. *)
Wrap ==
  /\ Running("wrap") /\ Top.call.op # "getpid"
  /\ errno' = IF Top.call.rc < 0 THEN libsys_errno
              ELSE IF Top.call.op = "sigaction" THEN errno ELSE 0
  /\ SetTop([Top EXCEPT !.pc = "ret", !.call.rc = IF @ < 0 THEN -1 ELSE @])
  /\ UNCHANGED <<abi, libsys_errno, kernel>>

KillArg_of_parent(rc) == rc - 1

KillArg(rc) == rc

(* getpid returned inside raise: go on with kill. *)
RaiseKill ==
  /\ Running("wrap") /\ Top.call.op = "getpid"
  /\ errno' = IF Top.call.rc < 0 THEN libsys_errno ELSE 0
  /\ SetTop([Top EXCEPT !.pc = "trap",
               !.call = [Idle EXCEPT !.op = "kill", !.sig = Top.call.sig,
                                     !.arg = KillArg(Top.call.rc)]])
  /\ UNCHANGED <<abi, libsys_errno, kernel>>

(* The application has looked at the result and goes on. *)
Resume ==
  /\ Running("ret")
  /\ SetTop([Top EXCEPT !.pc = "user", !.call = Idle])
  /\ UNCHANGED <<abi, libsys_errno, errno, kernel>>

-----------------------------------------------------------------------------
(* Leaving a handler, through __lamp_signal_restorer. *)

HandlerReturns ==
  /\ Running("user") /\ Len(ctx) > 1
  /\ IF Top.restorer
     THEN SetTop([Top EXCEPT !.pc = "restorer"]) /\ UNCHANGED status
     ELSE status' = "crashed" /\ UNCHANGED ctx
  /\ UNCHANGED <<abi, libsys_errno, errno, disp, blocked, pending, irq, sends, seen>>

(* sigreturn drops the handler and restores the mask it was started under. *)
Sigreturn ==
  /\ Running("restorer")
  /\ ctx' = SubSeq(ctx, 1, Len(ctx) - 1)
  /\ blocked' = Top.saved
  /\ irq' = TRUE
  /\ UNCHANGED <<abi, libsys_errno, errno, disp, pending, status, sends, seen>>

(* If sigreturn comes back, the restorer exits with status 127. *)
SigreturnFails ==
  /\ Running("restorer")
  /\ status' = "exit127"
  /\ UNCHANGED <<ctx, abi, libsys_errno, errno, disp, blocked, pending, irq, sends, seen>>

-----------------------------------------------------------------------------
(* The rest of the kernel, and the other processes *)

Deliverable == pending \ blocked

(* A handler or the default action takes over; an ignored signal is        *)
(* dropped and the kernel looks for the next one.                          *)
Deliver(s) ==
  /\ status = "alive" /\ irq /\ s \in Deliverable
  /\ pending' = pending \ {s}
  /\ irq' = (disp[s].handler = "ign")
  /\ CASE disp[s].handler = "fn" ->
            /\ ctx' = Append(ctx, [pc |-> "user", left |-> HandlerCalls, call |-> Idle,
                                   hsig |-> s, saved |-> blocked,
                                   restorer |-> disp[s].restorer])
            /\ blocked' = blocked \cup {s}
            /\ seen' = [seen EXCEPT ![s] = @ + 1]
            /\ UNCHANGED status
       [] disp[s].handler = "dfl" ->
            status' = "killed" /\ UNCHANGED <<ctx, blocked, seen>>
       [] OTHER -> UNCHANGED <<ctx, blocked, seen, status>>
  /\ UNCHANGED <<abi, libsys_errno, errno, disp, sends>>

IrqReturns ==
  /\ status = "alive" /\ irq /\ Deliverable = {}
  /\ irq' = FALSE
  /\ UNCHANGED <<ctx, abi, libsys_errno, errno, disp, blocked, pending, status, sends, seen>>

(* The timer, or any other device, interrupts user code.  Only an          *)
(* interrupt that finds a signal to deliver makes a difference.            *)
DeviceIrq ==
  /\ status = "alive" /\ ~ irq /\ Deliverable # {}
  /\ irq' = TRUE
  /\ UNCHANGED <<ctx, abi, libsys_errno, errno, disp, blocked, pending, status, sends, seen>>

Post(s) ==
  /\ status = "alive" /\ sends < MaxSends
  /\ sends' = sends + 1
  /\ pending' = Sent(s)
  /\ UNCHANGED <<ctx, abi, libsys_errno, errno, disp, blocked, irq, status, seen>>

-----------------------------------------------------------------------------
(* What user code may do: anything in the main program, plain calls and    *)
(* raise in a handler.                                                     *)
UserCall ==
  \/ PlainCall
  \/ \E s \in Signal : Raise(s)
  \/ /\ Len(ctx) = 1
     /\ \E s \in Signal :
          \/ \E act \in {SIG_DFL, SIG_IGN, Handler} : Sigaction(s, act)
          \/ \E how \in {"block", "unblock"} : Sigprocmask(s, how)

(* The steps the processor takes by itself once they are due. *)
CpuStep ==
  \/ Trap \/ LoadRet \/ StoreErrno \/ Wrap \/ RaiseKill \/ Resume
  \/ Sigreturn \/ IrqReturns \/ (\E s \in Signal : Deliver(s))

Next ==
  \/ UserCall \/ CpuStep \/ HandlerReturns \/ SigreturnFails
  \/ DeviceIrq \/ \E s \in Signal : Post(s)

Spec == Init /\ [][Next]_vars

(* The processor executes what is due, handlers come to an end, and the    *)
(* timer keeps interrupting.                                               *)
FairSpec ==
  Spec /\ WF_vars(CpuStep) /\ WF_vars(HandlerReturns) /\ WF_vars(DeviceIrq)

-----------------------------------------------------------------------------
(* Properties *)

(* Whatever handlers run meanwhile, and whatever system calls they make, a *)
(* call returns what the kernel answered to that very call: the ABI block  *)
(* lives in the frame of libsys_call6.                                     *)
ReturnsOwnAnswer ==
  \A d \in 1 .. Len(ctx) :
    ctx[d].pc \in {"store", "wrap", "ret"} => ctx[d].call.rc = ctx[d].call.truth.ret

(* At the moment a call returns, errno is the kernel's error number for    *)
(* that call, 0 if it succeeded, unless it failed and a handler made a     *)
(* system call just between libsys_errno being stored and copied.          *)
ErrnoIsOwn ==
  [][Wrap /\ Top.call.op # "sigaction" /\ (Top.call.disturbed => Top.call.rc >= 0)
       => errno' = Top.call.truth.err]_vars

(* When raise(sig) returns 0 and a handler is installed and not blocked,   *)
(* that handler has been started: tests/signal_delivery.c relies on it.    *)
RaiseDelivers ==
  Top.pc = "ret" /\ ~ irq /\ Top.call.op = "kill" /\ Top.call.rc = 0
  /\ Top.call.owed > 0 /\ status = "alive" =>
    seen[Top.call.sig] >= Top.call.owed

(* Every handler comes back to the code it interrupted, or the process is  *)
(* over; it never runs off the end of a handler.                           *)
HandlersComeBack == (Len(ctx) > 1) ~> (Len(ctx) = 1 \/ status \in {"killed", "exit127"})
=============================================================================
