---------------------------- MODULE ExitHandlers ----------------------------
(***************************************************************************)
(* How a process ends: atexit, exit, _exit and abort (lib/libc_stdlib.c)   *)
(* and the return from main (crt/start.c).  The program and its exit       *)
(* handlers are arbitrary code: either may register more handlers, call    *)
(* exit again, abort, or return.  exit(3) calls the handlers, so calls     *)
(* nest: the stack below is the C call stack.                              *)
(*                                                                         *)
(* Registrations are told apart by a number, although the code keeps only  *)
(* the function's address.                                                 *)
(*                                                                         *)
(* A definition named D_suffix in front of D is D with a plausible bug.    *)
(***************************************************************************)
EXTENDS Naturals, Sequences, FiniteSets

CONSTANTS
  MaxHandlers,   \* length of g_exit_handlers, 32 in the code
  Status,        \* the exit statuses in play
  MaxCalls,      \* bound: calls of atexit
  MaxExits       \* bound: calls of exit

AbortStatus == 127

ASSUME ExitAssumption ==
  /\ MaxHandlers \in Nat \ {0} /\ MaxCalls \in Nat /\ MaxExits \in Nat
  /\ Status \subseteq Nat

VARIABLES
  stack,            \* what is being executed, innermost last
  g_exit_handlers,  \* the table up to g_exit_handler_count: registrations
  refused,          \* atexit's last answer was -1 with errno = ENOMEM
  ended,            \* NotYet, or the status given to the exit system call
  registered,       \* how many registrations atexit accepted
  calls, exits,     \* counters for the two bounds
  ran,              \* ghost: the registrations called, in order
  before            \* ghost: of each one called, how many existed by then

vars == <<stack, g_exit_handlers, refused, ended, registered, calls, exits,
          ran, before>>

table == <<g_exit_handlers, refused, registered, calls>>
ghosts == <<ran, before>>

(* Frames: main, a call of exit with its status, a call of a handler. *)
MainFrame == [fn |-> "main", arg |-> 0]
ExitFrame(status) == [fn |-> "exit", arg |-> status]
HandlerFrame(id) == [fn |-> "handler", arg |-> id]

NotYet == [by |-> "none", status |-> 0]

Top == stack[Len(stack)]
Push(frame) == stack' = Append(stack, frame)
Pop == stack' = SubSeq(stack, 1, Len(stack) - 1)

Alive == ended = NotYet
InUserCode == Alive /\ Top.fn # "exit"

-----------------------------------------------------------------------------
Init ==
  /\ stack = <<MainFrame>>
  /\ g_exit_handlers = <<>>
  /\ refused = FALSE /\ ended = NotYet
  /\ registered = 0 /\ calls = 0 /\ exits = 0
  /\ ran = <<>> /\ before = <<>>

-----------------------------------------------------------------------------
HasRoom_off_by_one(count) == count <= MaxHandlers

HasRoom(count) == count < MaxHandlers

(* atexit(function): a null function and a full table are refused. *)
Atexit(function) ==
  /\ InUserCode /\ calls < MaxCalls
  /\ calls' = calls + 1
  /\ IF function = "null" \/ ~ HasRoom(Len(g_exit_handlers))
     THEN refused' = TRUE /\ UNCHANGED <<g_exit_handlers, registered>>
     ELSE /\ registered' = registered + 1
          /\ g_exit_handlers' = Append(g_exit_handlers, registered')
          /\ refused' = FALSE
  /\ UNCHANGED <<stack, ended, exits, ghosts>>

Exit(status) ==
  /\ InUserCode /\ exits < MaxExits
  /\ exits' = exits + 1
  /\ Push(ExitFrame(status))
  /\ UNCHANGED <<table, ended, ghosts>>

NextHandler_oldest(s) == 1

(* The position of the handler to call next. *)
NextHandler(s) == Len(s)

Remaining_not_removed(s) == s

(* The table once g_exit_handler_count is decremented. *)
Remaining(s) == SubSeq(s, 1, Len(s) - 1)

LoopDone_when_nested(s) == s = <<>> \/ exits > 1

(* The condition of exit's loop is false. *)
LoopDone(s) == s = <<>>

(* One turn of exit's loop: take the last handler off the table, call it. *)
ExitCallsHandler ==
  /\ Alive /\ Top.fn = "exit" /\ ~ LoopDone(g_exit_handlers)
  /\ g_exit_handlers' = Remaining(g_exit_handlers)
  /\ LET id == g_exit_handlers[NextHandler(g_exit_handlers)]
     IN  /\ Push(HandlerFrame(id))
         /\ ran' = Append(ran, id)
         /\ before' = Append(before, registered)
  /\ UNCHANGED <<refused, ended, registered, calls, exits>>

HandlerReturns ==
  /\ Alive /\ Top.fn = "handler"
  /\ Pop
  /\ UNCHANGED <<table, ended, exits, ghosts>>

SysExit_returns(by, status) == UNCHANGED ended

(* _exit(status): the exit system call, which does not return. *)
SysExit(by, status) == ended' = [by |-> by, status |-> status]

ExitEnds ==
  /\ Alive /\ Top.fn = "exit" /\ LoopDone(g_exit_handlers)
  /\ SysExit("exit", Top.arg)
  /\ UNCHANGED <<stack, table, exits, ghosts>>

_Exit(status) ==
  /\ InUserCode
  /\ SysExit("_exit", status)
  /\ UNCHANGED <<stack, table, exits, ghosts>>

Abort ==
  /\ InUserCode
  /\ SysExit("abort", AbortStatus)
  /\ UNCHANGED <<stack, table, exits, ghosts>>

(* start_c gives main's result to libsys_exit: no handler is called. *)
MainReturns(code) ==
  /\ InUserCode /\ Top.fn = "main"
  /\ SysExit("return", code)
  /\ UNCHANGED <<stack, table, exits, ghosts>>

-----------------------------------------------------------------------------
UserStep ==
  \/ \E function \in {"function", "null"} : Atexit(function)
  \/ \E status \in Status : Exit(status)
  \/ \E status \in Status : _Exit(status)
  \/ Abort
  \/ \E code \in Status : MainReturns(code)

LibraryStep == ExitCallsHandler \/ ExitEnds

Next == UserStep \/ LibraryStep \/ HandlerReturns

Spec == Init /\ [][Next]_vars

(* The library's loop runs, and every exit handler is over at some time. *)
FairSpec == Spec /\ WF_vars(LibraryStep) /\ WF_vars(HandlerReturns)

-----------------------------------------------------------------------------
(* Properties *)

Frame == [fn : {"main"}, arg : {0}] \cup [fn : {"exit"}, arg : Status]
           \cup [fn : {"handler"}, arg : 1 .. registered]

(* The variables have their types; in particular the table of exit         *)
(* handlers is never written past its last entry.                          *)
TypeOK ==
  /\ registered \in Nat /\ calls \in Nat /\ exits \in Nat
  /\ stack \in Seq(Frame) /\ Len(stack) > 0
  /\ g_exit_handlers \in Seq(1 .. registered)
  /\ Len(g_exit_handlers) <= MaxHandlers
  /\ refused \in BOOLEAN
  /\ ended \in [by : {"none", "exit", "_exit", "abort", "return"},
                status : Status \cup {0, AbortStatus}]
  /\ ran \in Seq(1 .. registered) /\ before \in Seq(Nat)

(* No registration is called twice, however exit, atexit and the handlers  *)
(* nest: exit takes a handler off the table before it calls it.            *)
CalledOnce == \A i, j \in 1 .. Len(ran) : ran[i] = ran[j] => i = j

(* Handlers run newest first: of two handlers, the one called later is the *)
(* older one, or it was not registered yet when the other one was called.  *)
NewestFirst ==
  \A i, j \in 1 .. Len(ran) : i < j => ran[j] < ran[i] \/ ran[j] > before[i]

(* A process that ends through exit has called every handler ever          *)
(* registered, those registered by handlers and those left over by an      *)
(* exit that a handler called exit inside of.                              *)
ExitCallsAll ==
  ended.by = "exit" => \A id \in 1 .. registered : \E i \in 1 .. Len(ran) : ran[i] = id

(* A call of exit does end the process if every handler returns: the loop  *)
(* of exit and the loops nested in it come to an end.                      *)
ExitTerminates == (\E d \in 1 .. Len(stack) : stack[d].fn = "exit") ~> ended # NotYet
=============================================================================
