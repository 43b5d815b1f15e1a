----------------------------- MODULE AllocSpec -----------------------------
(***************************************************************************)
(* What malloc, calloc, realloc and free promise their caller, whatever    *)
(* the allocator does with its headers and its list.  The only state is    *)
(* the caller's: live maps the pointer of every allocation the caller owns *)
(* to the bytes it finds there, req is the call in progress.               *)
(***************************************************************************)
EXTENDS Integers

CONSTANTS Arena,    \* the addresses allocations may occupy
          NULL      \* the null pointer, not an address of the arena

VARIABLES live, req

avars == <<live, req>>

NoCall == [op |-> "none", ptr |-> NULL, size |-> 0]

(***************************************************************************)
(* Two allocations never share a byte, and all of them lie in the arena.   *)
(***************************************************************************)
Separated ==
  /\ \A p \in DOMAIN live : \A i \in DOMAIN live[p] : p + i \in Arena
  /\ \A p, q \in DOMAIN live :
        p # q => \A i \in DOMAIN live[p] : \A j \in DOMAIN live[q] :
                    p + i # q + j

Keeps(S) == \A p \in S : live'[p] = live[p]

Init == live = [p \in {} |-> 0] /\ req = NoCall

(* malloc, calloc or realloc is entered: nothing the caller owns changes. *)
Ask ==
  /\ req = NoCall /\ req' # NoCall
  /\ req'.op = "realloc" => req'.ptr \in DOMAIN live \cup {NULL}
  /\ UNCHANGED live

(* free(p), or realloc(p, 0): exactly that one allocation goes away. *)
Release ==
  /\ req = NoCall
  /\ \E p \in DOMAIN live :
       /\ req' \in {[op |-> "free", ptr |-> p, size |-> 0],
                    [op |-> "realloc", ptr |-> p, size |-> 0]}
       /\ DOMAIN live' = DOMAIN live \ {p}
       /\ Keeps(DOMAIN live \ {p})

(* The call returns a fresh pointer to as many bytes as were asked for;   *)
(* those of calloc are zero.                                              *)
Grant ==
  /\ req.op \in {"malloc", "calloc"} \/ (req.op = "realloc" /\ req.ptr = NULL)
  /\ req' = NoCall
  /\ \E p \in DOMAIN live' \ DOMAIN live :
       /\ DOMAIN live' = DOMAIN live \cup {p}
       /\ Keeps(DOMAIN live)
       /\ DOMAIN live'[p] = 0 .. req.size - 1
       /\ req.op = "calloc" => \A i \in DOMAIN live'[p] : live'[p][i] = 0

(* realloc moved the allocation: a fresh region replaces the old one and  *)
(* starts with all of the old one's bytes that fit.                       *)
Move ==
  /\ req.op = "realloc" /\ req.ptr \in DOMAIN live
  /\ req' = req
  /\ \E q \in DOMAIN live' \ DOMAIN live :
       /\ DOMAIN live' = (DOMAIN live \ {req.ptr}) \cup {q}
       /\ Keeps(DOMAIN live \ {req.ptr})
       /\ DOMAIN live'[q] = 0 .. req.size - 1
       /\ \A i \in DOMAIN live'[q] \cap DOMAIN live[req.ptr] :
             live'[q][i] = live[req.ptr][i]

(* realloc found room where the allocation is. *)
ResizeInPlace ==
  /\ req = NoCall /\ req' = req
  /\ \E p \in DOMAIN live :
       /\ DOMAIN live' = DOMAIN live
       /\ Keeps(DOMAIN live \ {p})
       /\ \A i \in DOMAIN live'[p] \cap DOMAIN live[p] :
             live'[p][i] = live[p][i]

(* The call returns and changes nothing more: an allocation failed, or    *)
(* the free list has been tidied up.                                      *)
Return == req # NoCall /\ req' = NoCall /\ UNCHANGED live

(* Between calls the caller writes into one of its own allocations. *)
Write ==
  /\ req = NoCall /\ req' = req
  /\ \E p \in DOMAIN live :
       /\ DOMAIN live' = DOMAIN live
       /\ Keeps(DOMAIN live \ {p})
       /\ DOMAIN live'[p] = DOMAIN live[p]

Next ==
  /\ \/ Ask \/ Release \/ Grant \/ Move \/ ResizeInPlace \/ Return \/ Write
  /\ Separated'

Spec == Init /\ [][Next]_avars
=============================================================================
