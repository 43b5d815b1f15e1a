-------------------------------- MODULE Heap --------------------------------
(***************************************************************************)
(* The first-fit heap of lib/libc_stdlib.c: malloc, free, calloc and       *)
(* realloc over the static array g_heap.  A call is a sequence of steps,   *)
(* one per iteration of its loop, so that the list can be inspected        *)
(* between any two of them.  Addresses are offsets into g_heap.            *)
(*                                                                         *)
(* A definition named D_suffix in front of D is D with a plausible bug; it *)
(* is not used here, but shows that some property would catch that bug.    *)
(***************************************************************************)
EXTENDS Integers

CONSTANTS
  HeapSize,      \* sizeof(g_heap)
  HDR,           \* sizeof(heap_block_t)
  SizeMod,       \* 2^w for the w bits of size_t
  Requests,      \* the sizes callers ask for
  CallocArgs,    \* the <<nmemb, size>> pairs callers pass to calloc
  Foreign,       \* pointers to objects outside g_heap that reach free
  Byte           \* the values callers store

NULL == -1
ENOMEM == 12

(* The value of any byte of a header: never one the caller stored. *)
HeaderByte == -1

ASSUME SizesAssumption ==
  /\ HeapSize \in Nat /\ HeapSize % 4 = 0
  /\ HDR \in Nat /\ HDR % 4 = 0 /\ HDR > 0
  /\ SizeMod \in Nat /\ SizeMod % 4 = 0 /\ HeapSize + HDR + 8 <= SizeMod

(* Callers stay clear of the sizes for which align4 wraps around zero. *)
ASSUME RequestsAssumption ==
  Requests \subseteq 0 .. SizeMod - HDR - 4

ASSUME CallocAssumption ==
  \A a \in CallocArgs :
    /\ a \in (0 .. SizeMod - 1) \X (0 .. SizeMod - 1)
    /\ a[1] * a[2] < SizeMod => a[1] * a[2] <= SizeMod - HDR - 4

ASSUME ForeignAssumption ==
  Foreign \subseteq {a \in Int : a < 0 \/ a >= HeapSize}

ASSUME ByteAssumption == Byte \subseteq Nat /\ 0 \in Byte

VARIABLES
  hdr,      \* the headers of the blocks on the list, by address
  head,     \* g_heap_head
  end,      \* g_heap_end
  mem,      \* the bytes of g_heap
  errno,
  pc,       \* where the call in progress stands
  call,     \* the call in progress and its arguments
  wanted,   \* malloc's local
  block,    \* the cursor of malloc's and of free's loop
  prev,     \* malloc's tail, free's previous
  ret,      \* the pointer malloc hands back
  live      \* ghost: the pointers the caller owns, with the sizes it asked for

vars == <<hdr, head, end, mem, errno, pc, call, wanted, block, prev, ret, live>>

NoCall == [op |-> "none", ptr |-> NULL, size |-> 0]

-----------------------------------------------------------------------------
(* size_t arithmetic: the carry out of the top bit is lost. *)
Add(a, b) == IF a + b < SizeMod THEN a + b ELSE a + b - SizeMod

align4_unrounded(n) == n

align4(n) == Add(n, 3) - (Add(n, 3) % 4)

CallocOverflows_never(nmemb, size) == FALSE

(* The guard of calloc, and the product it protects. *)
CallocOverflows(nmemb, size) ==
  size # 0 /\ nmemb > (SizeMod - 1) \div size

Product(nmemb, size) == (nmemb * size) % SizeMod

Footprint_without_header(size) == align4(size)

(* What a block occupies, header included. *)
Footprint(size) == align4(Add(HDR, size))

Fits_never_exactly(a) == hdr[a].free = 1 /\ hdr[a].size > wanted

(* The test in malloc's loop. *)
Fits(a) == hdr[a].free = 1 /\ hdr[a].size >= wanted

MergesHere_but_the_last ==
  prev # NULL /\ hdr[prev].free = 1 /\ hdr[block].free = 1 /\ hdr[block].next # NULL

(* The test in free's loop. *)
MergesHere == prev # NULL /\ hdr[prev].free = 1 /\ hdr[block].free = 1

(* The range check of free. *)
InHeap(p) == p # NULL /\ p >= HDR /\ p < end

CopyLength_off_by_one == hdr[call.ptr - HDR].size - 1

(* How much of the old block realloc copies. *)
CopyLength ==
  LET size == hdr[call.ptr - HDR].size
  IN  IF size < call.size THEN size ELSE call.size

(* The bytes m once the header at address a has been written. *)
WriteHeader(m, a) ==
  [x \in DOMAIN m |-> IF x \in a .. a + HDR - 1 THEN HeaderByte ELSE m[x]]

(* Partial maps: one entry removed, one entry added or replaced. *)
Without(f, x) == [y \in DOMAIN f \ {x} |-> f[y]]

With(f, x, v) == [y \in DOMAIN f \cup {x} |-> IF y = x THEN v ELSE f[y]]

-----------------------------------------------------------------------------
(* g_heap is zero-initialised static storage. *)
Init ==
  /\ hdr = [a \in {} |-> NULL]
  /\ head = NULL /\ end = 0
  /\ mem = [x \in 0 .. HeapSize - 1 |-> 0]
  /\ errno = 0
  /\ pc = "idle" /\ call = NoCall /\ wanted = 0
  /\ block = NULL /\ prev = NULL /\ ret = NULL
  /\ live = [p \in {} |-> 0]

(* The locals of the call in progress die when it returns. *)
Return ==
  /\ pc' = "idle" /\ call' = NoCall /\ wanted' = 0
  /\ block' = NULL /\ prev' = NULL

-----------------------------------------------------------------------------
(* malloc *)

EnterMalloc(n) ==
  /\ pc' = "scan"
  /\ wanted' = align4(IF n = 0 THEN 1 ELSE n)
  /\ block' = head /\ prev' = NULL /\ ret' = NULL
  /\ UNCHANGED <<hdr, head, end, mem, errno, live>>

MallocCall(n) ==
  /\ pc = "idle"
  /\ call' = [op |-> "malloc", ptr |-> NULL, size |-> n]
  /\ EnterMalloc(n)

MallocSkip ==
  /\ pc = "scan" /\ block # NULL /\ ~ Fits(block)
  /\ prev' = block
  /\ block' = hdr[block].next
  /\ UNCHANGED <<hdr, head, end, mem, errno, pc, call, wanted, ret, live>>

MallocTake ==
  /\ pc = "scan" /\ block # NULL /\ Fits(block)
  /\ hdr' = [hdr EXCEPT ![block].free = 0]
  /\ mem' = WriteHeader(mem, block)
  /\ ret' = block + HDR
  /\ pc' = "got"
  /\ UNCHANGED <<head, end, errno, call, wanted, block, prev, live>>

(* The scan fell off the list: append a block at g_heap_end, or fail. *)
MallocExtend ==
  /\ pc = "scan" /\ block = NULL
  /\ HeapSize - end >= Footprint(wanted)
  /\ LET new == [size |-> wanted, next |-> NULL, free |-> 0]
     IN  IF prev # NULL
         THEN /\ hdr' = With([hdr EXCEPT ![prev].next = end], end, new)
              /\ head' = head
         ELSE /\ hdr' = With(hdr, end, new)
              /\ head' = end
  /\ mem' = WriteHeader(mem, end)
  /\ end' = end + Footprint(wanted)
  /\ ret' = end + HDR
  /\ pc' = "got"
  /\ UNCHANGED <<errno, call, wanted, block, prev, live>>

MallocFail ==
  /\ pc = "scan" /\ block = NULL
  /\ HeapSize - end < Footprint(wanted)
  /\ errno' = ENOMEM
  /\ ret' = NULL
  /\ pc' = "got"
  /\ UNCHANGED <<hdr, head, end, mem, call, wanted, block, prev, live>>

-----------------------------------------------------------------------------
(* malloc has produced ret: its three callers go on from here. *)

MallocDone ==
  /\ pc = "got"
  /\ call.op = "malloc" \/ (call.op = "realloc" /\ call.ptr = NULL)
  /\ live' = IF ret = NULL THEN live ELSE With(live, ret, call.size)
  /\ Return
  /\ UNCHANGED <<hdr, head, end, mem, errno, ret>>

-----------------------------------------------------------------------------
(* free *)

(* Everything up to the loop: the block is marked free. *)
EnterFree(p, m) ==
  /\ pc' = "walk"
  /\ hdr' = [hdr EXCEPT ![p - HDR].free = 1]
  /\ mem' = WriteHeader(m, p - HDR)
  /\ block' = head /\ prev' = NULL
  /\ UNCHANGED <<head, end, errno>>

(* free(p), or the free(p) of realloc(p, 0). *)
FreeCall(op, p) ==
  /\ pc = "idle" /\ InHeap(p)
  /\ call' = [op |-> op, ptr |-> p, size |-> 0]
  /\ EnterFree(p, mem)
  /\ live' = Without(live, p)
  /\ ret' = NULL
  /\ UNCHANGED wanted

(* A null pointer, or one outside the used part of g_heap, is ignored. *)
FreeIgnored(p) ==
  /\ pc = "idle" /\ ~ InHeap(p)
  /\ live' = Without(live, p)
  /\ ret' = NULL
  /\ UNCHANGED <<hdr, head, end, mem, errno, pc, call, wanted, block, prev>>

FreeMerge_keeps_next ==
  /\ pc = "walk" /\ block # NULL /\ MergesHere
  /\ hdr' = [hdr EXCEPT ![prev].size = Add(@, Footprint(hdr[block].size))]
  /\ mem' = WriteHeader(mem, prev)
  /\ block' = hdr'[prev].next
  /\ UNCHANGED <<head, end, errno, pc, call, wanted, prev, ret, live>>

(* Absorb block into previous; the cursor falls back on previous. *)
FreeMerge ==
  /\ pc = "walk" /\ block # NULL /\ MergesHere
  /\ hdr' = Without([hdr EXCEPT
                 ![prev].size = Add(@, Footprint(hdr[block].size)),
                 ![prev].next = hdr[block].next], block)
  /\ mem' = WriteHeader(mem, prev)
  /\ block' = hdr[block].next
  /\ UNCHANGED <<head, end, errno, pc, call, wanted, prev, ret, live>>

FreeStep ==
  /\ pc = "walk" /\ block # NULL /\ ~ MergesHere
  /\ prev' = block
  /\ block' = hdr[block].next
  /\ UNCHANGED <<hdr, head, end, mem, errno, pc, call, wanted, ret, live>>

(* The loop is over: free, or the realloc that called it, returns. *)
FreeDone ==
  /\ pc = "walk" /\ block = NULL
  /\ Return
  /\ UNCHANGED <<hdr, head, end, mem, errno, ret, live>>

-----------------------------------------------------------------------------
(* calloc *)

CallocCall(nmemb, size) ==
  /\ pc = "idle" /\ ~ CallocOverflows(nmemb, size)
  /\ call' = [op |-> "calloc", ptr |-> NULL, size |-> nmemb * size]
  /\ EnterMalloc(Product(nmemb, size))

CallocRefused(nmemb, size) ==
  /\ pc = "idle" /\ CallocOverflows(nmemb, size)
  /\ errno' = ENOMEM
  /\ ret' = NULL
  /\ UNCHANGED <<hdr, head, end, mem, pc, call, wanted, block, prev, live>>

(* memset(p, 0, total) *)
CallocDone ==
  /\ pc = "got" /\ call.op = "calloc"
  /\ IF ret = NULL
     THEN UNCHANGED <<mem, live>>
     ELSE /\ LET total == call.size % SizeMod
             IN  mem' = [x \in DOMAIN mem |->
                           IF x \in ret .. ret + total - 1 THEN 0 ELSE mem[x]]
          /\ live' = With(live, ret, call.size)
  /\ Return
  /\ UNCHANGED <<hdr, head, end, errno, ret>>

-----------------------------------------------------------------------------
(* realloc *)

ReallocNew(n) ==
  /\ pc = "idle"
  /\ call' = [op |-> "realloc", ptr |-> NULL, size |-> n]
  /\ EnterMalloc(n)

ReallocInPlace(p, n) ==
  /\ pc = "idle" /\ n # 0
  /\ hdr[p - HDR].size >= n
  /\ ret' = p
  /\ live' = [live EXCEPT ![p] = n]
  /\ UNCHANGED <<hdr, head, end, mem, errno, pc, call, wanted, block, prev>>

ReallocGrow(p, n) ==
  /\ pc = "idle" /\ n # 0
  /\ hdr[p - HDR].size < n
  /\ call' = [op |-> "realloc", ptr |-> p, size |-> n]
  /\ EnterMalloc(n)

(* malloc succeeded: memcpy of the old block, then free(ptr). *)
ReallocMove ==
  /\ pc = "got" /\ call.op = "realloc" /\ call.ptr # NULL /\ ret # NULL
  /\ EnterFree(call.ptr,
       [x \in DOMAIN mem |->
          IF x \in ret .. ret + CopyLength - 1
          THEN mem[call.ptr + (x - ret)] ELSE mem[x]])
  /\ live' = With(Without(live, call.ptr), ret, call.size)
  /\ UNCHANGED <<call, wanted, ret>>

(* malloc failed: the old block is left as it was. *)
ReallocFail ==
  /\ pc = "got" /\ call.op = "realloc" /\ call.ptr # NULL /\ ret = NULL
  /\ Return
  /\ UNCHANGED <<hdr, head, end, mem, errno, ret, live>>

-----------------------------------------------------------------------------
(* Between calls the caller may fill an allocation of its own. *)
CallerWrites(p, v) ==
  /\ pc = "idle"
  /\ mem' = [x \in DOMAIN mem |->
               IF x \in p .. p + live[p] - 1 THEN v ELSE mem[x]]
  /\ UNCHANGED <<hdr, head, end, errno, pc, call, wanted, block, prev, ret, live>>

(* The calls a correct caller makes: free and realloc take only pointers   *)
(* it owns, null, or (free alone) pointers to objects outside g_heap.      *)
CallerStep ==
  \/ \E n \in Requests : MallocCall(n) \/ ReallocNew(n)
  \/ \E a \in CallocArgs : CallocCall(a[1], a[2]) \/ CallocRefused(a[1], a[2])
  \/ \E p \in DOMAIN live :
       \/ FreeCall("free", p) \/ FreeCall("realloc", p)
       \/ \E n \in Requests : ReallocInPlace(p, n) \/ ReallocGrow(p, n)
       \/ \E v \in Byte : CallerWrites(p, v)
  \/ \E p \in DOMAIN live \cup Foreign \cup {NULL} : FreeIgnored(p)

(* The steps of the call in progress. *)
LibStep ==
  \/ MallocSkip \/ MallocTake \/ MallocExtend \/ MallocFail
  \/ MallocDone \/ CallocDone \/ ReallocMove \/ ReallocFail
  \/ FreeMerge \/ FreeStep \/ FreeDone

Next == CallerStep \/ LibStep

Spec == Init /\ [][Next]_vars

(* A call that was entered is executed: the program runs on. *)
FairSpec == Spec /\ WF_vars(LibStep)

-----------------------------------------------------------------------------
(* Properties *)

Blocks == DOMAIN hdr

BlockEnd(a) == a + HDR + hdr[a].size

Header == [size : 0 .. HeapSize, next : -1 .. HeapSize, free : {0, 1}]

HeapTypeOK ==
  /\ Blocks \subseteq 0 .. HeapSize
  /\ hdr \in [Blocks -> Header]
  /\ \A a \in Blocks : hdr[a].size % 4 = 0
  /\ head \in {NULL, 0}
  /\ end \in 0 .. HeapSize /\ end % 4 = 0
  /\ errno \in {0, ENOMEM}

BytesTypeOK == mem \in [0 .. HeapSize - 1 -> Byte \cup {HeaderByte}]

CallTypeOK ==
  /\ pc \in {"idle", "scan", "got", "walk"}
  /\ call \in [op : {"none", "malloc", "calloc", "realloc", "free"},
               ptr : -1 .. HeapSize, size : Nat]
  /\ wanted \in 0 .. SizeMod - 1 /\ wanted % 4 = 0
  /\ block \in Blocks \cup {NULL} /\ prev \in Blocks \cup {NULL}
  /\ ret \in -1 .. HeapSize

LiveTypeOK ==
  /\ DOMAIN live \subseteq HDR .. HeapSize
  /\ live \in [DOMAIN live -> Nat]

(* Every variable has its type; block sizes and g_heap_end stay multiples  *)
(* of four, so every pointer malloc returns is aligned.                    *)
TypeOK == HeapTypeOK /\ BytesTypeOK /\ CallTypeOK /\ LiveTypeOK

(* The list is exactly the used part of g_heap: each block ends where the  *)
(* next one begins, the last one ends at g_heap_end, none overlap, and     *)
(* this holds after every iteration of malloc's and free's loops.          *)
Tiling ==
  /\ head = IF end = 0 THEN NULL ELSE 0
  /\ end # 0 => 0 \in Blocks
  /\ \A a \in Blocks :
       /\ BlockEnd(a) <= end
       /\ hdr[a].next = IF BlockEnd(a) = end THEN NULL ELSE BlockEnd(a)
       /\ BlockEnd(a) # end => BlockEnd(a) \in Blocks
       /\ \A b \in Blocks : a < b => BlockEnd(a) <= b

(* The blocks that are not free are the ones the caller owns, plus the one *)
(* malloc is about to hand over: nothing is leaked, nothing the caller     *)
(* owns is on offer, and every owned block is as large as was asked for.   *)
Ownership ==
  /\ \A p \in DOMAIN live :
       /\ p - HDR \in Blocks
       /\ hdr[p - HDR].free = 0
       /\ live[p] <= hdr[p - HDR].size
  /\ \A a \in Blocks :
       hdr[a].free = 1 \/ a + HDR \in DOMAIN live \/ (pc = "got" /\ ret = a + HDR)

(* Between calls no two neighbouring blocks are both free: the single pass *)
(* of free merges every run, also the run of three that freeing the middle *)
(* block creates.                                                          *)
Coalesced ==
  pc = "idle" =>
    \A a \in Blocks : hdr[a].free = 1 /\ hdr[a].next # NULL => hdr[hdr[a].next].free = 0

(* When the caller has given everything back, all of the used part of the  *)
(* heap is a single free block.                                            *)
FullyReclaimed ==
  pc = "idle" /\ DOMAIN live = {} /\ end # 0 =>
    Blocks = {0} /\ hdr[0].free = 1 /\ BlockEnd(0) = end

(* malloc reports ENOMEM only when no free block is large enough and the   *)
(* unused end of g_heap is too short.                                      *)
FailsOnlyWhenFull ==
  pc = "got" /\ ret = NULL =>
    /\ errno = ENOMEM
    /\ HeapSize - end < HDR + wanted
    /\ \A a \in Blocks : hdr[a].free = 1 => hdr[a].size < wanted

(* malloc is first fit: every free block below the one it returns is too   *)
(* small, so g_heap_end moves only when no block on the list would do.     *)
FirstFit ==
  pc = "got" /\ ret # NULL =>
    \A a \in Blocks : hdr[a].free = 1 /\ a + HDR < ret => hdr[a].size < wanted

(* Freeing leaves no two free neighbours, and one free block when all was  *)
(* freed: Coalesced and FullyReclaimed together.                           *)
FreeBlocksMerged == Coalesced /\ FullyReclaimed

(* What malloc takes and when it refuses: FailsOnlyWhenFull and FirstFit   *)
(* together.                                                               *)
ChoosesBlocks == FailsOnlyWhenFull /\ FirstFit

(* Every call returns, however the list is shaped. *)
CallsReturn == (pc # "idle") ~> (pc = "idle")

(* What the caller can see: the bytes of every allocation it owns. *)
Contents == [p \in DOMAIN live |-> [i \in 0 .. live[p] - 1 |-> mem[p + i]]]

Promise == INSTANCE AllocSpec WITH
             Arena <- 0 .. HeapSize - 1, live <- Contents, req <- call

(* The heap keeps the promises of AllocSpec: allocations are disjoint, the *)
(* bytes of an allocation change only when the caller writes them, realloc *)
(* carries them over or fails and leaves them, calloc clears them.         *)
KeepsPromise == Promise!Spec
=============================================================================
