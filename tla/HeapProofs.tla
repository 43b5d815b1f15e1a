----------------------------- MODULE HeapProofs -----------------------------
(***************************************************************************)
(* Proofs about Heap, for every heap size, header size and set of          *)
(* requests that the assumptions of Heap allow.                            *)
(***************************************************************************)
EXTENDS Heap, TLAPS

(* Blocks are word-aligned and never empty: no pointer equals g_heap_end.  *)
Aligned == \A a \in Blocks : a % 4 = 0 /\ hdr[a].size >= 4

(* What the locals of the call in progress say about its request. *)
Locals ==
  /\ pc = "idle" => call = NoCall
  /\ pc \in {"scan", "got"} =>
       /\ call.op \in {"malloc", "calloc", "realloc"}
       /\ 4 <= wanted /\ wanted <= SizeMod - HDR - 4
       /\ call.size <= wanted
       /\ call.op # "realloc" => call.ptr = NULL
       /\ call.ptr # NULL =>
            call.ptr \in DOMAIN live /\ hdr[call.ptr - HDR].size < call.size
  /\ pc = "got" /\ ret # NULL =>
       /\ ret - HDR \in Blocks /\ ret \notin DOMAIN live
       /\ hdr[ret - HDR].free = 0 /\ hdr[ret - HDR].size >= wanted

(* The two loops walk the list with the cursor one link behind block. *)
Cursor ==
  pc \in {"scan", "walk"} =>
    IF prev = NULL THEN block = head ELSE block = hdr[prev].next

(* malloc's loop: no block it has passed would have done. *)
Scanned ==
  pc = "scan" =>
    \A a \in Blocks :
      hdr[a].free = 1 /\ (block = NULL \/ a < block) => hdr[a].size < wanted

(* free's loop: behind the cursor, and everywhere outside that loop, no    *)
(* two neighbours are both free.                                           *)
Merged ==
  \A a \in Blocks :
    (hdr[a].next # NULL
      /\ (pc = "walk" => (block = NULL \/ hdr[a].next < block)))
    => ~ (hdr[a].free = 1 /\ hdr[hdr[a].next].free = 1)

IInv ==
  /\ TypeOK /\ Tiling /\ Ownership /\ Aligned
  /\ Locals /\ Cursor /\ Scanned /\ Merged
  /\ FailsOnlyWhenFull /\ FirstFit

-----------------------------------------------------------------------------
(* Arithmetic of size_t *)

(* Below the top of size_t, align4 rounds up to the next multiple of four. *)
LEMMA Align4 ==
  ASSUME NEW n \in Nat, n <= SizeMod - 4
  PROVE  /\ align4(n) \in Nat /\ align4(n) % 4 = 0
         /\ n <= align4(n) /\ align4(n) <= n + 3
         /\ align4(n) <= SizeMod - 4
  BY SizesAssumption DEF align4, Add

(* align4 leaves a multiple of four alone. *)
LEMMA Align4Idempotent ==
  ASSUME NEW n \in Nat, n % 4 = 0, n <= SizeMod - 4
  PROVE  align4(n) = n
  BY SizesAssumption DEF align4, Add

(* A block of an aligned size occupies its header and its bytes. *)
LEMMA FootprintIs ==
  ASSUME NEW n \in Nat, n % 4 = 0, n <= SizeMod - HDR - 4
  PROVE  Footprint(n) = HDR + n
  <1>1. Add(HDR, n) = HDR + n
    BY SizesAssumption DEF Add
  <1>2. HDR + n \in Nat /\ (HDR + n) % 4 = 0 /\ HDR + n <= SizeMod - 4
    BY SizesAssumption
  <1> QED
    BY <1>1, <1>2, Align4Idempotent DEF Footprint

(* malloc's wanted: aligned, at least one word, at least the request. *)
LEMMA WantedIs ==
  ASSUME NEW n \in Nat, n <= SizeMod - HDR - 4,
         NEW w, w = align4(IF n = 0 THEN 1 ELSE n)
  PROVE  /\ w \in Nat /\ w % 4 = 0 /\ 4 <= w /\ n <= w
         /\ w <= SizeMod - HDR - 4
  <1>1. CASE n = 0
    <2>1. w = align4(1)
      BY <1>1
    <2>2. 1 <= SizeMod - 4
      BY SizesAssumption
    <2>3. w \in Nat /\ w % 4 = 0 /\ 1 <= w /\ w <= 4
      BY <2>1, <2>2, Align4
    <2>4. w = 4
      BY <2>3
    <2> QED
      BY <2>4, <1>1, SizesAssumption
  <1>2. CASE n # 0
    <2>1. w = align4(n)
      BY <1>2
    <2>2. n <= SizeMod - 4
      BY SizesAssumption
    <2>3. /\ w \in Nat /\ w % 4 = 0 /\ n <= w /\ w <= n + 3
      BY <2>1, <2>2, Align4
    <2>4. (SizeMod - HDR - 4) % 4 = 0 /\ SizeMod \in Nat /\ HDR \in Nat
      BY SizesAssumption
    <2> QED
      BY <2>3, <2>4, <1>2
  <1> QED
    BY <1>1, <1>2

(* The guard of calloc lets only products through that fit size_t. *)
LEMMA CallocGuard ==
  ASSUME NEW m \in 0 .. SizeMod - 1, NEW s \in 0 .. SizeMod - 1,
         ~ CallocOverflows(m, s)
  PROVE  m * s \in Nat /\ m * s < SizeMod
  <1>1. CASE s = 0
    BY <1>1, SizesAssumption
  <1>2. CASE s # 0
    <2> DEFINE q == (SizeMod - 1) \div s
    <2>1. SizeMod \in Nat /\ SizeMod > 0 /\ m \in Nat /\ s \in Nat /\ s > 0
      BY <1>2, SizesAssumption
    <2>2. q \in Nat /\ q * s <= SizeMod - 1
      BY <2>1
    <2>3. m <= q
      BY <1>2, <2>1, <2>2 DEF CallocOverflows
    <2> HIDE DEF q
    <2>4. m * s <= q * s
      BY <2>1, <2>2, <2>3
    <2> QED
      BY <2>1, <2>2, <2>4
  <1> QED
    BY <1>1, <1>2

(* Reduction modulo 2^w is the identity below 2^w. *)
LEMMA ModIdentity ==
  ASSUME NEW n \in Nat, n < SizeMod
  PROVE  n % SizeMod = n
  BY SizesAssumption, Z3

-----------------------------------------------------------------------------
(* The inductive invariant *)

(* The heap starts out with nothing on the list and nothing owned. *)
LEMMA InitIInv == Init => IInv
  <1> SUFFICES ASSUME Init PROVE IInv
    OBVIOUS
  <1> USE SizesAssumption, ByteAssumption DEF Init, NULL, HeaderByte, NoCall, Blocks, BlockEnd
  <1>1. TypeOK
    BY DEF TypeOK, HeapTypeOK, BytesTypeOK, CallTypeOK, LiveTypeOK, Header
  <1>2. Tiling /\ Ownership /\ Aligned
    BY DEF Tiling, Ownership, Aligned
  <1>3. Locals /\ Cursor /\ Scanned /\ Merged
    BY DEF Locals, Cursor, Scanned, Merged
  <1>4. FailsOnlyWhenFull /\ FirstFit
    BY DEF FailsOnlyWhenFull, FirstFit
  <1> QED
    BY <1>1, <1>2, <1>3, <1>4 DEF IInv

(* A step that only moves the cursor of a loop, or returns, leaves the list *)
(* and the allocations as they are.                                         *)
LEMMA ListUntouched ==
  ASSUME IInv, UNCHANGED <<hdr, head, end, live>>
  PROVE  Tiling' /\ Aligned'
  BY DEF IInv, Tiling, Aligned, Blocks, BlockEnd

(* TypeOK, read at one block. *)
LEMMA HeaderTypes ==
  ASSUME TypeOK, NEW a \in Blocks
  PROVE  /\ a \in Nat /\ a <= HeapSize
         /\ hdr[a].size \in Nat /\ hdr[a].size <= HeapSize
         /\ hdr[a].next \in Int
         /\ hdr[a].size % 4 = 0
  <1>1. a \in 0 .. HeapSize /\ hdr[a] \in Header /\ hdr[a].size % 4 = 0
    BY DEF TypeOK, HeapTypeOK, Blocks
  <1> QED
    BY <1>1, SizesAssumption DEF Header

(* The list is empty exactly when nothing of g_heap is used. *)
LEMMA HeadIs ==
  ASSUME TypeOK, Tiling
  PROVE  /\ head = NULL => Blocks = {} /\ end = 0
         /\ head # NULL => head = 0 /\ 0 \in Blocks
         /\ head \in Blocks \cup {NULL}
  <1>1. end = 0 => Blocks = {}
    <2> SUFFICES ASSUME end = 0, NEW a \in Blocks PROVE FALSE
      OBVIOUS
    <2>1. a + HDR + hdr[a].size <= 0
      BY DEF Tiling, BlockEnd
    <2> QED
      BY <2>1, HeaderTypes, SizesAssumption
  <1> QED
    BY <1>1 DEF Tiling, NULL

(* The first link of a call to malloc. *)
LEMMA EnterMallocIInv ==
  ASSUME IInv, pc = "idle", NEW n \in 0 .. SizeMod - HDR - 4, EnterMalloc(n),
         call'.op \in {"malloc", "calloc", "realloc"},
         call' \in [op : {"none", "malloc", "calloc", "realloc", "free"},
                   ptr : -1 .. HeapSize, size : Nat],
         call'.size = n,
         call'.op # "realloc" => call'.ptr = NULL,
         call'.ptr # NULL =>
           call'.ptr \in DOMAIN live /\ hdr[call'.ptr - HDR].size < call'.size
  PROVE  IInv'
  <1>h. /\ head = NULL => Blocks = {} /\ end = 0
        /\ head # NULL => head = 0 /\ 0 \in Blocks
        /\ head \in Blocks \cup {NULL}
    BY HeadIs DEF IInv
  <1>t. \A a \in Blocks : a \in Nat
    BY HeaderTypes DEF IInv
  <1> USE DEF IInv, EnterMalloc
  <1>1. n \in Nat /\ n <= SizeMod - HDR - 4
    BY SizesAssumption
  <1>2. /\ wanted' \in Nat /\ wanted' % 4 = 0 /\ 4 <= wanted' /\ n <= wanted'
        /\ wanted' <= SizeMod - HDR - 4
    BY <1>1, WantedIs
  <1>3. TypeOK'
    <2>1. HeapTypeOK' /\ BytesTypeOK' /\ LiveTypeOK'
      BY DEF TypeOK, HeapTypeOK, BytesTypeOK, LiveTypeOK, Blocks
    <2>2. CallTypeOK'
      BY <1>2, <1>h, SizesAssumption DEF TypeOK, CallTypeOK, Blocks, NULL
    <2> QED
      BY <2>1, <2>2 DEF TypeOK
  <1>4. Tiling' /\ Aligned'
    BY ListUntouched
  <1>5. Ownership'
    BY DEF Ownership, Blocks
  <1>6. Locals'
    BY <1>2 DEF Locals, Blocks
  <1>7. Cursor' /\ Scanned'
    BY <1>h, <1>t DEF Cursor, Scanned, Blocks, NULL
  <1>8. Merged'
    BY DEF Merged, Blocks
  <1>9. FailsOnlyWhenFull' /\ FirstFit'
    BY DEF FailsOnlyWhenFull, FirstFit
  <1> QED
    BY <1>3, <1>4, <1>5, <1>6, <1>7, <1>8, <1>9

(* Where a block's link leads: to the next block, which starts where this  *)
(* one ends, or nowhere if this one ends at g_heap_end.                    *)
LEMMA NextIs ==
  ASSUME TypeOK, Tiling, NEW a \in Blocks
  PROVE  /\ end \in Nat /\ end <= HeapSize
         /\ a + HDR + hdr[a].size <= end
         /\ hdr[a].next = NULL => a + HDR + hdr[a].size = end
         /\ hdr[a].next # NULL =>
              hdr[a].next = a + HDR + hdr[a].size /\ hdr[a].next \in Blocks
         /\ \A b \in Blocks : a < b => a + HDR + hdr[a].size <= b
  <1>1. end \in Nat /\ end <= HeapSize
    BY SizesAssumption DEF TypeOK, HeapTypeOK
  <1>2. a + HDR + hdr[a].size \in Nat
    BY HeaderTypes, SizesAssumption
  <1> QED
    BY <1>1, <1>2 DEF Tiling, BlockEnd, NULL

(* Every block behind the cursor's next position is behind the cursor or   *)
(* under it.                                                               *)
LEMMA BehindNext ==
  ASSUME TypeOK, Tiling, NEW b \in Blocks, NEW a \in Blocks,
         hdr[b].next = NULL \/ a < hdr[b].next
  PROVE  a <= b
  <1>1. /\ a \in Nat /\ b \in Nat /\ hdr[a].size \in Nat /\ hdr[b].size \in Nat
        /\ HDR \in Nat /\ HDR > 0
    BY HeaderTypes, SizesAssumption
  <1>2. a + HDR + hdr[a].size <= end /\ end \in Nat
    BY NextIs
  <1>3. /\ hdr[b].next = NULL => b + HDR + hdr[b].size = end
        /\ hdr[b].next # NULL => hdr[b].next = b + HDR + hdr[b].size
        /\ b < a => b + HDR + hdr[b].size <= a
    BY NextIs
  <1> QED
    BY <1>1, <1>2, <1>3

(* malloc's loop passes a block that does not fit. *)
LEMMA MallocSkipIInv == ASSUME IInv, MallocSkip PROVE IInv'
  <1> USE DEF IInv
  <1>1. block \in Blocks /\ hdr[block].next \in Blocks \cup {NULL}
    BY NextIs DEF MallocSkip, TypeOK, CallTypeOK
  <1>2. TypeOK'
    <2>1. HeapTypeOK' /\ BytesTypeOK' /\ LiveTypeOK'
      BY DEF TypeOK, HeapTypeOK, BytesTypeOK, LiveTypeOK, Blocks, MallocSkip
    <2>2. CallTypeOK'
      BY <1>1 DEF TypeOK, CallTypeOK, Blocks, MallocSkip
    <2> QED
      BY <2>1, <2>2 DEF TypeOK
  <1>3. Tiling' /\ Aligned'
    BY ListUntouched DEF MallocSkip
  <1>4. Ownership' /\ Locals'
    BY DEF Ownership, Locals, Blocks, MallocSkip
  <1>5. Cursor'
    BY <1>1, HeaderTypes DEF Cursor, MallocSkip, NULL
  <1>6. Scanned'
    <2> SUFFICES ASSUME NEW a \in Blocks, hdr[a].free = 1,
                        hdr[block].next = NULL \/ a < hdr[block].next
                 PROVE  hdr[a].size < wanted
      BY DEF Scanned, Blocks, MallocSkip
    <2>1. a <= block /\ a \in Nat /\ block \in Nat
      BY <1>1, BehindNext, HeaderTypes
    <2>2. CASE a = block
      BY <2>2, <1>1, HeaderTypes DEF MallocSkip, Fits, TypeOK, CallTypeOK
    <2>3. CASE a < block
      BY <2>3 DEF Scanned, MallocSkip
    <2> QED
      BY <2>1, <2>2, <2>3
  <1>7. Merged' /\ FailsOnlyWhenFull' /\ FirstFit'
    BY DEF Merged, FailsOnlyWhenFull, FirstFit, Blocks, MallocSkip
  <1> QED
    BY <1>2, <1>3, <1>4, <1>5, <1>6, <1>7

(* Setting a block's free flag changes nothing else about the list. *)
LEMMA FlagChange ==
  ASSUME IInv, NEW b \in Blocks, NEW v \in {0, 1},
         hdr' = [hdr EXCEPT ![b].free = v], UNCHANGED <<head, end>>
  PROVE  /\ Blocks' = Blocks
         /\ \A a \in Blocks :
              hdr'[a].size = hdr[a].size /\ hdr'[a].next = hdr[a].next
         /\ \A a \in Blocks : a # b => hdr'[a].free = hdr[a].free
         /\ hdr'[b].free = v
         /\ hdr' \in [Blocks -> Header]
         /\ Tiling' /\ Aligned'
  <1>1. hdr \in [Blocks -> Header]
    BY DEF IInv, TypeOK, HeapTypeOK
  <1>2. /\ Blocks' = Blocks
        /\ \A a \in Blocks :
             hdr'[a].size = hdr[a].size /\ hdr'[a].next = hdr[a].next
        /\ \A a \in Blocks : a # b => hdr'[a].free = hdr[a].free
        /\ hdr'[b].free = v
        /\ hdr' \in [Blocks -> Header]
    BY <1>1 DEF Blocks, Header
  <1>3. Tiling' /\ Aligned'
    BY <1>2 DEF IInv, Tiling, Aligned, BlockEnd
  <1> QED
    BY <1>2, <1>3

(* Writing a header leaves every byte a byte. *)
LEMMA HeaderBytes ==
  ASSUME NEW m \in [0 .. HeapSize - 1 -> Byte \cup {HeaderByte}], NEW a
  PROVE  WriteHeader(m, a) \in [0 .. HeapSize - 1 -> Byte \cup {HeaderByte}]
  BY DEF WriteHeader

(* malloc takes a free block off the offer. *)
LEMMA MallocTakeIInv == ASSUME IInv, MallocTake PROVE IInv'
  <1> USE DEF IInv
  <1>1. block \in Blocks /\ hdr[block].free = 1 /\ hdr[block].size >= wanted
    BY DEF MallocTake, TypeOK, CallTypeOK, Fits
  <1>2. /\ Blocks' = Blocks
        /\ \A a \in Blocks :
             hdr'[a].size = hdr[a].size /\ hdr'[a].next = hdr[a].next
        /\ \A a \in Blocks : a # block => hdr'[a].free = hdr[a].free
        /\ hdr'[block].free = 0
        /\ hdr' \in [Blocks -> Header]
        /\ Tiling' /\ Aligned'
    BY <1>1, FlagChange DEF MallocTake
  <1>3. /\ block \in Nat /\ HDR \in Nat /\ HeapSize \in Nat
        /\ block + HDR <= HeapSize
    BY <1>1, NextIs, HeaderTypes, SizesAssumption
  <1>4. block + HDR \notin DOMAIN live
    <2>1. \A p \in DOMAIN live : hdr[p - HDR].free = 0
      BY DEF Ownership
    <2>2. (block + HDR) - HDR = block
      BY <1>3
    <2> QED
      BY <2>1, <2>2, <1>1
  <1>5. TypeOK'
    <2>1. HeapTypeOK'
      BY <1>2 DEF TypeOK, HeapTypeOK, MallocTake
    <2>2. BytesTypeOK' /\ LiveTypeOK'
      BY HeaderBytes DEF TypeOK, BytesTypeOK, LiveTypeOK, MallocTake
    <2>3. CallTypeOK'
      BY <1>2, <1>3 DEF TypeOK, CallTypeOK, MallocTake
    <2> QED
      BY <2>1, <2>2, <2>3 DEF TypeOK
  <1>6. Ownership'
    <2>1. \A p \in DOMAIN live : p - HDR # block
      BY <1>1 DEF Ownership
    <2> QED
      BY <1>2, <1>3, <2>1 DEF Ownership, MallocTake
  <1>7. Locals'
    <2>1. ret' = block + HDR /\ ret' - HDR = block
      BY <1>3 DEF MallocTake
    <2>2. call.ptr # NULL => call.ptr - HDR \in Blocks
      BY DEF Locals, Ownership, MallocTake
    <2> QED
      BY <1>1, <1>2, <1>4, <2>1, <2>2 DEF Locals, MallocTake
  <1>8. Cursor' /\ Scanned'
    BY DEF Cursor, Scanned, MallocTake
  <1>9. Merged'
    <2> SUFFICES ASSUME NEW a \in Blocks, hdr[a].next # NULL
                 PROVE  ~ (hdr'[a].free = 1 /\ hdr'[hdr[a].next].free = 1)
      BY <1>2 DEF Merged
    <2>1. hdr[a].next \in Blocks
      BY NextIs
    <2>2. ~ (hdr[a].free = 1 /\ hdr[hdr[a].next].free = 1)
      BY DEF Merged, MallocTake
    <2> QED
      BY <1>2, <2>1, <2>2
  <1>10. FailsOnlyWhenFull'
    BY <1>3 DEF FailsOnlyWhenFull, MallocTake, NULL
  <1>11. FirstFit'
    <2> SUFFICES ASSUME NEW a \in Blocks, hdr'[a].free = 1, a + HDR < block + HDR
                 PROVE  hdr[a].size < wanted
      BY <1>2 DEF FirstFit, MallocTake
    <2>1. a < block /\ a # block
      BY <1>3, HeaderTypes
    <2> QED
      BY <1>2, <2>1 DEF Scanned, MallocTake
  <1> QED
    BY <1>2, <1>5, <1>6, <1>7, <1>8, <1>9, <1>10, <1>11

(* malloc gives up with ENOMEM. *)
LEMMA MallocFailIInv == ASSUME IInv, MallocFail PROVE IInv'
  <1> USE DEF IInv
  <1>1. TypeOK'
    <2>1. HeapTypeOK' /\ BytesTypeOK' /\ LiveTypeOK'
      BY DEF TypeOK, HeapTypeOK, BytesTypeOK, LiveTypeOK, Blocks, MallocFail
    <2>2. CallTypeOK'
      BY SizesAssumption DEF TypeOK, CallTypeOK, Blocks, MallocFail, NULL
    <2> QED
      BY <2>1, <2>2 DEF TypeOK
  <1>2. Tiling' /\ Aligned'
    BY ListUntouched DEF MallocFail
  <1>3. Ownership' /\ Locals' /\ Cursor' /\ Scanned' /\ Merged'
    BY DEF Ownership, Locals, Cursor, Scanned, Merged, Blocks, MallocFail
  <1>4. FailsOnlyWhenFull' /\ FirstFit'
    <2>1. Footprint(wanted) = HDR + wanted
      BY FootprintIs DEF Locals, MallocFail, TypeOK, CallTypeOK
    <2> QED
      BY <2>1 DEF FailsOnlyWhenFull, FirstFit, Scanned, Blocks, MallocFail
  <1> QED
    BY <1>1, <1>2, <1>3, <1>4

(* Linking a new block behind block b. *)
LEMMA Append ==
  ASSUME hdr \in [Blocks -> Header], NEW b \in Blocks,
         NEW e \in 0 .. HeapSize, e \notin Blocks, NEW s \in 0 .. HeapSize,
         hdr' = With([hdr EXCEPT ![b].next = e], e,
                     [size |-> s, next |-> NULL, free |-> 0])
  PROVE  /\ Blocks' = Blocks \cup {e}
         /\ \A a \in Blocks :
              /\ hdr'[a].size = hdr[a].size /\ hdr'[a].free = hdr[a].free
              /\ hdr'[a].next = IF a = b THEN e ELSE hdr[a].next
         /\ hdr'[e].size = s /\ hdr'[e].next = NULL /\ hdr'[e].free = 0
         /\ hdr' \in [Blocks \cup {e} -> Header]
  <1> DEFINE old == [hdr EXCEPT ![b].next = e]
             new == [size |-> s, next |-> NULL, free |-> 0]
  <1>1. /\ old \in [Blocks -> Header]
        /\ \A a \in Blocks :
             /\ old[a].size = hdr[a].size /\ old[a].free = hdr[a].free
             /\ old[a].next = IF a = b THEN e ELSE hdr[a].next
    BY DEF Blocks, Header
  <1>2. hdr' = With(old, e, new)
    OBVIOUS
  <1>3. /\ new \in Header /\ new.size = s /\ new.next = NULL /\ new.free = 0
    BY SizesAssumption DEF Header, NULL
  <1> HIDE DEF old, new
  <1> QED
    BY <1>1, <1>2, <1>3 DEF With, Blocks

(* malloc appends a block at g_heap_end. *)
LEMMA MallocExtendIInv == ASSUME IInv, MallocExtend PROVE IInv'
  <1> USE DEF IInv
  <1>w. /\ wanted \in Nat /\ wanted % 4 = 0 /\ 4 <= wanted
        /\ wanted <= SizeMod - HDR - 4
    BY SizesAssumption DEF MallocExtend, TypeOK, CallTypeOK, Locals
  <1>f. /\ Footprint(wanted) = HDR + wanted
        /\ end \in Nat /\ end % 4 = 0 /\ HDR \in Nat /\ HDR % 4 = 0 /\ HDR > 0
        /\ HeapSize \in Nat
        /\ end' = end + HDR + wanted /\ end' <= HeapSize /\ end' # 0
        /\ end' % 4 = 0
    <2>1. Footprint(wanted) = HDR + wanted
      BY <1>w, FootprintIs
    <2>2. end \in Nat /\ end % 4 = 0
      BY SizesAssumption DEF TypeOK, HeapTypeOK
    <2>3. end' = end + Footprint(wanted) /\ HeapSize - end >= Footprint(wanted)
      BY DEF MallocExtend
    <2> QED
      BY <1>w, <2>1, <2>2, <2>3, SizesAssumption
  <1>n. end \notin Blocks
    <2> SUFFICES ASSUME end \in Blocks PROVE FALSE
      OBVIOUS
    <2> QED
      BY <1>f, NextIs, HeaderTypes
  <1>g. hdr \in [Blocks -> Header]
    BY DEF TypeOK, HeapTypeOK
  <1>h. [size |-> wanted, next |-> NULL, free |-> 0] \in Header
    BY <1>w, <1>f DEF Header, NULL
  <1>p. /\ prev = NULL => Blocks = {} /\ end = 0 /\ head' = 0
        /\ prev # NULL => /\ prev \in Blocks /\ hdr[prev].next = NULL
                          /\ prev + HDR + hdr[prev].size = end /\ head' = head
                          /\ head = 0 /\ 0 \in Blocks
    <2>1. CASE prev = NULL
      BY <2>1, HeadIs DEF Cursor, MallocExtend
    <2>2. CASE prev # NULL
      <3>1. prev \in Blocks /\ hdr[prev].next = NULL /\ head' = head
        BY <2>2 DEF Cursor, MallocExtend, TypeOK, CallTypeOK
      <3>2. head # NULL
        BY <3>1, HeadIs
      <3> QED
        BY <2>2, <3>1, <3>2, NextIs, HeadIs
    <2> QED
      BY <2>1, <2>2
  <1>1. /\ Blocks' = Blocks \cup {end}
        /\ \A a \in Blocks :
             /\ hdr'[a].size = hdr[a].size /\ hdr'[a].free = hdr[a].free
             /\ hdr'[a].next = IF a = prev THEN end ELSE hdr[a].next
        /\ hdr'[end].size = wanted /\ hdr'[end].next = NULL /\ hdr'[end].free = 0
        /\ hdr' \in [Blocks \cup {end} -> Header]
    <2>1. CASE prev = NULL
      BY <2>1, <1>p, <1>h DEF MallocExtend, With, Blocks
    <2>2. CASE prev # NULL
      <3>1. prev \in Blocks /\ end \in 0 .. HeapSize /\ wanted \in 0 .. HeapSize
        BY <1>f, <1>p, <1>w, <2>2
      <3>2. hdr' = With([hdr EXCEPT ![prev].next = end], end,
                        [size |-> wanted, next |-> NULL, free |-> 0])
        BY <2>2 DEF MallocExtend
      <3> QED
        BY <3>1, <3>2, <1>g, <1>n, Append
    <2> QED
      BY <2>1, <2>2
  <1>2. TypeOK'
    <2>1. HeapTypeOK'
      <3>1. Blocks' \subseteq 0 .. HeapSize
        BY <1>1, <1>f DEF TypeOK, HeapTypeOK
      <3>2. \A a \in Blocks' : hdr'[a].size % 4 = 0
        BY <1>1, <1>w DEF TypeOK, HeapTypeOK
      <3>3. head' \in {NULL, 0} /\ end' \in 0 .. HeapSize /\ end' % 4 = 0
        <4>1. head' = 0
          BY <1>p
        <4> QED
          BY <4>1, <1>f, <1>w
      <3> QED
        BY <1>1, <3>1, <3>2, <3>3 DEF TypeOK, HeapTypeOK, MallocExtend
    <2>2. BytesTypeOK' /\ LiveTypeOK'
      BY HeaderBytes DEF TypeOK, BytesTypeOK, LiveTypeOK, MallocExtend
    <2>3. CallTypeOK'
      BY <1>1, <1>f, <1>w DEF TypeOK, CallTypeOK, MallocExtend
    <2> QED
      BY <2>1, <2>2, <2>3 DEF TypeOK
  <1>3. Tiling'
    <2>1. head' = IF end' = 0 THEN NULL ELSE 0
      BY <1>f, <1>p
    <2>2. 0 \in Blocks'
      BY <1>1, <1>p
    <2>3. ASSUME NEW a \in Blocks'
          PROVE  /\ BlockEnd(a)' <= end'
                 /\ hdr'[a].next = IF BlockEnd(a)' = end' THEN NULL
                                                          ELSE BlockEnd(a)'
                 /\ BlockEnd(a)' # end' => BlockEnd(a)' \in Blocks'
                 /\ \A b \in Blocks' : a < b => BlockEnd(a)' <= b
      <3>1. CASE a = end
        <4>1. BlockEnd(a)' = end'
          BY <3>1, <1>1, <1>f DEF BlockEnd
        <4>2. \A b \in Blocks' : ~ (a < b)
          BY <3>1, <1>1, <1>f, NextIs, HeaderTypes
        <4> QED
          BY <4>1, <4>2, <3>1, <1>1, <1>f, <1>w
      <3>2. CASE a \in Blocks
        <4>1. /\ BlockEnd(a)' = a + HDR + hdr[a].size
              /\ a + HDR + hdr[a].size \in Nat /\ a + HDR + hdr[a].size <= end
          BY <3>2, <1>1, <1>f, NextIs, HeaderTypes DEF BlockEnd
        <4>2. a = prev => a + HDR + hdr[a].size = end /\ hdr'[a].next = end
          BY <1>p, <1>1, <3>2 DEF NULL
        <4>3. a # prev =>
                /\ hdr'[a].next = hdr[a].next /\ hdr[a].next # NULL
                /\ hdr[a].next = a + HDR + hdr[a].size /\ hdr[a].next \in Blocks
          <5> SUFFICES ASSUME a # prev, hdr[a].next = NULL PROVE FALSE
            BY <1>1, <3>2, NextIs
          <5>1. prev \in Blocks /\ hdr[prev].next = NULL
            BY <1>p, <3>2
          <5>2. a <= prev /\ prev <= a /\ a \in Nat /\ prev \in Nat
            BY <5>1, <3>2, BehindNext, HeaderTypes
          <5> QED
            BY <5>2
        <4>4. \A b \in Blocks : a < b => a + HDR + hdr[a].size <= b
          BY <3>2, NextIs
        <4>5. BlockEnd(a)' <= end' /\ BlockEnd(a)' # end'
          BY <4>1, <1>f, <1>w
        <4>6. hdr'[a].next = BlockEnd(a)' /\ BlockEnd(a)' \in Blocks'
          BY <4>1, <4>2, <4>3, <1>1
        <4>7. \A b \in Blocks' : a < b => BlockEnd(a)' <= b
          BY <4>1, <4>4, <1>1
        <4> QED
          BY <4>5, <4>6, <4>7
      <3> QED
        BY <1>1, <3>1, <3>2
    <2> QED
      BY <2>1, <2>2, <2>3 DEF Tiling
  <1>4. Aligned'
    BY <1>1, <1>f, <1>w DEF Aligned
  <1>5. end + HDR \notin DOMAIN live
    BY <1>n, <1>f DEF Ownership
  <1>6. Ownership'
    <2>1. \A p \in DOMAIN live : p - HDR \in Blocks
      BY DEF Ownership
    <2> QED
      BY <1>1, <2>1 DEF Ownership, MallocExtend
  <1>7. Locals'
    <2>1. ret' = end + HDR /\ ret' - HDR = end
      BY <1>f DEF MallocExtend
    <2>2. call.ptr # NULL => call.ptr - HDR \in Blocks
      BY DEF Locals, Ownership, MallocExtend
    <2> QED
      BY <1>1, <1>5, <1>w, <2>1, <2>2 DEF Locals, MallocExtend
  <1>8. Cursor' /\ Scanned'
    BY DEF Cursor, Scanned, MallocExtend
  <1>9. Merged'
    <2> SUFFICES ASSUME NEW a \in Blocks', hdr'[a].next # NULL
                 PROVE  ~ (hdr'[a].free = 1 /\ hdr'[hdr'[a].next].free = 1)
      BY DEF Merged
    <2>1. CASE a = end
      BY <2>1, <1>1
    <2>2. CASE a \in Blocks /\ a = prev
      BY <2>2, <1>1
    <2>3. CASE a \in Blocks /\ a # prev
      <3>1. hdr'[a].next = hdr[a].next /\ hdr[a].next \in Blocks
        BY <2>3, <1>1, NextIs
      <3>2. ~ (hdr[a].free = 1 /\ hdr[hdr[a].next].free = 1)
        BY <3>1, <2>3 DEF Merged, MallocExtend
      <3> QED
        BY <3>1, <3>2, <2>3, <1>1
    <2> QED
      BY <1>1, <2>1, <2>2, <2>3
  <1>10. FailsOnlyWhenFull'
    BY <1>f DEF FailsOnlyWhenFull, MallocExtend, NULL
  <1>11. FirstFit'
    BY <1>1 DEF FirstFit, Scanned, MallocExtend
  <1> QED
    BY <1>2, <1>3, <1>4, <1>6, <1>7, <1>8, <1>9, <1>10, <1>11

(* A call returns without having touched the list or the allocations. *)
LEMMA PlainReturn ==
  ASSUME IInv, pc = "walk" => block = NULL, Return,
         UNCHANGED <<hdr, head, end, live>>, errno' \in {0, ENOMEM},
         \A a \in Blocks : hdr[a].free = 1 \/ a + HDR \in DOMAIN live,
         BytesTypeOK', ret' \in -1 .. HeapSize
  PROVE  IInv'
  <1> USE DEF IInv, Return
  <1>1. TypeOK'
    <2>1. HeapTypeOK' /\ LiveTypeOK'
      BY DEF TypeOK, HeapTypeOK, LiveTypeOK, Blocks
    <2>2. CallTypeOK'
      BY SizesAssumption DEF CallTypeOK, Blocks, NULL, NoCall
    <2> QED
      BY <2>1, <2>2 DEF TypeOK
  <1>2. Tiling' /\ Aligned'
    BY ListUntouched
  <1>3. Ownership'
    BY DEF Ownership, Blocks
  <1>4. Locals' /\ Cursor' /\ Scanned' /\ Merged'
    BY DEF Locals, Cursor, Scanned, Merged, Blocks
  <1>5. FailsOnlyWhenFull' /\ FirstFit'
    BY DEF FailsOnlyWhenFull, FirstFit
  <1> QED
    BY <1>1, <1>2, <1>3, <1>4, <1>5

(* malloc's block becomes the caller's. *)
LEMMA HandOver ==
  ASSUME IInv, pc = "got", ret # NULL, call.ptr = NULL, Return,
         UNCHANGED <<hdr, head, end, errno, ret>>,
         live' = With(live, ret, call.size), BytesTypeOK'
  PROVE  IInv'
  <1> USE DEF IInv, Return
  <1>0. /\ ret - HDR \in Blocks /\ hdr[ret - HDR].free = 0
        /\ call.size <= hdr[ret - HDR].size
        /\ call.size \in Nat /\ ret \in Nat /\ HDR <= ret /\ ret <= HeapSize
    <2>1. /\ ret - HDR \in Blocks /\ hdr[ret - HDR].free = 0
          /\ hdr[ret - HDR].size >= wanted /\ call.size <= wanted
      BY DEF Locals
    <2>2. ret \in -1 .. HeapSize /\ call.size \in Nat /\ wanted \in 0 .. SizeMod - 1
      BY DEF TypeOK, CallTypeOK
    <2>3. ret - HDR \in Nat /\ hdr[ret - HDR].size \in Nat
      BY <2>1, HeaderTypes
    <2> QED
      BY <2>1, <2>2, <2>3, SizesAssumption
  <1>1. /\ DOMAIN live' = DOMAIN live \cup {ret}
        /\ live'[ret] = call.size
        /\ \A p \in DOMAIN live : p # ret => live'[p] = live[p]
    BY DEF With
  <1>2. TypeOK'
    <2>1. HeapTypeOK'
      BY DEF TypeOK, HeapTypeOK, Blocks
    <2>2. LiveTypeOK'
      BY <1>0, <1>1, SizesAssumption DEF TypeOK, LiveTypeOK, With
    <2>3. CallTypeOK'
      BY SizesAssumption DEF TypeOK, CallTypeOK, Blocks, NULL, NoCall
    <2> QED
      BY <2>1, <2>2, <2>3 DEF TypeOK
  <1>3. Tiling' /\ Aligned'
    BY DEF Tiling, Aligned, Blocks, BlockEnd
  <1>4. Ownership'
    <2>1. Blocks' = Blocks
      BY DEF Blocks
    <2> QED
      BY <1>0, <1>1, <2>1 DEF Ownership
  <1>5. Locals' /\ Cursor' /\ Scanned' /\ Merged'
    BY DEF Locals, Cursor, Scanned, Merged, Blocks
  <1>6. FailsOnlyWhenFull' /\ FirstFit'
    BY DEF FailsOnlyWhenFull, FirstFit
  <1> QED
    BY <1>2, <1>3, <1>4, <1>5, <1>6

(* If malloc produced nothing, every block in use is the caller's. *)
LEMMA NothingPending ==
  ASSUME IInv, pc # "got" \/ ret = NULL
  PROVE  \A a \in Blocks : hdr[a].free = 1 \/ a + HDR \in DOMAIN live
  BY HeaderTypes, SizesAssumption DEF IInv, Ownership, NULL

(* malloc returns to its caller. *)
LEMMA MallocDoneIInv == ASSUME IInv, MallocDone PROVE IInv'
  <1>1. call.ptr = NULL
    BY DEF IInv, Locals, MallocDone
  <1>2. BytesTypeOK' /\ ret' \in -1 .. HeapSize /\ errno' \in {0, ENOMEM}
    BY DEF IInv, TypeOK, HeapTypeOK, BytesTypeOK, CallTypeOK, MallocDone
  <1>3. CASE ret = NULL
    BY <1>2, <1>3, PlainReturn, NothingPending DEF MallocDone
  <1>4. CASE ret # NULL
    BY <1>1, <1>2, <1>4, HandOver DEF MallocDone
  <1> QED
    BY <1>3, <1>4

(* calloc clears the block and returns. *)
LEMMA CallocDoneIInv == ASSUME IInv, CallocDone PROVE IInv'
  <1>1. call.ptr = NULL
    BY DEF IInv, Locals, CallocDone
  <1>2. mem \in [0 .. HeapSize - 1 -> Byte \cup {HeaderByte}]
        /\ ret \in -1 .. HeapSize /\ errno \in {0, ENOMEM}
    BY DEF IInv, TypeOK, HeapTypeOK, BytesTypeOK, CallTypeOK
  <1>3. CASE ret = NULL
    <2>1. BytesTypeOK' /\ ret' \in -1 .. HeapSize /\ errno' \in {0, ENOMEM}
      BY <1>2, <1>3 DEF BytesTypeOK, CallocDone
    <2> QED
      BY <2>1, <1>3, PlainReturn, NothingPending DEF CallocDone
  <1>4. CASE ret # NULL
    <2>1. BytesTypeOK'
      BY <1>2, <1>4, ByteAssumption DEF BytesTypeOK, CallocDone
    <2> QED
      BY <2>1, <1>1, <1>4, HandOver DEF CallocDone
  <1> QED
    BY <1>3, <1>4

(* realloc returns 0 and leaves the old block alone. *)
LEMMA ReallocFailIInv == ASSUME IInv, ReallocFail PROVE IInv'
  <1>1. BytesTypeOK' /\ ret' \in -1 .. HeapSize /\ errno' \in {0, ENOMEM}
    BY DEF IInv, TypeOK, HeapTypeOK, BytesTypeOK, CallTypeOK, ReallocFail
  <1> QED
    BY <1>1, PlainReturn, NothingPending DEF ReallocFail

(* free marks the block and starts its pass over the list. *)
LEMMA EnterFreeIInv ==
  ASSUME IInv, NEW p \in DOMAIN live, NEW m, EnterFree(p, m),
         m \in [0 .. HeapSize - 1 -> Byte \cup {HeaderByte}],
         call' \in [op : {"none", "malloc", "calloc", "realloc", "free"},
                   ptr : -1 .. HeapSize, size : Nat],
         ret' \in -1 .. HeapSize, wanted' = wanted, LiveTypeOK',
         \A q \in DOMAIN live' : /\ q - HDR \in Blocks /\ q # p
                                 /\ hdr[q - HDR].free = 0
                                 /\ live'[q] <= hdr[q - HDR].size,
         \A a \in Blocks :
            hdr[a].free = 1 \/ a + HDR \in DOMAIN live' \/ a = p - HDR
  PROVE  IInv'
  <1> USE DEF IInv, EnterFree
  <1>1. p - HDR \in Blocks
    BY DEF Ownership
  <1>2. /\ Blocks' = Blocks
        /\ \A a \in Blocks :
             hdr'[a].size = hdr[a].size /\ hdr'[a].next = hdr[a].next
        /\ \A a \in Blocks : a # p - HDR => hdr'[a].free = hdr[a].free
        /\ hdr'[p - HDR].free = 1
        /\ hdr' \in [Blocks -> Header]
        /\ Tiling' /\ Aligned'
    BY <1>1, FlagChange
  <1>3. /\ head = NULL => Blocks = {} /\ end = 0
        /\ head # NULL => head = 0 /\ 0 \in Blocks
        /\ head \in Blocks \cup {NULL}
    BY HeadIs
  <1>4. TypeOK'
    <2>1. HeapTypeOK'
      BY <1>2 DEF TypeOK, HeapTypeOK
    <2>2. BytesTypeOK'
      BY HeaderBytes DEF BytesTypeOK
    <2>3. CallTypeOK'
      BY <1>2, <1>3 DEF TypeOK, CallTypeOK
    <2> QED
      BY <2>1, <2>2, <2>3 DEF TypeOK
  <1>5. Ownership'
    <2>1. \A q \in DOMAIN live' : q - HDR # p - HDR
      BY SizesAssumption, SMTT(60) DEF LiveTypeOK, TypeOK
    <2> QED
      BY <1>2, <2>1 DEF Ownership
  <1>6. Locals' /\ Scanned' /\ FailsOnlyWhenFull' /\ FirstFit'
    BY DEF Locals, Scanned, FailsOnlyWhenFull, FirstFit
  <1>7. Cursor'
    BY DEF Cursor
  <1>8. Merged'
    <2> SUFFICES ASSUME NEW a \in Blocks, hdr[a].next # NULL,
                        head = NULL \/ hdr[a].next < head
                 PROVE  FALSE
      BY <1>2 DEF Merged
    <2>1. hdr[a].next \in Nat
      BY NextIs, HeaderTypes
    <2> QED
      BY <2>1, <1>3
  <1> QED
    BY <1>2, <1>4, <1>5, <1>6, <1>7, <1>8

(* free(p) and realloc(p, 0) enter the pass over the list. *)
LEMMA FreeCallIInv ==
  ASSUME IInv, NEW p \in DOMAIN live, NEW op \in {"free", "realloc"},
         FreeCall(op, p)
  PROVE  IInv'
  <1>1. /\ DOMAIN live' = DOMAIN live \ {p}
        /\ \A q \in DOMAIN live' : live'[q] = live[q]
    BY DEF FreeCall, Without
  <1>2. LiveTypeOK'
    BY <1>1 DEF IInv, TypeOK, LiveTypeOK, FreeCall, Without
  <1>3. \A q \in DOMAIN live' : /\ q - HDR \in Blocks /\ q # p
                                /\ hdr[q - HDR].free = 0
                                /\ live'[q] <= hdr[q - HDR].size
    BY <1>1 DEF IInv, Ownership
  <1>4. ASSUME NEW a \in Blocks
        PROVE  hdr[a].free = 1 \/ a + HDR \in DOMAIN live' \/ a = p - HDR
    <2>1. hdr[a].free = 1 \/ a + HDR \in DOMAIN live
      BY NothingPending DEF FreeCall
    <2>2. a \in Nat /\ HDR \in Nat
      BY HeaderTypes, SizesAssumption DEF IInv
    <2> QED
      BY <1>1, <2>1, <2>2
  <1>5. p \in -1 .. HeapSize
    BY SizesAssumption DEF IInv, TypeOK, LiveTypeOK
  <1>6. /\ call' \in [op : {"none", "malloc", "calloc", "realloc", "free"},
                     ptr : -1 .. HeapSize, size : Nat]
        /\ ret' \in -1 .. HeapSize /\ wanted' = wanted /\ EnterFree(p, mem)
    BY <1>5, SizesAssumption DEF FreeCall, NULL
  <1>7. mem \in [0 .. HeapSize - 1 -> Byte \cup {HeaderByte}]
    BY DEF IInv, TypeOK, BytesTypeOK
  <1> QED
    BY <1>2, <1>3, <1>4, <1>6, <1>7, EnterFreeIInv

(* realloc copies the old block and enters free. *)
LEMMA ReallocMoveIInv == ASSUME IInv, ReallocMove PROVE IInv'
  <1> DEFINE p == call.ptr
             moved == [x \in DOMAIN mem |->
                         IF x \in ret .. ret + CopyLength - 1
                         THEN mem[call.ptr + (x - ret)] ELSE mem[x]]
  <1>1. /\ p \in DOMAIN live /\ ret \notin DOMAIN live
        /\ ret - HDR \in Blocks /\ hdr[ret - HDR].free = 0
        /\ hdr[ret - HDR].size >= wanted /\ call.size <= wanted
        /\ hdr[p - HDR].size < call.size
    BY DEF IInv, Locals, ReallocMove
  <1>2. /\ ret \in Nat /\ HDR <= ret /\ ret <= HeapSize /\ HDR \in Nat
        /\ call.size \in Nat /\ wanted \in Nat /\ hdr[ret - HDR].size \in Nat
        /\ p \in HDR .. HeapSize
    <2>1. ret - HDR \in Nat /\ hdr[ret - HDR].size \in Nat
      BY <1>1, HeaderTypes DEF IInv
    <2>2. /\ ret \in -1 .. HeapSize /\ wanted \in 0 .. SizeMod - 1
          /\ call.size \in Nat /\ p \in HDR .. HeapSize
      BY <1>1 DEF IInv, TypeOK, CallTypeOK, LiveTypeOK
    <2> QED
      BY <2>1, <2>2, SizesAssumption
  <1>3. /\ DOMAIN live' = (DOMAIN live \ {p}) \cup {ret}
        /\ \A q \in DOMAIN live \ {p} : live'[q] = live[q]
        /\ live'[ret] = call.size
    BY <1>1 DEF ReallocMove, Without, With
  <1>4. LiveTypeOK'
    <2>1. DOMAIN live' \subseteq HDR .. HeapSize
      BY <1>2, <1>3, SizesAssumption DEF IInv, TypeOK, LiveTypeOK
    <2>2. \A q \in DOMAIN live' : live'[q] \in Nat
      BY <1>2, <1>3 DEF IInv, TypeOK, LiveTypeOK
    <2>3. live' = [q \in DOMAIN live' |-> live'[q]]
      BY DEF ReallocMove, With
    <2> QED
      BY <2>1, <2>2, <2>3 DEF LiveTypeOK
  <1>5. \A q \in DOMAIN live' : /\ q - HDR \in Blocks /\ q # p
                                /\ hdr[q - HDR].free = 0
                                /\ live'[q] <= hdr[q - HDR].size
    BY <1>1, <1>2, <1>3 DEF IInv, Ownership
  <1>6. ASSUME NEW a \in Blocks
        PROVE  hdr[a].free = 1 \/ a + HDR \in DOMAIN live' \/ a = p - HDR
    <2>1. hdr[a].free = 1 \/ a + HDR \in DOMAIN live \/ ret = a + HDR
      BY DEF IInv, Ownership
    <2>2. a \in Nat /\ HDR \in Nat
      BY HeaderTypes, SizesAssumption DEF IInv
    <2> QED
      BY <1>2, <1>3, <2>1, <2>2
  <1>7. moved \in [0 .. HeapSize - 1 -> Byte \cup {HeaderByte}]
    <2>1. mem \in [0 .. HeapSize - 1 -> Byte \cup {HeaderByte}]
      BY DEF IInv, TypeOK, BytesTypeOK
    <2>2. CopyLength = hdr[p - HDR].size
      BY <1>1 DEF CopyLength
    <2>3. p - HDR \in Blocks
      BY <1>1 DEF IInv, Ownership
    <2>4. /\ p + hdr[p - HDR].size <= HeapSize
          /\ hdr[p - HDR].size \in Nat /\ p \in Nat
      <3>1. /\ (p - HDR) + HDR + hdr[p - HDR].size <= end /\ end <= HeapSize
            /\ end \in Nat /\ hdr[p - HDR].size \in Nat
        BY <2>3, NextIs, HeaderTypes DEF IInv
      <3> QED
        BY <3>1, <1>2, SizesAssumption
    <2>5. \A x \in ret .. ret + CopyLength - 1 :
             call.ptr + (x - ret) \in 0 .. HeapSize - 1
      BY <1>2, <2>2, <2>4, SizesAssumption
    <2> QED
      BY <2>1, <2>5
  <1>8. /\ call' \in [op : {"none", "malloc", "calloc", "realloc", "free"},
                     ptr : -1 .. HeapSize, size : Nat]
        /\ ret' \in -1 .. HeapSize /\ wanted' = wanted
    BY DEF IInv, TypeOK, CallTypeOK, ReallocMove
  <1>9. EnterFree(p, moved)
    BY DEF ReallocMove
  <1> HIDE DEF p, moved
  <1> QED
    BY <1>1, <1>4, <1>5, <1>6, <1>7, <1>8, <1>9, EnterFreeIInv

(* free's loop moves on by one block. *)
LEMMA FreeStepIInv == ASSUME IInv, FreeStep PROVE IInv'
  <1> USE DEF IInv
  <1>1. block \in Blocks /\ hdr[block].next \in Blocks \cup {NULL}
    BY NextIs DEF FreeStep, TypeOK, CallTypeOK
  <1>2. TypeOK'
    <2>1. HeapTypeOK' /\ BytesTypeOK' /\ LiveTypeOK'
      BY DEF TypeOK, HeapTypeOK, BytesTypeOK, LiveTypeOK, Blocks, FreeStep
    <2>2. CallTypeOK'
      BY <1>1 DEF TypeOK, CallTypeOK, Blocks, FreeStep
    <2> QED
      BY <2>1, <2>2 DEF TypeOK
  <1>3. Tiling' /\ Aligned'
    BY ListUntouched DEF FreeStep
  <1>4. Ownership' /\ Locals' /\ Scanned' /\ FailsOnlyWhenFull' /\ FirstFit'
    BY DEF Ownership, Locals, Scanned, FailsOnlyWhenFull, FirstFit, Blocks, FreeStep
  <1>5. Cursor'
    BY <1>1, HeaderTypes DEF Cursor, FreeStep, NULL
  <1>6. Merged'
    <2> SUFFICES ASSUME NEW a \in Blocks, hdr[a].next # NULL,
                        hdr[block].next = NULL \/ hdr[a].next < hdr[block].next
                 PROVE  ~ (hdr[a].free = 1 /\ hdr[hdr[a].next].free = 1)
      BY DEF Merged, Blocks, FreeStep
    <2>1. hdr[a].next \in Blocks
      BY NextIs
    <2>2. /\ hdr[a].next <= block
          /\ hdr[a].next \in Nat /\ block \in Nat /\ a \in Nat
      BY <1>1, <2>1, BehindNext, HeaderTypes
    <2>3. CASE hdr[a].next < block
      BY <2>3 DEF Merged, FreeStep
    <2>4. CASE hdr[a].next = block
      <3>1. a < block
        BY <2>4, <2>2, NextIs, HeaderTypes, SizesAssumption
      <3>2. prev # NULL
        <4> SUFFICES ASSUME prev = NULL PROVE FALSE
          OBVIOUS
        <4>1. block = 0
          BY <1>1, HeadIs, HeaderTypes DEF Cursor, FreeStep, NULL
        <4> QED
          BY <4>1, <3>1, <2>2
      <3>3. prev \in Blocks /\ hdr[prev].next = block
        BY <3>2 DEF Cursor, FreeStep, TypeOK, CallTypeOK
      <3>4. a = prev
        <4>1. prev \in Nat /\ block # NULL
          BY <3>3, HeaderTypes DEF FreeStep
        <4>2. /\ block = a + HDR + hdr[a].size
              /\ block = prev + HDR + hdr[prev].size
          BY <3>3, <2>4, <4>1, NextIs
        <4>3. /\ a < prev => a + HDR + hdr[a].size <= prev
              /\ prev < a => prev + HDR + hdr[prev].size <= a
          BY <3>3, NextIs
        <4>4. hdr[a].size \in Nat /\ hdr[prev].size \in Nat
          BY <3>3, HeaderTypes
        <4> QED
          BY <4>1, <4>2, <4>3, <4>4, <2>2, SizesAssumption
      <3> QED
        BY <2>4, <3>2, <3>4 DEF FreeStep, MergesHere
    <2> QED
      BY <2>2, <2>3, <2>4
  <1> QED
    BY <1>2, <1>3, <1>4, <1>5, <1>6

(* free's loop reached the end of the list. *)
LEMMA FreeDoneIInv == ASSUME IInv, FreeDone PROVE IInv'
  <1>1. BytesTypeOK' /\ ret' \in -1 .. HeapSize /\ errno' \in {0, ENOMEM}
    BY DEF IInv, TypeOK, HeapTypeOK, BytesTypeOK, CallTypeOK, FreeDone
  <1> QED
    BY <1>1, PlainReturn, NothingPending DEF FreeDone

(* The list after block b has been absorbed into its predecessor a. *)
LEMMA Absorb ==
  ASSUME hdr \in [Blocks -> Header], NEW a \in Blocks, NEW b \in Blocks, a # b,
         NEW s \in 0 .. HeapSize, NEW n \in -1 .. HeapSize,
         hdr' = Without([hdr EXCEPT ![a].size = s, ![a].next = n], b)
  PROVE  /\ Blocks' = Blocks \ {b}
         /\ hdr'[a].size = s /\ hdr'[a].next = n
         /\ \A c \in Blocks' : hdr'[c].free = hdr[c].free
         /\ \A c \in Blocks' \ {a} :
              hdr'[c].size = hdr[c].size /\ hdr'[c].next = hdr[c].next
         /\ hdr' \in [Blocks \ {b} -> Header]
  <1> DEFINE old == [hdr EXCEPT ![a].size = s, ![a].next = n]
  <1>1. /\ old \in [Blocks -> Header]
        /\ \A c \in Blocks : old[c].free = hdr[c].free
        /\ \A c \in Blocks \ {a} :
             old[c].size = hdr[c].size /\ old[c].next = hdr[c].next
        /\ old[a].size = s /\ old[a].next = n
    BY DEF Blocks, Header
  <1>2. hdr' = Without(old, b)
    OBVIOUS
  <1> HIDE DEF old
  <1>3. DOMAIN old = Blocks
    BY <1>1
  <1>4. /\ Blocks' = Blocks \ {b}
        /\ \A c \in Blocks \ {b} : hdr'[c] = old[c]
        /\ hdr' = [c \in Blocks \ {b} |-> old[c]]
    BY <1>2, <1>3 DEF Without, Blocks
  <1>5. hdr' \in [Blocks \ {b} -> Header]
    BY <1>1, <1>4
  <1>6. a \in Blocks \ {b}
    OBVIOUS
  <1> QED
    BY <1>1, <1>4, <1>5, <1>6

(* free's loop merges a block into its predecessor. *)
LEMMA FreeMergeIInv == ASSUME IInv, FreeMerge PROVE IInv'
  <1> USE DEF IInv
  <1>1. /\ block \in Blocks /\ prev \in Blocks /\ hdr[prev].next = block
        /\ prev # NULL /\ block # NULL
        /\ hdr[prev].free = 1 /\ hdr[block].free = 1
    BY DEF FreeMerge, MergesHere, TypeOK, CallTypeOK, Cursor
  <1> DEFINE s == hdr[prev].size + HDR + hdr[block].size
             n == hdr[block].next
  <1>2. /\ prev \in Nat /\ block \in Nat
        /\ hdr[prev].size \in Nat /\ hdr[block].size \in Nat
        /\ hdr[prev].size % 4 = 0 /\ hdr[block].size % 4 = 0
        /\ hdr[block].size <= HeapSize
        /\ HDR \in Nat /\ HDR > 0 /\ HDR % 4 = 0 /\ HeapSize \in Nat
    BY <1>1, HeaderTypes, SizesAssumption
  <1>3. /\ block = prev + HDR + hdr[prev].size
        /\ block + HDR + hdr[block].size <= end
        /\ end <= HeapSize /\ end \in Nat
        /\ n = NULL => block + HDR + hdr[block].size = end
        /\ n # NULL => n = block + HDR + hdr[block].size /\ n \in Blocks
    BY <1>1, NextIs
  <1>4. /\ s \in 0 .. HeapSize /\ s % 4 = 0 /\ s >= 4
        /\ n \in -1 .. HeapSize
        /\ prev + HDR + s = block + HDR + hdr[block].size
        /\ prev < block
    <2>1. hdr[prev].size >= 4
      BY <1>1 DEF Aligned
    <2>2. n \in -1 .. HeapSize
      BY <1>1 DEF TypeOK, HeapTypeOK, Header
    <2> QED
      BY <1>2, <1>3, <2>1, <2>2
  <1>5. hdr' = Without([hdr EXCEPT ![prev].size = s, ![prev].next = n], block)
    <2>1. Footprint(hdr[block].size) = HDR + hdr[block].size
      BY <1>2, FootprintIs, SizesAssumption
    <2>2. Add(hdr[prev].size, HDR + hdr[block].size) = s
      <3>1. hdr[prev].size + (HDR + hdr[block].size) = s
        BY <1>2
      <3>2. s < SizeMod
        BY <1>4, SizesAssumption
      <3> QED
        BY <3>1, <3>2 DEF Add
    <2> QED
      BY <2>1, <2>2, Zenon DEF FreeMerge
  <1>6. hdr \in [Blocks -> Header] /\ prev # block
    BY <1>2, <1>4 DEF TypeOK, HeapTypeOK
  <1> HIDE DEF s, n
  <1>7. /\ Blocks' = Blocks \ {block}
        /\ hdr'[prev].size = s /\ hdr'[prev].next = n
        /\ \A c \in Blocks' : hdr'[c].free = hdr[c].free
        /\ \A c \in Blocks' \ {prev} :
             hdr'[c].size = hdr[c].size /\ hdr'[c].next = hdr[c].next
        /\ hdr' \in [Blocks \ {block} -> Header]
    BY <1>1, <1>4, <1>5, <1>6, Absorb, ZenonT(60)
  <1>8. prev \in Blocks' /\ n # block
    BY <1>1, <1>2, <1>3, <1>6, <1>7 DEF NULL
  (* Only prev's link led to block. *)
  <1>9. ASSUME NEW c \in Blocks' \ {prev}
        PROVE  c \in Blocks /\ hdr[c].next # block
    <2>1. c \in Blocks /\ c # prev /\ c \in Nat /\ hdr[c].size \in Nat
      BY <1>7, HeaderTypes
    <2>2. /\ c < prev => c + HDR + hdr[c].size <= prev
          /\ prev < c => block <= c
          /\ hdr[c].next # NULL => hdr[c].next = c + HDR + hdr[c].size
      BY <2>1, <1>1, <1>3, NextIs
    <2> QED
      BY <2>1, <2>2, <1>1, <1>2, <1>4
  <1>10. TypeOK'
    <2>1. HeapTypeOK'
      <3>1. \A c \in Blocks' : hdr'[c].size % 4 = 0
        BY <1>4, <1>7 DEF TypeOK, HeapTypeOK
      <3> QED
        BY <1>7, <3>1 DEF TypeOK, HeapTypeOK, FreeMerge
    <2>2. BytesTypeOK' /\ LiveTypeOK'
      BY HeaderBytes DEF TypeOK, BytesTypeOK, LiveTypeOK, FreeMerge
    <2>3. CallTypeOK'
      <3>1. block' = n /\ n \in Blocks' \cup {NULL}
        BY <1>3, <1>7, <1>8, ZenonT(60) DEF FreeMerge, n
      <3> QED
        BY <1>8, <3>1 DEF TypeOK, CallTypeOK, FreeMerge
    <2> QED
      BY <2>1, <2>2, <2>3 DEF TypeOK
  <1>11. Tiling'
    <2>1. head' = (IF end' = 0 THEN NULL ELSE 0) /\ end' = end
      BY DEF Tiling, FreeMerge
    <2>2. end' # 0 => 0 \in Blocks'
      BY <2>1, <1>2, <1>4, <1>7 DEF Tiling
    <2>3. ASSUME NEW a \in Blocks'
          PROVE  /\ BlockEnd(a)' <= end'
                 /\ hdr'[a].next = IF BlockEnd(a)' = end' THEN NULL
                                                          ELSE BlockEnd(a)'
                 /\ BlockEnd(a)' # end' => BlockEnd(a)' \in Blocks'
                 /\ \A b \in Blocks' : a < b => BlockEnd(a)' <= b
      <3>1. CASE a = prev
        <4>1. BlockEnd(a)' = block + HDR + hdr[block].size /\ hdr'[a].next = n
          BY <3>1, <1>4, <1>7 DEF BlockEnd
        <4>2. \A b \in Blocks' : a < b => BlockEnd(a)' <= b
          <5> SUFFICES ASSUME NEW b \in Blocks', a < b
                       PROVE  block + HDR + hdr[block].size <= b
            BY <4>1
          <5>1. b \in Blocks /\ b # block /\ b \in Nat
            BY <1>7, HeaderTypes
          <5>2. block <= b
            BY <5>1, <1>1, <1>3, <3>1, NextIs, SMTT(60)
          <5> QED
            BY <5>1, <5>2, <1>1, <1>2, NextIs
        <4>3. n # NULL => n # end
          <5> SUFFICES ASSUME n # NULL, n = end PROVE FALSE
            OBVIOUS
          <5>1. end \in Blocks
            BY <1>3
          <5> QED
            BY <5>1, <1>2, <1>3, NextIs, HeaderTypes
        <4> QED
          BY <4>1, <4>2, <4>3, <2>1, <1>2, <1>3, <1>7, <1>8
      <3>2. CASE a # prev
        <4>1. a \in Blocks /\ hdr[a].next # block
          BY <3>2, <1>9
        <4>2. BlockEnd(a)' = BlockEnd(a) /\ hdr'[a].next = hdr[a].next
          BY <3>2, <1>7 DEF BlockEnd
        <4> QED
          BY <4>1, <4>2, <2>1, <1>7 DEF Tiling
      <3> QED
        BY <3>1, <3>2
    <2> QED
      BY <2>1, <2>2, <2>3 DEF Tiling
  <1>12. Aligned'
    BY <1>4, <1>7 DEF Aligned
  <1>13. Ownership'
    <2>1. \A p \in DOMAIN live : p - HDR # block /\ p - HDR # prev
      BY <1>1 DEF Ownership
    <2> QED
      BY <2>1, <1>1, <1>7, ZenonT(60) DEF Ownership, FreeMerge
  <1>14. Locals' /\ Scanned' /\ FailsOnlyWhenFull' /\ FirstFit'
    BY DEF Locals, Scanned, FailsOnlyWhenFull, FirstFit, FreeMerge
  <1>15. Cursor'
    BY <1>1, <1>7 DEF Cursor, FreeMerge, n
  <1>16. Merged'
    <2> SUFFICES ASSUME NEW a \in Blocks', hdr'[a].next # NULL,
                        n = NULL \/ hdr'[a].next < n
                 PROVE  ~ (hdr'[a].free = 1 /\ hdr'[hdr'[a].next].free = 1)
      BY DEF Merged, FreeMerge, n
    <2>1. a # prev
      BY <1>3, <1>4, <1>7, <1>2
    <2>2. /\ a \in Blocks /\ hdr[a].next # block
          /\ hdr'[a].next = hdr[a].next /\ hdr[a].next \in Blocks
      BY <2>1, <1>7, <1>9, NextIs
    <2>3. hdr[a].next <= block /\ hdr[a].next \in Nat
      BY <2>2, <1>1, BehindNext, HeaderTypes DEF n
    <2>4. hdr[a].next < block
      BY <2>2, <2>3, <1>2
    <2>5. ~ (hdr[a].free = 1 /\ hdr[hdr[a].next].free = 1)
      BY <2>2, <2>4 DEF Merged, FreeMerge
    <2> QED
      BY <2>2, <2>5, <1>7, SMTT(60)
  <1> QED
    BY <1>10, <1>11, <1>12, <1>13, <1>14, <1>15, <1>16

-----------------------------------------------------------------------------
(* The caller's steps *)

(* A step between calls that leaves the list alone. *)
LEMMA BetweenCalls ==
  ASSUME IInv, pc = "idle",
         UNCHANGED <<hdr, head, end, pc, call, wanted, block, prev>>,
         errno' \in {0, ENOMEM}, ret' \in -1 .. HeapSize,
         BytesTypeOK', LiveTypeOK', Ownership'
  PROVE  IInv'
  <1> USE DEF IInv
  <1>1. HeapTypeOK' /\ CallTypeOK'
    BY DEF TypeOK, HeapTypeOK, CallTypeOK, Blocks
  <1>2. TypeOK'
    BY <1>1 DEF TypeOK
  <1>3. Tiling' /\ Aligned'
    BY DEF Tiling, Aligned, Blocks, BlockEnd
  <1>4. Locals' /\ Cursor' /\ Scanned' /\ Merged'
    BY DEF Locals, Cursor, Scanned, Merged, Blocks
  <1>5. FailsOnlyWhenFull' /\ FirstFit'
    BY DEF FailsOnlyWhenFull, FirstFit
  <1> QED
    BY <1>2, <1>3, <1>4, <1>5

(* free never ignores a pointer that malloc returned. *)
LEMMA LiveInHeap ==
  ASSUME IInv, NEW p \in DOMAIN live
  PROVE  InHeap(p)
  <1> DEFINE b == p - HDR
  <1>1. b \in Blocks /\ p \in HDR .. HeapSize
    BY DEF IInv, TypeOK, LiveTypeOK, Ownership
  <1>2. hdr[b].size >= 4
    BY <1>1 DEF IInv, Aligned
  <1>3. b + HDR + hdr[b].size <= end /\ hdr[b].size \in Nat /\ end \in Nat
    BY <1>1, NextIs, HeaderTypes DEF IInv
  <1> QED
    BY <1>1, <1>2, <1>3, SizesAssumption DEF InHeap, NULL

(* calloc enters malloc with the unreduced product. *)
LEMMA CallocCallIInv ==
  ASSUME IInv, NEW c \in CallocArgs, CallocCall(c[1], c[2])
  PROVE  IInv'
  <1>1. c[1] \in 0 .. SizeMod - 1 /\ c[2] \in 0 .. SizeMod - 1
    BY CallocAssumption
  <1>2. c[1] * c[2] \in Nat /\ c[1] * c[2] < SizeMod
    BY <1>1, CallocGuard DEF CallocCall
  <1>3. c[1] * c[2] <= SizeMod - HDR - 4
    BY <1>2, CallocAssumption
  <1>4. Product(c[1], c[2]) = c[1] * c[2]
    BY <1>2, ModIdentity DEF Product
  <1> DEFINE n == c[1] * c[2]
  <1>5. EnterMalloc(n) /\ pc = "idle"
        /\ call' = [op |-> "calloc", ptr |-> NULL, size |-> n]
    BY <1>4 DEF CallocCall
  <1>6. n \in 0 .. SizeMod - HDR - 4 /\ n \in Nat
    BY <1>2, <1>3, SizesAssumption
  <1> HIDE DEF n
  <1>7. /\ call'.op \in {"malloc", "calloc", "realloc"}
        /\ call' \in [op : {"none", "malloc", "calloc", "realloc", "free"},
                     ptr : -1 .. HeapSize, size : Nat]
        /\ call'.size = n /\ call'.ptr = NULL
    BY <1>5, <1>6, SizesAssumption DEF NULL
  <1> QED
    BY <1>5, <1>6, <1>7, EnterMallocIInv

(* Whatever call a correct caller makes keeps the invariant. *)
LEMMA CallerStepIInv == ASSUME IInv, CallerStep PROVE IInv'
  <1>b. BytesTypeOK /\ LiveTypeOK /\ errno \in {0, ENOMEM} /\ ret \in -1 .. HeapSize
    BY DEF IInv, TypeOK, HeapTypeOK, CallTypeOK
  <1>n. NULL \in -1 .. HeapSize
    BY SizesAssumption DEF NULL
  <1>r. \A n \in Requests : n \in 0 .. SizeMod - HDR - 4 /\ n \in Nat
    BY RequestsAssumption, SizesAssumption
  <1>1. ASSUME NEW n \in Requests, MallocCall(n) \/ ReallocNew(n)
        PROVE  IInv'
    <2>1. /\ call'.op \in {"malloc", "calloc", "realloc"}
          /\ call' \in [op : {"none", "malloc", "calloc", "realloc", "free"},
                       ptr : -1 .. HeapSize, size : Nat]
          /\ call'.size = n /\ call'.ptr = NULL
          /\ pc = "idle" /\ EnterMalloc(n)
      BY <1>1, <1>n, <1>r DEF MallocCall, ReallocNew
    <2> QED
      BY <2>1, <1>r, EnterMallocIInv
  <1>2. ASSUME NEW c \in CallocArgs, CallocCall(c[1], c[2])
        PROVE  IInv'
    BY <1>2, CallocCallIInv
  <1>3. ASSUME NEW c \in CallocArgs, CallocRefused(c[1], c[2])
        PROVE  IInv'
    <2>1. BytesTypeOK' /\ LiveTypeOK' /\ Ownership'
      BY <1>3, <1>b DEF CallocRefused, BytesTypeOK, LiveTypeOK, Ownership, IInv, Blocks
    <2> QED
      BY <2>1, <1>3, <1>n, BetweenCalls DEF CallocRefused
  <1>4. ASSUME NEW p \in DOMAIN live, FreeCall("free", p) \/ FreeCall("realloc", p)
        PROVE  IInv'
    BY <1>4, FreeCallIInv
  <1>5. ASSUME NEW p \in DOMAIN live, NEW n \in Requests, ReallocInPlace(p, n)
        PROVE  IInv'
    <2>1. BytesTypeOK' /\ ret' \in -1 .. HeapSize
      BY <1>5, <1>b, SizesAssumption, SMTT(60) DEF ReallocInPlace, BytesTypeOK, LiveTypeOK
    <2>2. LiveTypeOK'
      BY <1>5, <1>b, <1>r DEF ReallocInPlace, LiveTypeOK
    <2>3. Ownership'
      <3>1. /\ DOMAIN live' = DOMAIN live
            /\ live'[p] = n /\ \A q \in DOMAIN live : q # p => live'[q] = live[q]
            /\ hdr' = hdr /\ pc' = pc /\ pc = "idle"
            /\ hdr[p - HDR].size >= n
        BY <1>5 DEF ReallocInPlace
      <3>2. p - HDR \in Blocks /\ hdr[p - HDR].size \in Nat /\ n \in Nat
        BY HeaderTypes, <1>r DEF IInv, Ownership
      <3> QED
        BY <3>1, <3>2 DEF IInv, Ownership, Blocks
    <2> QED
      BY <2>1, <2>2, <2>3, <1>5, <1>b, BetweenCalls DEF ReallocInPlace
  <1>6. ASSUME NEW p \in DOMAIN live, NEW n \in Requests, ReallocGrow(p, n)
        PROVE  IInv'
    <2>1. p \in -1 .. HeapSize
      BY <1>b, SizesAssumption DEF LiveTypeOK
    <2>2. /\ call'.op \in {"malloc", "calloc", "realloc"}
          /\ call' \in [op : {"none", "malloc", "calloc", "realloc", "free"},
                       ptr : -1 .. HeapSize, size : Nat]
          /\ call'.size = n /\ call'.op = "realloc" /\ call'.ptr = p
          /\ pc = "idle" /\ EnterMalloc(n) /\ hdr[p - HDR].size < n
      BY <1>6, <1>r, <2>1 DEF ReallocGrow
    <2> QED
      BY <2>2, <1>r, EnterMallocIInv
  <1>7. ASSUME NEW p \in DOMAIN live, NEW v \in Byte, CallerWrites(p, v)
        PROVE  IInv'
    <2>1. BytesTypeOK' /\ LiveTypeOK' /\ Ownership'
      BY <1>7, <1>b DEF CallerWrites, BytesTypeOK, LiveTypeOK, Ownership, IInv, Blocks
    <2> QED
      BY <2>1, <1>7, <1>b, BetweenCalls DEF CallerWrites
  <1>8. ASSUME NEW p \in DOMAIN live \cup Foreign \cup {NULL}, FreeIgnored(p)
        PROVE  IInv'
    <2>1. p \notin DOMAIN live
      BY <1>8, LiveInHeap DEF FreeIgnored
    <2>2. live' = live
      BY <2>1, <1>8, <1>b, SMTT(60) DEF FreeIgnored, Without, LiveTypeOK
    <2>3. BytesTypeOK' /\ LiveTypeOK' /\ Ownership'
      BY <2>2, <1>8, <1>b DEF FreeIgnored, BytesTypeOK, LiveTypeOK, Ownership, IInv, Blocks
    <2> QED
      BY <2>3, <1>8, <1>b, <1>n, BetweenCalls DEF FreeIgnored
  <1> QED
    BY <1>1, <1>2, <1>3, <1>4, <1>5, <1>6, <1>7, <1>8 DEF CallerStep

-----------------------------------------------------------------------------
(* The theorems *)

(* Every step of the heap keeps the invariant. *)
LEMMA NextIInv == IInv /\ [Next]_vars => IInv'
  <1> SUFFICES ASSUME IInv, [Next]_vars PROVE IInv'
    OBVIOUS
  <1>1. CASE CallerStep
    BY <1>1, CallerStepIInv
  <1>2. CASE MallocSkip
    BY <1>2, MallocSkipIInv
  <1>3. CASE MallocTake
    BY <1>3, MallocTakeIInv
  <1>4. CASE MallocExtend
    BY <1>4, MallocExtendIInv
  <1>5. CASE MallocFail
    BY <1>5, MallocFailIInv
  <1>6. CASE MallocDone
    BY <1>6, MallocDoneIInv
  <1>7. CASE CallocDone
    BY <1>7, CallocDoneIInv
  <1>8. CASE ReallocMove
    BY <1>8, ReallocMoveIInv
  <1>9. CASE ReallocFail
    BY <1>9, ReallocFailIInv
  <1>10. CASE FreeMerge
    BY <1>10, FreeMergeIInv
  <1>11. CASE FreeStep
    BY <1>11, FreeStepIInv
  <1>12. CASE FreeDone
    BY <1>12, FreeDoneIInv
  <1>13. CASE UNCHANGED vars
    BY <1>13 DEF vars, IInv, TypeOK, HeapTypeOK, BytesTypeOK, CallTypeOK,
       LiveTypeOK, Tiling, Ownership, Aligned, Locals, Cursor, Scanned, Merged,
       FailsOnlyWhenFull, FirstFit, Blocks, BlockEnd
  <1> QED
    BY <1>1, <1>2, <1>3, <1>4, <1>5, <1>6, <1>7, <1>8, <1>9, <1>10, <1>11,
       <1>12, <1>13 DEF Next, LibStep

(* Every reachable state of the heap satisfies the inductive invariant. *)
THEOREM Invariance == Spec => []IInv
  BY InitIInv, NextIInv, PTL DEF Spec

(* Types, and with them the alignment of every block and of g_heap_end.    *)
THEOREM TypeCorrect == Spec => []TypeOK
  <1>1. IInv => TypeOK
    BY DEF IInv
  <1> QED
    BY <1>1, Invariance, PTL

(* After every iteration of malloc's and free's loops the list is a tiling *)
(* of the used part of g_heap: no overlap, no gap, no cycle.               *)
THEOREM ListTiles == Spec => []Tiling
  <1>1. IInv => Tiling
    BY DEF IInv
  <1> QED
    BY <1>1, Invariance, PTL

(* The blocks in use are exactly the caller's: none leaks, none is handed  *)
(* out twice, and each is as large as what the caller asked for.           *)
THEOREM OwnershipHolds == Spec => []Ownership
  <1>1. IInv => Ownership
    BY DEF IInv
  <1> QED
    BY <1>1, Invariance, PTL

(* One pass of free over the list leaves no two free neighbours. *)
LEMMA AlwaysCoalesced == Spec => []Coalesced
  <1>1. IInv => Coalesced
    <2> SUFFICES ASSUME IInv, pc = "idle", NEW a \in Blocks,
                        hdr[a].free = 1, hdr[a].next # NULL
                 PROVE  hdr[hdr[a].next].free = 0
      BY DEF Coalesced
    <2>1. hdr[a].next \in Blocks
      BY NextIs DEF IInv
    <2>2. hdr[hdr[a].next].free # 1
      BY DEF IInv, Merged
    <2>3. hdr[hdr[a].next].free \in {0, 1}
      BY <2>1 DEF IInv, TypeOK, HeapTypeOK, Header
    <2> QED
      BY <2>2, <2>3
  <1> QED
    BY <1>1, Invariance, PTL

(* A caller that has freed everything gets the used part of the heap back  *)
(* as one free block.                                                      *)
LEMMA Reclaimed == Spec => []FullyReclaimed
  <1>1. IInv => FullyReclaimed
    <2> SUFFICES ASSUME IInv, pc = "idle", DOMAIN live = {}, end # 0
                 PROVE  Blocks = {0} /\ hdr[0].free = 1 /\ BlockEnd(0) = end
      BY DEF FullyReclaimed
    <2>1. 0 \in Blocks
      BY DEF IInv, Tiling
    <2>2. \A a \in Blocks : hdr[a].free = 1
      BY DEF IInv, Ownership
    <2>3. hdr[0].next = NULL
      <3> SUFFICES ASSUME hdr[0].next # NULL PROVE FALSE
        OBVIOUS
      <3>1. hdr[0].next \in Blocks
        BY <2>1, NextIs DEF IInv
      <3> QED
        BY <2>1, <2>2, <3>1 DEF IInv, Merged
    <2>4. BlockEnd(0) = end
      BY <2>1, <2>3, NextIs DEF IInv, BlockEnd
    <2>5. ASSUME NEW b \in Blocks PROVE b = 0
      <3>1. b <= 0 /\ b \in Nat
        BY <2>1, <2>3, BehindNext, HeaderTypes DEF IInv
      <3> QED
        BY <3>1
    <2> QED
      BY <2>1, <2>2, <2>4, <2>5
  <1> QED
    BY <1>1, Invariance, PTL

(* free merges all there is to merge: never two free neighbours between    *)
(* calls, and a single free block once everything has been given back.     *)
THEOREM FreeMergesAll == Spec => []FreeBlocksMerged
  BY AlwaysCoalesced, Reclaimed, PTL DEF FreeBlocksMerged

(* malloc fails only when neither a free block nor the rest of g_heap      *)
(* would hold the request.                                                 *)
LEMMA FailureIsJustified == Spec => []FailsOnlyWhenFull
  <1>1. IInv => FailsOnlyWhenFull
    BY DEF IInv
  <1> QED
    BY <1>1, Invariance, PTL

(* malloc always returns the first block that is large enough. *)
LEMMA IsFirstFit == Spec => []FirstFit
  <1>1. IInv => FirstFit
    BY DEF IInv
  <1> QED
    BY <1>1, Invariance, PTL

(* malloc takes the first free block that is large enough, extends the     *)
(* heap only when there is none, and refuses only when that does not fit.  *)
THEOREM ChoosesFirstFit == Spec => []ChoosesBlocks
  BY FailureIsJustified, IsFirstFit, PTL DEF ChoosesBlocks

-----------------------------------------------------------------------------
(***************************************************************************)
(* The heap implements AllocSpec: every step of Heap is a step of the      *)
(* promise made to the caller, or invisible to the caller.                 *)
(***************************************************************************)

(* Different blocks do not overlap. *)
LEMMA BlocksApart ==
  ASSUME IInv, NEW a \in Blocks, NEW b \in Blocks, a # b
  PROVE  a + HDR + hdr[a].size <= b \/ b + HDR + hdr[b].size <= a
  <1>1. a \in Nat /\ b \in Nat
    BY HeaderTypes DEF IInv
  <1>2. /\ a < b => a + HDR + hdr[a].size <= b
        /\ b < a => b + HDR + hdr[b].size <= a
    BY NextIs DEF IInv
  <1> QED
    BY <1>1, <1>2

(* Where the bytes of an allocation lie: in the arena, after the header of *)
(* their own block and before the end of that block.                       *)
LEMMA BytesOf ==
  ASSUME IInv, NEW p \in DOMAIN live, NEW i \in 0 .. live[p] - 1
  PROVE  /\ p - HDR \in Blocks
         /\ p \in Nat /\ i \in Nat /\ p + i \in Nat
         /\ i < hdr[p - HDR].size /\ hdr[p - HDR].size \in Nat
         /\ p + i < end /\ end \in Nat /\ p + i \in 0 .. HeapSize - 1
  <1>1. /\ p - HDR \in Blocks /\ p \in HDR .. HeapSize
        /\ live[p] \in Nat /\ live[p] <= hdr[p - HDR].size
    BY DEF IInv, TypeOK, LiveTypeOK, Ownership
  <1>2. /\ (p - HDR) + HDR + hdr[p - HDR].size <= end
        /\ end \in Nat /\ end <= HeapSize /\ hdr[p - HDR].size \in Nat
    BY <1>1, NextIs, HeaderTypes DEF IInv
  <1> QED
    BY <1>1, <1>2, SizesAssumption

(* A header that lies at a block, or at g_heap_end, holds no byte of an    *)
(* allocation.                                                             *)
LEMMA HeadersHoldNoData ==
  ASSUME IInv, NEW p \in DOMAIN live, NEW i \in 0 .. live[p] - 1,
         NEW a, a \in Blocks \/ a = end
  PROVE  p + i \notin a .. a + HDR - 1
  <1>1. /\ p - HDR \in Blocks /\ p \in Nat /\ i \in Nat
        /\ i < hdr[p - HDR].size /\ hdr[p - HDR].size \in Nat
        /\ p + i < end /\ end \in Nat
    BY BytesOf
  <1>2. HDR \in Nat /\ HDR > 0
    BY SizesAssumption
  <1>3. CASE a = end
    BY <1>1, <1>2, <1>3
  <1>4. CASE a \in Blocks /\ a = p - HDR
    BY <1>1, <1>2, <1>4
  <1>5. CASE a \in Blocks /\ a # p - HDR
    <2>1. a \in Nat /\ hdr[a].size \in Nat
      BY <1>5, HeaderTypes DEF IInv
    <2>2. \/ a + HDR + hdr[a].size <= p - HDR
          \/ (p - HDR) + HDR + hdr[p - HDR].size <= a
      BY <1>1, <1>5, BlocksApart
    <2> QED
      BY <1>1, <1>2, <2>1, <2>2
  <1> QED
    BY <1>3, <1>4, <1>5

(* The caller sees nothing of a step that keeps its pointers and its bytes. *)
LEMMA SameContents ==
  ASSUME live' = live,
         \A p \in DOMAIN live : \A i \in 0 .. live[p] - 1 : mem'[p + i] = mem[p + i]
  PROVE  Contents' = Contents
  BY DEF Contents

(* Writing a header is invisible to the caller. *)
LEMMA HeaderWriteUnseen ==
  ASSUME IInv, live' = live, NEW a, a \in Blocks \/ a = end,
         mem' = WriteHeader(mem, a)
  PROVE  Contents' = Contents
  <1>1. mem \in [0 .. HeapSize - 1 -> Byte \cup {HeaderByte}]
    BY DEF IInv, TypeOK, BytesTypeOK
  <1>2. ASSUME NEW p \in DOMAIN live, NEW i \in 0 .. live[p] - 1
        PROVE  mem'[p + i] = mem[p + i]
    <2>1. p + i \in DOMAIN mem
      BY <1>1, BytesOf
    <2>2. p + i \notin a .. a + HDR - 1
      BY HeadersHoldNoData
    <2> QED
      BY <2>1, <2>2 DEF WriteHeader
  <1> QED
    BY <1>2, SameContents

(* In every reachable state the allocations are disjoint and in g_heap. *)
LEMMA ContentsSeparated == IInv => Promise!Separated
  <1> SUFFICES ASSUME IInv PROVE Promise!Separated
    OBVIOUS
  <1>1. /\ DOMAIN Contents = DOMAIN live
        /\ \A p \in DOMAIN live : DOMAIN Contents[p] = 0 .. live[p] - 1
    BY DEF Contents
  <1>2. ASSUME NEW p \in DOMAIN live, NEW i \in 0 .. live[p] - 1
        PROVE  p + i \in 0 .. HeapSize - 1
    BY BytesOf
  <1>3. ASSUME NEW p \in DOMAIN live, NEW q \in DOMAIN live, p # q,
               NEW i \in 0 .. live[p] - 1, NEW j \in 0 .. live[q] - 1
        PROVE  p + i # q + j
    <2>1. /\ p - HDR \in Blocks /\ p \in Nat /\ i \in Nat
          /\ i < hdr[p - HDR].size /\ hdr[p - HDR].size \in Nat
      BY BytesOf
    <2>2. /\ q - HDR \in Blocks /\ q \in Nat /\ j \in Nat
          /\ j < hdr[q - HDR].size /\ hdr[q - HDR].size \in Nat
      BY BytesOf
    <2>3. p - HDR # q - HDR /\ HDR \in Nat
      BY <1>3, <2>1, <2>2, SizesAssumption
    <2>4. \/ (p - HDR) + HDR + hdr[p - HDR].size <= q - HDR
          \/ (q - HDR) + HDR + hdr[q - HDR].size <= p - HDR
      BY <2>1, <2>2, <2>3, BlocksApart
    <2> QED
      BY <2>1, <2>2, <2>3, <2>4
  <1> QED
    BY <1>1, <1>2, <1>3 DEF Promise!Separated

(* Steps of the library that the caller cannot see. *)
LEMMA UnseenSteps ==
  ASSUME IInv,
         \/ MallocSkip \/ MallocTake \/ MallocExtend \/ MallocFail
         \/ FreeMerge \/ FreeStep
         \/ \E c \in CallocArgs : CallocRefused(c[1], c[2])
         \/ \E p \in DOMAIN live \cup Foreign \cup {NULL} : FreeIgnored(p)
  PROVE  UNCHANGED <<Contents, call>>
  <1>1. CASE MallocTake
    <2>1. block \in Blocks
      BY <1>1 DEF MallocTake, IInv, TypeOK, CallTypeOK
    <2> QED
      BY <1>1, <2>1, HeaderWriteUnseen DEF MallocTake
  <1>2. CASE MallocExtend
    BY <1>2, HeaderWriteUnseen DEF MallocExtend
  <1>3. CASE FreeMerge
    <2>1. prev \in Blocks
      BY <1>3, SMTT(60) DEF FreeMerge, MergesHere, IInv, TypeOK, CallTypeOK
    <2> QED
      BY <1>3, <2>1, HeaderWriteUnseen DEF FreeMerge
  <1>4. ASSUME NEW p \in DOMAIN live \cup Foreign \cup {NULL}, FreeIgnored(p)
        PROVE  UNCHANGED <<Contents, call>>
    <2>1. p \notin DOMAIN live
      BY <1>4, LiveInHeap DEF FreeIgnored
    <2>2. live \in [DOMAIN live -> Nat]
      BY DEF IInv, TypeOK, LiveTypeOK
    <2>3. live' = live
      BY <2>1, <2>2, <1>4 DEF FreeIgnored, Without
    <2> QED
      BY <2>3, <1>4, SameContents DEF FreeIgnored
  <1>5. CASE \/ MallocSkip \/ MallocFail \/ FreeStep
             \/ \E c \in CallocArgs : CallocRefused(c[1], c[2])
    BY <1>5, SameContents DEF MallocSkip, MallocFail, FreeStep, CallocRefused
  <1> QED
    BY <1>1, <1>2, <1>3, <1>4, <1>5

(* Entering an allocating call. *)
LEMMA AskSteps ==
  ASSUME IInv,
         \/ \E n \in Requests : MallocCall(n) \/ ReallocNew(n)
         \/ \E c \in CallocArgs : CallocCall(c[1], c[2])
         \/ \E p \in DOMAIN live, n \in Requests : ReallocGrow(p, n)
  PROVE  Promise!Ask
  <1>1. pc = "idle" /\ live' = live /\ mem' = mem
    BY DEF MallocCall, ReallocNew, CallocCall, ReallocGrow, EnterMalloc
  <1>2. call = NoCall
    BY <1>1 DEF IInv, Locals
  <1>3. /\ call'.op \in {"malloc", "calloc", "realloc"}
        /\ call'.op = "realloc" => call'.ptr \in DOMAIN live \cup {NULL}
    BY DEF MallocCall, ReallocNew, CallocCall, ReallocGrow
  <1>4. call' # NoCall
    BY <1>3 DEF NoCall
  <1>5. Contents' = Contents /\ DOMAIN Contents = DOMAIN live
    BY <1>1 DEF Contents
  <1> QED
    BY <1>2, <1>3, <1>4, <1>5 DEF Promise!Ask, Promise!NoCall, NoCall

(* Returning without a new allocation. *)
LEMMA ReturnSteps ==
  ASSUME IInv,
         \/ (MallocDone /\ ret = NULL) \/ (CallocDone /\ ret = NULL)
         \/ ReallocFail \/ FreeDone
  PROVE  Promise!Return \/ UNCHANGED <<Contents, call>>
  <1>1. live' = live /\ mem' = mem /\ call' = NoCall
    BY DEF MallocDone, CallocDone, ReallocFail, FreeDone, Return
  <1>2. Contents' = Contents
    BY <1>1, SameContents
  <1> QED
    BY <1>1, <1>2 DEF Promise!Return, Promise!NoCall, NoCall

(* free(p) and realloc(p, 0). *)
LEMMA ReleaseSteps ==
  ASSUME IInv, NEW p \in DOMAIN live, NEW op \in {"free", "realloc"},
         FreeCall(op, p)
  PROVE  Promise!Release
  <1>1. call = NoCall
    BY DEF IInv, Locals, FreeCall
  <1>2. call' = [op |-> op, ptr |-> p, size |-> 0]
    BY DEF FreeCall
  <1>3. /\ DOMAIN live' = DOMAIN live \ {p}
        /\ \A q \in DOMAIN live \ {p} : live'[q] = live[q]
    BY DEF FreeCall, Without
  <1>4. mem \in [0 .. HeapSize - 1 -> Byte \cup {HeaderByte}]
    BY DEF IInv, TypeOK, BytesTypeOK
  <1>5. ASSUME NEW q \in DOMAIN live, NEW i \in 0 .. live[q] - 1
        PROVE  mem'[q + i] = mem[q + i]
    <2>1. q + i \in DOMAIN mem
      BY <1>4, BytesOf
    <2>2. p - HDR \in Blocks
      BY DEF IInv, Ownership
    <2>3. q + i \notin p - HDR .. (p - HDR) + HDR - 1
      BY <2>2, HeadersHoldNoData
    <2>4. mem' = WriteHeader(mem, p - HDR)
      BY DEF FreeCall, EnterFree
    <2> QED
      BY <2>1, <2>3, <2>4 DEF WriteHeader
  <1>6. /\ DOMAIN Contents' = DOMAIN Contents \ {p} /\ p \in DOMAIN Contents
        /\ \A q \in DOMAIN Contents \ {p} : Contents'[q] = Contents[q]
    BY <1>3, <1>5 DEF Contents
  <1> QED
    BY <1>1, <1>2, <1>6 DEF Promise!Release, Promise!Keeps, Promise!NoCall, NoCall

(* The bytes of malloc's new block belong to no allocation. *)
LEMMA NewBlockApart ==
  ASSUME IInv, pc = "got", ret # NULL,
         NEW q \in DOMAIN live, NEW i \in 0 .. live[q] - 1
  PROVE  q + i \notin ret .. ret + wanted - 1
  <1>1. /\ ret - HDR \in Blocks /\ ret \notin DOMAIN live
        /\ hdr[ret - HDR].size >= wanted
    BY DEF IInv, Locals
  <1>2. /\ ret - HDR \in Nat /\ hdr[ret - HDR].size \in Nat
        /\ ret \in -1 .. HeapSize /\ wanted \in Nat
    BY <1>1, HeaderTypes, SizesAssumption DEF IInv, TypeOK, CallTypeOK
  <1>3. /\ q - HDR \in Blocks /\ q \in Nat /\ i \in Nat
        /\ i < hdr[q - HDR].size /\ hdr[q - HDR].size \in Nat
    BY BytesOf
  <1>4. q - HDR # ret - HDR /\ HDR \in Nat /\ HeapSize \in Nat
    BY <1>1, <1>2, <1>3, SizesAssumption
  <1>5. \/ (q - HDR) + HDR + hdr[q - HDR].size <= ret - HDR
        \/ (ret - HDR) + HDR + hdr[ret - HDR].size <= q - HDR
    BY <1>1, <1>3, <1>4, BlocksApart
  <1> QED
    BY <1>1, <1>2, <1>3, <1>4, <1>5

(* The bounds of the request in hand. *)
LEMMA RequestBounds ==
  ASSUME IInv, pc = "got"
  PROVE  /\ call.size \in Nat /\ wanted \in Nat /\ call.size <= wanted
         /\ call.size < SizeMod /\ call.size % SizeMod = call.size
         /\ ret # NULL =>
              /\ ret \in Nat /\ ret \notin DOMAIN live
              /\ ret + call.size <= HeapSize
  <1>1. /\ call.size \in Nat /\ wanted \in Nat /\ call.size <= wanted
        /\ wanted <= SizeMod - HDR - 4 /\ ret \in -1 .. HeapSize
    BY SizesAssumption DEF IInv, TypeOK, CallTypeOK, Locals
  <1>2. call.size < SizeMod
    BY <1>1, SizesAssumption
  <1>3. call.size % SizeMod = call.size
    BY <1>1, <1>2, ModIdentity
  <1>4. ASSUME ret # NULL
        PROVE  ret \in Nat /\ ret \notin DOMAIN live /\ ret + call.size <= HeapSize
    <2>1. /\ ret - HDR \in Blocks /\ ret \notin DOMAIN live
          /\ hdr[ret - HDR].size >= wanted
      BY <1>4 DEF IInv, Locals
    <2>2. /\ ret - HDR \in Nat /\ hdr[ret - HDR].size \in Nat
          /\ (ret - HDR) + HDR + hdr[ret - HDR].size <= end
          /\ end <= HeapSize /\ end \in Nat
      BY <2>1, NextIs, HeaderTypes DEF IInv
    <2> QED
      BY <1>1, <2>1, <2>2, SizesAssumption
  <1> QED
    BY <1>1, <1>2, <1>3, <1>4

(* malloc and calloc hand over a block. *)
LEMMA GrantSteps ==
  ASSUME IInv, ret # NULL, MallocDone \/ CallocDone
  PROVE  Promise!Grant
  <1>1. /\ pc = "got" /\ live' = With(live, ret, call.size) /\ call' = NoCall
        /\ \/ call.op \in {"malloc", "calloc"}
           \/ call.op = "realloc" /\ call.ptr = NULL
    BY DEF MallocDone, CallocDone, Return
  <1>2. /\ call.size \in Nat /\ wanted \in Nat /\ call.size <= wanted
        /\ call.size % SizeMod = call.size
        /\ ret \in Nat /\ ret \notin DOMAIN live /\ ret + call.size <= HeapSize
    BY <1>1, RequestBounds
  <1>3. mem \in [0 .. HeapSize - 1 -> Byte \cup {HeaderByte}] /\ HeapSize \in Nat
    BY SizesAssumption DEF IInv, TypeOK, BytesTypeOK
  <1>4. /\ DOMAIN live' = DOMAIN live \cup {ret} /\ live'[ret] = call.size
        /\ \A q \in DOMAIN live : live'[q] = live[q]
    BY <1>1, <1>2 DEF With
  <1>5. CASE MallocDone
    <2>1. mem' = mem /\ call.op # "calloc"
      BY <1>5 DEF MallocDone
    <2>2. /\ DOMAIN Contents' = DOMAIN Contents \cup {ret}
          /\ ret \notin DOMAIN Contents
          /\ \A q \in DOMAIN Contents : Contents'[q] = Contents[q]
          /\ DOMAIN Contents'[ret] = 0 .. call.size - 1
      BY <2>1, <1>2, <1>4 DEF Contents
    <2> QED
      BY <1>1, <2>1, <2>2 DEF Promise!Grant, Promise!Keeps, Promise!NoCall, NoCall
  <1>6. CASE CallocDone
    <2>1. mem' = [x \in DOMAIN mem |->
                    IF x \in ret .. ret + call.size - 1 THEN 0 ELSE mem[x]]
      BY <1>6, <1>2 DEF CallocDone
    <2>2. ASSUME NEW q \in DOMAIN live, NEW i \in 0 .. live[q] - 1
          PROVE  mem'[q + i] = mem[q + i]
      <3>1. q + i \in DOMAIN mem /\ q + i \in Nat
        BY <1>3, BytesOf
      <3>2. q + i \notin ret .. ret + wanted - 1
        BY <1>1, NewBlockApart
      <3>3. q + i \notin ret .. ret + call.size - 1
        BY <1>2, <3>1, <3>2
      <3> QED
        BY <2>1, <3>1, <3>3
    <2>3. ASSUME NEW i \in 0 .. call.size - 1 PROVE mem'[ret + i] = 0
      <3>1. ret + i \in DOMAIN mem /\ ret + i \in ret .. ret + call.size - 1
        BY <1>2, <1>3
      <3> QED
        BY <2>1, <3>1
    <2>4. /\ DOMAIN Contents' = DOMAIN Contents \cup {ret}
          /\ ret \notin DOMAIN Contents
          /\ \A q \in DOMAIN Contents : Contents'[q] = Contents[q]
          /\ DOMAIN Contents'[ret] = 0 .. call.size - 1
          /\ \A i \in 0 .. call.size - 1 : Contents'[ret][i] = 0
      BY <2>2, <2>3, <1>2, <1>4 DEF Contents
    <2> QED
      BY <1>1, <2>4 DEF Promise!Grant, Promise!Keeps, Promise!NoCall, NoCall
  <1> QED
    BY <1>5, <1>6

(* realloc moves an allocation. *)
LEMMA MoveSteps == ASSUME IInv, ReallocMove PROVE Promise!Move
  <1> DEFINE p == call.ptr
             moved == [x \in DOMAIN mem |->
                         IF x \in ret .. ret + CopyLength - 1
                         THEN mem[call.ptr + (x - ret)] ELSE mem[x]]
  <1>1. /\ pc = "got" /\ ret # NULL /\ call.op = "realloc" /\ call' = call
        /\ live' = With(Without(live, p), ret, call.size)
        /\ mem' = WriteHeader(moved, p - HDR)
    BY DEF ReallocMove, EnterFree
  <1>2. /\ call.size \in Nat /\ wanted \in Nat /\ call.size <= wanted
        /\ ret \in Nat /\ ret \notin DOMAIN live /\ ret + call.size <= HeapSize
    BY <1>1, RequestBounds
  <1>3. mem \in [0 .. HeapSize - 1 -> Byte \cup {HeaderByte}] /\ HeapSize \in Nat
        /\ HDR \in Nat /\ HDR > 0
    BY SizesAssumption DEF IInv, TypeOK, BytesTypeOK
  <1>4. p \in DOMAIN live /\ hdr[p - HDR].size < call.size /\ p - HDR \in Blocks
        /\ live[p] <= hdr[p - HDR].size
    BY <1>1 DEF IInv, Locals, Ownership, ReallocMove
  <1>5. CopyLength = hdr[p - HDR].size /\ hdr[p - HDR].size \in Nat
    BY <1>4, HeaderTypes DEF CopyLength, IInv
  <1>6. /\ DOMAIN live' = (DOMAIN live \ {p}) \cup {ret}
        /\ \A q \in DOMAIN live \ {p} : live'[q] = live[q]
        /\ live'[ret] = call.size /\ ret # p
    BY <1>1, <1>2, <1>4 DEF With, Without
  <1>7. ASSUME NEW q \in DOMAIN live \ {p}, NEW i \in 0 .. live[q] - 1
        PROVE  mem'[q + i] = mem[q + i]
    <2>1. q + i \in DOMAIN mem /\ q + i \in Nat
      BY <1>3, BytesOf
    <2>2. q + i \notin ret .. ret + wanted - 1
      BY <1>1, NewBlockApart
    <2>3. q + i \notin ret .. ret + CopyLength - 1
      BY <1>2, <1>4, <1>5, <2>1, <2>2
    <2>4. q + i \notin p - HDR .. (p - HDR) + HDR - 1
      BY <1>4, HeadersHoldNoData
    <2> QED
      BY <1>1, <2>1, <2>3, <2>4 DEF WriteHeader
  <1>8. ASSUME NEW i \in 0 .. call.size - 1, i \in 0 .. live[p] - 1
        PROVE  mem'[ret + i] = mem[p + i]
    <2>1. /\ p \in Nat /\ i \in Nat /\ i < hdr[p - HDR].size
      BY <1>4, <1>8, BytesOf
    <2>2. ret + i \in DOMAIN mem
      BY <1>2, <1>3, <2>1, SMTT(60)
    <2>3. ret + i \in ret .. ret + CopyLength - 1 /\ (ret + i) - ret = i
      BY <1>2, <1>5, <2>1
    <2>4. moved[ret + i] = mem[p + i]
      BY <2>2, <2>3
    <2>5. ret + i \notin p - HDR .. (p - HDR) + HDR - 1
      <3>1. /\ ret - HDR \in Blocks /\ hdr[ret - HDR].size >= wanted
        BY <1>1 DEF IInv, Locals
      <3>2. ret - HDR \in Nat /\ hdr[ret - HDR].size \in Nat /\ p - HDR \in Nat
        BY <3>1, <1>4, HeaderTypes DEF IInv
      <3>3. ret - HDR # p - HDR
        BY <1>2, <1>3, <1>6, <2>1
      <3>4. \/ (p - HDR) + HDR + hdr[p - HDR].size <= ret - HDR
            \/ (ret - HDR) + HDR + hdr[ret - HDR].size <= p - HDR
        BY <3>1, <3>3, <1>4, BlocksApart
      <3>5. i < hdr[ret - HDR].size
        BY <1>2, <1>4, <2>1, <3>1, <3>2
      <3>6. ret + i < p - HDR \/ ret + i >= p
        <4>1. /\ p \in Nat /\ i \in Nat /\ ret \in Nat /\ HDR \in Nat
              /\ hdr[p - HDR].size \in Nat /\ hdr[ret - HDR].size \in Nat
          BY <1>2, <1>3, <1>5, <2>1, <3>2
        <4>2. CASE (p - HDR) + HDR + hdr[p - HDR].size <= ret - HDR
          BY <4>1, <4>2
        <4>3. CASE (ret - HDR) + HDR + hdr[ret - HDR].size <= p - HDR
          BY <4>1, <4>3, <3>5
        <4> QED
          BY <3>4, <4>2, <4>3
      <3>7. (p - HDR) + HDR - 1 = p - 1 /\ ret + i \in Int
        BY <1>2, <1>3, <2>1
      <3> QED
        BY <1>3, <2>1, <3>2, <3>6, <3>7, SMTT(60)
    <2> QED
      BY <1>1, <2>2, <2>4, <2>5 DEF WriteHeader
  <1> HIDE DEF moved
  <1>9. /\ DOMAIN Contents = DOMAIN live
        /\ DOMAIN Contents' = (DOMAIN Contents \ {p}) \cup {ret}
        /\ ret \notin DOMAIN Contents
        /\ \A q \in DOMAIN Contents \ {p} : Contents'[q] = Contents[q]
        /\ DOMAIN Contents'[ret] = 0 .. call.size - 1
        /\ \A i \in DOMAIN Contents'[ret] \cap DOMAIN Contents[p] :
              Contents'[ret][i] = Contents[p][i]
    BY <1>2, <1>4, <1>6, <1>7, <1>8 DEF Contents
  <1> QED
    BY <1>1, <1>4, <1>9 DEF Promise!Move, Promise!Keeps

(* realloc finds room in place; the caller fills an allocation. *)
LEMMA InPlaceSteps ==
  ASSUME IInv, NEW p \in DOMAIN live, NEW n \in Requests, ReallocInPlace(p, n)
  PROVE  Promise!ResizeInPlace
  <1>1. /\ call = NoCall /\ call' = call /\ mem' = mem
        /\ DOMAIN live' = DOMAIN live
        /\ \A q \in DOMAIN live \ {p} : live'[q] = live[q]
    BY DEF IInv, Locals, ReallocInPlace
  <1>2. /\ DOMAIN Contents = DOMAIN live /\ DOMAIN Contents' = DOMAIN Contents
        /\ \A q \in DOMAIN Contents \ {p} : Contents'[q] = Contents[q]
        /\ \A i \in DOMAIN Contents'[p] \cap DOMAIN Contents[p] :
              Contents'[p][i] = Contents[p][i]
    BY <1>1 DEF Contents
  <1> QED
    BY <1>1, <1>2 DEF Promise!ResizeInPlace, Promise!Keeps, Promise!NoCall, NoCall

(* The caller's own writes reach no other allocation. *)
LEMMA WriteSteps ==
  ASSUME IInv, NEW p \in DOMAIN live, NEW v \in Byte, CallerWrites(p, v)
  PROVE  Promise!Write
  <1>1. /\ call = NoCall /\ call' = call /\ live' = live
        /\ mem' = [x \in DOMAIN mem |->
                     IF x \in p .. p + live[p] - 1 THEN v ELSE mem[x]]
    BY DEF IInv, Locals, CallerWrites
  <1>2. mem \in [0 .. HeapSize - 1 -> Byte \cup {HeaderByte}]
        /\ live[p] \in Nat /\ p \in Nat
    BY SizesAssumption DEF IInv, TypeOK, BytesTypeOK, LiveTypeOK
  <1>3. ASSUME NEW q \in DOMAIN live \ {p}, NEW i \in 0 .. live[q] - 1
        PROVE  mem'[q + i] = mem[q + i]
    <2>1. q + i \in DOMAIN mem /\ q + i \in Nat
      BY <1>2, BytesOf
    <2>2. \A j \in 0 .. live[p] - 1 : q + i # p + j
      <3>1. /\ DOMAIN Contents = DOMAIN live
            /\ \A r \in DOMAIN live : DOMAIN Contents[r] = 0 .. live[r] - 1
        BY DEF Contents
      <3> QED
        BY <3>1, ContentsSeparated DEF Promise!Separated
    <2>3. q + i \notin p .. p + live[p] - 1
      <3> SUFFICES ASSUME q + i \in p .. p + live[p] - 1 PROVE FALSE
        OBVIOUS
      <3>1. (q + i) - p \in 0 .. live[p] - 1 /\ p + ((q + i) - p) = q + i
        BY <1>2, <2>1
      <3> QED
        BY <2>2, <3>1
    <2> QED
      BY <1>1, <2>1, <2>3
  <1>4. /\ DOMAIN Contents = DOMAIN live /\ DOMAIN Contents' = DOMAIN Contents
        /\ \A q \in DOMAIN Contents \ {p} : Contents'[q] = Contents[q]
        /\ DOMAIN Contents'[p] = DOMAIN Contents[p]
    BY <1>1, <1>3 DEF Contents
  <1> QED
    BY <1>1, <1>4 DEF Promise!Write, Promise!Keeps, Promise!NoCall, NoCall

(* Every step of the heap is a step of the promise, or unseen. *)
LEMMA StepSimulation ==
  ASSUME IInv, IInv', [Next]_vars
  PROVE  [Promise!Next]_<<Contents, call>>
  <1>1. Promise!Separated'
    BY ContentsSeparated, PTL
  <1>2. CASE \E n \in Requests : MallocCall(n) \/ ReallocNew(n)
    BY <1>1, <1>2, AskSteps DEF Promise!Next
  <1>3. CASE \E c \in CallocArgs : CallocCall(c[1], c[2]) \/ CallocRefused(c[1], c[2])
    BY <1>1, <1>3, AskSteps, UnseenSteps DEF Promise!Next
  <1>4. ASSUME NEW p \in DOMAIN live,
               \/ FreeCall("free", p) \/ FreeCall("realloc", p)
               \/ \E n \in Requests : ReallocInPlace(p, n) \/ ReallocGrow(p, n)
               \/ \E v \in Byte : CallerWrites(p, v)
        PROVE  Promise!Next
    BY <1>1, <1>4, ReleaseSteps, InPlaceSteps, AskSteps, WriteSteps DEF Promise!Next
  <1>5. CASE \E p \in DOMAIN live \cup Foreign \cup {NULL} : FreeIgnored(p)
    BY <1>5, UnseenSteps
  <1>6. CASE \/ MallocSkip \/ MallocTake \/ MallocExtend \/ MallocFail
             \/ FreeMerge \/ FreeStep
    BY <1>6, UnseenSteps
  <1>7. CASE MallocDone \/ CallocDone \/ ReallocFail \/ FreeDone
    BY <1>1, <1>7, GrantSteps, ReturnSteps DEF Promise!Next
  <1>8. CASE ReallocMove
    BY <1>1, <1>8, MoveSteps DEF Promise!Next
  <1>9. CASE UNCHANGED vars
    BY <1>9 DEF vars, Contents
  <1> QED
    BY <1>2, <1>3, <1>4, <1>5, <1>6, <1>7, <1>8, <1>9 DEF Next, CallerStep, LibStep

(* The heap implements the promise made to its callers: allocations are    *)
(* disjoint, their bytes change only when the caller writes them, realloc  *)
(* carries them over or leaves them, and calloc clears them.               *)
THEOREM Implementation == Spec => KeepsPromise
  <1>1. Init => Promise!Init
    BY DEF Init, Contents, Promise!Init, Promise!NoCall, NoCall
  <1>2. IInv /\ IInv' /\ [Next]_vars => [Promise!Next]_<<Contents, call>>
    BY StepSimulation
  <1> QED
    BY <1>1, <1>2, Invariance, PTL DEF Spec, KeepsPromise, Promise!Spec, Promise!avars

=============================================================================
