---------------------------- MODULE StreamsProofs ----------------------------
(***************************************************************************)
(* Theorems about the line buffers, the descriptors and the bytes of       *)
(* Streams, for all files, every number of descriptors and of FILEs, and   *)
(* every first capacity.                                                   *)
(***************************************************************************)
EXTENDS Streams, TLAPS, FiniteSetTheorems, WellFoundedInduction, SequenceTheorems

(* The inductive invariant.  A buffer is at least as long as its capacity, *)
(* and never shorter than what the caller believes, also when the caller's *)
(* address was freed and handed out again; until a getline gives up with a *)
(* buffer of its own there is one line at most; and a getline that has     *)
(* read nothing still works on the caller's buffer.                        *)
LineTyped ==
  /\ line \in [buf : Blocks \cup {NULL}, n : Nat]
  /\ frame \in [stream : {frame.stream}, buf : Blocks \cup {NULL}, cap : Nat, len : Nat]
  /\ blk = [b \in DOMAIN blk |-> blk[b]] /\ DOMAIN blk \subseteq Blocks
  /\ \A b \in DOMAIN blk : blk[b] \in Nat
  /\ orphan \in BOOLEAN

Believed ==
  /\ line.buf \in DOMAIN blk => line.n <= blk[line.buf]
  /\ line.buf # NULL => line.n > 0

Working ==
  ~ Idle =>
    /\ frame.len < frame.cap /\ frame.buf \in DOMAIN blk /\ frame.cap <= blk[frame.buf]
    /\ line.n <= frame.cap
    /\ ~ orphan => DOMAIN blk = {frame.buf}
    /\ frame.len = 0 /\ line.buf # NULL => frame.buf = line.buf

Resting == Idle /\ ~ orphan => DOMAIN blk = {line.buf} \ {NULL}

Inv == LineTyped /\ Believed /\ Working /\ Resting

(* The first buffer has room, and no buffer lies at NULL.                  *)
LEMMA Constants == InitialCap \in Nat /\ InitialCap > 0 /\ NULL \notin Blocks
BY StreamsAssumption

(* At the start there is no line.                                          *)
LEMMA InitInv == Init => Inv
<1> SUFFICES ASSUME Init PROVE Inv
  OBVIOUS
<1>1. /\ line = [buf |-> NULL, n |-> 0] /\ blk = <<>> /\ frame = NoFrame /\ orphan = FALSE
  BY DEF Init
<1>2. DOMAIN blk = {} /\ blk = [b \in DOMAIN blk |-> blk[b]]
  BY <1>1
<1> QED
  BY <1>1, <1>2 DEF Inv, LineTyped, Believed, Working, Resting, Idle, NoFrame

(* Every call but getline and the free of a line leaves the lines alone.   *)
LEMMA Untouched == Inv /\ UNCHANGED lines => Inv'
BY DEF Inv, LineTyped, Believed, Working, Resting, Idle, lines

(* getline starts on the caller's buffer or on one of InitialCap bytes.    *)
LEMMA GetlineInv ==
  ASSUME Inv, NEW h, getline(h)
  PROVE  Inv'
<1> DEFINE cap == IF line.n # 0 THEN line.n ELSE InitialCap
<1>0. Idle /\ LineTyped /\ Believed /\ Resting /\ line' = line /\ orphan' = orphan
  BY DEF Inv, getline
<1>1. cap \in Nat /\ cap > 0 /\ line.n \in Nat /\ line.n <= cap
  BY <1>0, Constants DEF LineTyped
<1>2. CASE /\ line.buf # NULL /\ blk' = blk
           /\ frame' = [stream |-> h, buf |-> line.buf, cap |-> cap, len |-> 0]
  <2>1. line.buf \in DOMAIN blk /\ line.n > 0 /\ cap = line.n
    BY <1>0, <1>1, <1>2 DEF Believed, getline
  <2>2. frame'.buf = line.buf /\ frame'.cap = cap /\ frame'.len = 0
    BY <1>2
  <2>3. LineTyped'
    BY <1>0, <1>1, <1>2 DEF LineTyped
  <2>4. Working'
    BY <1>0, <1>1, <1>2, <2>1, <2>2 DEF Believed, Working, Resting, LineTyped
  <2>5. ~ Idle'
    BY <1>2, <2>2 DEF Idle, NoFrame
  <2> QED
    BY <1>0, <1>2, <2>3, <2>4, <2>5 DEF Inv, Believed, Resting
<1>3. CASE /\ line.buf = NULL
           /\ \E b \in Blocks \ DOMAIN blk :
                /\ blk' = With(blk, b, cap)
                /\ frame' = [stream |-> h, buf |-> b, cap |-> cap, len |-> 0]
  <2>1. PICK b \in Blocks \ DOMAIN blk :
                /\ blk' = With(blk, b, cap)
                /\ frame' = [stream |-> h, buf |-> b, cap |-> cap, len |-> 0]
    BY <1>3
  <2>2. /\ DOMAIN blk' = {b} \cup DOMAIN blk /\ blk' = [x \in DOMAIN blk' |-> blk'[x]]
        /\ blk'[b] = cap /\ \A x \in DOMAIN blk : x # b => blk'[x] = blk[x]
    BY <2>1 DEF With
  <2>3. frame'.buf = b /\ frame'.cap = cap /\ frame'.len = 0 /\ b # NULL
    BY <2>1, Constants
  <2>4. LineTyped'
    BY <1>0, <1>1, <2>1, <2>2 DEF LineTyped
  <2>5. Working'
    BY <1>0, <1>1, <1>3, <2>2, <2>3 DEF Working, Resting
  <2>6. ~ Idle'
    BY <2>3 DEF Idle, NoFrame
  <2>7. Believed'
    BY <1>0, <1>3, <2>2, <2>3, Constants DEF Believed, LineTyped
  <2> QED
    BY <2>4, <2>5, <2>6, <2>7 DEF Inv, Resting
<1> QED
  BY <1>2, <1>3 DEF getline

(* A buffer with room for one character more. *)
RoomOK(room) ==
  /\ room.buf \in Blocks /\ room.cap \in Nat /\ room.buf \in DOMAIN room.blk
  /\ frame.len + 1 < room.cap /\ room.cap <= room.blk[room.buf] /\ frame.cap <= room.cap
  /\ room.blk = [b \in DOMAIN room.blk |-> room.blk[b]] /\ DOMAIN room.blk \subseteq Blocks
  /\ \A b \in DOMAIN room.blk : room.blk[b] \in Nat
  /\ ~ orphan => DOMAIN room.blk = {room.buf}
  /\ line.buf \in DOMAIN room.blk => line.n <= room.blk[line.buf]

(* Whether or not the buffer had to grow, in place or elsewhere, it has room *)
(* for the character and the terminator.                                   *)
LEMMA RoomIsOK ==
  ASSUME Inv, ~ Idle, NEW room \in Room
  PROVE  RoomOK(room)
<1>0. /\ LineTyped /\ Believed /\ frame.len < frame.cap /\ frame.buf \in DOMAIN blk
      /\ frame.cap <= blk[frame.buf] /\ line.n <= frame.cap
      /\ ~ orphan => DOMAIN blk = {frame.buf}
      /\ frame.cap \in Nat /\ frame.len \in Nat /\ line.n \in Nat
  BY DEF Inv, Working, LineTyped
<1>1. CASE ~ full
  <2>1. room = [buf |-> frame.buf, cap |-> frame.cap, blk |-> blk]
    BY <1>1 DEF Room
  <2>2. frame.len + 1 < frame.cap
    BY <1>0, <1>1 DEF full
  <2>3. room.buf = frame.buf /\ room.cap = frame.cap /\ room.blk = blk
    BY <2>1
  <2> QED
    BY <1>0, <2>2, <2>3 DEF RoomOK, LineTyped, Believed
<1>2. CASE full
  <2> DEFINE cap == 2 * frame.cap
             others == Without(blk, frame.buf)
  <2>1. PICK b \in (Blocks \ DOMAIN blk) \cup {frame.buf} :
          room = [buf |-> b, cap |-> cap, blk |-> With(others, b, cap)]
    BY <1>2 DEF Room
  <2>2. room.buf = b /\ room.cap = cap /\ room.blk = With(others, b, cap)
    BY <2>1
  <2>3. cap \in Nat /\ frame.len + 1 < cap /\ frame.cap <= cap /\ line.n <= cap
    BY <1>0, <1>2 DEF full
  <2>4. b \in Blocks
    BY <1>0, <2>1 DEF LineTyped
  <2> HIDE DEF cap
  <2>5. /\ DOMAIN room.blk = {b} \cup (DOMAIN blk \ {frame.buf})
        /\ room.blk = [x \in DOMAIN room.blk |-> room.blk[x]]
        /\ room.blk[b] = cap
        /\ \A x \in DOMAIN room.blk : x # b => x \in DOMAIN blk /\ room.blk[x] = blk[x]
    BY <2>2 DEF With, Without
  <2>6. DOMAIN room.blk \subseteq Blocks /\ \A x \in DOMAIN room.blk : room.blk[x] \in Nat
    BY <1>0, <2>3, <2>4, <2>5 DEF LineTyped
  <2>7. ~ orphan => DOMAIN room.blk = {b}
    BY <1>0, <2>5
  <2>8. line.buf \in DOMAIN room.blk => line.n <= room.blk[line.buf]
    BY <1>0, <2>3, <2>5 DEF Believed
  <2> QED
    BY <2>2, <2>3, <2>4, <2>5, <2>6, <2>7, <2>8 DEF RoomOK
<1> QED
  BY <1>1, <1>2

(* One character of a line, the last one included.                         *)
LEMMA CharInv ==
  ASSUME Inv, GetlineChar
  PROVE  Inv'
<1>0. LineTyped /\ Believed /\ Working /\ ~ Idle /\ orphan' = orphan
  BY DEF Inv, GetlineChar
<1>1. PICK room \in Room :
        /\ blk' = room.blk
        /\ \/ frame' = NoFrame /\ line' = [buf |-> room.buf, n |-> room.cap]
           \/ /\ frame' = [frame EXCEPT !.buf = room.buf, !.cap = room.cap, !.len = @ + 1]
              /\ line' = line
  BY DEF GetlineChar
<1>2. RoomOK(room)
  BY <1>0, RoomIsOK
<1>3. frame.len \in Nat /\ frame.cap \in Nat /\ line.n \in Nat /\ room.cap \in Nat /\ line.n <= frame.cap
  BY <1>0, <1>2 DEF LineTyped, Working, RoomOK
<1>4. CASE frame' = NoFrame /\ line' = [buf |-> room.buf, n |-> room.cap]
  <2>1. line'.buf = room.buf /\ line'.n = room.cap /\ Idle'
    BY <1>4 DEF Idle
  <2>2. LineTyped'
    BY <1>0, <1>1, <1>2, <1>4 DEF LineTyped, RoomOK, NoFrame
  <2>3. Believed' /\ Working' /\ Resting'
    BY <1>0, <1>1, <1>2, <1>3, <2>1, Constants DEF Believed, Working, Resting, RoomOK
  <2> QED
    BY <2>2, <2>3 DEF Inv
<1>5. CASE /\ frame' = [frame EXCEPT !.buf = room.buf, !.cap = room.cap, !.len = @ + 1]
           /\ line' = line
  <2>1. /\ frame'.buf = room.buf /\ frame'.cap = room.cap /\ frame'.len = frame.len + 1
        /\ frame'.stream = frame.stream
    BY <1>0, <1>5 DEF LineTyped
  <2>2. ~ Idle'
    BY <1>2, <2>1, Constants DEF Idle, NoFrame, RoomOK
  <2>3. LineTyped'
    <3>1. room.buf \in Blocks \cup {NULL} /\ room.cap \in Nat /\ frame.len + 1 \in Nat
      BY <1>2, <1>3 DEF RoomOK
    <3>2. frame' \in [stream : {frame.stream}, buf : Blocks \cup {NULL}, cap : Nat, len : Nat]
      BY <1>0, <1>5, <3>1 DEF LineTyped
    <3>3. frame' \in [stream : {frame'.stream}, buf : Blocks \cup {NULL}, cap : Nat, len : Nat]
      BY <2>1, <3>2
    <3>4. /\ blk' = [b \in DOMAIN blk' |-> blk'[b]] /\ DOMAIN blk' \subseteq Blocks
          /\ \A b \in DOMAIN blk' : blk'[b] \in Nat
      BY <1>1, <1>2 DEF RoomOK
    <3> QED
      BY <1>0, <1>5, <3>3, <3>4 DEF LineTyped
  <2>4. Believed'
    BY <1>0, <1>1, <1>2, <1>5 DEF Believed, RoomOK
  <2>5. Working'
    BY <1>0, <1>1, <1>2, <1>3, <1>5, <2>1 DEF Working, RoomOK
  <2> QED
    BY <2>2, <2>3, <2>4, <2>5 DEF Inv, Resting
<1> QED
  BY <1>1, <1>4, <1>5

(* The end of the file, with something read or nothing.                    *)
LEMMA EndInv ==
  ASSUME Inv, GetlineEnd
  PROVE  Inv'
<1>0. /\ LineTyped /\ Believed /\ Working /\ ~ Idle /\ orphan' = orphan /\ frame' = NoFrame
      /\ Idle'
  BY DEF Inv, GetlineEnd, Idle
<1>1. /\ frame.len \in Nat /\ frame.cap \in Nat /\ line.n \in Nat /\ frame.cap > 0
      /\ frame.buf \in DOMAIN blk /\ frame.buf \in Blocks /\ frame.cap <= blk[frame.buf]
  BY <1>0 DEF LineTyped, Working
<1>2. CASE frame.len = 0 /\ line.buf = NULL /\ line' = line /\ blk' = Without(blk, frame.buf)
  <2>1. /\ DOMAIN blk' = DOMAIN blk \ {frame.buf} /\ blk' = [b \in DOMAIN blk' |-> blk'[b]]
        /\ \A b \in DOMAIN blk' : blk'[b] = blk[b]
    BY <1>2 DEF Without
  <2>2. LineTyped'
    BY <1>0, <1>2, <2>1 DEF LineTyped, NoFrame
  <2>3. Believed' /\ Working' /\ Resting'
    BY <1>0, <1>2, <2>1 DEF Believed, Working, Resting
  <2> QED
    BY <2>2, <2>3 DEF Inv
<1>3. CASE frame.len = 0 /\ line.buf # NULL /\ line' = line /\ blk' = blk
  <2>1. frame.buf = line.buf
    BY <1>0, <1>3 DEF Working
  <2>2. LineTyped'
    BY <1>0, <1>3 DEF LineTyped, NoFrame
  <2>3. Believed' /\ Working' /\ Resting'
    BY <1>0, <1>3, <2>1 DEF Believed, Working, Resting
  <2> QED
    BY <2>2, <2>3 DEF Inv
<1>4. CASE line' = [buf |-> frame.buf, n |-> frame.cap] /\ blk' = blk
  <2>1. line'.buf = frame.buf /\ line'.n = frame.cap
    BY <1>4
  <2>2. LineTyped'
    BY <1>0, <1>1, <1>4 DEF LineTyped, NoFrame
  <2>3. Believed' /\ Working' /\ Resting'
    BY <1>0, <1>1, <1>4, <2>1, Constants DEF Believed, Working, Resting
  <2> QED
    BY <2>2, <2>3 DEF Inv
<1> QED
  BY <1>2, <1>3, <1>4 DEF GetlineEnd

(* A failed realloc: the caller keeps the pointer it had.                  *)
LEMMA NoMemoryInv ==
  ASSUME Inv, GetlineNoMemory
  PROVE  Inv'
<1>0. /\ LineTyped /\ Believed /\ Working /\ ~ Idle /\ frame' = NoFrame /\ Idle'
      /\ line' = line /\ blk' = blk /\ orphan' = (orphan \/ frame.buf # line.buf)
  BY DEF Inv, GetlineNoMemory, Idle
<1>1. frame.buf \in Blocks
  BY <1>0 DEF Working, LineTyped
<1>2. LineTyped'
  BY <1>0 DEF LineTyped, NoFrame
<1>3. Believed' /\ Working'
  BY <1>0 DEF Believed, Working
<1>4. Resting'
  BY <1>0, <1>1, Constants DEF Working, Resting
<1> QED
  BY <1>2, <1>3, <1>4 DEF Inv

(* The caller frees its line.                                              *)
LEMMA FreeInv ==
  ASSUME Inv, FreeLine
  PROVE  Inv'
<1>0. /\ LineTyped /\ Believed /\ Resting /\ Idle /\ Idle' /\ line.buf \in DOMAIN blk
      /\ frame' = frame /\ orphan' = orphan
      /\ line' = [buf |-> NULL, n |-> 0] /\ blk' = Without(blk, line.buf)
  BY DEF Inv, FreeLine, Idle
<1>1. /\ DOMAIN blk' = DOMAIN blk \ {line.buf} /\ blk' = [b \in DOMAIN blk' |-> blk'[b]]
      /\ \A b \in DOMAIN blk' : blk'[b] = blk[b]
  BY <1>0 DEF Without
<1>2. LineTyped'
  BY <1>0, <1>1 DEF LineTyped
<1>3. Believed' /\ Working' /\ Resting'
  BY <1>0, <1>1, <1>2, Constants DEF Believed, Working, Resting, LineTyped
<1> QED
  BY <1>2, <1>3 DEF Inv

-----------------------------------------------------------------------------
(* Every reachable state of the streams satisfies Inv.                     *)
THEOREM Invariance == Spec => []Inv
<1>1. Inv /\ [Next]_vars => Inv'
  <2> SUFFICES ASSUME Inv, [Next]_vars PROVE Inv'
    OBVIOUS
  <2>1. CASE GetlineStep \/ FreeLine
    BY <2>1, CharInv, EndInv, NoMemoryInv, FreeInv DEF GetlineStep
  <2>2. ASSUME NEW h \in DOMAIN FILE, getline(h) PROVE Inv'
    BY <2>2, GetlineInv
  <2>3. ASSUME NEW path \in Path, open(path) \/ opendir(path) PROVE Inv'
    BY <2>3, Untouched DEF open, opendir
  <2>4. ASSUME NEW path \in Path, NEW mode, fopen(path, mode) PROVE Inv'
    BY <2>4, Untouched DEF fopen
  <2>5. ASSUME NEW path \in Path, NEW mode, NEW h \in DOMAIN FILE, freopen(path, mode, h) PROVE Inv'
    BY <2>5, Untouched DEF freopen
  <2>6. ASSUME NEW fd \in raw, fdopen(fd) PROVE Inv'
    BY <2>6, Untouched DEF fdopen
  <2>7. ASSUME NEW d \in DOMAIN DIR, readdir(d) \/ closedir(d) PROVE Inv'
    BY <2>7, Untouched DEF readdir, closedir
  <2>8. ASSUME NEW h \in DOMAIN FILE, fclose(h) \/ getc(h) \/ clearerr(h) \/ rewind(h) PROVE Inv'
    BY <2>8, Untouched DEF fclose, getc, clearerr, rewind
  <2>9. ASSUME NEW h \in DOMAIN FILE, NEW c, ungetc(c, h) \/ fwrite(c, h) PROVE Inv'
    BY <2>9, Untouched DEF ungetc, fwrite
  <2>10. ASSUME NEW h \in DOMAIN FILE, NEW n, fread(n, h) \/ fgets(n, h) PROVE Inv'
    BY <2>10, Untouched DEF fread, fgets
  <2>11. ASSUME NEW h \in DOMAIN FILE, NEW offset, NEW whence, fseeko(h, offset, whence) PROVE Inv'
    BY <2>11, Untouched DEF fseeko
  <2>12. CASE UNCHANGED vars
    BY <2>12, Untouched DEF vars, lines
  <2> QED
    BY <2>1, <2>2, <2>3, <2>4, <2>5, <2>6, <2>7, <2>8, <2>9, <2>10, <2>11, <2>12 DEF Next
<1> QED
  BY <1>1, InitInv, PTL DEF Spec

(* getline never writes past its buffer, and between calls the caller owns *)
(* the one live line, unless a getline gave up while it worked on another  *)
(* buffer than the caller's.                                               *)
THEOREM LinesOwned == Spec => []LineOwned
<1>1. Inv => LineOwned
  BY DEF Inv, LineTyped, Believed, Working, Resting, LineOwned
<1> QED
  BY <1>1, Invariance, PTL
-----------------------------------------------------------------------------
(* Descriptors.  The types of the tables; a stream or directory stream     *)
(* never shares its address with another, an open descriptor is on a file, *)
(* a getline in progress has its stream open, and a stream at its end has  *)
(* nothing pushed back.                                                    *)
Stream == [fd : Fds, eof : BOOLEAN, err : BOOLEAN, pushback : Char \cup {NoChar}]

KernelTyped ==
  /\ file \in [Path -> Seq(Char)]
  /\ fdt \in [Fds -> [path : Path \cup {NULL}, pos : Nat, mode : {"closed", "r", "w"}]]
  /\ \A fd \in Fds : fdt[fd].mode # "closed" => fdt[fd].path \in Path

FilesTyped ==
  /\ FILE = [h \in DOMAIN FILE |-> FILE[h]] /\ DOMAIN FILE \subseteq Handles \cup {stdin}
  /\ \A h \in DOMAIN FILE : FILE[h] \in Stream
  /\ \A h \in DOMAIN FILE : FILE[h].eof => FILE[h].pushback = NoChar
  /\ ~ Idle => frame.stream \in DOMAIN FILE

DirsTyped ==
  /\ DIR = [d \in DOMAIN DIR |-> DIR[d]] /\ DOMAIN DIR \subseteq Handles
  /\ DOMAIN FILE \cap DOMAIN DIR = {} /\ \A d \in DOMAIN DIR : DIR[d] \in Fds

(* The owners of every descriptor: one of an open one, none of a free one. *)
OwnersOf == [fd \in Fds |-> Owners(fd)]

Owned ==
  \A fd \in Fds :
    /\ fdt[fd].mode = "closed" => OwnersOf[fd] = {}
    /\ fdt[fd].mode # "closed" => \E o : OwnersOf[fd] = {o}

Tables == KernelTyped /\ FilesTyped /\ DirsTyped /\ raw \subseteq Fds

TInv == Tables /\ Owned

(* The constants, as the proofs below use them.                            *)
LEMMA StreamConstants ==
  /\ Fds \subseteq Nat /\ 0 \in Fds
  /\ NULL \notin Handles /\ stdin \notin Handles /\ NULL # stdin
  /\ "program" \notin Handles \cup {stdin} /\ "nobody" \notin Handles \cup {stdin}
  /\ NoChar \notin Char /\ EOF \notin Char /\ NewLine \in Char /\ Pushable \subseteq Char
<1>1. NFds \in Nat /\ NFds # 0
  BY StreamsAssumption
<1>2. Fds \subseteq Nat /\ 0 \in Fds
  BY <1>1 DEF Fds
<1>3. {NoChar, EOF} \cap Char = {} /\ NewLine \in Char /\ Pushable \subseteq Char
  BY StreamsAssumption DEF Char
<1>4. {stdin, NULL, "program", "nobody"} \cap Handles = {}
  BY StreamsAssumption
<1>5. NULL # stdin /\ "program" # stdin /\ "nobody" # stdin
  BY DEF NULL, stdin
<1> QED
  BY <1>2, <1>3, <1>4, <1>5

(* A nonempty set of numbers has a least element, and Min finds it.        *)
LEMMA Least ==
  ASSUME NEW S \in SUBSET Nat, S # {}
  PROVE  Min(S) \in S /\ \A y \in S : Min(S) <= y
<1>1. PICK x \in S : \A y \in S : ~ (<<y, x>> \in OpToRel(<, Nat))
  BY NatLessThanWellFounded, WFMin, Zenon
<1>2. \A y \in S : x <= y
  <2> SUFFICES ASSUME NEW y \in S PROVE x <= y
    OBVIOUS
  <2>1. x \in Nat /\ y \in Nat
    OBVIOUS
  <2>2. ~ (y < x)
    BY <1>1, <2>1 DEF OpToRel
  <2> QED
    BY <2>1, <2>2
<1> QED
  BY <1>2 DEF Min

(* open finds a free descriptor when there is one.                         *)
LEMMA LowestFree ==
  ASSUME FreeFds # {}
  PROVE  Min(FreeFds) \in Fds /\ fdt[Min(FreeFds)].mode = "closed"
<1>1. FreeFds \in SUBSET Nat
  BY StreamConstants DEF FreeFds
<1>2. Min(FreeFds) \in FreeFds
  BY <1>1, Least
<1> QED
  BY <1>2 DEF FreeFds

(* The kernel opens a descriptor.                                          *)
LEMMA OpenKernel ==
  ASSUME KernelTyped, NEW fd \in Fds, NEW path \in Path, NEW mode,
         OpenAt(fd, path, mode), file' = file \/ Truncated(path, mode)
  PROVE  /\ KernelTyped' /\ fdt'[fd].mode # "closed"
         /\ \A x \in Fds : x # fd => fdt'[x] = fdt[x]
<1> DEFINE new == [path |-> path, pos |-> 0, mode |-> flags(mode)]
<1>1. /\ new \in [path : Path \cup {NULL}, pos : Nat, mode : {"closed", "r", "w"}]
      /\ new.path = path /\ new.mode # "closed"
  BY DEF flags
<1>2. fdt' = [fdt EXCEPT ![fd] = new]
  BY DEF OpenAt
<1> HIDE DEF new
<1>3. file' \in [Path -> Seq(Char)]
  <2>1. << >> \in Seq(Char)
    OBVIOUS
  <2> QED
    BY <2>1 DEF KernelTyped, Truncated
<1>4. fdt' \in [Fds -> [path : Path \cup {NULL}, pos : Nat, mode : {"closed", "r", "w"}]]
  BY <1>1, <1>2 DEF KernelTyped
<1>5. fdt'[fd] = new /\ \A x \in Fds : x # fd => fdt'[x] = fdt[x]
  BY <1>2 DEF KernelTyped
<1> QED
  BY <1>1, <1>3, <1>4, <1>5 DEF KernelTyped

(* A close leaves the file alone and frees the descriptor.                 *)
LEMMA CloseKernel ==
  ASSUME KernelTyped, NEW fd \in Fds, fdt' = [fdt EXCEPT ![fd] = Closed], file' = file
  PROVE  /\ KernelTyped' /\ fdt'[fd].mode = "closed"
         /\ \A x \in Fds : x # fd => fdt'[x] = fdt[x]
<1>1. /\ Closed \in [path : Path \cup {NULL}, pos : Nat, mode : {"closed", "r", "w"}]
      /\ Closed.mode = "closed"
  BY DEF Closed
<1>2. fdt' \in [Fds -> [path : Path \cup {NULL}, pos : Nat, mode : {"closed", "r", "w"}]]
  BY <1>1 DEF KernelTyped
<1>3. fdt'[fd] = Closed /\ \A x \in Fds : x # fd => fdt'[x] = fdt[x]
  BY DEF KernelTyped
<1> QED
  BY <1>1, <1>2, <1>3 DEF KernelTyped

(* A read, a write or a seek moves the one position there is.              *)
LEMMA MoveKernel ==
  ASSUME KernelTyped, NEW fd \in Fds, NEW to \in Nat,
         fdt' = [fdt EXCEPT ![fd].pos = to], file' \in [Path -> Seq(Char)]
  PROVE  /\ KernelTyped' /\ fdt'[fd].pos = to
         /\ \A x \in Fds : fdt'[x].mode = fdt[x].mode /\ fdt'[x].path = fdt[x].path
<1> DEFINE moved == [fdt[fd] EXCEPT !.pos = to]
<1>0. fdt[fd] \in [path : Path \cup {NULL}, pos : Nat, mode : {"closed", "r", "w"}]
  BY DEF KernelTyped
<1>1. /\ moved \in [path : Path \cup {NULL}, pos : Nat, mode : {"closed", "r", "w"}]
      /\ moved.mode = fdt[fd].mode /\ moved.path = fdt[fd].path /\ moved.pos = to
  BY <1>0
<1>2. fdt' = [fdt EXCEPT ![fd] = moved]
  OBVIOUS
<1> HIDE DEF moved
<1>3. fdt' \in [Fds -> [path : Path \cup {NULL}, pos : Nat, mode : {"closed", "r", "w"}]]
  BY <1>1, <1>2 DEF KernelTyped
<1>4. fdt'[fd] = moved /\ \A x \in Fds : x # fd => fdt'[x] = fdt[x]
  BY <1>2 DEF KernelTyped
<1>5. \A x \in Fds : fdt'[x].mode = fdt[x].mode /\ fdt'[x].path = fdt[x].path
  BY <1>1, <1>4
<1> QED
  BY <1>1, <1>3, <1>4, <1>5 DEF KernelTyped

(* fdopen makes a FILE.                                                    *)
LEMMA NewStream ==
  ASSUME FilesTyped, DirsTyped, NEW h \in FreeHandles, NEW fd \in Fds,
         FILE' = With(FILE, h, NewFile(fd)), DIR' = DIR, frame' = frame
  PROVE  /\ FilesTyped' /\ DirsTyped' /\ h \notin DOMAIN FILE /\ h \in Handles
         /\ DOMAIN FILE' = DOMAIN FILE \cup {h} /\ FILE'[h].fd = fd
         /\ \A x \in DOMAIN FILE : FILE'[x] = FILE[x]
<1>1. /\ NewFile(fd) \in Stream /\ NewFile(fd).fd = fd /\ NewFile(fd).pushback = NoChar
  BY DEF NewFile, Stream
<1>2. h \in Handles /\ h \notin DOMAIN FILE /\ h \notin DOMAIN DIR
  BY DEF FreeHandles
<1>3. /\ DOMAIN FILE' = DOMAIN FILE \cup {h} /\ FILE'[h] = NewFile(fd)
      /\ \A x \in DOMAIN FILE : FILE'[x] = FILE[x]
      /\ FILE' = [x \in DOMAIN FILE' |-> FILE'[x]]
  BY <1>2 DEF With
<1>4. FilesTyped'
  BY <1>1, <1>2, <1>3 DEF FilesTyped, Idle
<1> QED
  BY <1>1, <1>2, <1>3, <1>4 DEF DirsTyped

(* The flags and the pushed back character of one stream change.           *)
LEMMA ChangeStream ==
  ASSUME FilesTyped, DirsTyped, NEW h \in DOMAIN FILE, NEW v \in Stream,
         v.eof => v.pushback = NoChar,
         FILE' = [FILE EXCEPT ![h] = v], DIR' = DIR, Idle' \/ frame'.stream \in DOMAIN FILE
  PROVE  /\ FilesTyped' /\ DirsTyped' /\ DOMAIN FILE' = DOMAIN FILE /\ FILE'[h] = v
         /\ \A x \in DOMAIN FILE : x # h => FILE'[x] = FILE[x]
<1>1. /\ DOMAIN FILE' = DOMAIN FILE /\ FILE'[h] = v
      /\ \A x \in DOMAIN FILE : x # h => FILE'[x] = FILE[x]
      /\ FILE' = [x \in DOMAIN FILE' |-> FILE'[x]]
  OBVIOUS
<1>2. FilesTyped'
  BY <1>1 DEF FilesTyped
<1> QED
  BY <1>1, <1>2 DEF DirsTyped

(* fclose frees the FILE.                                                  *)
LEMMA FreeStream ==
  ASSUME FilesTyped, DirsTyped, Idle, NEW h \in DOMAIN FILE,
         FILE' = Without(FILE, h), DIR' = DIR, frame' = frame
  PROVE  /\ FilesTyped' /\ DirsTyped' /\ DOMAIN FILE' = DOMAIN FILE \ {h}
         /\ \A x \in DOMAIN FILE' : FILE'[x] = FILE[x]
<1>1. /\ DOMAIN FILE' = DOMAIN FILE \ {h} /\ \A x \in DOMAIN FILE' : FILE'[x] = FILE[x]
      /\ FILE' = [x \in DOMAIN FILE' |-> FILE'[x]]
  BY DEF Without
<1>2. FilesTyped'
  BY <1>1 DEF FilesTyped, Idle
<1> QED
  BY <1>1, <1>2 DEF DirsTyped

-----------------------------------------------------------------------------
(* How ownership moves: fd gets the owner o, fd loses its owner, and       *)
(* nothing changes.                                                        *)
LEMMA Hands ==
  ASSUME Owned, NEW fd \in Fds, NEW o,
         \A x \in Fds : x # fd => fdt'[x].mode = fdt[x].mode, fdt'[fd].mode # "closed",
         \A x \in Fds : OwnersOf'[x] = IF x = fd THEN {o} ELSE OwnersOf[x]
  PROVE  Owned'
BY DEF Owned

(* Its owner closed fd.                                                    *)
LEMMA Drops ==
  ASSUME Owned, NEW fd \in Fds,
         \A x \in Fds : x # fd => fdt'[x].mode = fdt[x].mode, fdt'[fd].mode = "closed",
         \A x \in Fds : OwnersOf'[x] = IF x = fd THEN {} ELSE OwnersOf[x]
  PROVE  Owned'
BY DEF Owned

(* Nothing is opened, closed or handed on.                                 *)
LEMMA Keeps ==
  ASSUME Owned, DOMAIN FILE' = DOMAIN FILE,
         \A h \in DOMAIN FILE : FILE'[h].fd = FILE[h].fd,
         \A x \in Fds : fdt'[x].mode = fdt[x].mode,
         UNCHANGED <<DIR, raw, lost>>
  PROVE  Owned'
<1>1. \A x \in Fds : OwnersOf'[x] = OwnersOf[x]
  <2> SUFFICES ASSUME NEW x \in Fds PROVE OwnersOf'[x] = OwnersOf[x]
    OBVIOUS
  <2>1. {h \in DOMAIN FILE' : FILE'[h].fd = x} = {h \in DOMAIN FILE : FILE[h].fd = x}
    OBVIOUS
  <2> QED
    BY <2>1 DEF OwnersOf, Owners
<1> QED
  BY <1>1 DEF Owned

(* A descriptor that somebody owns is open, and nobody else owns it.       *)
LEMMA Sole ==
  ASSUME Owned, NEW fd \in Fds, NEW o \in OwnersOf[fd]
  PROVE  fdt[fd].mode # "closed" /\ OwnersOf[fd] = {o}
BY DEF Owned

(* The owner of a descriptor is not one of the others.                     *)
LEMMA Others ==
  ASSUME Tables, Owned, NEW fd \in Fds
  PROVE  /\ fdt[fd].mode = "closed" =>
              /\ \A h \in DOMAIN FILE : FILE[h].fd # fd
              /\ \A d \in DOMAIN DIR : DIR[d] # fd
              /\ fd \notin raw /\ fd \notin lost
         /\ \A h \in DOMAIN FILE : FILE[h].fd = fd =>
              /\ \A g \in DOMAIN FILE : FILE[g].fd = fd => g = h
              /\ \A d \in DOMAIN DIR : DIR[d] # fd
              /\ fd \notin raw /\ fd \notin lost
         /\ \A d \in DOMAIN DIR : DIR[d] = fd =>
              /\ \A h \in DOMAIN FILE : FILE[h].fd # fd
              /\ \A e \in DOMAIN DIR : DIR[e] = fd => e = d
              /\ fd \notin raw /\ fd \notin lost
         /\ fd \in raw =>
              /\ \A h \in DOMAIN FILE : FILE[h].fd # fd
              /\ \A d \in DOMAIN DIR : DIR[d] # fd
              /\ fd \notin lost
<1>0. /\ "program" \notin DOMAIN FILE \cup DOMAIN DIR /\ "nobody" \notin DOMAIN FILE \cup DOMAIN DIR
      /\ DOMAIN FILE \cap DOMAIN DIR = {}
  BY StreamConstants DEF Tables, FilesTyped, DirsTyped
<1>1. /\ \A h \in DOMAIN FILE : FILE[h].fd = fd => h \in OwnersOf[fd]
      /\ \A d \in DOMAIN DIR : DIR[d] = fd => d \in OwnersOf[fd]
      /\ fd \in raw => "program" \in OwnersOf[fd]
      /\ fd \in lost => "nobody" \in OwnersOf[fd]
  BY DEF OwnersOf, Owners
<1>2. fdt[fd].mode = "closed" => OwnersOf[fd] = {}
  BY DEF Owned
<1>3. \A o \in OwnersOf[fd] : OwnersOf[fd] = {o}
  BY Sole
<1> QED
  BY <1>0, <1>1, <1>2, <1>3

(* open: the program owns the descriptor.                                  *)
LEMMA OpenOwned ==
  ASSUME TInv, NEW path \in Path, open(path)
  PROVE  TInv'
<1> DEFINE fd == Min(FreeFds)
<1>1. /\ fd \in Fds /\ fdt[fd].mode = "closed" /\ OpenAt(fd, path, "r") /\ raw' = raw \cup {fd}
      /\ UNCHANGED <<file, FILE, DIR, lost, frame>>
  BY LowestFree DEF open, lines
<1> HIDE DEF fd
<1>2. /\ KernelTyped' /\ fdt'[fd].mode # "closed"
      /\ \A x \in Fds : x # fd => fdt'[x] = fdt[x]
  BY <1>1, OpenKernel DEF TInv, Tables
<1>3. \A x \in Fds : OwnersOf'[x] = IF x = fd THEN {"program"} ELSE OwnersOf[x]
  BY <1>1, Others DEF TInv, OwnersOf, Owners
<1>4. Owned'
  BY <1>1, <1>2, <1>3, Hands DEF TInv
<1> QED
  BY <1>1, <1>2, <1>4 DEF TInv, Tables, FilesTyped, DirsTyped, Idle

(* fdopen: the FILE takes the descriptor over from the program.            *)
LEMMA FdopenOwned ==
  ASSUME TInv, NEW fd \in raw, fdopen(fd)
  PROVE  TInv'
<1>1. PICK h \in FreeHandles : FILE' = With(FILE, h, NewFile(fd))
  BY DEF fdopen
<1>2. raw' = raw \ {fd} /\ UNCHANGED <<file, fdt, DIR, lost, frame>> /\ fd \in Fds
  BY DEF fdopen, lines, TInv, Tables
<1>3. /\ FilesTyped' /\ DirsTyped' /\ h \notin DOMAIN FILE /\ h \in Handles
      /\ DOMAIN FILE' = DOMAIN FILE \cup {h} /\ FILE'[h].fd = fd
      /\ \A x \in DOMAIN FILE : FILE'[x] = FILE[x]
  BY <1>1, <1>2, NewStream DEF TInv, Tables
<1>4. \A x \in Fds : OwnersOf'[x] = IF x = fd THEN {h} ELSE OwnersOf[x]
  BY <1>2, <1>3, Others DEF TInv, OwnersOf, Owners
<1>5. fdt[fd].mode # "closed"
  BY <1>2, Others DEF TInv
<1>6. Owned'
  BY <1>2, <1>4, <1>5, Hands DEF TInv
<1> QED
  BY <1>2, <1>3, <1>6 DEF TInv, Tables, KernelTyped

(* fopen: the new FILE owns the descriptor, or nobody ever will.           *)
LEMMA FopenOwned ==
  ASSUME TInv, NEW path \in Path, NEW mode, fopen(path, mode)
  PROVE  TInv'
<1> DEFINE fd == Min(FreeFds)
<1>1. /\ fd \in Fds /\ fdt[fd].mode = "closed" /\ OpenAt(fd, path, mode)
      /\ Truncated(path, mode) /\ UNCHANGED <<DIR, raw, frame>>
      /\ \/ \E h \in FreeHandles : FILE' = With(FILE, h, NewFile(fd)) /\ lost' = lost
         \/ FILE' = FILE /\ lost' = lost \cup {fd}
  BY LowestFree DEF fopen, lines
<1> HIDE DEF fd
<1>2. /\ KernelTyped' /\ fdt'[fd].mode # "closed"
      /\ \A x \in Fds : x # fd => fdt'[x] = fdt[x]
  BY <1>1, OpenKernel DEF TInv, Tables
<1>3. CASE \E h \in FreeHandles : FILE' = With(FILE, h, NewFile(fd)) /\ lost' = lost
  <2>1. PICK h \in FreeHandles : FILE' = With(FILE, h, NewFile(fd)) /\ lost' = lost
    BY <1>3
  <2>2. /\ FilesTyped' /\ DirsTyped' /\ h \notin DOMAIN FILE
        /\ DOMAIN FILE' = DOMAIN FILE \cup {h} /\ FILE'[h].fd = fd
        /\ \A x \in DOMAIN FILE : FILE'[x] = FILE[x]
    BY <1>1, <2>1, NewStream DEF TInv, Tables
  <2>3. \A x \in Fds : OwnersOf'[x] = IF x = fd THEN {h} ELSE OwnersOf[x]
    BY <1>1, <2>1, <2>2, Others DEF TInv, OwnersOf, Owners
  <2>4. Owned'
    BY <1>1, <1>2, <2>3, Hands DEF TInv
  <2> QED
    BY <1>1, <1>2, <2>2, <2>4 DEF TInv, Tables
<1>4. CASE FILE' = FILE /\ lost' = lost \cup {fd}
  <2>1. \A x \in Fds : OwnersOf'[x] = IF x = fd THEN {"nobody"} ELSE OwnersOf[x]
    BY <1>1, <1>4, Others DEF TInv, OwnersOf, Owners
  <2>2. Owned'
    BY <1>1, <1>2, <2>1, Hands DEF TInv
  <2> QED
    BY <1>1, <1>2, <1>4, <2>2 DEF TInv, Tables, FilesTyped, DirsTyped, Idle
<1> QED
  BY <1>1, <1>3, <1>4

(* freopen: the stream has the new descriptor and the old one is free.     *)
LEMMA FreopenOwned ==
  ASSUME TInv, NEW path \in Path, NEW mode, NEW h \in DOMAIN FILE, freopen(path, mode, h)
  PROVE  TInv'
<1> DEFINE fd == Min(FreeFds)
           old == FILE[h].fd
           new == [path |-> path, pos |-> 0, mode |-> flags(mode)]
<1>1. /\ fd \in Fds /\ fdt[fd].mode = "closed" /\ Idle
      /\ fdt' = [fdt EXCEPT ![fd] = new, ![old] = Closed]
      /\ FILE' = [FILE EXCEPT ![h] = NewFile(fd)]
      /\ Truncated(path, mode) /\ UNCHANGED <<DIR, raw, lost, frame>>
  BY LowestFree DEF freopen, lines
<1>2. /\ NewFile(fd) \in Stream /\ NewFile(fd).fd = fd /\ NewFile(fd).pushback = NoChar
  BY <1>1 DEF NewFile, Stream
<1>3. /\ new \in [path : Path \cup {NULL}, pos : Nat, mode : {"closed", "r", "w"}]
      /\ new.path = path /\ new.mode # "closed"
      /\ Closed \in [path : Path \cup {NULL}, pos : Nat, mode : {"closed", "r", "w"}]
      /\ Closed.mode = "closed"
  BY DEF flags, Closed
<1> HIDE DEF fd, old, new
<1>4. old \in Fds /\ old # fd
  BY <1>1, Others DEF TInv, Tables, FilesTyped, Stream, old
<1>5. /\ fdt' \in [Fds -> [path : Path \cup {NULL}, pos : Nat, mode : {"closed", "r", "w"}]]
      /\ fdt'[fd] = new /\ fdt'[old] = Closed
      /\ \A x \in Fds : x # fd /\ x # old => fdt'[x] = fdt[x]
  BY <1>1, <1>3, <1>4 DEF TInv, Tables, KernelTyped
<1>6. file' \in [Path -> Seq(Char)]
  <2>1. << >> \in Seq(Char)
    OBVIOUS
  <2> QED
    BY <1>1, <2>1 DEF TInv, Tables, KernelTyped, Truncated
<1>7. KernelTyped'
  BY <1>3, <1>5, <1>6 DEF KernelTyped, TInv, Tables
<1>8. /\ FilesTyped' /\ DirsTyped' /\ DOMAIN FILE' = DOMAIN FILE /\ FILE'[h] = NewFile(fd)
      /\ \A x \in DOMAIN FILE : x # h => FILE'[x] = FILE[x]
  BY <1>1, <1>2, ChangeStream DEF TInv, Tables, Idle
<1>9. \A x \in Fds : OwnersOf'[x] =
        IF x = fd THEN {h} ELSE IF x = old THEN {} ELSE OwnersOf[x]
  BY <1>1, <1>2, <1>4, <1>8, Others DEF TInv, OwnersOf, Owners, old
<1>10. Owned'
  <2> SUFFICES ASSUME NEW x \in Fds
               PROVE  /\ fdt'[x].mode = "closed" => OwnersOf'[x] = {}
                      /\ fdt'[x].mode # "closed" => \E o : OwnersOf'[x] = {o}
    BY DEF Owned
  <2>1. CASE x = fd
    BY <1>3, <1>5, <1>9, <2>1
  <2>2. CASE x = old
    BY <1>3, <1>4, <1>5, <1>9, <2>2
  <2>3. CASE x # fd /\ x # old
    BY <1>5, <1>9, <2>3 DEF TInv, Owned
  <2> QED
    BY <2>1, <2>2, <2>3
<1> QED
  BY <1>1, <1>7, <1>8, <1>10 DEF TInv, Tables

(* fclose: the FILE's descriptor is free, and nobody holds it.             *)
LEMMA FcloseOwned ==
  ASSUME TInv, NEW h \in DOMAIN FILE, fclose(h)
  PROVE  TInv'
<1> DEFINE fd == FILE[h].fd
<1>1. /\ Idle /\ fdt' = [fdt EXCEPT ![fd] = Closed] /\ FILE' = Without(FILE, h)
      /\ UNCHANGED <<file, DIR, raw, lost, frame>>
  BY DEF fclose, lines
<1>2. fd \in Fds
  BY DEF TInv, Tables, FilesTyped, Stream
<1>3. /\ KernelTyped' /\ fdt'[fd].mode = "closed" /\ \A x \in Fds : x # fd => fdt'[x] = fdt[x]
  BY <1>1, <1>2, CloseKernel DEF TInv, Tables
<1>4. /\ FilesTyped' /\ DirsTyped' /\ DOMAIN FILE' = DOMAIN FILE \ {h}
      /\ \A x \in DOMAIN FILE' : FILE'[x] = FILE[x]
  BY <1>1, FreeStream DEF TInv, Tables
<1>5. \A x \in Fds : OwnersOf'[x] = IF x = fd THEN {} ELSE OwnersOf[x]
  BY <1>1, <1>2, <1>4, Others DEF TInv, OwnersOf, Owners
<1>6. Owned'
  BY <1>2, <1>3, <1>5, Drops DEF TInv
<1> QED
  BY <1>1, <1>3, <1>4, <1>6 DEF TInv, Tables

(* opendir and closedir, alike; readdir moves the position.                *)
LEMMA OpendirOwned ==
  ASSUME TInv, NEW path \in Path, opendir(path)
  PROVE  TInv'
<1> DEFINE fd == Min(FreeFds)
<1>1. /\ fd \in Fds /\ fdt[fd].mode = "closed"
      /\ UNCHANGED <<file, FILE, raw, lost, frame>>
      /\ \/ \E h \in FreeHandles : OpenAt(fd, path, "r") /\ DIR' = With(DIR, h, fd)
         \/ UNCHANGED <<fdt, DIR>>
  BY LowestFree DEF opendir, lines
<1> HIDE DEF fd
<1>2. CASE \E h \in FreeHandles : OpenAt(fd, path, "r") /\ DIR' = With(DIR, h, fd)
  <2>1. PICK h \in FreeHandles : OpenAt(fd, path, "r") /\ DIR' = With(DIR, h, fd)
    BY <1>2
  <2>2. /\ KernelTyped' /\ fdt'[fd].mode # "closed"
        /\ \A x \in Fds : x # fd => fdt'[x] = fdt[x]
    BY <1>1, <2>1, OpenKernel DEF TInv, Tables
  <2>3. h \in Handles /\ h \notin DOMAIN FILE /\ h \notin DOMAIN DIR
    BY DEF FreeHandles
  <2>4. /\ DOMAIN DIR' = DOMAIN DIR \cup {h} /\ DIR'[h] = fd
        /\ \A d \in DOMAIN DIR : DIR'[d] = DIR[d]
        /\ DIR' = [d \in DOMAIN DIR' |-> DIR'[d]]
    BY <2>1, <2>3 DEF With
  <2>5. FilesTyped' /\ DirsTyped'
    BY <1>1, <2>3, <2>4 DEF TInv, Tables, FilesTyped, DirsTyped, Idle
  <2>6. \A x \in Fds : OwnersOf'[x] = IF x = fd THEN {h} ELSE OwnersOf[x]
    BY <1>1, <2>3, <2>4, Others DEF TInv, OwnersOf, Owners
  <2>7. Owned'
    BY <1>1, <2>2, <2>6, Hands DEF TInv
  <2> QED
    BY <1>1, <2>2, <2>5, <2>7 DEF TInv, Tables
<1>3. CASE UNCHANGED <<fdt, DIR>>
  <2>1. Owned'
    BY <1>1, <1>3, Keeps DEF TInv
  <2> QED
    BY <1>1, <1>3, <2>1 DEF TInv, Tables, KernelTyped, FilesTyped, DirsTyped, Idle
<1> QED
  BY <1>1, <1>2, <1>3

(* closedir frees the descriptor of the directory stream.                  *)
LEMMA ClosedirOwned ==
  ASSUME TInv, NEW d \in DOMAIN DIR, closedir(d)
  PROVE  TInv'
<1> DEFINE fd == DIR[d]
<1>1. /\ fdt' = [fdt EXCEPT ![fd] = Closed] /\ DIR' = Without(DIR, d)
      /\ UNCHANGED <<file, FILE, raw, lost, frame>>
  BY DEF closedir, lines
<1>2. fd \in Fds
  BY DEF TInv, Tables, DirsTyped
<1>3. /\ KernelTyped' /\ fdt'[fd].mode = "closed" /\ \A x \in Fds : x # fd => fdt'[x] = fdt[x]
  BY <1>1, <1>2, CloseKernel DEF TInv, Tables
<1>4. /\ DOMAIN DIR' = DOMAIN DIR \ {d} /\ \A e \in DOMAIN DIR' : DIR'[e] = DIR[e]
      /\ DIR' = [e \in DOMAIN DIR' |-> DIR'[e]]
  BY <1>1 DEF Without
<1>5. FilesTyped' /\ DirsTyped'
  BY <1>1, <1>4 DEF TInv, Tables, FilesTyped, DirsTyped, Idle
<1>6. \A x \in Fds : OwnersOf'[x] = IF x = fd THEN {} ELSE OwnersOf[x]
  BY <1>1, <1>2, <1>4, Others DEF TInv, OwnersOf, Owners
<1>7. Owned'
  BY <1>2, <1>3, <1>6, Drops DEF TInv
<1> QED
  BY <1>1, <1>3, <1>5, <1>7 DEF TInv, Tables

(* readdir moves the position of the directory.                            *)
LEMMA ReaddirOwned ==
  ASSUME TInv, NEW d \in DOMAIN DIR, readdir(d)
  PROVE  TInv'
<1> DEFINE fd == DIR[d]
<1>1. fdt' = [fdt EXCEPT ![fd].pos = fdt[fd].pos + 1] /\ UNCHANGED <<file, FILE, DIR, raw, lost, frame>>
  BY DEF readdir, lines
<1>2. fd \in Fds
  BY DEF TInv, Tables, DirsTyped
<1>3. fdt[fd].pos + 1 \in Nat
  BY <1>2 DEF TInv, Tables, KernelTyped
<1>4. KernelTyped' /\ \A x \in Fds : fdt'[x].mode = fdt[x].mode
  <2>1. file' \in [Path -> Seq(Char)]
    BY <1>1 DEF TInv, Tables, KernelTyped
  <2> QED
    BY <1>1, <1>2, <1>3, <2>1, MoveKernel DEF TInv, Tables
<1>5. Owned'
  BY <1>1, <1>4, Keeps DEF TInv
<1> QED
  BY <1>1, <1>4, <1>5 DEF TInv, Tables, FilesTyped, DirsTyped, Idle

-----------------------------------------------------------------------------
(* What is left of a file from position p on is a text.                    *)
LEMMA Leftover ==
  ASSUME NEW text \in Seq(Char), NEW p \in Nat
  PROVE  SubSeq(text, p + 1, Len(text)) \in Seq(Char)
<1>1. p + 1 \in Int /\ Len(text) \in Int /\ p + 1 >= 1
  BY LenProperties
<1>2. \A i \in p + 1 .. Len(text) : text[i] \in Char
  BY <1>1, ElementOfSeq
<1> QED
  BY <1>1, <1>2, SubSeqProperties

(* The first byte of a text.                                               *)
LEMMA FirstByte ==
  ASSUME NEW text \in Seq(Char), text # << >>
  PROVE  SubSeq(text, 1, 1) = <<Head(text)>> /\ Head(text) \in Char /\ 1 \in 0 .. Len(text)
<1>1. Len(text) \in Nat /\ Len(text) # 0
  BY EmptySeq, LenProperties
<1>2. 1 \in 1 .. Len(text) /\ 1 \in 1 .. Len(text) /\ 1 \in 0 .. Len(text)
  BY <1>1
<1>3. SubSeq(text, 1, 1) = <<text[1]>> \o SubSeq(text, 1 + 1, 1)
  BY <1>2, SubSeqRecursiveFirst
<1>4. SubSeq(text, 1 + 1, 1) = << >>
  BY SubSeqEmpty
<1>5. text[1] \in Char /\ Head(text) = text[1]
  BY <1>2, ElementOfSeq
<1>6. <<text[1]>> \o << >> = <<text[1]>>
  BY <1>5, ConcatEmptySeq
<1> QED
  BY <1>2, <1>3, <1>4, <1>5, <1>6

(* What is left of a file from position p on is the next k bytes and what  *)
(* is left from p + k on, also when p is past the end.                     *)
LEMMA Advance ==
  ASSUME NEW text \in Seq(Char), NEW p \in Nat,
         NEW k \in 0 .. Len(SubSeq(text, p + 1, Len(text)))
  PROVE  SubSeq(text, p + 1, Len(text)) =
           SubSeq(SubSeq(text, p + 1, Len(text)), 1, k) \o SubSeq(text, p + k + 1, Len(text))
<1> DEFINE n == Len(text)
           rest == SubSeq(text, p + 1, n)
<1>0. n \in Nat /\ p + 1 \in Int /\ n \in Int
  BY LenProperties
<1>1. \A i \in p + 1 .. n : text[i] \in Char
  BY <1>0, ElementOfSeq
<1>2. /\ rest \in Seq(Char) /\ Len(rest) = IF p + 1 <= n THEN n - (p + 1) + 1 ELSE 0
      /\ \A i \in 1 .. n - (p + 1) + 1 : rest[i] = text[(p + 1) + i - 1]
  BY <1>0, <1>1, SubSeqProperties
<1>3. CASE k = 0
  <2>1. SubSeq(rest, 1, 0) = << >> /\ << >> \o rest = rest
    BY <1>2, SubSeqEmpty, ConcatEmptySeq
  <2>2. p + k + 1 = p + 1
    BY <1>3
  <2> QED
    BY <1>3, <2>1, <2>2
<1>4. CASE k # 0
  <2>1. k \in Nat /\ k >= 1 /\ p + k <= n /\ p + 1 <= n
    BY <1>0, <1>2, <1>4
  <2> HIDE DEF n
  <2>2. p + 1 \in 1 .. n /\ n \in 1 .. n /\ 1 \in 1 .. n - (p + 1) + 1 /\ k \in 1 .. n - (p + 1) + 1
    BY <1>0, <2>1
  <2>3. (p + 1) + 1 - 1 = p + 1 /\ (p + 1) + k - 1 = p + k
    BY <2>1
  <2>4. SubSeq(rest, 1, k) = SubSeq(text, p + 1, p + k)
    BY <2>2, <2>3, SubSeqOfSubSeq DEF n
  <2>5. p + 1 \in 1 .. n + 1 /\ p + k \in (p + 1) - 1 .. n /\ n \in p + k .. n
    BY <1>0, <2>1
  <2>6. SubSeq(text, p + 1, p + k) \o SubSeq(text, p + k + 1, n) = rest
    BY <2>5, ConcatAdjacentSubSeq DEF n
  <2> QED
    BY <2>4, <2>6 DEF n
<1> QED
  BY <1>3, <1>4

(* What a stream has: a descriptor, a position, a text.                    *)
LEMMA StreamTyped ==
  ASSUME TInv, NEW h \in DOMAIN FILE
  PROVE  /\ FILE[h] \in Stream /\ FILE[h].fd \in Fds /\ Pos(h) \in Nat /\ Text(h) \in Seq(Char)
         /\ fdt[FILE[h].fd].mode # "closed" /\ fdt[FILE[h].fd].path \in Path
         /\ Ahead(h) \in Seq(Char) /\ Rest(h) \in Seq(Char)
<1>1. FILE[h] \in Stream /\ FILE[h].fd \in Fds
  BY DEF TInv, Tables, FilesTyped, Stream
<1>2. fdt[FILE[h].fd].mode # "closed"
  BY <1>1, Others DEF TInv
<1>3. fdt[FILE[h].fd].path \in Path /\ Pos(h) \in Nat
  BY <1>1, <1>2 DEF TInv, Tables, KernelTyped, Pos
<1>4. Text(h) \in Seq(Char)
  <2>1. << >> \in Seq(Char)
    OBVIOUS
  <2> QED
    BY <1>3, <2>1 DEF TInv, Tables, KernelTyped, Text
<1>5. Ahead(h) \in Seq(Char)
  BY <1>3, <1>4, Leftover DEF Ahead
<1>6. Rest(h) \in Seq(Char)
  <2>1. CASE Pushed(h)
    <3>1. FILE[h].pushback \in Char
      BY <1>1, <2>1 DEF Pushed, Stream
    <3>2. <<FILE[h].pushback>> \in Seq(Char)
      BY <3>1
    <3> QED
      BY <1>5, <2>1, <3>2, ConcatProperties DEF Rest
  <2>2. CASE ~ Pushed(h)
    BY <1>5, <2>2, ConcatEmptySeq DEF Rest
  <2> QED
    BY <2>1, <2>2
<1> QED
  BY <1>1, <1>2, <1>3, <1>4, <1>5, <1>6

(* A stream that takes k of the bytes ahead of it.                         *)
LEMMA Takes ==
  ASSUME TInv, NEW h \in DOMAIN FILE, NEW k \in 0 .. Len(Ahead(h)), file' = file,
         fdt' = [fdt EXCEPT ![FILE[h].fd].pos = Pos(h) + k], FILE'[h].fd = FILE[h].fd
  PROVE  /\ KernelTyped' /\ \A x \in Fds : fdt'[x].mode = fdt[x].mode
         /\ Ahead(h) = SubSeq(Ahead(h), 1, k) \o Ahead(h)' /\ Ahead(h)' \in Seq(Char)
<1>1. /\ FILE[h].fd \in Fds /\ Pos(h) \in Nat /\ Text(h) \in Seq(Char)
      /\ file' \in [Path -> Seq(Char)]
  BY StreamTyped DEF TInv, Tables, KernelTyped
<1>2. k \in Nat /\ Pos(h) + k \in Nat
  BY <1>1
<1>3. /\ KernelTyped' /\ fdt'[FILE[h].fd].pos = Pos(h) + k
      /\ \A x \in Fds : fdt'[x].mode = fdt[x].mode /\ fdt'[x].path = fdt[x].path
  BY <1>1, <1>2, MoveKernel DEF TInv, Tables
<1>4. Pos(h)' = Pos(h) + k /\ Text(h)' = Text(h)
  BY <1>1, <1>3 DEF Pos, Text
<1>5. Ahead(h)' = SubSeq(Text(h), Pos(h) + k + 1, Len(Text(h)))
  BY <1>4 DEF Ahead
<1>6. Ahead(h) = SubSeq(Ahead(h), 1, k) \o SubSeq(Text(h), Pos(h) + k + 1, Len(Text(h)))
  BY <1>1, Advance DEF Ahead
<1>7. Ahead(h)' \in Seq(Char)
  BY <1>1, <1>2, <1>5, Leftover
<1> QED
  BY <1>3, <1>5, <1>6, <1>7

(* A step that changes no descriptor's owner and one stream at most.       *)
LEMMA Calm ==
  ASSUME TInv, NEW h \in DOMAIN FILE, NEW v \in Stream, v.fd = FILE[h].fd,
         v.eof => v.pushback = NoChar, FILE' = [FILE EXCEPT ![h] = v],
         KernelTyped', \A x \in Fds : fdt'[x].mode = fdt[x].mode,
         UNCHANGED <<DIR, raw, lost>>, Idle' \/ frame'.stream \in DOMAIN FILE
  PROVE  TInv' /\ FILE'[h] = v /\ DOMAIN FILE' = DOMAIN FILE
<1>1. /\ FilesTyped' /\ DirsTyped' /\ DOMAIN FILE' = DOMAIN FILE /\ FILE'[h] = v
      /\ \A x \in DOMAIN FILE : x # h => FILE'[x] = FILE[x]
  BY ChangeStream DEF TInv, Tables
<1>2. \A x \in DOMAIN FILE : FILE'[x].fd = FILE[x].fd
  BY <1>1
<1>3. Owned'
  BY <1>1, <1>2, Keeps DEF TInv
<1> QED
  BY <1>1, <1>3 DEF TInv, Tables

(* The same with every stream as it was.                                   *)
LEMMA Quiet ==
  ASSUME TInv, KernelTyped', \A x \in Fds : fdt'[x].mode = fdt[x].mode,
         UNCHANGED <<FILE, DIR, raw, lost>>, Idle' \/ frame'.stream \in DOMAIN FILE
  PROVE  TInv'
<1>1. Owned'
  BY Keeps DEF TInv
<1> QED
  BY <1>1 DEF TInv, Tables, FilesTyped, DirsTyped

(* An unchanged kernel.                                                    *)
LEMMA Still ==
  ASSUME TInv, UNCHANGED <<file, fdt>>
  PROVE  KernelTyped' /\ \A x \in Fds : fdt'[x].mode = fdt[x].mode
BY DEF TInv, Tables, KernelTyped

(* A stream whose descriptor, file and position stay has the same ahead.    *)
LEMMA Unmoved ==
  ASSUME NEW h, UNCHANGED <<file, fdt>>, FILE'[h].fd = FILE[h].fd
  PROVE  Ahead(h)' = Ahead(h) /\ Pos(h)' = Pos(h)
<1>1. Text(h)' = Text(h) /\ Pos(h)' = Pos(h)
  BY DEF Text, Pos
<1> QED
  BY <1>1 DEF Ahead

(* fgetc gives the first of what the stream has, or reports the end.       *)
LEMMA FgetcGives ==
  ASSUME TInv, NEW h \in DOMAIN FILE, NEW c \in Char \cup {EOF}, fgetc(h, c),
         UNCHANGED <<file, DIR, raw, lost>>, Idle' \/ frame'.stream \in DOMAIN FILE
  PROVE  TInv' /\ DOMAIN FILE' = DOMAIN FILE /\ (c # EOF => Rest(h) = <<c>> \o Rest(h)')
         /\ (c = EOF => Rest(h) = << >> \o Rest(h)')
<1>0. /\ FILE[h] \in Stream /\ FILE[h].fd \in Fds /\ Pos(h) \in Nat /\ Ahead(h) \in Seq(Char)
      /\ Rest(h) \in Seq(Char)
      /\ NoChar \in Char \cup {NoChar} /\ FILE[h].eof \in BOOLEAN
      /\ (FILE[h].eof => FILE[h].pushback = NoChar) /\ NoChar \notin Char /\ EOF \notin Char
  BY StreamTyped, StreamConstants DEF TInv, Tables, FilesTyped, Stream
<1>1. CASE /\ Pushed(h) /\ c = FILE[h].pushback
           /\ FILE' = [FILE EXCEPT ![h].pushback = NoChar] /\ fdt' = fdt
  <2> DEFINE v == [FILE[h] EXCEPT !.pushback = NoChar]
  <2>1. v \in Stream /\ v.fd = FILE[h].fd /\ v.pushback = NoChar
    BY <1>0 DEF Stream
  <2>2. FILE' = [FILE EXCEPT ![h] = v]
    BY <1>1
  <2> HIDE DEF v
  <2>3. TInv' /\ FILE'[h] = v /\ DOMAIN FILE' = DOMAIN FILE
    BY <1>1, <2>1, <2>2, Still, Calm
  <2>4. ~ Pushed(h)' /\ Ahead(h)' = Ahead(h)
    <3>1. FILE'[h].fd = FILE[h].fd /\ ~ Pushed(h)'
      BY <2>1, <2>3 DEF Pushed
    <3> QED
      BY <1>1, <3>1, Unmoved
  <2>5. Rest(h) = <<c>> \o Ahead(h) /\ Rest(h)' = << >> \o Ahead(h)
    BY <1>1, <2>4 DEF Rest
  <2>6. c # EOF
    BY <1>0, <1>1 DEF Pushed, Stream
  <2> QED
    BY <1>0, <2>3, <2>5, <2>6, ConcatEmptySeq
<1>2. CASE /\ ~ Pushed(h) /\ Ahead(h) # << >> /\ c = Head(Ahead(h))
           /\ fdt' = [fdt EXCEPT ![FILE[h].fd].pos = @ + 1] /\ FILE' = FILE
  <2>1. 1 \in 0 .. Len(Ahead(h))
    BY <1>0, <1>2, FirstByte
  <2>2. fdt' = [fdt EXCEPT ![FILE[h].fd].pos = Pos(h) + 1]
    BY <1>2 DEF Pos
  <2>3. /\ KernelTyped' /\ \A x \in Fds : fdt'[x].mode = fdt[x].mode
        /\ Ahead(h) = SubSeq(Ahead(h), 1, 1) \o Ahead(h)' /\ Ahead(h)' \in Seq(Char)
    BY <1>2, <2>1, <2>2, Takes
  <2>4. TInv'
    BY <1>2, <2>3, Quiet
  <2>5. SubSeq(Ahead(h), 1, 1) = <<c>> /\ c # EOF
    BY <1>0, <1>2, FirstByte
  <2>6. ~ Pushed(h)'
    BY <1>2 DEF Pushed
  <2>7. Rest(h) = << >> \o Ahead(h) /\ Rest(h)' = << >> \o Ahead(h)'
    BY <1>2, <2>6 DEF Rest
  <2>8. Rest(h) = Ahead(h) /\ Rest(h)' = Ahead(h)'
    BY <1>0, <2>3, <2>7, ConcatEmptySeq
  <2> QED
    BY <1>2, <2>3, <2>4, <2>5, <2>8
<1>3. CASE /\ ~ Pushed(h) /\ c = EOF
           /\ FILE' = [FILE EXCEPT ![h].eof = TRUE] /\ fdt' = fdt
  <2> DEFINE v == [FILE[h] EXCEPT !.eof = TRUE]
  <2>1. v \in Stream /\ v.fd = FILE[h].fd /\ v.pushback = NoChar
    BY <1>0, <1>3 DEF Stream, Pushed
  <2>2. FILE' = [FILE EXCEPT ![h] = v]
    BY <1>3
  <2> HIDE DEF v
  <2>3. TInv' /\ FILE'[h] = v /\ DOMAIN FILE' = DOMAIN FILE
    BY <1>3, <2>1, <2>2, Still, Calm
  <2>4. ~ Pushed(h)' /\ Ahead(h)' = Ahead(h)
    <3>1. FILE'[h].fd = FILE[h].fd /\ ~ Pushed(h)'
      BY <2>1, <2>3 DEF Pushed
    <3> QED
      BY <1>3, <3>1, Unmoved
  <2>5. Rest(h) = << >> \o Ahead(h) /\ Rest(h)' = << >> \o Ahead(h)
    BY <1>3, <2>4 DEF Rest
  <2> QED
    BY <1>0, <1>3, <2>3, <2>5, ConcatEmptySeq
<1> QED
  BY <1>1, <1>2, <1>3 DEF fgetc

-----------------------------------------------------------------------------
(* Every stream goes on where it was: the body of InOrder. *)
Ordered == \A h \in DOMAIN FILE \cap DOMAIN FILE' : Continues(h)

(* A step that gives its caller nothing.                                   *)
LEMMA Silent ==
  ASSUME TInv', got' = Nothing
  PROVE  Ordered
<1>1. got'.op = "none"
  BY DEF Nothing
<1>2. \A h \in DOMAIN FILE' : FILE'[h].eof => FILE'[h].pushback = NoChar
  BY DEF TInv, Tables, FilesTyped
<1> QED
  BY <1>1, <1>2 DEF Ordered, Continues

(* A step that gives the caller of h bytes of h.                           *)
LEMMA Reads ==
  ASSUME TInv', NEW h, NEW bytes, Gives("read", h, bytes), Rest(h) = bytes \o Rest(h)'
  PROVE  Ordered
<1>1. got'.op = "read" /\ got'.stream = h /\ got'.bytes = bytes
  BY DEF Gives
<1>2. \A g \in DOMAIN FILE' : FILE'[g].eof => FILE'[g].pushback = NoChar
  BY DEF TInv, Tables, FilesTyped
<1> SUFFICES ASSUME NEW g \in DOMAIN FILE \cap DOMAIN FILE' PROVE Continues(g)
  BY DEF Ordered
<1>3. CASE g = h
  BY <1>1, <1>2, <1>3 DEF Continues
<1>4. CASE g # h
  BY <1>1, <1>2, <1>4 DEF Continues
<1> QED
  BY <1>3, <1>4

(* A step that moves h.                                                    *)
LEMMA Seeks ==
  ASSUME TInv', NEW h, got'.op = "seek", got'.stream = h, ftell(h)' = got'.to
  PROVE  Ordered
<1>2. \A g \in DOMAIN FILE' : FILE'[g].eof => FILE'[g].pushback = NoChar
  BY DEF TInv, Tables, FilesTyped
<1> SUFFICES ASSUME NEW g \in DOMAIN FILE \cap DOMAIN FILE' PROVE Continues(g)
  BY DEF Ordered
<1>3. CASE g = h
  BY <1>2, <1>3 DEF Continues
<1>4. CASE g # h
  BY <1>2, <1>4 DEF Continues
<1> QED
  BY <1>3, <1>4

(* A getline in progress keeps its stream.                                 *)
LEMMA FrameKept ==
  ASSUME TInv, frame' = frame
  PROVE  Idle' \/ frame'.stream \in DOMAIN FILE
BY DEF TInv, Tables, FilesTyped, Idle

(* Calls that open or close a descriptor.                                  *)
LEMMA OpeningSteps ==
  ASSUME TInv,
         \/ \E path \in Path : open(path) \/ opendir(path)
         \/ \E path \in Path, mode \in {"r", "w", "a"} : fopen(path, mode)
         \/ \E path \in Path, mode \in {"r", "w"}, h \in DOMAIN FILE : freopen(path, mode, h)
         \/ \E fd \in raw : fdopen(fd)
         \/ \E d \in DOMAIN DIR : readdir(d) \/ closedir(d)
         \/ \E h \in DOMAIN FILE : fclose(h)
  PROVE  TInv' /\ Ordered
<1>1. ASSUME NEW path \in Path, open(path) \/ opendir(path) PROVE TInv' /\ Ordered
  <2>1. TInv'
    BY <1>1, OpenOwned, OpendirOwned
  <2> QED
    BY <1>1, <2>1, Silent DEF open, opendir
<1>2. ASSUME NEW path \in Path, NEW mode, fopen(path, mode) PROVE TInv' /\ Ordered
  <2>1. TInv'
    BY <1>2, FopenOwned
  <2> QED
    BY <1>2, <2>1, Silent DEF fopen
<1>3. ASSUME NEW path \in Path, NEW mode, NEW h \in DOMAIN FILE, freopen(path, mode, h)
      PROVE  TInv' /\ Ordered
  <2>1. TInv'
    BY <1>3, FreopenOwned
  <2> QED
    BY <1>3, <2>1, Silent DEF freopen
<1>4. ASSUME NEW fd \in raw, fdopen(fd) PROVE TInv' /\ Ordered
  <2>1. TInv'
    BY <1>4, FdopenOwned
  <2> QED
    BY <1>4, <2>1, Silent DEF fdopen
<1>5. ASSUME NEW d \in DOMAIN DIR, readdir(d) \/ closedir(d) PROVE TInv' /\ Ordered
  <2>1. TInv'
    BY <1>5, ReaddirOwned, ClosedirOwned
  <2> QED
    BY <1>5, <2>1, Silent DEF readdir, closedir
<1>6. ASSUME NEW h \in DOMAIN FILE, fclose(h) PROVE TInv' /\ Ordered
  <2>1. TInv'
    BY <1>6, FcloseOwned
  <2> QED
    BY <1>6, <2>1, Silent DEF fclose
<1> QED
  BY <1>1, <1>2, <1>3, <1>4, <1>5, <1>6

(* fgetc, as the program calls it.                                         *)
LEMMA GetcStep ==
  ASSUME TInv, NEW h \in DOMAIN FILE, getc(h)
  PROVE  TInv' /\ Ordered
<1>1. PICK c \in Char \cup {EOF} :
        fgetc(h, c) /\ Gives("read", h, IF c = EOF THEN << >> ELSE <<c>>)
  BY DEF getc
<1>2. UNCHANGED <<file, DIR, raw, lost, frame>>
  BY DEF getc, lines
<1>3. Idle' \/ frame'.stream \in DOMAIN FILE
  BY <1>2, FrameKept
<1>4. /\ TInv' /\ (c # EOF => Rest(h) = <<c>> \o Rest(h)')
      /\ (c = EOF => Rest(h) = << >> \o Rest(h)')
  BY <1>1, <1>2, <1>3, FgetcGives
<1>5. Rest(h) = (IF c = EOF THEN << >> ELSE <<c>>) \o Rest(h)'
  BY <1>4
<1> QED
  BY <1>1, <1>4, <1>5, Reads

(* ungetc, clearerr, and a rewind whose seek failed: one FILE changes.     *)
LEMMA FlagSteps ==
  ASSUME TInv, NEW h \in DOMAIN FILE, NEW v \in Stream, v.fd = FILE[h].fd,
         v.eof => v.pushback = NoChar, FILE' = [FILE EXCEPT ![h] = v], got' = Nothing,
         UNCHANGED <<file, fdt, DIR, raw, lost, lines>>
  PROVE  TInv' /\ Ordered
<1>1. frame' = frame
  BY DEF lines
<1>2. TInv'
  BY <1>1, FrameKept, Still, Calm
<1> QED
  BY <1>2, Silent

(* ungetc fills the slot and clears the end.                               *)
LEMMA UngetcStep ==
  ASSUME TInv, NEW h \in DOMAIN FILE, NEW c \in Char, ungetc(c, h)
  PROVE  TInv' /\ Ordered
<1> DEFINE v == [FILE[h] EXCEPT !.pushback = c, !.eof = FALSE]
<1>1. FILE[h] \in Stream
  BY StreamTyped
<1>2. v \in Stream /\ v.fd = FILE[h].fd /\ v.eof = FALSE
  BY <1>1 DEF Stream
<1>3. FILE' = [FILE EXCEPT ![h] = v] /\ got' = Nothing
      /\ UNCHANGED <<file, fdt, DIR, raw, lost, lines>>
  BY DEF ungetc
<1> HIDE DEF v
<1> QED
  BY <1>2, <1>3, FlagSteps

(* clearerr clears the flags.                                              *)
LEMMA ClearerrStep ==
  ASSUME TInv, NEW h \in DOMAIN FILE, got' = Nothing,
         FILE' = [FILE EXCEPT ![h].eof = FALSE, ![h].err = FALSE],
         UNCHANGED <<file, fdt, DIR, raw, lost, lines>>
  PROVE  TInv' /\ Ordered
<1> DEFINE v == [FILE[h] EXCEPT !.eof = FALSE, !.err = FALSE]
<1>1. FILE[h] \in Stream
  BY StreamTyped
<1>2. v \in Stream /\ v.fd = FILE[h].fd /\ v.eof = FALSE
  BY <1>1 DEF Stream
<1>3. FILE' = [FILE EXCEPT ![h] = v]
  OBVIOUS
<1> HIDE DEF v
<1> QED
  BY <1>2, <1>3, FlagSteps

(* The seeks: the stream is where it was sent, with nothing pushed back.   *)
LEMMA SeekStep ==
  ASSUME TInv, NEW h \in DOMAIN FILE, NEW to \in Nat, NEW v \in Stream, v.fd = FILE[h].fd,
         v.pushback = NoChar, FILE' = [FILE EXCEPT ![h] = v],
         fdt' = [fdt EXCEPT ![FILE[h].fd].pos = to],
         got' = [op |-> "seek", stream |-> h, bytes |-> << >>, to |-> to],
         UNCHANGED <<file, DIR, raw, lost, lines>>
  PROVE  TInv' /\ Ordered
<1>1. FILE[h].fd \in Fds /\ file' \in [Path -> Seq(Char)] /\ frame' = frame
  BY StreamTyped DEF TInv, Tables, KernelTyped, lines
<1>2. /\ KernelTyped' /\ fdt'[FILE[h].fd].pos = to /\ \A x \in Fds : fdt'[x].mode = fdt[x].mode
  BY <1>1, MoveKernel DEF TInv, Tables
<1>3. TInv' /\ FILE'[h] = v
  BY <1>1, <1>2, FrameKept, Calm
<1>4. ~ Pushed(h)' /\ Pos(h)' = to
  BY <1>2, <1>3 DEF Pushed, Pos
<1>5. ftell(h)' = to
  BY <1>4 DEF ftell
<1>6. got'.op = "seek" /\ got'.stream = h /\ got'.to = to
  OBVIOUS
<1> QED
  BY <1>3, <1>5, <1>6, Seeks

(* fseeko goes where its caller asked, counted from where ftell says.      *)
LEMMA FseekoStep ==
  ASSUME TInv, NEW h \in DOMAIN FILE, NEW offset \in Int, NEW whence \in {"SET", "CUR", "END"},
         fseeko(h, offset, whence)
  PROVE  TInv' /\ Ordered
<1> DEFINE pos == Base(h, whence) + adjusted(h, offset, whence)
           v == [FILE[h] EXCEPT !.pushback = NoChar, !.eof = FALSE]
<1>1. /\ FILE[h] \in Stream /\ Pos(h) \in Nat /\ Len(file[fdt[FILE[h].fd].path]) \in Nat
  <2>1. FILE[h] \in Stream /\ Pos(h) \in Nat /\ fdt[FILE[h].fd].path \in Path
    BY StreamTyped
  <2>2. file[fdt[FILE[h].fd].path] \in Seq(Char)
    BY <2>1 DEF TInv, Tables, KernelTyped
  <2> QED
    BY <2>1, <2>2, LenProperties
<1>2. pos \in Nat
  <2>1. MaxLength \in Nat
    BY StreamsAssumption
  <2>2. pos \in 0 .. MaxLength
    BY DEF fseeko
  <2> QED
    BY <2>1, <2>2
<1>3. Asked(h, offset, whence) = pos
  BY <1>1 DEF Asked, Base, adjusted, ftell
<1>4. v \in Stream /\ v.fd = FILE[h].fd /\ v.pushback = NoChar
  BY <1>1 DEF Stream
<1>5. /\ FILE' = [FILE EXCEPT ![h] = v] /\ fdt' = [fdt EXCEPT ![FILE[h].fd].pos = pos]
      /\ got' = [op |-> "seek", stream |-> h, bytes |-> << >>, to |-> Asked(h, offset, whence)]
      /\ UNCHANGED <<file, DIR, raw, lost, lines>>
  BY DEF fseeko
<1> HIDE DEF v, pos
<1> QED
  BY <1>2, <1>3, <1>4, <1>5, SeekStep

(* rewind goes to the start, or only clears the flags.                     *)
LEMMA RewindStep ==
  ASSUME TInv, NEW h \in DOMAIN FILE, rewind(h)
  PROVE  TInv' /\ Ordered
<1>1. CASE /\ fdt' = [fdt EXCEPT ![FILE[h].fd].pos = 0]
           /\ FILE' = [FILE EXCEPT ![h].pushback = NoChar, ![h].eof = FALSE, ![h].err = FALSE]
           /\ got' = [Nothing EXCEPT !.op = "seek", !.stream = h]
  <2> DEFINE v == [FILE[h] EXCEPT !.pushback = NoChar, !.eof = FALSE, !.err = FALSE]
  <2>1. FILE[h] \in Stream
    BY StreamTyped
  <2>2. v \in Stream /\ v.fd = FILE[h].fd /\ v.pushback = NoChar
    BY <2>1 DEF Stream
  <2>3. /\ FILE' = [FILE EXCEPT ![h] = v] /\ fdt' = [fdt EXCEPT ![FILE[h].fd].pos = 0]
        /\ UNCHANGED <<file, DIR, raw, lost, lines>> /\ 0 \in Nat
    BY <1>1 DEF rewind
  <2>4. got' = [op |-> "seek", stream |-> h, bytes |-> << >>, to |-> 0]
    BY <1>1 DEF Nothing
  <2> HIDE DEF v
  <2> QED
    BY <2>2, <2>3, <2>4, SeekStep
<1>2. CASE /\ FILE' = [FILE EXCEPT ![h].eof = FALSE, ![h].err = FALSE]
           /\ fdt' = fdt /\ got' = Nothing
  BY <1>2, ClearerrStep DEF rewind
<1> QED
  BY <1>1, <1>2 DEF rewind

(* Texts put together in either order.                                     *)
LEMMA Associates ==
  \A a, b, c \in Seq(Char) : (a \o b) \o c = a \o (b \o c)
BY ConcatAssociative

(* fread gives the byte pushed back and then k of those ahead.             *)
LEMMA FreadStep ==
  ASSUME TInv, NEW h \in DOMAIN FILE, NEW total \in 1 .. 2, fread(total, h)
  PROVE  TInv' /\ Ordered
<1> DEFINE first == IF Pushed(h) THEN <<FILE[h].pushback>> ELSE << >>
<1>0. /\ FILE[h] \in Stream /\ Ahead(h) \in Seq(Char) /\ FILE[h].eof \in BOOLEAN
      /\ Rest(h) = first \o Ahead(h)
  BY StreamTyped DEF Stream, Rest
<1>1. first \in Seq(Char) /\ Len(first) \in 0 .. 1
  <2>1. CASE Pushed(h)
    <3>1. FILE[h].pushback \in Char
      BY <1>0, <2>1 DEF Pushed, Stream
    <3> QED
      BY <2>1, <3>1
  <2>2. CASE ~ Pushed(h)
    BY <2>2
  <2> QED
    BY <2>1, <2>2
<1>2. PICK k \in 0 .. Min({total - Len(first), Len(Ahead(h))}) :
        /\ fdt' = [fdt EXCEPT ![FILE[h].fd].pos = @ + k]
        /\ FILE' = [FILE EXCEPT ![h].pushback = NoChar, ![h].eof = @ \/ Len(first) + k < total]
        /\ Gives("read", h, first \o SubSeq(Ahead(h), 1, k))
  BY DEF fread
<1> DEFINE v == [FILE[h] EXCEPT !.pushback = NoChar, !.eof = @ \/ Len(first) + k < total]
<1>3. k \in 0 .. Len(Ahead(h))
  <2>1. total - Len(first) \in Nat /\ Len(Ahead(h)) \in Nat
    BY <1>0, <1>1, LenProperties
  <2>2. {total - Len(first), Len(Ahead(h))} \in SUBSET Nat
    BY <2>1
  <2>3. /\ Min({total - Len(first), Len(Ahead(h))}) \in Nat
        /\ Min({total - Len(first), Len(Ahead(h))}) <= Len(Ahead(h))
    BY <2>2, Least
  <2> QED
    BY <2>1, <2>3
<1>4. v \in Stream /\ v.fd = FILE[h].fd /\ v.pushback = NoChar
  <2>1. (FILE[h].eof \/ Len(first) + k < total) \in BOOLEAN
    OBVIOUS
  <2> HIDE DEF first
  <2> QED
    BY <1>0, <2>1 DEF Stream
<1>5. FILE' = [FILE EXCEPT ![h] = v] /\ UNCHANGED <<file, DIR, raw, lost, frame>>
  BY <1>2 DEF fread, lines
<1> HIDE DEF v, first
<1>6. FILE'[h] = v
  BY <1>5
<1>7. fdt' = [fdt EXCEPT ![FILE[h].fd].pos = Pos(h) + k]
  BY <1>2 DEF Pos
<1>8. /\ KernelTyped' /\ \A x \in Fds : fdt'[x].mode = fdt[x].mode
      /\ Ahead(h) = SubSeq(Ahead(h), 1, k) \o Ahead(h)' /\ Ahead(h)' \in Seq(Char)
  BY <1>3, <1>4, <1>5, <1>6, <1>7, Takes
<1>9. TInv'
  BY <1>4, <1>5, <1>8, FrameKept, Calm
<1>10. ~ Pushed(h)'
  BY <1>4, <1>6 DEF Pushed
<1>11. Rest(h)' = << >> \o Ahead(h)'
  BY <1>10 DEF Rest
<1>12. Rest(h)' = Ahead(h)'
  BY <1>8, <1>11, ConcatEmptySeq
<1>13. SubSeq(Ahead(h), 1, k) \in Seq(Char)
  <2>1. \A i \in 1 .. k : Ahead(h)[i] \in Char
    BY <1>0, <1>3, LenProperties, ElementOfSeq
  <2>2. 1 \in Int /\ k \in Int
    BY <1>3
  <2> QED
    BY <2>1, <2>2, SubSeqProperties
<1>14. Rest(h) = (first \o SubSeq(Ahead(h), 1, k)) \o Rest(h)'
  <2> DEFINE taken == SubSeq(Ahead(h), 1, k)
             left == Ahead(h)'
  <2>1. taken \in Seq(Char) /\ left \in Seq(Char) /\ Ahead(h) = taken \o left
    BY <1>8, <1>13
  <2> HIDE DEF taken, left
  <2>2. (first \o taken) \o left = first \o (taken \o left)
    <3>1. first \in Seq(Char) /\ taken \in Seq(Char) /\ left \in Seq(Char)
      BY <1>1, <2>1
    <3> QED
      BY <3>1, Associates
  <2>3. Rest(h) = first \o Ahead(h)
    BY <1>0
  <2> QED
    BY <1>12, <2>1, <2>2, <2>3 DEF taken, left
<1> QED
  BY <1>2, <1>9, <1>14, Reads DEF first

(* fgets gives k of the bytes ahead and leaves the pushed back one.        *)
LEMMA FgetsStep ==
  ASSUME TInv, NEW h \in DOMAIN FILE, NEW size \in 1 .. 2, fgets(size, h)
  PROVE  TInv' /\ Ordered
<1>0. Ahead(h) \in Seq(Char) /\ Len(Ahead(h)) \in Nat
  BY StreamTyped, LenProperties
<1>1. PICK k \in 0 .. Min({size - 1, LineLength(Ahead(h))}) :
        /\ fdt' = [fdt EXCEPT ![FILE[h].fd].pos = @ + k]
        /\ Gives("fgets", h, SubSeq(Ahead(h), 1, k))
  BY DEF fgets
<1>2. UNCHANGED <<file, FILE, DIR, raw, lost, frame>>
  BY DEF fgets, lines
<1>3. k \in 0 .. Len(Ahead(h))
  <2> DEFINE text == Ahead(h)
             ends == {i \in 1 .. Len(text) : text[i] = NewLine} \cup {Len(text)}
  <2>1. ends \in SUBSET Nat /\ Len(text) \in ends
    BY <1>0
  <2> HIDE DEF ends
  <2>2. Min(ends) \in Nat /\ Min(ends) <= Len(text)
    BY <2>1, Least
  <2>3. LineLength(text) = Min(ends)
    BY DEF LineLength, ends
  <2>4. {size - 1, LineLength(text)} \in SUBSET Nat
    BY <2>2, <2>3
  <2>5. Min({size - 1, LineLength(text)}) \in Nat /\ Min({size - 1, LineLength(text)}) <= LineLength(text)
    BY <2>4, Least
  <2> QED
    BY <1>0, <2>2, <2>3, <2>5
<1>4. fdt' = [fdt EXCEPT ![FILE[h].fd].pos = Pos(h) + k]
  BY <1>1 DEF Pos
<1>5. /\ KernelTyped' /\ \A x \in Fds : fdt'[x].mode = fdt[x].mode
      /\ Ahead(h) = SubSeq(Ahead(h), 1, k) \o Ahead(h)'
  BY <1>2, <1>3, <1>4, Takes
<1>6. TInv'
  BY <1>2, <1>5, FrameKept, Quiet
<1>7. got'.op = "fgets" /\ got'.stream = h /\ got'.bytes = SubSeq(Ahead(h), 1, k)
  BY <1>1 DEF Gives
<1>8. \A g \in DOMAIN FILE' : FILE'[g].eof => FILE'[g].pushback = NoChar
  BY <1>6 DEF TInv, Tables, FilesTyped
<1>9. ASSUME NEW g \in DOMAIN FILE \cap DOMAIN FILE' PROVE Continues(g)
  <2>1. CASE g = h
    BY <1>2, <1>5, <1>7, <1>8, <2>1 DEF Continues
  <2>2. CASE g # h
    BY <1>7, <1>8, <2>2 DEF Continues
  <2> QED
    BY <2>1, <2>2
<1> QED
  BY <1>6, <1>9 DEF Ordered

(* fwrite puts k bytes into the file at the position of the stream.        *)
LEMMA FwriteStep ==
  ASSUME TInv, NEW h \in DOMAIN FILE, NEW text \in Seq(Char), fwrite(text, h)
  PROVE  TInv' /\ Ordered
<1> DEFINE fd == FILE[h].fd
           path == fdt[fd].path
           old == file[path]
<1>0. fd \in Fds /\ Pos(h) \in Nat /\ path \in Path /\ old \in Seq(Char)
  BY StreamTyped DEF TInv, Tables, KernelTyped
<1>1. Len(old) \in Nat /\ Len(text) \in Nat /\ Pos(h) <= Len(old)
  BY <1>0, LenProperties DEF fwrite
<1>2. PICK k \in 1 .. Len(text) :
        /\ file' = [file EXCEPT ![path] =
             SubSeq(old, 1, Pos(h)) \o SubSeq(text, 1, k) \o SubSeq(old, Pos(h) + k + 1, Len(old))]
        /\ fdt' = [fdt EXCEPT ![fd].pos = @ + k]
  BY DEF fwrite
<1>3. UNCHANGED <<FILE, DIR, raw, lost, frame>> /\ got' = Nothing
  BY DEF fwrite, lines
<1> HIDE DEF old, path
<1>4. k \in Nat /\ Pos(h) + k \in Nat /\ k <= Len(text)
  BY <1>0, <1>1
<1>5. SubSeq(old, 1, Pos(h)) \in Seq(Char)
  <2>1. \A i \in 1 .. Pos(h) : old[i] \in Char
    BY <1>0, <1>1, ElementOfSeq
  <2>2. 1 \in Int /\ Pos(h) \in Int
    BY <1>0
  <2> QED
    BY <2>1, <2>2, SubSeqProperties
<1>6. SubSeq(text, 1, k) \in Seq(Char)
  <2>1. \A i \in 1 .. k : text[i] \in Char
    BY <1>1, <1>4, ElementOfSeq
  <2>2. 1 \in Int /\ k \in Int
    BY <1>4
  <2> QED
    BY <2>1, <2>2, SubSeqProperties
<1>7. SubSeq(old, Pos(h) + k + 1, Len(old)) \in Seq(Char)
  BY <1>0, <1>4, Leftover
<1>8. SubSeq(old, 1, Pos(h)) \o SubSeq(text, 1, k) \o SubSeq(old, Pos(h) + k + 1, Len(old))
        \in Seq(Char)
  BY <1>5, <1>6, <1>7, ConcatProperties
<1>9. file' \in [Path -> Seq(Char)]
  BY <1>0, <1>2, <1>8 DEF TInv, Tables, KernelTyped
<1>10. fdt' = [fdt EXCEPT ![fd].pos = Pos(h) + k]
  BY <1>2 DEF Pos
<1>11. KernelTyped' /\ \A x \in Fds : fdt'[x].mode = fdt[x].mode
  BY <1>0, <1>4, <1>9, <1>10, MoveKernel DEF TInv, Tables
<1>12. TInv'
  BY <1>3, <1>11, FrameKept, Quiet
<1> QED
  BY <1>3, <1>12, Silent

(* The steps of getline, and the caller's free of the line.                *)
LEMMA LineSteps ==
  ASSUME Inv, TInv, GetlineStep \/ FreeLine \/ \E h \in DOMAIN FILE : getline(h)
  PROVE  TInv' /\ Ordered
<1>0. ~ Idle => frame.stream \in DOMAIN FILE
  BY DEF TInv, Tables, FilesTyped
<1>1. ASSUME GetlineChar PROVE TInv' /\ Ordered
  <2>1. PICK c \in Char, room \in Room :
          /\ fgetc(frame.stream, c) /\ Gives("read", frame.stream, <<c>>)
          /\ \/ frame' = NoFrame
             \/ frame' = [frame EXCEPT !.buf = room.buf, !.cap = room.cap, !.len = @ + 1]
    BY <1>1 DEF GetlineChar
  <2>2. ~ Idle /\ UNCHANGED <<file, DIR, raw, lost>> /\ c # EOF
    BY <1>1, StreamConstants DEF GetlineChar
  <2>3. Idle' \/ frame'.stream \in DOMAIN FILE
    BY <1>0, <2>1, <2>2 DEF Inv, LineTyped, Idle
  <2> DEFINE h == frame.stream
  <2>4. h \in DOMAIN FILE
    BY <1>0, <2>2
  <2>5. \A g \in DOMAIN FILE : g = h => TInv' /\ Rest(g) = <<c>> \o Rest(g)'
    BY <2>1, <2>2, <2>3, FgetcGives
  <2>6. ASSUME NEW g \in DOMAIN FILE, g = h PROVE TInv' /\ Ordered
    <3>1. TInv' /\ Rest(g) = <<c>> \o Rest(g)' /\ Gives("read", g, <<c>>)
      BY <2>1, <2>5, <2>6
    <3> QED
      BY <3>1, Reads
  <2> QED
    BY <2>4, <2>6
<1>2. ASSUME GetlineNoMemory PROVE TInv' /\ Ordered
  <2>1. PICK c \in Char : fgetc(frame.stream, c) /\ Gives("read", frame.stream, <<c>>)
    BY <1>2 DEF GetlineNoMemory
  <2>2. ~ Idle /\ UNCHANGED <<file, DIR, raw, lost>> /\ c # EOF /\ Idle'
    BY <1>2, StreamConstants DEF GetlineNoMemory, Idle
  <2> DEFINE h == frame.stream
  <2>3. h \in DOMAIN FILE
    BY <1>0, <2>2
  <2>4. ASSUME NEW g \in DOMAIN FILE, g = h PROVE TInv' /\ Ordered
    <3>1. TInv' /\ Rest(g) = <<c>> \o Rest(g)' /\ Gives("read", g, <<c>>)
      BY <2>1, <2>2, <2>4, FgetcGives
    <3> QED
      BY <3>1, Reads
  <2> QED
    BY <2>3, <2>4
<1>3. ASSUME GetlineEnd PROVE TInv' /\ Ordered
  <2>1. /\ fgetc(frame.stream, EOF) /\ ~ Idle /\ UNCHANGED <<file, DIR, raw, lost>>
        /\ Idle' /\ got' = Nothing
    BY <1>3 DEF GetlineEnd, Idle
  <2>2. ASSUME NEW g \in DOMAIN FILE, g = frame.stream PROVE TInv'
    BY <2>1, <2>2, FgetcGives
  <2>3. TInv'
    BY <1>0, <2>1, <2>2
  <2> QED
    BY <2>1, <2>3, Silent
<1>4. ASSUME FreeLine PROVE TInv' /\ Ordered
  <2>1. UNCHANGED <<file, fdt, FILE, DIR, raw, lost>> /\ frame' = frame /\ got' = Nothing
    BY <1>4 DEF FreeLine, streams
  <2>2. TInv'
    BY <2>1, FrameKept, Still, Quiet
  <2> QED
    BY <2>1, <2>2, Silent
<1>5. ASSUME NEW h \in DOMAIN FILE, getline(h) PROVE TInv' /\ Ordered
  <2>1. UNCHANGED <<file, fdt, FILE, DIR, raw, lost>> /\ frame'.stream = h /\ got' = Nothing
    BY <1>5 DEF getline, streams
  <2>2. TInv'
    BY <2>1, Still, Quiet
  <2> QED
    BY <2>1, <2>2, Silent
<1> QED
  BY <1>1, <1>2, <1>3, <1>4, <1>5 DEF GetlineStep

(* Every step keeps the tables and the order.                              *)
LEMMA StreamSteps ==
  ASSUME Inv, TInv, Next
  PROVE  TInv' /\ Ordered
<1>1. ASSUME NEW h \in DOMAIN FILE, clearerr(h) PROVE TInv' /\ Ordered
  BY <1>1, ClearerrStep DEF clearerr
<1>2. ASSUME NEW h \in DOMAIN FILE, NEW c \in Pushable, ungetc(c, h) PROVE TInv' /\ Ordered
  BY <1>2, UngetcStep, StreamConstants
<1>3. ASSUME NEW h \in DOMAIN FILE, fwrite(<<NewLine, NewLine>>, h) PROVE TInv' /\ Ordered
  <2>1. <<NewLine, NewLine>> \in Seq(Char)
    BY StreamConstants
  <2> QED
    BY <1>3, <2>1, FwriteStep
<1>4. ASSUME NEW h \in DOMAIN FILE, NEW n \in 1 .. 2, fread(n, h) \/ fgets(n, h)
      PROVE  TInv' /\ Ordered
  BY <1>4, FreadStep, FgetsStep
<1>5. ASSUME NEW h \in DOMAIN FILE, NEW offset \in -1 .. 1,
             NEW whence \in {"SET", "CUR", "END"}, fseeko(h, offset, whence)
      PROVE  TInv' /\ Ordered
  <2>1. offset \in Int
    OBVIOUS
  <2> QED
    BY <1>5, <2>1, FseekoStep
<1>6. ASSUME NEW h \in DOMAIN FILE, getc(h) \/ rewind(h) PROVE TInv' /\ Ordered
  BY <1>6, GetcStep, RewindStep
<1> QED
  BY <1>1, <1>2, <1>3, <1>4, <1>5, <1>6, OpeningSteps, LineSteps DEF Next

(* At the start stdin alone is open.                                       *)
LEMMA InitTInv == Init => TInv
<1> SUFFICES ASSUME Init PROVE TInv
  OBVIOUS
<1> DEFINE in == [path |-> "in", pos |-> 0, mode |-> "r"]
<1>1. /\ file = Contents /\ FILE = [h \in {stdin} |-> NewFile(0)] /\ DIR = << >>
      /\ fdt = [fd \in Fds |-> IF fd = 0 THEN in ELSE Closed]
      /\ raw = {} /\ lost = {} /\ frame = NoFrame
  BY DEF Init
<1>2. DOMAIN DIR = {} /\ DIR = [d \in DOMAIN DIR |-> DIR[d]]
  BY <1>1
<1>3. DOMAIN FILE = {stdin} /\ FILE[stdin] = NewFile(0) /\ FILE = [h \in DOMAIN FILE |-> FILE[h]]
  BY <1>1
<1>4. NewFile(0) \in Stream /\ NewFile(0).fd = 0 /\ NewFile(0).pushback = NoChar
  BY StreamConstants DEF NewFile, Stream
<1>5. /\ in \in [path : Path \cup {NULL}, pos : Nat, mode : {"closed", "r", "w"}]
      /\ Closed \in [path : Path \cup {NULL}, pos : Nat, mode : {"closed", "r", "w"}]
      /\ in.mode # "closed" /\ in.path \in Path /\ Closed.mode = "closed"
  BY StreamsAssumption DEF Closed
<1> HIDE DEF in
<1>6. file \in [Path -> Seq(Char)]
  BY <1>1, StreamsAssumption
<1>7. KernelTyped
  BY <1>1, <1>5, <1>6 DEF KernelTyped
<1>8. FilesTyped /\ DirsTyped
  BY <1>1, <1>2, <1>3, <1>4 DEF FilesTyped, DirsTyped, Idle
<1>9. \A fd \in Fds : OwnersOf[fd] = IF fd = 0 THEN {stdin} ELSE {}
  BY <1>1, <1>2, <1>3, <1>4 DEF OwnersOf, Owners
<1>10. Owned
  BY <1>1, <1>5, <1>9 DEF Owned
<1> QED
  BY <1>1, <1>7, <1>8, <1>10 DEF TInv, Tables

(* The tables are typed and every descriptor has its owner, always.        *)
THEOREM TablesInvariance == Spec => [](Inv /\ TInv)
<1>1. TInv /\ UNCHANGED vars => TInv'
  <2> SUFFICES ASSUME TInv, UNCHANGED vars PROVE TInv'
    OBVIOUS
  <2>1. UNCHANGED <<file, fdt, FILE, DIR, raw, lost>> /\ frame' = frame
    BY DEF vars
  <2> QED
    BY <2>1, FrameKept, Still, Quiet
<1>2. Inv /\ TInv /\ [Next]_vars => TInv'
  BY <1>1, StreamSteps
<1> QED
  BY <1>2, InitTInv, Invariance, PTL DEF Spec

(* Every open descriptor has exactly one owner and a free one has none,    *)
(* through every sequence of opens, closes and handovers in which any      *)
(* allocation may fail.                                                    *)
THEOREM DescriptorsHaveOwners == Spec => []DescriptorsOwned
<1>1. TInv => DescriptorsOwned
  <2> SUFFICES ASSUME TInv, NEW fd \in Fds
               PROVE  Cardinality(Owners(fd)) = (IF fd \in FreeFds THEN 0 ELSE 1)
    BY DEF DescriptorsOwned
  <2>1. OwnersOf[fd] = Owners(fd)
    BY DEF OwnersOf
  <2>2. CASE fd \in FreeFds
    <3>1. Owners(fd) = {}
      BY <2>1, <2>2 DEF TInv, Owned, FreeFds
    <3> QED
      BY <2>2, <3>1, FS_EmptySet
  <2>3. CASE fd \notin FreeFds
    <3>1. PICK o : Owners(fd) = {o}
      BY <2>1, <2>3 DEF TInv, Owned, FreeFds
    <3> QED
      BY <2>3, <3>1, FS_Singleton
  <2> QED
    BY <2>2, <2>3
<1> QED
  BY <1>1, TablesInvariance, PTL

(* No byte is lost, repeated or reordered, for any files and any sequence  *)
(* of calls on any number of streams.                                      *)
THEOREM StreamsInOrder == Spec => InOrder
<1>1. Inv /\ TInv /\ [Next]_vars => [\A h \in DOMAIN FILE \cap DOMAIN FILE' : Continues(h)]_vars
  BY StreamSteps DEF Ordered
<1> QED
  BY <1>1, TablesInvariance, PTL DEF Spec, InOrder
=============================================================================
