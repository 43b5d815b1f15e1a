------------------------------- MODULE Streams -------------------------------
(***************************************************************************)
(* The streams of libc_stdio.c and the directory streams of libc_misc.c    *)
(* over a table of descriptors.  A FILE is not a buffer: it is a           *)
(* descriptor, an end-of-file and an error flag, and one slot for a        *)
(* character pushed back; every byte costs a system call, and the kernel's *)
(* file position is the only position there is.  Allocation and every      *)
(* system call may fail.  getline is a step machine, one step for each     *)
(* character, because each of its reallocations may move the line, extend  *)
(* it in place, or fail.                                                   *)
(*                                                                         *)
(* A definition named D_suffix in front of D is D with a plausible bug.    *)
(***************************************************************************)
EXTENDS Integers, Sequences, SequencesExt, FiniteSetsExt

CONSTANTS
  NFds,        \* descriptors of the process (32 in the kernel)
  Handles,     \* addresses that malloc can give a FILE or a DIR
  Contents,    \* what is in each file at the start: [path -> characters]
  NewLine,     \* the character that ends a line
  Pushable,    \* characters that the program pushes back
  InitialCap,  \* bytes of the first buffer of getline (128 in the code)
  Blocks,      \* addresses that malloc can give a line
  MaxLength    \* bound: bytes in a file, and the furthest position in it

Path == DOMAIN Contents
Char == (UNION {Range(Contents[path]) : path \in Path}) \cup {NewLine}
Fds  == 0 .. NFds - 1
stdin == "stdin"
NULL  == "NULL"
NoChar == "-1"
EOF == "EOF"

ASSUME StreamsAssumption ==
  /\ NFds \in Nat \ {0} /\ InitialCap \in Nat \ {0} /\ MaxLength \in Nat
  /\ {stdin, NULL, "program", "nobody"} \cap (Handles \cup Blocks) = {}
  /\ "in" \in Path /\ Contents \in [Path -> Seq(Char)]
  /\ {NoChar, EOF} \cap Char = {} /\ Pushable \subseteq Char

VARIABLES
  file,     \* the bytes of each file
  fdt,      \* the kernel's descriptors
  FILE,     \* the FILE of each stream that was not closed
  DIR,      \* the descriptor of each open directory stream
  raw,      \* descriptors that the program opened itself
  lost,     \* ghost: descriptors that belong to nobody since a failed fopen
  line,     \* the caller's *lineptr and *n
  blk,      \* the live line buffers and their bytes
  frame,    \* the locals of a getline in progress
  orphan,   \* ghost: a getline gave up while its buffer was not the caller's
  got       \* ghost: what the last step gave its caller

streams == <<file, fdt, FILE, DIR, raw, lost>>
lines   == <<line, blk, frame, orphan>>
vars    == <<file, fdt, FILE, DIR, raw, lost, line, blk, frame, orphan, got>>

Closed  == [path |-> NULL, pos |-> 0, mode |-> "closed"]
NoFrame == [stream |-> NULL, buf |-> NULL, cap |-> 0, len |-> 0]
Nothing == [op |-> "none", stream |-> NULL, bytes |-> <<>>, to |-> 0]
Idle    == frame = NoFrame

(* A table with one entry more, or one less. *)
With(f, x, v) == [y \in DOMAIN f \cup {x} |-> IF y = x THEN v ELSE f[y]]
Without(f, x) == [y \in DOMAIN f \ {x} |-> f[y]]

NewFile(fd) == [fd |-> fd, eof |-> FALSE, err |-> FALSE, pushback |-> NoChar]

-----------------------------------------------------------------------------
(* The kernel: open takes the lowest free descriptor, "w" empties the file *)
(* (O_WRONLY | O_CREAT | O_TRUNC) and every other mode reads (O_RDONLY).   *)
FreeFds == {fd \in Fds : fdt[fd].mode = "closed"}
flags(mode) == IF mode = "w" THEN "w" ELSE "r"
OpenAt(fd, path, mode) == fdt' = [fdt EXCEPT ![fd] = [path |-> path, pos |-> 0, mode |-> flags(mode)]]
Truncated(path, mode) == file' = IF mode = "w" THEN [file EXCEPT ![path] = <<>>] ELSE file

Pos(h)  == fdt[FILE[h].fd].pos
Text(h) == IF fdt[FILE[h].fd].mode = "r" THEN file[fdt[FILE[h].fd].path] ELSE <<>>
Ahead(h) == SubSeq(Text(h), Pos(h) + 1, Len(Text(h)))
Pushed(h) == FILE[h].pushback # NoChar

(* What the stream still has to give, and where ftell says it is. *)
Rest(h) == (IF Pushed(h) THEN <<FILE[h].pushback>> ELSE <<>>) \o Ahead(h)
ftell(h) == Pos(h) - (IF Pushed(h) THEN 1 ELSE 0)

(* stdin is static; the others live in memory from malloc.                 *)
FreeHandles == Handles \ (DOMAIN FILE \cup DOMAIN DIR)

-----------------------------------------------------------------------------
(* open by the program, fdopen on what it opened. *)
open(path) ==
  /\ Idle /\ FreeFds # {}
  /\ LET fd == Min(FreeFds) IN OpenAt(fd, path, "r") /\ raw' = raw \cup {fd}
  /\ got' = Nothing
  /\ UNCHANGED <<file, FILE, DIR, lost, lines>>

(* malloc fails: the descriptor stays the caller's. *)
fdopen(fd) ==
  /\ Idle
  /\ \E h \in FreeHandles :
       /\ FILE' = With(FILE, h, NewFile(fd))
       /\ raw' = raw \ {fd}
  /\ got' = Nothing
  /\ UNCHANGED <<file, fdt, DIR, lost, lines>>

fopen(path, mode) ==
  /\ Idle /\ FreeFds # {}
  /\ LET fd == Min(FreeFds) IN
       /\ OpenAt(fd, path, mode)
       /\ \/ \E h \in FreeHandles : FILE' = With(FILE, h, NewFile(fd)) /\ lost' = lost
          \/ FILE' = FILE /\ lost' = lost \cup {fd}          \* fdopen's malloc fails
  /\ Truncated(path, mode)
  /\ got' = Nothing
  /\ UNCHANGED <<DIR, raw, lines>>

(* The new descriptor is opened first; when that fails the stream keeps the *)
(* old one (no step).                                                       *)
freopen_NoClose(path, mode, h) ==
  /\ Idle /\ FreeFds # {}
  /\ OpenAt(Min(FreeFds), path, mode)
  /\ FILE' = [FILE EXCEPT ![h] = NewFile(Min(FreeFds))]
  /\ Truncated(path, mode)
  /\ got' = Nothing
  /\ UNCHANGED <<DIR, raw, lost, lines>>

freopen(path, mode, h) ==
  /\ Idle /\ FreeFds # {}
  /\ LET fd == Min(FreeFds) IN
       /\ fdt' = [fdt EXCEPT ![fd] = [path |-> path, pos |-> 0, mode |-> flags(mode)],
                             ![FILE[h].fd] = Closed]
       /\ FILE' = [FILE EXCEPT ![h] = NewFile(fd)]
  /\ Truncated(path, mode)
  /\ got' = Nothing
  /\ UNCHANGED <<DIR, raw, lost, lines>>

fclose(h) ==
  /\ Idle
  /\ fdt' = [fdt EXCEPT ![FILE[h].fd] = Closed]
  /\ FILE' = Without(FILE, h)
  /\ got' = Nothing
  /\ UNCHANGED <<file, DIR, raw, lost, lines>>

(* Directory streams: opendir does close what it cannot hand out. *)
opendir(path) ==
  /\ Idle /\ FreeFds # {}
  /\ LET fd == Min(FreeFds) IN
       \/ \E h \in FreeHandles : OpenAt(fd, path, "r") /\ DIR' = With(DIR, h, fd)
       \/ UNCHANGED <<fdt, DIR>>
  /\ got' = Nothing
  /\ UNCHANGED <<file, FILE, raw, lost, lines>>

readdir(d) ==
  /\ Idle /\ fdt[DIR[d]].pos < Len(file[fdt[DIR[d]].path])
  /\ fdt' = [fdt EXCEPT ![DIR[d]].pos = @ + 1]
  /\ got' = Nothing
  /\ UNCHANGED <<file, FILE, DIR, raw, lost, lines>>

closedir(d) ==
  /\ Idle
  /\ fdt' = [fdt EXCEPT ![DIR[d]] = Closed]
  /\ DIR' = Without(DIR, d)
  /\ got' = Nothing
  /\ UNCHANGED <<file, FILE, raw, lost, lines>>

-----------------------------------------------------------------------------
(* Characters.  Input of a stream opened with "w" fails like a failed read. *)
fgetc(h, c) ==
  \/ /\ Pushed(h) /\ c = FILE[h].pushback
     /\ FILE' = [FILE EXCEPT ![h].pushback = NoChar] /\ fdt' = fdt
  \/ /\ ~ Pushed(h) /\ Ahead(h) # <<>> /\ c = Head(Ahead(h))
     /\ fdt' = [fdt EXCEPT ![FILE[h].fd].pos = @ + 1] /\ FILE' = FILE
  \/ /\ ~ Pushed(h) /\ c = EOF                    \* the end, or read failed
     /\ FILE' = [FILE EXCEPT ![h].eof = TRUE] /\ fdt' = fdt

Gives(op, h, bytes) == got' = [op |-> op, stream |-> h, bytes |-> bytes, to |-> 0]

getc(h) ==
  /\ Idle
  /\ \E c \in Char \cup {EOF} :
       fgetc(h, c) /\ Gives("read", h, IF c = EOF THEN <<>> ELSE <<c>>)
  /\ UNCHANGED <<file, DIR, raw, lost, lines>>

ungetc_KeepsEof(c, h) ==
  /\ Idle /\ ~ Pushed(h)
  /\ FILE' = [FILE EXCEPT ![h].pushback = c]
  /\ got' = Nothing
  /\ UNCHANGED <<file, fdt, DIR, raw, lost, lines>>

ungetc(c, h) ==
  /\ Idle /\ ~ Pushed(h)
  /\ FILE' = [FILE EXCEPT ![h].pushback = c, ![h].eof = FALSE]
  /\ got' = Nothing
  /\ UNCHANGED <<file, fdt, DIR, raw, lost, lines>>

(* total bytes: the one pushed back, then read until the rest is there; a  *)
(* read that returns nothing, or fails, ends the loop and sets eof.        *)
fread_PushbackLast(total, h) ==
  /\ Idle
  /\ \E k \in 0 .. Min({total, Len(Ahead(h))}) :
       LET more == IF k < total /\ Pushed(h) THEN <<FILE[h].pushback>> ELSE <<>> IN
       /\ fdt' = [fdt EXCEPT ![FILE[h].fd].pos = @ + k]
       /\ FILE' = [FILE EXCEPT ![h].pushback = IF more = <<>> THEN @ ELSE NoChar,
                               ![h].eof = @ \/ k + Len(more) < total]
       /\ Gives("read", h, SubSeq(Ahead(h), 1, k) \o more)
  /\ UNCHANGED <<file, DIR, raw, lost, lines>>

fread(total, h) ==
  /\ Idle
  /\ LET first == IF Pushed(h) THEN <<FILE[h].pushback>> ELSE <<>>
     IN  \E k \in 0 .. Min({total - Len(first), Len(Ahead(h))}) :
           /\ fdt' = [fdt EXCEPT ![FILE[h].fd].pos = @ + k]
           /\ FILE' = [FILE EXCEPT ![h].pushback = NoChar,
                                   ![h].eof = @ \/ Len(first) + k < total]
           /\ Gives("read", h, first \o SubSeq(Ahead(h), 1, k))
  /\ UNCHANGED <<file, DIR, raw, lost, lines>>

(* fgets asks the descriptor for each byte: it neither takes the pushed    *)
(* back character nor sets eof.  A read that fails ends the line.          *)
LineLength(text) ==
  Min({k \in 1 .. Len(text) : text[k] = NewLine} \cup {Len(text)})

fgets(size, h) ==
  /\ Idle
  /\ \E k \in 0 .. Min({size - 1, LineLength(Ahead(h))}) :
       /\ fdt' = [fdt EXCEPT ![FILE[h].fd].pos = @ + k]
       /\ Gives("fgets", h, SubSeq(Ahead(h), 1, k))
  /\ UNCHANGED <<file, FILE, DIR, raw, lost, lines>>

(* fwrite, fputs, fputc: one write, which may take fewer bytes. *)
fwrite(text, h) ==
  LET fd == FILE[h].fd
      old == file[fdt[fd].path]
  IN  /\ Idle /\ fdt[fd].mode = "w" /\ Pos(h) <= Len(old)
      /\ Pos(h) + Len(text) <= MaxLength                       \* bound
      /\ \E k \in 1 .. Len(text) :
           /\ file' = [file EXCEPT ![fdt[fd].path] =
                SubSeq(old, 1, Pos(h)) \o SubSeq(text, 1, k)
                  \o SubSeq(old, Pos(h) + k + 1, Len(old))]
           /\ fdt' = [fdt EXCEPT ![fd].pos = @ + k]
      /\ got' = Nothing
      /\ UNCHANGED <<FILE, DIR, raw, lost, lines>>

clearerr(h) ==
  /\ Idle
  /\ FILE' = [FILE EXCEPT ![h].eof = FALSE, ![h].err = FALSE]
  /\ got' = Nothing
  /\ UNCHANGED <<file, fdt, DIR, raw, lost, lines>>

-----------------------------------------------------------------------------
(* Positions.  With a character pushed back the kernel is one ahead of the *)
(* stream, so a relative seek goes one back; the seek drops the character. *)
Base(h, whence) ==
  CASE whence = "SET" -> 0
    [] whence = "CUR" -> Pos(h)
    [] whence = "END" -> Len(file[fdt[FILE[h].fd].path])

adjusted_Ignored(h, offset, whence) == offset
adjusted(h, offset, whence) ==
  IF Pushed(h) /\ whence = "CUR" THEN offset - 1 ELSE offset

(* Where the caller asked to go. *)
Asked(h, offset, whence) ==
  offset + IF whence = "CUR" THEN ftell(h) ELSE Base(h, whence)

fseeko(h, offset, whence) ==
  LET pos == Base(h, whence) + adjusted(h, offset, whence)
  IN  /\ Idle /\ pos \in 0 .. MaxLength                        \* bound
      /\ fdt' = [fdt EXCEPT ![FILE[h].fd].pos = pos]
      /\ FILE' = [FILE EXCEPT ![h].pushback = NoChar, ![h].eof = FALSE]
      /\ got' = [op |-> "seek", stream |-> h, bytes |-> <<>>,
                 to |-> Asked(h, offset, whence)]
      /\ UNCHANGED <<file, DIR, raw, lost, lines>>

(* rewind clears the flags even when the seek fails. *)
rewind(h) ==
  /\ Idle
  /\ \/ /\ fdt' = [fdt EXCEPT ![FILE[h].fd].pos = 0]
        /\ FILE' = [FILE EXCEPT ![h].pushback = NoChar, ![h].eof = FALSE, ![h].err = FALSE]
        /\ got' = [Nothing EXCEPT !.op = "seek", !.stream = h]
     \/ /\ FILE' = [FILE EXCEPT ![h].eof = FALSE, ![h].err = FALSE]
        /\ fdt' = fdt /\ got' = Nothing
  /\ UNCHANGED <<file, DIR, raw, lost, lines>>

-----------------------------------------------------------------------------
(* getline: it starts with the caller's buffer, or with one of its own.    *)
(* (What it does with a pointer to freed memory is not modelled.)          *)
getline(h) ==
  /\ Idle /\ line.buf \in DOMAIN blk \cup {NULL}
  /\ LET cap == IF line.n # 0 THEN line.n ELSE InitialCap
     IN  \/ /\ line.buf # NULL /\ blk' = blk
            /\ frame' = [stream |-> h, buf |-> line.buf, cap |-> cap, len |-> 0]
         \/ /\ line.buf = NULL
            /\ \E b \in Blocks \ DOMAIN blk :
                 /\ blk' = With(blk, b, cap)
                 /\ frame' = [stream |-> h, buf |-> b, cap |-> cap, len |-> 0]
  /\ got' = Nothing
  /\ UNCHANGED <<streams, line, orphan>>

(* Room is kept for the terminator, so the buffer doubles when the next    *)
(* character would be its last; realloc extends it in place or moves it.   *)
full_NoRoom == frame.len >= frame.cap
full == frame.len + 1 >= frame.cap

Room ==
  IF ~ full THEN {[buf |-> frame.buf, cap |-> frame.cap, blk |-> blk]}
  ELSE LET cap == 2 * frame.cap
           others == Without(blk, frame.buf)
       IN  {[buf |-> b, cap |-> cap, blk |-> With(others, b, cap)] :
              b \in (Blocks \ DOMAIN blk) \cup {frame.buf}}

GetlineChar ==
  /\ ~ Idle
  /\ \E c \in Char, room \in Room :
       /\ fgetc(frame.stream, c)
       /\ blk' = room.blk
       /\ IF c = NewLine
          THEN frame' = NoFrame /\ line' = [buf |-> room.buf, n |-> room.cap]
          ELSE /\ frame' = [frame EXCEPT !.buf = room.buf, !.cap = room.cap, !.len = @ + 1]
               /\ line' = line
       /\ Gives("read", frame.stream, <<c>>)
  /\ UNCHANGED <<file, DIR, raw, lost, orphan>>

(* The end of the file: a buffer with nothing in it is not handed out. *)
GetlineEnd_NoFree ==
  /\ ~ Idle
  /\ fgetc(frame.stream, EOF)
  /\ line' = IF frame.len = 0 THEN line ELSE [buf |-> frame.buf, n |-> frame.cap]
  /\ frame' = NoFrame
  /\ got' = Nothing
  /\ UNCHANGED <<file, DIR, raw, lost, blk, orphan>>

GetlineEnd_GoesOn ==
  /\ ~ Idle
  /\ fgetc(frame.stream, EOF)
  /\ got' = Nothing
  /\ UNCHANGED <<file, DIR, raw, lost, lines>>

GetlineEnd ==
  /\ ~ Idle
  /\ fgetc(frame.stream, EOF)
  /\ IF frame.len = 0
     THEN /\ line' = line
          /\ blk' = IF line.buf = NULL THEN Without(blk, frame.buf) ELSE blk
     ELSE line' = [buf |-> frame.buf, n |-> frame.cap] /\ blk' = blk
  /\ frame' = NoFrame
  /\ got' = Nothing
  /\ UNCHANGED <<file, DIR, raw, lost, orphan>>

(* realloc fails: getline returns at once, with *lineptr as it was. *)
GetlineNoMemory ==
  /\ ~ Idle /\ full
  /\ \E c \in Char : fgetc(frame.stream, c) /\ Gives("read", frame.stream, <<c>>)
  /\ frame' = NoFrame
  /\ orphan' = (orphan \/ frame.buf # line.buf)
  /\ UNCHANGED <<file, DIR, raw, lost, line, blk>>

(* The caller frees the line. *)
FreeLine ==
  /\ Idle /\ line.buf \in DOMAIN blk
  /\ blk' = Without(blk, line.buf)
  /\ line' = [buf |-> NULL, n |-> 0]
  /\ got' = Nothing
  /\ UNCHANGED <<streams, frame, orphan>>

-----------------------------------------------------------------------------
Init ==
  /\ file = Contents
  /\ fdt = [fd \in Fds |-> IF fd = 0 THEN [path |-> "in", pos |-> 0, mode |-> "r"] ELSE Closed]
  /\ FILE = [h \in {stdin} |-> NewFile(0)] /\ DIR = <<>>
  /\ raw = {} /\ lost = {}
  /\ line = [buf |-> NULL, n |-> 0] /\ blk = <<>> /\ frame = NoFrame
  /\ orphan = FALSE
  /\ got = Nothing

GetlineStep == GetlineChar \/ GetlineEnd \/ GetlineNoMemory

Next ==
  \/ \E path \in Path : open(path) \/ opendir(path)
  \/ \E path \in Path, mode \in {"r", "w", "a"} : fopen(path, mode)
  \/ \E path \in Path, mode \in {"r", "w"}, h \in DOMAIN FILE : freopen(path, mode, h)
  \/ \E fd \in raw : fdopen(fd)
  \/ \E d \in DOMAIN DIR : readdir(d) \/ closedir(d)
  \/ \E h \in DOMAIN FILE :
       \/ fclose(h) \/ getc(h) \/ clearerr(h) \/ rewind(h) \/ getline(h)
       \/ \E c \in Pushable : ungetc(c, h)
       \/ fwrite(<<NewLine, NewLine>>, h)
       \/ \E n \in 1 .. 2 : fread(n, h) \/ fgets(n, h)
       \/ \E offset \in -1 .. 1, whence \in {"SET", "CUR", "END"} : fseeko(h, offset, whence)
  \/ GetlineStep \/ FreeLine

(* Code in progress goes on: a getline takes its steps. *)
Spec == Init /\ [][Next]_vars /\ WF_vars(GetlineStep)

-----------------------------------------------------------------------------
(* What a caller reads is what the stream has next: after every fgetc,     *)
(* fread and step of getline the bytes given and what is left make up what *)
(* was there before, whatever was pushed back, sought or short-read in     *)
(* between, a seek lands where the caller asked relative to ftell, and a   *)
(* stream at its end has nothing pushed back, so that a program that reads *)
(* while feof is false misses no character.                                *)
(* fgets is the exception the code makes: a character pushed back stays    *)
(* pending and the bytes after it are given first.                         *)
Continues(h) ==
  /\ got'.stream = h /\ got'.op = "read" => Rest(h) = got'.bytes \o Rest(h)'
  /\ got'.stream = h /\ got'.op = "fgets" =>
       FILE'[h].pushback = FILE[h].pushback /\ Ahead(h) = got'.bytes \o Ahead(h)'
  /\ got'.stream = h /\ got'.op = "seek" => ftell(h)' = got'.to
  /\ FILE'[h].eof => FILE'[h].pushback = NoChar

InOrder == [][\A h \in DOMAIN FILE \cap DOMAIN FILE' : Continues(h)]_vars

(* Who may close a descriptor: a FILE, a directory stream, the program     *)
(* itself, or nobody any more.                                             *)
Owners(fd) ==
  {h \in DOMAIN FILE : FILE[h].fd = fd} \cup {d \in DOMAIN DIR : DIR[d] = fd}
    \cup (IF fd \in raw THEN {"program"} ELSE {})
    \cup (IF fd \in lost THEN {"nobody"} ELSE {})

(* Every open descriptor has exactly one owner (a FILE, a directory        *)
(* stream, the program itself), except those that a fopen lost when its    *)
(* malloc failed; and no stream holds a descriptor that was closed.        *)
DescriptorsOwned ==
  \A fd \in Fds : Cardinality(Owners(fd)) = (IF fd \in FreeFds THEN 0 ELSE 1)

(* getline never writes past its buffer.  Between calls *lineptr is NULL   *)
(* or a live buffer of at least *n bytes and no other line is allocated,   *)
(* unless a getline gave up for lack of memory after it had left the       *)
(* caller's buffer: then the caller's pointer may be freed memory, or the  *)
(* line be lost.                                                           *)
LineOwned ==
  /\ ~ Idle => frame.len < frame.cap /\ frame.buf \in DOMAIN blk /\ frame.cap <= blk[frame.buf]
  /\ Idle /\ ~ orphan =>
       DOMAIN blk = {line.buf} \ {NULL} /\ \A b \in DOMAIN blk : line.n <= blk[b]

(* Every getline returns. *)
GetlineReturns == ~ Idle ~> Idle
=============================================================================
