# Verification of the LAMP user-space C library

This directory holds TLA+ models of the C library, start-up code and system
call stubs that LAMP programs link against (`lib/`, `crt/`), the TLC
configurations that check them on small instances, and TLAPS proofs for the
parts where the argument does not depend on the instance.

## The system

The repository is the user space of a small virtual machine: a freestanding
libc, the entry code `crt/start.c`, compiler run-time helpers for a processor
without 64-bit division or floating point, and scripts that build busybox and
coremark on top of it. Everything runs in one thread per process. The only
concurrency is a signal handler that the kernel starts on top of whatever the
process was doing.

| Part | State it keeps | Operations | Interacts with |
| --- | --- | --- | --- |
| heap (`libc_stdlib.c` 9-86) | `g_heap`, block list, `g_heap_end` | malloc, free, calloc, realloc | errno; every part that allocates |
| system-call stub (`libsys.c`, `libc_internal.h`) | ABI block on the stack, `libsys_errno`, `errno` | `libsys_call6`, `ret_errno` | kernel (trap 0x80), all wrappers |
| signals (`libc_signal.c`, restorer in `libsys.c`) | kernel: actions, mask, pending | sigaction, signal, sigprocmask, kill, raise | kernel starts handlers, restorer ends them |
| exit (`libc_stdlib.c` 268-283, `crt/start.c`) | `g_exit_handlers`, count | atexit, exit, _exit, abort, main returning | application callbacks, kernel |
| regular expressions (`libc_regex.c`) | compiled program; captures and generations during a match | regcomp, regexec, regerror, regfree | heap |
| streams (`libc_stdio.c`), directory streams (`libc_misc.c`) | `fd`, `eof`, `err`, `pushback` of each FILE | fopen ... getline, opendir, readdir, closedir | heap, system calls |
| formatting and scanning (`libc_stdio.c`, `libc_stdlib.c`, `libc_misc.c`) | none | printf and scanf families, strtol, strtod, inet_aton | streams, heap (vasprintf) |
| environment (`libc_stdlib.c` 159-242), execvp (`libc_syscalls.c`) | `environ` | getenv, setenv, putenv, unsetenv, clearenv, execvp | heap, start-up code |
| options (`libc_misc.c`) | `optind`, `g_getopt_pos` | getopt, getopt_long | application |
| time (`libc_time.c`) | static `struct tm` | localtime_r, mktime, strptime | system clock |
| integer helpers (`compiler_rt_divmod.c`) | none | 64-bit division, shifts, multiplication | called by compiled code |
| soft float (`compiler_rt_softfloat.c`) | none | binary64 arithmetic and conversions | called by compiled code |
| strings, sorting, wrappers, stubs | strtok cursor, static buffers | as in C | system calls |

What is hard here, and hard to test: sequences of heap calls that leave the
block list in a rare shape; wrap-around of `size_t`; a handler that makes
system calls between two instructions of another call; exit called from inside
an exit handler; a backtracking matcher whose termination and captures depend
on a memo table; rounding at the edges of the integer and float ranges; a
character pushed back while the kernel's file position is already past it; an
allocation that fails after a descriptor was opened or a line buffer moved; an
environment array that did not come from malloc and is reallocated all the same.
`PROJECT.json` lists each of these hazards at its line.

## Modules

| Module | Models | Kind |
| --- | --- | --- |
| `AllocSpec` | what an allocator promises its callers | abstract specification |
| `Heap`, `MCHeap` | malloc, free, calloc, realloc over the bytes of `g_heap` | detailed specification, implements `AllocSpec` |
| `HeapProofs` | theorems about `Heap`, its refinement of `AllocSpec` included | proofs |
| `Signals` | `libsys_call6`, errno, sigaction, raise and handlers | specification |
| `SignalsProofs` | theorems about `Signals` | proofs |
| `ExitHandlers` | atexit, exit, nested exits, start-up code | specification |
| `ExitProofs` | theorems about `ExitHandlers` | proofs |
| `RegexVM` | regexec and `re_run` | specification |
| `RegexProofs` | theorems about `RegexVM` | proofs |
| `RegexCompile` | regcomp | recursive operators |
| `DivMod` | 64-bit division, multiplication and shifts | specification |
| `DivModProofs` | theorems about `DivMod` | proofs |
| `SoftFloat` | double-precision arithmetic, comparisons and conversions | operators, one action per helper |
| `SoftFloatProofs` | theorems about the comparisons, the arithmetic and the conversions of `SoftFloat` | proofs |
| `MCRegex` | patterns, texts and a reference semantics | model for TLC |
| `Streams`, `MCStreams` | FILE and DIR streams over descriptors and files, getline | specification |
| `Environment`, `MCEnvironment` | the environment and its storage, execvp | specification |
| `StreamsProofs`, `EnvironmentProofs` | theorems about `Streams` and `Environment` | proofs |
| `Numbers` | printf, scanf, strtol, strtod, inet_aton, inet_ntoa | operators |
| `Calendar` | localtime_r, mktime, strptime | operators over `Numbers` |
| `Arrays` | qsort, bsearch, memmove, strtok_r, strsep | operators |
| `Options` | one call of getopt | operators over `Numbers` |
| `MCFunctions` | the 64-bit helpers together with the inputs and the reference definitions of the operators above | model for TLC |

A definition named `D_suffix` placed before `D` is `D` with a plausible bug;
it is used only to see that a property notices the bug.

### Heap

`hdr` maps the address of a block header to its `size`, `next` and `free`
fields, `mem` holds the payload bytes, `head` and `end` are `g_heap_head` and
`g_heap_end`. A call is a sequence of steps: `MallocCall`, one `MallocSkip`
per block passed, then `MallocTake`, `MallocExtend` or `MallocFail`; `free`
walks the list with `FreeStep` and `FreeMerge`. `calloc` and `realloc` call
the same steps and go on at `CallocDone`, `ReallocMove` or `ReallocFail`.
Sizes are computed modulo `SizeMod` exactly where the code computes in
`size_t`. `live` is a ghost: what the application owns and how much it asked
for. The application may pass `free` NULL or a pointer outside the heap
(`Foreign`), which the code ignores; it never passes a stale pointer, which C
does not allow.

`AllocSpec` knows no addresses of headers, no free list and no order: it says
that a grant is disjoint from everything that is live, that bytes change only
when their owner writes them, and that realloc keeps the common prefix.

### Signals

`ctx` is the stack of the main program and the handlers nested on it; each has
a program counter through `Enter` (arguments in place), `Trap` (the kernel
answers), `LoadRet`, `StoreErrno` (`libsys_errno`), `Wrap` (`ret_errno`). A
handler may start whenever an interrupt returns to user code. The kernel is
not in this repository: it is modelled from what the library and
`tests/signal_delivery.c` rely on. A signal is blocked while its handler runs;
a signal that finds its action set to ignore is dropped, when it is sent or when
it would be delivered, and the kernel goes on to the next one; every call but getpid may fail
without effect, and sigreturn restores the mask and the interrupted code or
comes back, in which case the restorer exits with 127.

### ExitHandlers

`stack` holds the frames of main, of exits and of handlers; a handler is user
code and may do what main does: register handlers, call exit, _exit or abort.
Every registration has a number of its own, so that one function registered
twice counts twice. `MainReturns` is `start_c`: the code passes main's result
to `libsys_exit`, so handlers do not run on that path.

### Regular expressions

`RegexCompile` follows `regcomp` function by function over a record that holds
the cursor, the program, the group count and the first error. A pattern is a
sequence of tokens: an escaped character or a bracket expression is one token,
whose character or set is a constant. `MaxProgram` stands for the room left in
the heap, `MaxJumps` for the 128 entries of `jumps`.

`RegexVM` turns the recursion of `re_run` into a stack of what is left to do on
failure. The table of generations is partial: a word not yet accessed since
malloc holds any value of `Garbage`. `AllocTables` asks for both tables, as the
code does, and gets any subset of them; `NoSpace` frees what it got. The captures
are followed by the three words of a heap header, because `re_insert` moves the
slot number of a save as if it were a target: a save may lie in those words, where
it is taken back on failure like any other and, if the match keeps it, may spoil
the header that `free` reads (`FreeDamaged`). A save further out is the phase
"wild", where the model ends.

`MCRegex` gives the reference: the set of positions where a match of a pattern
that starts at `i` may end, defined on the syntax tree by sets, without
programs or backtracking.

### Streams

A FILE of this library has no buffer: it is a descriptor, the flags `eof` and
`err`, and one pushed-back character. `fdt` is the kernel's descriptor table
(external: lowest free number, a position per open file), `file` the bytes of
each file, `FILE` and `DIR` the streams that live in memory from malloc, `raw`
the descriptors the program opened itself. Each call is one action with every
way it may end: the open fails (no step), the allocation after it fails (the
descriptor is then in `lost`), a read fails or is short, a write takes fewer
bytes. A read that fails is to this code the same as the end of the file.
getline is one step per character, since each may need a realloc that extends
the buffer, moves it or fails; `blk` holds the live line buffers and `line` what
the caller's `*lineptr` and `*n` say. After a failed realloc `*lineptr` may be a
freed pointer; a getline with such a pointer is not modelled further. `got` is a
ghost: what the last call gave its caller.

### Environment

`array` holds the entries of the three places `environ` may point at, `words`
how long each really is, and `header` what realloc reads in front of it, which
is a block header only for memory from malloc. In front of `envp` on the stack
lie the last words of `argv`, so that realloc sees either argc (1, too small for
anything) or an address (larger than any request); what lies in front of the
static array of clearenv is up to the linker, and every size is tried. `setenv` is
the path through `InPlace` (realloc returns the same array) or `Moved` (it
copies as much as the header says; free ignores an array outside the heap).
`stray` records that a word behind an array was written. That word is somebody
else's: the write may hit the environment itself (`InPlace`), and its owner may
write it at any later time (`Overwritten`); either way `damaged` is set, as when
entries are not copied. The model stops there, and `ArraysFit` says when either can
happen. `twice` is the set of names that the kernel passed more than once.
`execvp` of a null pointer fails, of a path with a slash is one execve, and
otherwise looks PATH up once and tries one directory per step.

### Numbers, Calendar, Arrays, Options

These are operators, one per C function, compared in `MCFunctions` with
definitions that share no code with them: the positional value of a digit
string, the longest prefix that is a number, the day after a day, the sorted
rearrangement, the maximal runs without separators, the meaning of an argument
vector. A format is a sequence of directives; the modifiers `l`, `ll` and `z` are
left out, every number having `WordMod` values. `time_t` is a pair of day and
second, so that 32-bit times fit the integers of the checker.

### DivMod

Words have `W` bits, 64 in the code. `__udivmoddi4` is a step machine with its
two loops (`Widen`, then `SubtractStep`), `__muldi3` another; the signed helpers
divide absolute values and put the sign back in `Answer`. The shifts are
operators on two half words, as in the code. `__ashrdi3` by exactly half the
width shifts a half word by its whole width, which C leaves undefined:
`OverShift` holds the outcomes a machine may give it.

### SoftFloat

A double is its bit pattern, with `X` exponent and `F` fraction bits (11 and 52
in the code); a float has `XS` and `FS`, an int `IB` bits, a machine word `WB`.
Each helper is an operator that follows the C function with its early returns,
and an action that calls it on any arguments. Two words that hold one 128-bit
number are one number here. That is exact: no significand the code builds is
longer than 106 bits, so the branch of `df_norm_pack128` for a cut of 64 bits or
more, the only one that would see the two words apart, is never taken. The loops
that find the highest bit and that normalise a subnormal are given by what they
compute; multiplication and restoring division keep their loops, as recursive
functions. The payload of a NaN narrowed to a float is left out.

The properties share no code with the helpers: a pattern stands for an integer
number of smallest subnormals, and a result is right when the exact sum, product
or quotient lies between the middles to its two neighbours.

## Runs

| Run | Bounds | Shows |
| --- | --- | --- |
| `heap` | 64-byte heap, 12-byte headers, 8-bit `size_t`, requests 0, 4, 20, 240 and callocs 2x2, 16x16 | the list tiles the heap, live blocks are disjoint and as long as asked, free blocks are merged after each free, malloc takes the first that fits and fails only when none does; the heap implements `AllocSpec`; every call returns |
| `signals` | 2 signals, 2 error numbers, 3 calls in main, 1 in a handler, 2 sends | results, errno and delivery; handlers come back |
| `exit` | 3 table entries, 5 registrations tried, 3 exits | order and completeness of the calls; exit ends the process |
| `float` | doubles of 3 exponent and 3 fraction bits, floats of 2 and 1, 4-bit ints, 7-bit words; all operands | arithmetic correctly rounded, comparisons by value, conversions exact or nearest (ties to the even float below the normal floats, away from zero otherwise) |
| `float_narrow` | the formats of `float`, narrowing only | ties are not rounded to even: 1.25 becomes 1.5 |
| `float_saturate` | 3 exponent and 2 fraction bits, 3-bit ints, 6-bit words, conversion to int only | overflow does not saturate: 8 becomes -4 |
| `regex` | about 150 patterns of up to 2 quantified pieces and groups nested 2 deep, texts of up to 3 characters, 5 flag sets; 8 patterns whose saves move, behind the captures or to another group | agreement with the reference (not for the saves that move); marks stay in their table, tables are given back, a failed match undoes its saves; regexec returns, also on starred bodies that may be empty |
| `regex_star`, `regex_stale` | one call of `tests/regex.c` each | the call does not have the outcome the test asks for |
| `streams` | 2 descriptors, 1 FILE or DIR besides stdin, a file of one line, positions up to 2, a first line buffer of 1 byte, 2 buffer addresses | bytes come in order around a pushed-back one and seeks land where asked (`InOrder`); every descriptor has one owner, but for those a failed fopen lost (`DescriptorsOwned`); getline writes inside its buffer and leaves the caller a live one (`LineOwned`); it returns (`GetlineReturns`) |
| `environ` | 3 names, 2 values (one of them a PATH that names a directory twice), inherited arrays of 0, 2 and 3 entries, the last with PATH twice, at most 4 entries, every word in front of the static array | lookups agree with what was set unless entries were lost or overwritten, or a name inherited twice was unset (`LookupAgrees`); when they can be, and when memory is written behind an array (`ArraysFit`); the order and the end of the search along PATH (`SearchesPath`) |
| `functions` | 6-bit words, all operands, shift counts 0 to 7, both outcomes of a half word shifted by its width; all texts of up to 5 characters of a small alphabet, and of up to 4 with a letter digit for the bases 1, 35, 36 and 37, addresses with parts of 0, 10, 255, 256 and one that wraps, arrays of up to 5 elements, 14-bit words, every day of 1970, 1972, 2000, 2099, 2100 and 2105, vectors of up to 3 arguments | the 64-bit helpers return and are exact, but for `__ashrdi3` of a negative number by half the width; printing, truncation, scanning, dates, sorting and moving, tokens and options agree with their references |

Why the bounds are enough. Four minimal blocks fit in the 64-byte heap, so that
a free block can have free and used neighbours on both sides and merges
cascade; 240 is the largest request whose footprint does not wrap an 8-bit
`size_t`, and 16x16 is exactly `SizeMod`. Two signals give a handler interrupted by another; with one call per
handler each step of a call can be interrupted by a whole other call. Three
table entries and five registrations overflow the table and refill it from
inside a handler; three exits nest twice. A generation counter of 3 values
wraps within one text, as the 32-bit counter would within one of 2^32
characters. Six bits give half words of three, so that shift counts below, at and
above the half, and at and above the width, all occur with neighbours on both
sides. The 7-bit doubles have 7 subnormals and 6 binades; two operands can lie
further apart than a word is long and than `FAR`, so all three ways of aligning
a sum are taken, and their products and quotients reach from below half the
smallest subnormal to beyond the largest number. One more exponent bit would not
fit the integers of the checker. With two descriptors the table is full after one
open, so that freopen and opendir meet a full table; a first line buffer of one
byte grows once or twice within a two-byte line, in place or to the other
address, and may fail at each growth. Four entries let an inherited array grow
twice. The years are a leap year, a century that is one and one that is not,
both ends of a 32-bit `time_t` and the years around them.

Deadlock checking is off in `signals`, `exit`, `regex*`, `streams` and `environ`:
there the process ends, the call is over, stdin may be closed with no memory
left, or the model stops after damage or at the new image of an exec. In the
other runs it is on.

Fairness. `heap`, `functions`, `regex` and `streams` assume only that sequential code
goes on (weak fairness of the library's steps; in `streams` of getline's, in `functions` of the 64-bit helpers'). `signals` assumes that the
processor executes what is due, that handlers end and that the timer keeps
interrupting. `exit` assumes that handlers return and the loop in exit goes
on; calls to atexit and exit are bounded there, which is the assumption that
handlers do not register each other for ever.

## Where the code differs from its tests and comments

1. `a*` cannot match more than nothing, and in fact fails: `re_wrap_star`
   (line 497) takes the exit of the loop to be the length before the jump back
   is emitted, so the exit is that jump (`regex_star`). `{m,}` has the same
   flaw at line 606.
2. The table of generations is not initialised (line 933). When malloc hands
   out memory that an earlier regexec used as such a table, old numbers equal
   new ones and the match is lost (`regex_stale`).
3. `df_to_i` "saturates on overflow" by its comment; from 2^53 on a positive
   number becomes the smallest int (line 608; `float_saturate`). Below 2^53 it does
   saturate. A power of two from 2^64 up to 2^83 is shifted out of the word by the
   same test and becomes 0; that needs a word shorter than the int and the fraction
   together, is read off the code and is outside the bounds of the run.
4. `__truncdfsf2` cuts the significand "rounding RNE" by its comment (line 514),
   but the mask of its sticky bit (line 517) takes in the guard bit, so a double
   halfway between two normal floats goes away from zero (`float_narrow`). Below
   the normal floats a second shift puts this right. `ConversionsNearest` states
   exactly what the code does.

Seen while modelling, and stated by the properties as the code does it:

- `tests/regex.c` uses `+`, `?`, `|` and `{}` with flags 0 and expects them to be
  operators; the code makes them operators only with `REG_EXTENDED`.
- `__ashrdi3` of a negative number by exactly 32 relies on `fill << 32` being 0
  (`compiler_rt_divmod.c` 127); where the machine takes shift counts modulo 32
  the low word becomes all ones (`ProductsAndShiftsExact` admits this one case).
- `fopen` loses the descriptor when its malloc fails (`lost` in
  `DescriptorsOwned`); `getline` leaves `*lineptr` dangling, or loses its buffer,
  when a later realloc fails (`orphan` in `LineOwned`); `fgets` passes over a
  pushed-back character, which then comes after the line (`InOrder`).
- `setenv` reallocates an array that is not from malloc: it writes behind the
  inherited array, or loses its entries (`ArraysFit`). `clearenv` hands out its
  static array again with whatever setenv put into it. `unsetenv` removes only the
  first of two entries of a name (`LookupAgrees` excepts names inherited twice).
- `execvp` without a usable directory in PATH returns -1 with an old errno
  (`SearchesPath`).
- `time_t` is unsigned, so `mktime` of a date before 1970 is a time in the next
  century, and the branches of `localtime_r` for negative times are dead;
  `tm_yday` counts from 1 March (`DatesRoundTrip`).
- `strtol` without a number ends behind the spaces and the sign it skipped, not at
  the start of the text; `strtoul` takes no sign; `inet_aton` takes each part modulo
  the word, so that `4294967297.0.0.1` is an address (`NumbersScanned`).
- `strsep` never sets its cursor to null (`TokensInOrder`); `strtol` accepts a
  space after the sign and refuses `0x` without a digit after it; `qsort` leaves
  elements larger than 64 bytes unsorted; a getopt scan that was broken off
  inside an argument goes on there when restarted with `optind = 1`
  (`OptionsInOrder`).

The following have no run of their own, and the patterns that `regex` compares with
the reference avoid them (those whose saves move are run for `TablesSound` and
`RegexecReturns`): `re_insert` moves the slot number of
a save as if it were a jump target and moves targets equal to its index (a `?`
after a loop, a `?` or `|` around a capturing group); a match that keeps such a save
has written behind its captures; `re_copy_block` does the
same to saves inside a repeated group; the closing save of a group uses the
number of the latest group rather than its own; the last alternative's split
falls through to the end, so an alternation also matches the empty string;
`{0,n}` copies a block that has moved by one; `\{` never finds its closing
brace. `malloc` does not check that `align4` and the header fit in `size_t`: a
request within 16 bytes of the top of the range wraps to a small one and gets a
short block, so `RequestsAssumption` keeps such sizes out of `Heap`, and only the
product of calloc, which the code does check, is allowed to wrap. `__adddf3` of an infinity and a NaN of the same sign
returns the infinity (line 267 looks only at the exponent of the second term), so
`ArithmeticNearest` leaves that pair open. The heap never splits a block, so that a long-lived program can find it
full although most of it is free.

## Proofs

All proofs are for every value of the constants that satisfies the named
assumptions.

`HeapProofs` rests on the assumptions of `Heap`: header, heap size and `SizeMod`
are multiples of 4, `SizeMod` leaves room above the heap (`SizesAssumption`), no
request is so large that its footprint wraps (`RequestsAssumption`,
`CallocAssumption`), and ignored pointers lie outside the heap
(`ForeignAssumption`). The invariants are not
inductive by themselves. During a call the list is in an intermediate state:
while `free` walks, the part behind `prev` is coalesced and the part ahead is
not, except around the block just freed; while `malloc` walks, no block passed
so far fits. The inductive invariant says this for every program point: the
blocks tile the heap, `next` is the next tile, live allocations are distinct
used blocks, and the coalescing and searching claims hold up to the cursor.
`Invariance` proves it action by action; `TypeCorrect`, `ListTiles`,
`OwnershipHolds`, `FreeMergesAll` (no two free neighbours between calls, and a
single free block once everything was freed) and `ChoosesFirstFit`
(the block taken is the first that fits, and a failure means none does) read the
run's invariants off it. The last part of the module uses it to
prove `Implementation`: every step is a step of `AllocSpec` or stutters.

`ExitProofs` assumes only that the table size and bounds are natural numbers.
Its inductive invariant adds to the properties that the table is sorted by
registration number, that every registration is either waiting or has been
called, and what had been called before each call. `NeverCalledTwice`,
`CalledNewestFirst` and `AllCalled` follow.

`DivModProofs` assumes that `Pow2` holds the powers of two and that the word is
two half words long (`PowersAssumption`). The inductive invariant of the division
follows the loops: while the divisor is widened it is `d * 2^shift` and, once
shifted, not above the dividend; while it is narrowed, dividend = 2 * quotient *
divisor + rest with the rest below twice the divisor, which also shows that no
quotient bit is shifted out. `DivisionIsCorrect` then follows from the uniqueness
of quotient and remainder, together with the loop invariant itself.
`ProductsAndShiftsAreExact` adds that, while `__muldi3` runs, z * y is the sum so
far plus a * div up to a multiple of `2^W`. The shifts have no loop; a half word of
`2^k * 2^(H-k)` values is split at bit k, and the lemmas say what each piece
contributes: `JoinUp`, `HighUp`, `JoinDown`, `LowDown` for unsigned words,
`FilledSign` and `FloorDown` for the fill of `__ashrdi3`. That powers multiply
(`PowersMultiply`) is proved by the least counterexample, which `LeastNumber`
provides from the well-foundedness of the natural numbers.

`EnvironmentProofs` assumes that inherited arrays are sequences of entries, that
values are sequences of directories and that `/bin` is one
(`EnvironmentAssumption`); an inherited name may be there any number of times. Its
inductive invariant says that every name outside `twice` is at most once in the
array in use, so that the first entry found is the only one and unsetenv leaves
none; that each lookup gives the value last set; that a block of realloc is as long
as its header says; that no array is longer than it may be unless a word behind it
was written, the static one having no room for any entry; and what the words in
front of the arrays must be for such a write or a loss. `FindFirst` and its
companions say which entry a lookup finds, and three lemmas what replacing,
appending and removing an entry does to every lookup. `LookupsAgree` and
`ArraysHold` follow. `PathSearched` has an invariant of its own: the directories
tried so far are exactly the usable ones in front of the cursor, by their places
in PATH, so that a directory named twice is tried twice.

`StreamsProofs` assumes that the first capacity is positive, that addresses of
streams and buffers are neither NULL nor each other's owners, and that EOF and "no
character" are not bytes (`StreamsAssumption`). While getline works the caller's
`*lineptr` may be freed memory, and realloc may even hand the same address out
again; the invariant therefore follows the frame: its buffer is live, has room
for a terminator and is no shorter than what the caller believes of its own,
there is no other line unless one was orphaned, and as long as nothing was read
the frame's buffer is the caller's. `LinesOwned` follows. `DescriptorsHaveOwners`
is proved from the types of the tables and from the set of owners itself: each
call that opens, closes or hands over a descriptor changes the owners of that one
only. `StreamsInOrder` needs no further invariant but those: what is ahead of a
stream is a tail of its file, and a step that advances the position by what was
read splits that tail.

`SignalsProofs` assumes finitely many signals and positive error numbers
(`SignalsAssumption`); the depth of nesting is bounded by a proof, not by an
assumption. The inductive invariant says that every handler on the stack runs
with its own signal blocked and that everything nested on it has that signal in
its saved mask; so the signals on the stack are distinct, the stack is no deeper
than there are signals, and each call has an ABI block of its own, which keeps the
kernel's answer until it is loaded. `libsys_errno` is the call's own unless a
later call stored to it, which `disturbed` records; and a signal that a raise
sent successfully is pending and deliverable until its handler has been started.
`OwnAnswer`, `OwnErrno`, `RaiseIsSynchronous` and `NeverCrashes` follow.

`RegexProofs` is about `re_run` on any program, also one that `regcomp` would not
produce; only the targets must be numbers (`VMAssumption`). Its invariant says
that positions, captures and what the stack remembers lie in the text; that no
mark is newer than the generation of the attempt; and that unwinding the stack
would bring every slot back to what the attempt began with, since the oldest entry
for a slot holds that value, be it in the table or in the header behind it.
`MemorySafe`, `BacktracksCleanly`, `OffsetsInText` and `EveryStartUnmarked` follow,
without a condition on the program: saves that `re_insert` has moved behind the
table are covered, and what `MemorySafe` says of them is that a failed match has
undone every one. It does not say that a match that keeps one is harmless, because
it is not.

`SoftFloatProofs` has three assumptions. `FormatAssumption` orders the widths: a
float is smaller than a double, and a word holds a significand with its guard bits.
`RangeAssumption` says that a double fits in a word, that its exponents reach beyond
every shift, and that it has room for every float, the subnormal ones as normal
numbers, and for every int. `PowersAssumption` says what `2 ^ k` is for the
exponents that occur, since the provers do not know `^`. All hold for the widths of
the code (11, 52, 8, 23, 6, 64, 122, 32), and TLC evaluates them for those of the
runs. Every theorem is about all operands.

- `ComparisonsAreByValue`. Powers grow with the exponent, so the magnitude of a
  pattern grows with the pattern, across subnormals, binades and up to infinity
  (`AmountGrows`); what is no NaN lies in that range (`OrderedIsSmall`); so the key
  that `df_cmp3way` builds from the sign and the rest orders patterns by value
  (`KeyOrders`), and each helper returns what compiled code expects.
- `ArithmeticIsNearest`. `IsCut` says of a number and a sticky bit that the number
  is the exact result cut to some unit, and the bit whether anything was cut off. A
  further shift that collects the bits it drops keeps this true, and a guard bit that
  it leaves tells with the sticky bit on which side of the middle the result lies
  (`CutKeepsGuard`); so it holds of what `df_pack` and `df_norm_pack128` round. Patterns next to each other
  stand for numbers one unit apart (`AmountStep`), also where a carry leaves the
  subnormal range, enters the next binade or reaches infinity, so adding one to the
  pattern is the step to the neighbour and the result is nearest. What remains is
  that each operation hands over a cut of its exact result. The product is the sum of
  shifted rows (`ShiftAndAdd`); the quotient keeps the invariant of restoring
  division, and its remainder is the sticky bit. A sum has three cases: aligned in
  one word, aligned with a sticky bit, and too far apart to matter. Zeros,
  infinities and NaNs are the early returns.
- `ConversionsAreNearest`. Narrowing is the same argument in the format of floats,
  measured in the units of doubles (`SingleFromCut`, `TruncatesNearest`), with ties
  as the code decides them: to even below the normal floats, away from zero above.
  Widening is exact, and the nearest float to a float is that float
  (`NearestToItself`), which gives the round trip. An int is shifted to the place of
  its highest bit and shifted back (`FloatIsExact`), and the shift right of
  `df_to_i` is the truncation (`TruncatesToInt`).

The loops over bits are recursive functions. What they compute is proved without an
induction rule: if it failed, there would be a least number of steps at which it
fails (`LeastNumber`), and the step before it does not.

Only model-checked: all liveness properties (`CallsReturn`, `HandlersComeBack`,
`ExitTerminates`, `HelpersReturn`, `RegexecReturns`, `GetlineReturns`), since
fairness is out of the prover's reach; everything that goes through `RegexCompile`
(`GroupsMatch`, `AnswersRight`), whose compiler and reference are recursive
operators; and the properties of `Numbers`, `Calendar`, `Arrays` and `Options`,
which compare folds and recursive functions over texts and arrays with references
of another shape. The least-counterexample argument could be tried on the recursive
functions among them; it has not been carried out.

## Not modelled

- `lib/libc_compat.c` is an older one-file version of the same functions, which
  the split files replace.
- What the kernel does for a system call, beyond descriptors and files in
  `Streams` and signals in `Signals`. Wrappers that are one system call and
  `ret_errno` are `PlainCall` in `Signals`; waitpid, fcntl and stat, which also
  rewrite a result, have no model of their own.
- String functions that are one loop over bytes without state, rand, the fixed
  texts of strftime and ctime, the name and network stubs, setjmp and longjmp
  (assembly).
- A getline on a pointer that an earlier getline freed, which is undefined in C, and
  a getline on a live line whose `*n` is 0, for which `libc_stdio.c` 117 takes the
  capacity as 128.
- Signal handlers that call sigaction or sigprocmask (handlers make plain calls or
  raise a signal), and of sigaction the argument `oldact`, a null `act` and
  `sa_mask`.
- The characters of bracket expressions, escapes and printf formats: a bracket
  expression or an escape is a token with a given meaning, a format is a sequence of
  directives with their flags, width and precision.
- What follows once the environment was damaged or a save of `re_run` has spoilt a
  heap header.
- Headers, build scripts and the coremark port hold no state to model.

## Plan

1. Done: heap, with its promise and proofs; exit, signals, matcher, streams,
   environment, integer helpers and soft float, with proofs of their safety
   properties; formatting, scanning, time, sorting, tokens and options against
   reference definitions.
2. Open: the matcher and the heap composed, that is, what repeated matching leaves
   behind.
