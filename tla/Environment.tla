----------------------------- MODULE Environment -----------------------------
(***************************************************************************)
(* The environment of lib/libc_stdlib.c and the search along PATH that     *)
(* execvp (lib/libc_syscalls.c) makes with it.  environ points at an array *)
(* of entries that ends with a null pointer.  The array may be the one the *)
(* kernel left on the stack (crt/start.c), the static one of clearenv, or  *)
(* memory from realloc.  setenv hands all three to realloc, which reads a  *)
(* block header in front of whatever it is given: in front of the stack's  *)
(* array lie the last words of argv, in front of the static one whatever   *)
(* the linker put there.                                                   *)
(*                                                                         *)
(* A definition named D_suffix in front of D is D with a plausible bug.    *)
(***************************************************************************)
EXTENDS Integers, Sequences, SequencesExt, FiniteSetsExt, TLC

CONSTANTS
  Name,        \* names of variables, among them "PATH"
  Directory,   \* directories, among them the default of execvp
  Value,       \* values: sequences of directories, as PATH has them
  Inherited,   \* the arrays that the kernel may pass: sequences of entries
  MaxEntries   \* bound: entries of the array

Entry == [name : Name, value : Value]

ASSUME EnvironmentAssumption ==
  /\ "PATH" \in Name /\ MaxEntries \in Nat
  /\ "/bin" \in Directory /\ Value \subseteq Seq(Directory)
  /\ Inherited \subseteq Seq(Entry)

VARIABLES
  environ,   \* the array in use: "stack", "static" or "heap"
  array,     \* the entries of each, up to the null pointer
  words,     \* the words of each array, the null pointer's included
  header,    \* the words that realloc believes each array to have
  errno,
  search,    \* the locals of an execvp in progress, or of the last one
  view,      \* ghost: the variables that are set, as the program knows
  twice,     \* ghost: the names that the inherited array has more than once
  damaged,   \* ghost: entries were lost or overwritten
  stray      \* ghost: a word behind an array was written

env  == <<environ, array, words, header, view, twice, damaged, stray>>
vars == <<environ, array, words, header, errno, search, view, twice, damaged, stray>>

Huge == MaxEntries + 2       \* an address, read as a number of bytes

NotSearching == [pc |-> "none", file |-> "none", path |-> <<>>, todo |-> <<>>,
                 tried |-> <<>>, errno |-> "none"]

(* What follows once entries are lost or overwritten is not modelled. *)
Calm == search.pc = "none" /\ ~ damaged

-----------------------------------------------------------------------------
(* The index of the first entry of a name, 0 if there is none. *)
env_find(name) ==
  SelectInSeq(array[environ], LAMBDA entry : entry.name = name)

getenv(name) ==
  IF env_find(name) = 0 THEN <<"null">> ELSE array[environ][env_find(name)].value

(* realloc to room for one entry and the null pointer more.  It stays where *)
(* it is when the header is large enough: a word behind the array may then  *)
(* be written, and what it held may have been the environment's.  Otherwise *)
(* as much as the header says is copied, and the old array is freed, which  *)
(* free ignores outside the heap.  An array that nothing points at any more *)
(* is forgotten.                                                            *)
Needed_NoTerminator(count) == count + 1
Needed(count) == count + 2

InPlace(entry) ==
  LET count == Len(array[environ]) IN
  /\ header[environ] >= Needed(count)
  /\ array' = [array EXCEPT ![environ] = Append(@, entry)]
  /\ stray' = (stray \/ words[environ] < count + 2)
  /\ \/ UNCHANGED damaged
     \/ words[environ] < count + 2 /\ damaged' = TRUE
  /\ UNCHANGED <<environ, words, header>>

Moved(entry) ==
  LET count == Len(array[environ])
      kept  == IF environ = "heap" THEN words["heap"] ELSE header[environ]
  IN  /\ header[environ] < Needed(count)
      /\ environ' = "heap"
      /\ array' = [array EXCEPT !["stack"] = <<>>, !["heap"] = Append(array[environ], entry)]
      /\ words' = [words EXCEPT !["heap"] = Needed(count)]
      /\ header' = [header EXCEPT !["heap"] = Needed(count)]
      /\ damaged' = (kept < count)
      /\ stray' = (stray \/ Needed(count) < count + 2)

-----------------------------------------------------------------------------
(* A valid name and a value.  Any of the two allocations may fail, and the *)
(* environment is then as it was.                                          *)
setenv_AlwaysAppends(name, value, overwrite) ==
  LET entry == [name |-> name, value |-> value] IN
  /\ Calm
  /\ \/ /\ Len(array[environ]) < MaxEntries
        /\ InPlace(entry) \/ Moved(entry)
        /\ view' = [view EXCEPT ![name] = value] /\ UNCHANGED <<twice, errno>>
     \/ errno' = "ENOMEM" /\ UNCHANGED env
  /\ UNCHANGED search

setenv(name, value, overwrite) ==
  LET index == env_find(name)
      entry == [name |-> name, value |-> value]
  IN  /\ Calm
      /\ index = 0 \/ overwrite                \* else it returns 0 at once
      /\ \/ /\ index # 0
            /\ array' = [array EXCEPT ![environ][index] = entry]
            /\ view' = [view EXCEPT ![name] = value]
            /\ UNCHANGED <<environ, words, header, twice, damaged, stray, errno>>
         \/ /\ index = 0 /\ Len(array[environ]) < MaxEntries        \* bound
            /\ InPlace(entry) \/ Moved(entry)
            /\ view' = [view EXCEPT ![name] = value] /\ UNCHANGED <<twice, errno>>
         \/ errno' = "ENOMEM" /\ UNCHANGED env
      /\ UNCHANGED search

(* putenv splits its string at the first = and copies it. *)
putenv(name, value) == setenv(name, value, TRUE)

(* An empty name, one with =, a null value, a string without = or with a   *)
(* name of 128 bytes: all of the calls refuse.                             *)
BadName ==
  /\ Calm
  /\ errno' = "EINVAL"
  /\ UNCHANGED <<env, search>>

(* Only the first entry of the name goes. *)
unsetenv(name) ==
  /\ Calm /\ env_find(name) # 0
  /\ array' = [array EXCEPT ![environ] = RemoveAt(@, env_find(name))]
  /\ view' = [view EXCEPT ![name] = <<"null">>]
  /\ UNCHANGED <<environ, words, header, twice, damaged, stray, errno, search>>

(* The static array is empty, unless setenv has written to it. *)
clearenv ==
  /\ Calm
  /\ environ' = "static"
  /\ view' = [name \in Name |-> <<"null">>] /\ twice' = {}
  /\ array' = [array EXCEPT !["stack"] = <<>>, !["heap"] = <<>>]
  /\ words' = [words EXCEPT !["heap"] = 0] /\ header' = [header EXCEPT !["heap"] = 0]
  /\ damaged' = (array["static"] # <<>>)
  /\ UNCHANGED <<stray, errno, search>>

(* A word behind an array belongs to something else: its owner may write   *)
(* it at any time, over the entry or the null pointer that setenv put there. *)
Overwritten ==
  /\ Calm /\ stray
  /\ damaged' = TRUE
  /\ UNCHANGED <<environ, array, words, header, errno, search, view, twice, stray>>

-----------------------------------------------------------------------------
(* execvp of a null pointer, of a file with a slash or of a plain one.     *)
(* Only the last is searched for: the directories of PATH in turn, without *)
(* an empty one and one too long for the 256 bytes of full_path.           *)
Usable(dir) == dir \notin {"", "long"}

execvp(file) ==
  LET path == IF getenv("PATH") = <<"null">> THEN <<"/bin">> ELSE getenv("PATH")
      Searching(pc, dirs) == [pc |-> pc, file |-> file, path |-> dirs, todo |-> dirs,
                              tried |-> <<>>, errno |-> errno]
  IN  /\ Calm
      /\ \/ file = "null" /\ search' = Searching("failed", <<>>) /\ errno' = "EFAULT"
         \/ file = "slash" /\ search' = Searching("image", <<>>) /\ errno' = errno
         \/ /\ file = "slash" /\ search' = Searching("failed", <<>>)
            /\ errno' \in {"ENOENT", "EACCES"}
         \/ file = "plain" /\ search' = Searching("loop", path) /\ errno' = errno
      /\ UNCHANGED env

ExecSkip ==
  /\ search.pc = "loop" /\ search.todo # <<>> /\ ~ Usable(Head(search.todo))
  /\ search' = [search EXCEPT !.todo = Tail(@)]
  /\ UNCHANGED <<env, errno>>

(* execve does not return, or fails; only ENOENT goes on. *)
ExecTry_AnyError ==
  /\ search.pc = "loop" /\ search.todo # <<>> /\ Usable(Head(search.todo))
  /\ \/ /\ search' = [search EXCEPT !.pc = "image", !.tried = Append(@, Head(search.todo))]
        /\ errno' = errno
     \/ \E e \in {"ENOENT", "EACCES"} :
          /\ errno' = e
          /\ search' = [search EXCEPT !.todo = Tail(@), !.tried = Append(@, Head(search.todo))]
  /\ UNCHANGED env

ExecTry ==
  /\ search.pc = "loop" /\ search.todo # <<>> /\ Usable(Head(search.todo))
  /\ LET dir == Head(search.todo)
         next == [search EXCEPT !.todo = Tail(@), !.tried = Append(@, dir)]
     IN  \/ search' = [next EXCEPT !.pc = "image"] /\ errno' = errno
         \/ search' = next /\ errno' = "ENOENT"
         \/ search' = [next EXCEPT !.pc = "failed"] /\ errno' = "EACCES"
  /\ UNCHANGED env

ExecReturn ==
  /\ search.pc = "loop" /\ search.todo = <<>>
  /\ search' = [search EXCEPT !.pc = "failed"]
  /\ UNCHANGED <<env, errno>>

(* The program goes on after a failed execvp; a new image starts afresh. *)
AfterExec ==
  /\ search.pc = "failed"
  /\ search' = NotSearching
  /\ UNCHANGED <<env, errno>>

-----------------------------------------------------------------------------
(* With one argument the word three in front of envp is argc, 1 byte and   *)
(* no whole word; with more it is an address, and realloc takes it for a   *)
(* size larger than any request.  In front of the static array lies        *)
(* whatever the linker put there.  The kernel may pass a name twice.       *)
Init ==
  \E inherited \in Inherited, onStack \in {0, Huge}, onStatic \in 0 .. Huge :
    /\ environ = "stack"
    /\ array = [stack |-> inherited, static |-> <<>>, heap |-> <<>>]
    /\ words = [stack |-> Len(inherited) + 1, static |-> 1, heap |-> 0]
    /\ header = [stack |-> onStack, static |-> onStatic, heap |-> 0]
    /\ errno = "none" /\ search = NotSearching
    /\ view = [name \in Name |-> getenv(name)]
    /\ twice = {name \in Name : \E i, j \in 1 .. Len(inherited) :
                  i # j /\ inherited[i].name = name /\ inherited[j].name = name}
    /\ damaged = FALSE /\ stray = FALSE

ExecStep == ExecSkip \/ ExecTry \/ ExecReturn

Next ==
  \/ \E name \in Name, value \in Value :
       putenv(name, value) \/ \E overwrite \in BOOLEAN : setenv(name, value, overwrite)
  \/ \E name \in Name : unsetenv(name)
  \/ \E file \in {"null", "slash", "plain"} : execvp(file)
  \/ BadName \/ clearenv \/ Overwritten \/ ExecStep \/ AfterExec

Spec == Init /\ [][Next]_vars

-----------------------------------------------------------------------------
(* Every name has the value that was set last, or none after unsetenv or   *)
(* clearenv, wherever the array lies, however often it moved and whichever *)
(* allocations failed, as long as realloc copied all of it, no word behind *)
(* an array was anyone else's and clearenv's array was empty.  The one     *)
(* exception: a name that the kernel passed more than once may still have  *)
(* a value after unsetenv, which removes only its first entry.             *)
LookupAgrees ==
  ~ damaged => \A name \in Name :
    \/ getenv(name) = view[name]
    \/ name \in twice /\ view[name] = <<"null">>

(* An array from malloc is never written behind its end.  setenv writes    *)
(* behind the inherited or the static array only when the word in front of *)
(* it promises more than it has, and entries are lost only after such a    *)
(* write, or when that word promises less than the inherited array has.    *)
ArraysFit ==
  /\ environ = "heap" => Len(array["heap"]) + 1 <= words["heap"]
  /\ stray => \E place \in {"stack", "static"} : header[place] > words[place]
  /\ damaged => stray \/ header["stack"] < words["stack"] - 1

(* The directories tried are the usable ones among the first k of the      *)
(* path, each as often as it is there and in that order: at has their      *)
(* places in the path.                                                     *)
TriedUpTo(k, tried, path) ==
  \E at \in [1 .. Len(tried) -> 1 .. k] :
    /\ \A i, j \in 1 .. Len(tried) : i < j => at[i] < at[j]
    /\ \A i \in 1 .. Len(tried) : tried[i] = path[at[i]] /\ Usable(path[at[i]])
    /\ \A j \in 1 .. k : Usable(path[j]) => \E i \in 1 .. Len(tried) : at[i] = j

(* execvp tries the usable directories of PATH in order and stops at the   *)
(* first that exists.  When it returns, the last try failed for another    *)
(* reason than ENOENT or every directory was tried, and errno is the last  *)
(* try's; without any try it is whatever it was before the call.  A file   *)
(* with a slash or a null pointer is never looked for in a directory, and  *)
(* fails with an error of its own, not with one from before the call.      *)
SearchesPath ==
  LET all == Len(search.path) IN
  /\ \E k \in 0 .. all : TriedUpTo(k, search.tried, search.path)
  /\ search.pc = "loop" /\ search.tried # <<>> => errno = "ENOENT"
  /\ search.pc = "failed" /\ search.file = "plain" =>
       /\ errno = "ENOENT" \/ search.tried = <<>> => TriedUpTo(all, search.tried, search.path)
       /\ search.tried = <<>> => errno = search.errno
  /\ search.file # "plain" => search.tried = <<>> /\ search.pc # "loop"
  /\ search.file = "null" => search.pc = "failed" /\ errno = "EFAULT"
  /\ search.file = "slash" /\ search.pc = "failed" => errno \in {"ENOENT", "EACCES"}
=============================================================================
