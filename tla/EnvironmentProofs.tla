-------------------------- MODULE EnvironmentProofs --------------------------
(***************************************************************************)
(* Theorems about Environment, for every set of names and values, every    *)
(* inherited array and every bound: lookups agree with what was set, and   *)
(* what setenv and clearenv may do to the arrays.                          *)
(***************************************************************************)
EXTENDS Environment, SequenceTheorems, WellFoundedInduction, TLAPS

(* env_find and getenv, as functions of an array. *)

Find(s, name) == SelectInSeq(s, LAMBDA entry : entry.name = name)

Lookup(s, name) == IF Find(s, name) = 0 THEN <<"null">> ELSE s[Find(s, name)].value

(* Only the names in T may have several entries. *)
Distinct(s, T) ==
  \A i, j \in 1 .. Len(s) : s[i].name = s[j].name /\ s[i].name \notin T => i = j

(* The places of a name, among which env_find takes the first. *)
At(s, name) == {i \in 1 .. Len(s) : s[i].name = name}

(* A nonempty set of numbers has a least element, and Min finds it.        *)
LEMMA LeastIndex ==
  ASSUME NEW S \in SUBSET Nat, S # {}
  PROVE  Min(S) \in S /\ \A y \in S : Min(S) <= y
<1>1. PICK x \in S : \A y \in S : ~ (<<y, x>> \in OpToRel(<, Nat))
  BY NatLessThanWellFounded, WFMin, Zenon
<1>2. \A y \in S : x <= y
  <2> SUFFICES ASSUME NEW y \in S PROVE x <= y
    OBVIOUS
  <2>1. x \in Nat /\ y \in Nat
    OBVIOUS
  <2>2. ~ (y < x)
    BY <1>1, <2>1 DEF OpToRel
  <2> QED
    BY <2>1, <2>2
<1> QED
  BY <1>1, <1>2 DEF Min

(* Arrays that have a name at the same places find it at the same place.   *)
LEMMA FindAmong ==
  ASSUME NEW s, NEW name
  PROVE  Find(s, name) = IF At(s, name) # {} THEN Min(At(s, name)) ELSE 0
BY DEF Find, SelectInSeq, At

(* env_find returns the first entry of a name, or 0 (a null pointer in the *)
(* code) when there is none.                                               *)
LEMMA FindCases ==
  ASSUME NEW s \in Seq(Entry), NEW name
  PROVE  \/ Find(s, name) = 0 /\ \A i \in 1 .. Len(s) : s[i].name # name
         \/ /\ Find(s, name) \in 1 .. Len(s) /\ s[Find(s, name)].name = name
            /\ \A i \in 1 .. Len(s) : s[i].name = name => Find(s, name) <= i
<1>1. At(s, name) \in SUBSET Nat /\ Len(s) \in Nat
  BY DEF At
<1>2. CASE At(s, name) = {}
  BY <1>2, FindAmong DEF At
<1>3. CASE At(s, name) # {}
  <2>1. Find(s, name) = Min(At(s, name))
    BY <1>3, FindAmong
  <2>2. Find(s, name) \in At(s, name) /\ \A i \in At(s, name) : Find(s, name) <= i
    BY <1>1, <1>3, <2>1, LeastIndex
  <2> QED
    BY <2>2 DEF At
<1> QED
  BY <1>2, <1>3

(* The entry with no earlier one of its name is the one that is found.     *)
LEMMA FindFirst ==
  ASSUME NEW s \in Seq(Entry), NEW k \in 1 .. Len(s), NEW name, s[k].name = name,
         \A i \in 1 .. Len(s) : s[i].name = name => k <= i
  PROVE  Find(s, name) = k /\ Lookup(s, name) = s[k].value
<1>1. k \in Nat /\ k # 0 /\ Len(s) \in Nat
  OBVIOUS
<1>2. Find(s, name) \in 1 .. Len(s) /\ s[Find(s, name)].name = name /\ Find(s, name) <= k
  BY FindCases
<1>3. Find(s, name) = k
  BY <1>1, <1>2
<1> QED
  BY <1>1, <1>3 DEF Lookup

(* env_find and getenv look in the array that environ points at.           *)
LEMMA EnvFind ==
  ASSUME NEW name
  PROVE  env_find(name) = Find(array[environ], name) /\ getenv(name) = Lookup(array[environ], name)
BY DEF env_find, getenv, Find, Lookup

(* A name that no entry has looks up as null. *)
LEMMA LookupNone ==
  ASSUME NEW s \in Seq(Entry), NEW name, \A i \in 1 .. Len(s) : s[i].name # name
  PROVE  Lookup(s, name) = <<"null">>
BY FindCases DEF Lookup

(* A lookup gives a value or null. *)
LEMMA LookupTyped ==
  ASSUME NEW s \in Seq(Entry), NEW name
  PROVE  Lookup(s, name) \in Value \cup {<<"null">>}
<1>1. CASE Find(s, name) = 0
  BY <1>1 DEF Lookup
<1>2. CASE Find(s, name) \in 1 .. Len(s)
  <2>1. s[Find(s, name)] \in Entry
    BY <1>2, ElementOfSeq
  <2>2. Find(s, name) # 0
    BY <1>2
  <2> QED
    BY <2>1, <2>2 DEF Lookup, Entry
<1> QED
  BY <1>1, <1>2, FindCases

(* setenv over the first entry of a name: only that name changes its value. *)
LEMMA Replacing ==
  ASSUME NEW s \in Seq(Entry), NEW T, Distinct(s, T), NEW name \in Name, NEW value \in Value,
         NEW k \in 1 .. Len(s), k = Find(s, name),
         NEW t \in Seq(Entry), Len(t) = Len(s),
         \A i \in 1 .. Len(s) : t[i] = IF i = k THEN [name |-> name, value |-> value] ELSE s[i]
  PROVE  /\ Distinct(t, T)
         /\ \A n : Lookup(t, n) = IF n = name THEN value ELSE Lookup(s, n)
<1>1. k \in 1 .. Len(s) /\ s[k].name = name /\ k # 0
  BY FindCases
<1>2. \A i \in 1 .. Len(s) : t[i].name = s[i].name
  BY <1>1
<1>3. Distinct(t, T)
  BY <1>2 DEF Distinct
<1>4. ASSUME NEW n PROVE Lookup(t, n) = IF n = name THEN value ELSE Lookup(s, n)
  <2>1. At(t, n) = At(s, n)
    BY <1>2 DEF At
  <2>2. Find(t, n) = Find(s, n)
    BY <2>1, FindAmong
  <2>3. CASE n = name
    BY <1>1, <2>2, <2>3 DEF Lookup
  <2>4. CASE n # name
    <3>1. Find(s, n) = 0 \/ (Find(s, n) \in 1 .. Len(s) /\ s[Find(s, n)].name = n)
      BY FindCases
    <3>2. Find(s, n) # 0 => t[Find(s, n)] = s[Find(s, n)]
      BY <1>1, <2>4, <3>1
    <3> QED
      BY <2>2, <2>4, <3>2 DEF Lookup
  <2> QED
    BY <2>3, <2>4
<1> QED
  BY <1>3, <1>4

(* setenv of a new name: only that name gets a value.                      *)
LEMMA Appending ==
  ASSUME NEW s \in Seq(Entry), NEW T, Distinct(s, T), NEW name \in Name, NEW value \in Value,
         \A i \in 1 .. Len(s) : s[i].name # name
  PROVE  LET t == Append(s, [name |-> name, value |-> value]) IN
         /\ t \in Seq(Entry) /\ Len(t) = Len(s) + 1 /\ Distinct(t, T)
         /\ \A n : Lookup(t, n) = IF n = name THEN value ELSE Lookup(s, n)
<1> DEFINE entry == [name |-> name, value |-> value]
           t == Append(s, entry)
           m == Len(s)
<1>1. entry \in Entry /\ m \in Nat
  BY DEF Entry
<1>2. t \in Seq(Entry) /\ Len(t) = m + 1 /\ t[m + 1] = entry /\ \A i \in 1 .. m : t[i] = s[i]
  BY <1>1
<1> HIDE DEF t
<1>3. \A i \in 1 .. m + 1 : i \in 1 .. m \/ i = m + 1
  BY <1>1
<1>4. Distinct(t, T)
  BY <1>1, <1>2, <1>3 DEF Distinct
<1>5. ASSUME NEW n PROVE Lookup(t, n) = IF n = name THEN value ELSE Lookup(s, n)
  <2>1. CASE n = name
    <3>1. m + 1 \in 1 .. Len(t) /\ t[m + 1].name = n /\ t[m + 1].value = value
      BY <1>1, <1>2, <2>1
    <3>2. \A i \in 1 .. Len(t) : t[i].name = n => m + 1 <= i
      BY <1>1, <1>2, <1>3, <2>1
    <3> QED
      BY <1>2, <2>1, <3>1, <3>2, FindFirst
  <2>2. CASE n # name
    <3>1. 1 .. m \subseteq 1 .. Len(t)
      BY <1>1, <1>2
    <3>2. At(t, n) = At(s, n)
      BY <1>2, <1>3, <2>2, <3>1 DEF At
    <3>3. Find(t, n) = Find(s, n)
      BY <3>2, FindAmong
    <3>4. Find(s, n) = 0 \/ Find(s, n) \in 1 .. m
      BY FindCases
    <3> QED
      BY <1>2, <2>2, <3>3, <3>4 DEF Lookup
  <2> QED
    BY <2>1, <2>2
<1> QED
  BY <1>2, <1>4, <1>5 DEF t

(* unsetenv moves the entries behind the removed one down: only its name is *)
(* gone, unless it is one that may have several entries.                   *)
LEMMA Removing ==
  ASSUME NEW s \in Seq(Entry), NEW T, Distinct(s, T), NEW k \in 1 .. Len(s)
  PROVE  LET t == RemoveAt(s, k) IN
         /\ t \in Seq(Entry) /\ Len(t) = Len(s) - 1 /\ Distinct(t, T)
         /\ \A n : n # s[k].name => Lookup(t, n) = Lookup(s, n)
         /\ s[k].name \notin T => Lookup(t, s[k].name) = <<"null">>
<1> DEFINE t == RemoveAt(s, k)
           m == Len(s)
           from(i) == IF i < k THEN i ELSE i + 1
<1>1. m \in Nat /\ k \in 1 .. m
  OBVIOUS
<1>2. /\ t \in Seq(Entry) /\ Len(t) = m - 1
      /\ \A i \in 1 .. m - 1 : from(i) \in 1 .. m /\ from(i) # k /\ t[i] = s[from(i)]
  <2> DEFINE lo == SubSeq(s, 1, k - 1)
             hi == SubSeq(s, k + 1, m)
  <2>1. lo \in Seq(Entry) /\ Len(lo) = k - 1 /\ \A i \in 1 .. k - 1 : lo[i] = s[i]
    BY <1>1
  <2>2. hi \in Seq(Entry) /\ Len(hi) = m - k /\ \A i \in 1 .. m - k : hi[i] = s[k + i]
    BY <1>1
  <2>3. t = lo \o hi
    BY DEF RemoveAt
  <2> HIDE DEF lo, hi, t
  <2>4. t \in Seq(Entry) /\ Len(t) = m - 1
    BY <1>1, <2>1, <2>2, <2>3, ConcatProperties
  <2>5. \A i \in 1 .. m - 1 : t[i] = s[from(i)]
    BY <1>1, <2>1, <2>2, <2>3, <2>4, ConcatProperties
  <2> QED
    BY <1>1, <2>4, <2>5
<1> HIDE DEF t
<1>3. \A i, j \in 1 .. m - 1 : from(i) = from(j) => i = j
  BY <1>1
<1>4. Distinct(t, T)
  BY <1>2, <1>3 DEF Distinct
<1>5. ASSUME s[k].name \notin T PROVE Lookup(t, s[k].name) = <<"null">>
  <2>1. \A i \in 1 .. Len(t) : t[i].name # s[k].name
    BY <1>2, <1>5 DEF Distinct
  <2> QED
    BY <1>2, <2>1, LookupNone
<1>6. ASSUME NEW n, n # s[k].name PROVE Lookup(t, n) = Lookup(s, n)
  <2>1. CASE Find(s, n) = 0
    <3>1. \A i \in 1 .. m : s[i].name # n
      BY <1>1, <2>1, FindCases
    <3>2. \A i \in 1 .. Len(t) : t[i].name # n
      BY <1>2, <3>1
    <3> QED
      BY <1>2, <3>1, <3>2, LookupNone
  <2>2. CASE Find(s, n) # 0
    <3> DEFINE f == Find(s, n)
               g == IF f < k THEN f ELSE f - 1
    <3>1. f \in 1 .. m /\ s[f].name = n /\ \A i \in 1 .. m : s[i].name = n => f <= i
      BY <2>2, FindCases
    <3>2. f # k
      BY <1>6, <3>1
    <3> HIDE DEF f
    <3>3. g \in 1 .. m - 1 /\ from(g) = f
      BY <1>1, <3>1, <3>2
    <3>4. \A i \in 1 .. m - 1 : f <= from(i) => g <= i
      BY <1>1, <3>1, <3>2
    <3> HIDE DEF g
    <3>5. t[g] = s[f] /\ g \in 1 .. Len(t)
      BY <1>2, <3>3
    <3>6. \A i \in 1 .. Len(t) : t[i].name = n => g <= i
      BY <1>2, <3>1, <3>4
    <3>7. Lookup(t, n) = t[g].value
      BY <1>2, <3>1, <3>5, <3>6, FindFirst
    <3> QED
      BY <2>2, <3>5, <3>7 DEF Lookup, f
  <2> QED
    BY <2>1, <2>2
<1> QED
  BY <1>2, <1>4, <1>5, <1>6 DEF t

-----------------------------------------------------------------------------
Place == {"stack", "static", "heap"}

(* The inductive invariant.  Names are unique in the array in use, but for *)
(* those that came twice, so that unsetenv leaves none of the others; a    *)
(* block of realloc is as long as its header says; and no array is longer  *)
(* than it may be, unless a word behind it was written: the static one has *)
(* no room for any entry.                                                  *)
Typed ==
  /\ environ \in Place
  /\ array \in [Place -> Seq(Entry)]
  /\ words \in [Place -> Nat] /\ header \in [Place -> Nat]
  /\ damaged \in BOOLEAN /\ stray \in BOOLEAN
  /\ view \in [Name -> Value \cup {<<"null">>}]

Agrees ==
  \A name \in Name :
    \/ Lookup(array[environ], name) = view[name]
    \/ name \in twice /\ view[name] = <<"null">>

Stored ==
  /\ words["heap"] = header["heap"]
  /\ environ = "heap" => Len(array["heap"]) + 1 <= words["heap"]
  /\ words["static"] = 1
  /\ ~ stray => array["static"] = <<>> /\ Len(array["stack"]) + 1 <= words["stack"]
  /\ stray => header["stack"] > words["stack"] \/ header["static"] > words["static"]
  /\ damaged => stray \/ header["stack"] < words["stack"] - 1

Inv ==
  /\ Typed /\ Stored
  /\ ~ damaged => Distinct(array[environ], twice) /\ Agrees

(* An address, read as a size, is more than any request needs.             *)
LEMMA HugeNat == Huge \in Nat /\ Huge >= 2 /\ MaxEntries \in Nat
BY EnvironmentAssumption DEF Huge

(* The array that start.c leaves satisfies the invariant.                  *)
LEMMA InitInv == Init => Inv
<1> SUFFICES ASSUME Init PROVE Inv
  OBVIOUS
<1>1. PICK inherited \in Inherited, onStack \in {0, Huge}, onStatic \in 0 .. Huge :
        /\ environ = "stack"
        /\ array = [stack |-> inherited, static |-> <<>>, heap |-> <<>>]
        /\ words = [stack |-> Len(inherited) + 1, static |-> 1, heap |-> 0]
        /\ header = [stack |-> onStack, static |-> onStatic, heap |-> 0]
        /\ view = [name \in Name |-> getenv(name)]
        /\ twice = {name \in Name : \E i, j \in 1 .. Len(inherited) :
                      i # j /\ inherited[i].name = name /\ inherited[j].name = name}
        /\ damaged = FALSE /\ stray = FALSE
  BY DEF Init
<1>2. inherited \in Seq(Entry) /\ Len(inherited) \in Nat /\ Distinct(inherited, twice)
  <2>1. inherited \in Seq(Entry) /\ Len(inherited) \in Nat
    BY EnvironmentAssumption
  <2>2. ASSUME NEW i \in 1 .. Len(inherited) PROVE inherited[i].name \in Name
    <3>1. inherited[i] \in Entry
      BY <2>1, ElementOfSeq
    <3> QED
      BY <3>1 DEF Entry
  <2> QED
    BY <1>1, <2>1, <2>2 DEF Distinct
<1>3. array[environ] = inherited
  BY <1>1
<1>4. \A name \in Name : view[name] = Lookup(inherited, name)
  BY <1>1, <1>3, EnvFind
<1>5. \A name \in Name : Lookup(inherited, name) \in Value \cup {<<"null">>}
  BY <1>2, LookupTyped
<1>6. Typed
  <2>1. view \in [Name -> Value \cup {<<"null">>}]
    BY <1>1, <1>4, <1>5
  <2>2. array \in [Place -> Seq(Entry)]
    <3>1. <<>> \in Seq(Entry)
      OBVIOUS
    <3>2. /\ array["stack"] = inherited /\ array["static"] = <<>> /\ array["heap"] = <<>>
          /\ array = [p \in Place |-> array[p]]
      BY <1>1 DEF Place
    <3>3. \A p \in Place : array[p] \in Seq(Entry)
      BY <1>2, <3>1, <3>2 DEF Place
    <3> QED
      BY <3>2, <3>3
  <2>3. words \in [Place -> Nat]
    BY <1>1, <1>2 DEF Place
  <2>4. header \in [Place -> Nat]
    BY <1>1, HugeNat DEF Place
  <2> QED
    BY <1>1, <2>1, <2>2, <2>3, <2>4 DEF Typed, Place
<1>7. Stored
  BY <1>1, <1>2 DEF Stored
<1> QED
  BY <1>2, <1>3, <1>4, <1>6, <1>7 DEF Inv, Agrees

-----------------------------------------------------------------------------
(* Calls that fail or only read leave the invariant alone.                 *)
LEMMA Untouched == Inv /\ UNCHANGED env => Inv'
<1> SUFFICES ASSUME Inv, UNCHANGED env PROVE Inv'
  OBVIOUS
<1>1. /\ environ' = environ /\ array' = array /\ words' = words /\ header' = header
      /\ view' = view /\ twice' = twice /\ damaged' = damaged /\ stray' = stray
  BY DEF env
<1>2. Typed' /\ Stored'
  BY <1>1 DEF Inv, Typed, Stored
<1>3. ~ damaged' => Distinct(array'[environ'], twice') /\ Agrees'
  BY <1>1 DEF Inv, Agrees
<1> QED
  BY <1>2, <1>3 DEF Inv

(* setenv when realloc returns the array it was given.                     *)
LEMMA InPlaceInv ==
  ASSUME Inv, ~ damaged, NEW name \in Name, NEW value \in Value,
         \A i \in 1 .. Len(array[environ]) : array[environ][i].name # name,
         InPlace([name |-> name, value |-> value]),
         view' = [view EXCEPT ![name] = value], twice' = twice
  PROVE  Inv'
<1> DEFINE s == array[environ]
           entry == [name |-> name, value |-> value]
           t == Append(s, entry)
<1>0. Typed /\ Stored /\ Distinct(s, twice) /\ Agrees /\ s \in Seq(Entry) /\ Len(s) \in Nat
  BY DEF Inv, Typed
<1>1. /\ t \in Seq(Entry) /\ Len(t) = Len(s) + 1 /\ Distinct(t, twice)
      /\ \A n : Lookup(t, n) = IF n = name THEN value ELSE Lookup(s, n)
  BY <1>0, Appending
<1>2. /\ header[environ] >= Len(s) + 2
      /\ array' = [array EXCEPT ![environ] = t]
      /\ stray' = (stray \/ words[environ] < Len(s) + 2)
      /\ damaged' = damaged \/ (words[environ] < Len(s) + 2 /\ damaged' = TRUE)
      /\ UNCHANGED <<environ, words, header>>
  BY DEF InPlace, Needed
<1> HIDE DEF t
<1>3. array'[environ'] = t /\ \A p \in Place : p # environ => array'[p] = array[p]
  BY <1>0, <1>2 DEF Typed
<1>4. Typed'
  <2>1. array' \in [Place -> Seq(Entry)]
    BY <1>0, <1>1, <1>2 DEF Typed
  <2>2. view' \in [Name -> Value \cup {<<"null">>}]
    BY <1>0 DEF Typed
  <2> QED
    BY <1>0, <1>2, <2>1, <2>2 DEF Typed
<1>5. Agrees'
  BY <1>0, <1>1, <1>3 DEF Agrees, Typed
<1>6. Stored'
  <2>1. words[environ] \in Nat /\ header[environ] \in Nat /\ words["stack"] \in Nat
    BY <1>0 DEF Typed, Place
  <2>2. CASE words[environ] < Len(s) + 2
    <3>1. environ # "heap" /\ header[environ] > words[environ] /\ stray'
      <4>1. stray' = TRUE
        BY <1>2, <2>2, Zenon
      <4>2. header[environ] > words[environ]
        BY <1>0, <1>2, <2>1, <2>2
      <4>3. environ # "heap"
        BY <1>0, <2>1, <4>2 DEF Stored
      <4> QED
        BY <4>1, <4>2, <4>3
    <3>2. environ \in {"stack", "static"}
      BY <1>0, <3>1 DEF Typed, Place
    <3> QED
      BY <1>0, <1>2, <3>1, <3>2 DEF Stored
  <2>3. CASE ~ (words[environ] < Len(s) + 2)
    <3>1. stray' = stray /\ damaged' = damaged
      BY <1>0, <1>2, <2>3 DEF Typed
    <3>2. environ # "static"
      BY <1>0, <2>1, <2>3 DEF Stored
    <3>3. CASE environ = "heap"
      BY <1>0, <1>1, <1>2, <1>3, <2>3, <3>1, <3>3 DEF Stored, Place
    <3>4. CASE environ = "stack"
      BY <1>0, <1>1, <1>2, <1>3, <2>1, <2>3, <3>1, <3>4 DEF Stored, Place
    <3> QED
      BY <1>0, <3>2, <3>3, <3>4 DEF Typed, Place
  <2> QED
    BY <2>2, <2>3
<1> QED
  BY <1>1, <1>3, <1>4, <1>5, <1>6 DEF Inv

(* setenv when realloc copies the array; what it loses is recorded.        *)
LEMMA MovedInv ==
  ASSUME Inv, ~ damaged, NEW name \in Name, NEW value \in Value,
         \A i \in 1 .. Len(array[environ]) : array[environ][i].name # name,
         Len(array[environ]) < MaxEntries,
         Moved([name |-> name, value |-> value]),
         view' = [view EXCEPT ![name] = value], twice' = twice
  PROVE  Inv'
<1> DEFINE s == array[environ]
           entry == [name |-> name, value |-> value]
           t == Append(s, entry)
           kept == IF environ = "heap" THEN words["heap"] ELSE header[environ]
<1>0. Typed /\ Stored /\ Distinct(s, twice) /\ Agrees /\ s \in Seq(Entry) /\ Len(s) \in Nat
  BY DEF Inv, Typed
<1>1. /\ t \in Seq(Entry) /\ Len(t) = Len(s) + 1 /\ Distinct(t, twice)
      /\ \A n : Lookup(t, n) = IF n = name THEN value ELSE Lookup(s, n)
  BY <1>0, Appending
<1>2. /\ header[environ] < Len(s) + 2
      /\ environ' = "heap"
      /\ array' = [array EXCEPT !["stack"] = <<>>, !["heap"] = t]
      /\ words' = [words EXCEPT !["heap"] = Len(s) + 2]
      /\ header' = [header EXCEPT !["heap"] = Len(s) + 2]
      /\ damaged' = (kept < Len(s))
      /\ stray' = (stray \/ Len(s) + 2 < Len(s) + 2)
  BY DEF Moved, Needed
<1> HIDE DEF t
<1>3. array'["heap"] = t /\ array'["static"] = array["static"] /\ array'["stack"] = <<>>
  BY <1>0, <1>2 DEF Typed, Place
<1>4. /\ words'["heap"] = Len(s) + 2 /\ header'["heap"] = Len(s) + 2
      /\ header'["stack"] = header["stack"] /\ header'["static"] = header["static"]
  BY <1>0, <1>2 DEF Typed, Place
<1>5. Typed'
  <2>1. array' \in [Place -> Seq(Entry)]
    <3>1. <<>> \in Seq(Entry)
      OBVIOUS
    <3> QED
      BY <1>0, <1>1, <1>2, <3>1 DEF Typed
  <2>2. view' \in [Name -> Value \cup {<<"null">>}]
    BY <1>0 DEF Typed
  <2>3. words' \in [Place -> Nat] /\ header' \in [Place -> Nat]
    <3>1. Len(s) + 2 \in Nat
      BY <1>0
    <3>2. words \in [Place -> Nat] /\ header \in [Place -> Nat]
      BY <1>0 DEF Typed
    <3>3. words' \in [Place -> Nat]
      BY <1>2, <3>1, <3>2, Zenon
    <3>4. header' \in [Place -> Nat]
      BY <1>2, <3>1, <3>2, Zenon
    <3> QED
      BY <3>3, <3>4
  <2>4. damaged' \in BOOLEAN /\ stray' \in BOOLEAN
    <3>1. (kept < Len(s)) \in BOOLEAN
      BY <1>0 DEF Typed, Place
    <3>2. (stray \/ Len(s) + 2 < Len(s) + 2) \in BOOLEAN
      BY <1>0 DEF Typed
    <3> QED
      BY <1>2, <3>1, <3>2, Zenon
  <2> QED
    BY <1>2, <2>1, <2>2, <2>3, <2>4 DEF Typed, Place
<1>6. Agrees'
  BY <1>0, <1>1, <1>2, <1>3 DEF Agrees, Typed
<1>7. stray' = stray
  BY <1>0, <1>2 DEF Typed
<1>8. damaged' => stray \/ header["stack"] < words["stack"] - 1
  <2> SUFFICES ASSUME kept < Len(s), ~ stray PROVE header["stack"] < words["stack"] - 1
    BY <1>2
  <2>1. /\ header["stack"] \in Nat /\ header["static"] \in Nat
        /\ words["stack"] \in Nat /\ words["heap"] \in Nat
    BY <1>0 DEF Typed, Place
  <2>2. environ # "heap"
    BY <1>0, <2>1 DEF Stored
  <2>3. environ # "static"
    <3>1. array["static"] = <<>> /\ Len(<<>>) = 0
      BY <1>0 DEF Stored
    <3> QED
      BY <2>1, <3>1
  <2>4. environ = "stack"
    BY <1>0, <2>2, <2>3 DEF Typed, Place
  <2> QED
    BY <1>0, <2>1, <2>4 DEF Stored
<1>9. Stored'
  <2>1. Len(array'["heap"]) + 1 <= words'["heap"]
    BY <1>0, <1>1, <1>3, <1>4
  <2>2. words'["stack"] = words["stack"] /\ words'["static"] = words["static"]
    BY <1>0, <1>2 DEF Typed, Place
  <2>3. Len(array'["stack"]) = 0 /\ words["stack"] \in Nat
    BY <1>0, <1>3 DEF Typed, Place
  <2>4. ~ stray => Len(array'["stack"]) + 1 <= words["stack"]
    BY <1>0, <2>3 DEF Stored, Typed, Place
  <2> QED
    BY <1>0, <1>2, <1>3, <1>4, <1>7, <1>8, <2>1, <2>2, <2>4 DEF Stored
<1> QED
  BY <1>1, <1>2, <1>3, <1>5, <1>6, <1>9 DEF Inv

-----------------------------------------------------------------------------
(* setenv and putenv, with every outcome of their allocations.             *)
LEMMA SetenvInv ==
  ASSUME Inv, NEW name \in Name, NEW value \in Value, NEW overwrite,
         setenv(name, value, overwrite)
  PROVE  Inv'
<1> DEFINE s == array[environ]
           index == env_find(name)
           entry == [name |-> name, value |-> value]
<1>0. ~ damaged /\ Typed /\ Stored /\ Distinct(s, twice) /\ Agrees /\ s \in Seq(Entry) /\ Len(s) \in Nat
  BY DEF Inv, Typed, setenv, Calm
<1>1. \/ index = 0 /\ \A i \in 1 .. Len(s) : s[i].name # name
      \/ index \in 1 .. Len(s) /\ index # 0 /\ s[index].name = name
  BY <1>0, EnvFind, FindCases
<1>2. CASE /\ index # 0
           /\ array' = [array EXCEPT ![environ][index] = entry]
           /\ view' = [view EXCEPT ![name] = value]
           /\ UNCHANGED <<environ, words, header, twice, damaged, stray, errno>>
  <2> DEFINE t == [s EXCEPT ![index] = entry]
  <2>1. index \in 1 .. Len(s) /\ index = Find(s, name)
    BY <1>1, <1>2, EnvFind
  <2> HIDE DEF index
  <2>2. /\ t \in Seq(Entry) /\ Len(t) = Len(s) /\ Distinct(t, twice)
        /\ \A n : Lookup(t, n) = IF n = name THEN value ELSE Lookup(s, n)
    <3>1. s \in Seq(Entry) /\ Distinct(s, twice)
      BY <1>0
    <3>2. entry \in Entry
      BY DEF Entry
    <3>3. /\ t \in Seq(Entry) /\ Len(t) = Len(s)
          /\ \A i \in 1 .. Len(s) : t[i] = IF i = index THEN entry ELSE s[i]
      BY <2>1, <3>1, <3>2
    <3> HIDE DEF s, t
    <3> QED
      BY <2>1, <3>1, <3>3, Replacing
  <2>3. array' = [array EXCEPT ![environ] = t] /\ environ' = environ
    BY <1>2
  <2> HIDE DEF t
  <2>4. array'[environ'] = t /\ \A p \in Place : p # environ => array'[p] = array[p]
    BY <1>0, <2>3 DEF Typed
  <2>5. Typed'
    <3>1. array' \in [Place -> Seq(Entry)]
      BY <1>0, <2>2, <2>3 DEF Typed
    <3>2. view' \in [Name -> Value \cup {<<"null">>}]
      BY <1>0, <1>2 DEF Typed
    <3> QED
      BY <1>0, <1>2, <3>1, <3>2 DEF Typed
  <2>6. Agrees'
    BY <1>0, <1>2, <2>2, <2>4 DEF Agrees, Typed
  <2>7. Stored'
    <3>1. Len(array'["heap"]) = Len(array["heap"]) /\ Len(array'["stack"]) = Len(array["stack"])
      BY <1>0, <2>2, <2>3, <2>4 DEF Typed, Place
    <3>2. array["static"] = <<>> => array'["static"] = array["static"]
      BY <1>0, <2>1, <2>3, <2>4 DEF Typed, Place
    <3> QED
      BY <1>0, <1>2, <3>1, <3>2 DEF Stored
  <2> QED
    BY <1>2, <2>2, <2>4, <2>5, <2>6, <2>7 DEF Inv
<1>3. CASE /\ index = 0 /\ Len(s) < MaxEntries
           /\ InPlace(entry) \/ Moved(entry)
           /\ view' = [view EXCEPT ![name] = value] /\ twice' = twice
  BY <1>0, <1>1, <1>3, InPlaceInv, MovedInv
<1>4. CASE UNCHANGED env
  BY <1>4, Untouched
<1> QED
  BY <1>2, <1>3, <1>4 DEF setenv

(* unsetenv.                                                               *)
LEMMA UnsetenvInv ==
  ASSUME Inv, NEW name \in Name, unsetenv(name)
  PROVE  Inv'
<1> DEFINE s == array[environ]
           index == env_find(name)
           t == RemoveAt(s, index)
<1>0. ~ damaged /\ Typed /\ Stored /\ Distinct(s, twice) /\ Agrees /\ s \in Seq(Entry) /\ Len(s) \in Nat
  BY DEF Inv, Typed, unsetenv, Calm
<1>1. index \in 1 .. Len(s) /\ s[index].name = name
  BY <1>0, EnvFind, FindCases DEF unsetenv
<1>2. /\ array' = [array EXCEPT ![environ] = t]
      /\ view' = [view EXCEPT ![name] = <<"null">>]
      /\ UNCHANGED <<environ, words, header, twice, damaged, stray>>
  BY DEF unsetenv
<1> HIDE DEF index
<1>3. /\ t \in Seq(Entry) /\ Len(t) = Len(s) - 1 /\ Distinct(t, twice)
      /\ \A n : n # name => Lookup(t, n) = Lookup(s, n)
      /\ name \notin twice => Lookup(t, name) = <<"null">>
  BY <1>0, <1>1, Removing
<1> HIDE DEF t
<1>4. array'[environ'] = t /\ \A p \in Place : p # environ => array'[p] = array[p]
  BY <1>0, <1>2 DEF Typed
<1>5. Typed'
  <2>1. array' \in [Place -> Seq(Entry)]
    BY <1>0, <1>2, <1>3 DEF Typed
  <2>2. view' \in [Name -> Value \cup {<<"null">>}]
    BY <1>0, <1>2 DEF Typed
  <2> QED
    BY <1>0, <1>2, <2>1, <2>2 DEF Typed
<1>6. Agrees'
  BY <1>0, <1>2, <1>3, <1>4 DEF Agrees, Typed
<1>7. Stored'
  <2>1. environ = "heap" => Len(array'["heap"]) + 1 <= words["heap"]
    BY <1>0, <1>2, <1>3, <1>4 DEF Stored, Typed, Place
  <2>2. array["static"] = <<>> => array'["static"] = array["static"]
    BY <1>0, <1>1, <1>4 DEF Typed, Place
  <2>3. /\ Len(array'["stack"]) <= Len(array["stack"])
        /\ Len(array'["stack"]) \in Nat /\ Len(array["stack"]) \in Nat /\ words["stack"] \in Nat
    <3>1. array["stack"] \in Seq(Entry) /\ Len(array["stack"]) \in Nat /\ words["stack"] \in Nat
      BY <1>0 DEF Typed, Place
    <3>2. CASE environ = "stack"
      BY <1>0, <1>2, <1>3, <1>4, <3>1, <3>2
    <3>3. CASE environ # "stack"
      BY <1>4, <3>1, <3>3 DEF Place
    <3> QED
      BY <3>1, <3>2, <3>3
  <2> QED
    BY <1>0, <1>2, <2>1, <2>2, <2>3 DEF Stored
<1> QED
  BY <1>2, <1>3, <1>4, <1>5, <1>6, <1>7 DEF Inv

(* clearenv, whose static array may not be empty.                          *)
LEMMA ClearenvInv ==
  ASSUME Inv, clearenv
  PROVE  Inv'
<1>0. Typed /\ Stored /\ ~ damaged
  BY DEF Inv, clearenv, Calm
<1>1. /\ environ' = "static"
      /\ view' = [name \in Name |-> <<"null">>] /\ twice' = {}
      /\ array' = [array EXCEPT !["stack"] = <<>>, !["heap"] = <<>>]
      /\ words' = [words EXCEPT !["heap"] = 0] /\ header' = [header EXCEPT !["heap"] = 0]
      /\ damaged' = (array["static"] # <<>>) /\ stray' = stray
  BY DEF clearenv
<1>2. array'["static"] = array["static"] /\ array'["heap"] = <<>> /\ array'["stack"] = <<>>
  BY <1>0, <1>1 DEF Typed, Place
<1>3. /\ words'["heap"] = 0 /\ header'["heap"] = 0
      /\ header'["stack"] = header["stack"] /\ header'["static"] = header["static"]
      /\ words'["stack"] = words["stack"] /\ words'["static"] = words["static"]
  BY <1>0, <1>1 DEF Typed, Place
<1>4. Typed'
  <2>1. <<>> \in Seq(Entry)
    OBVIOUS
  <2>2. array' \in [Place -> Seq(Entry)]
    BY <1>0, <1>1, <2>1 DEF Typed
  <2>3. words' \in [Place -> Nat] /\ header' \in [Place -> Nat]
    BY <1>0, <1>1 DEF Typed
  <2>4. view' \in [Name -> Value \cup {<<"null">>}]
    BY <1>1
  <2>5. damaged' \in BOOLEAN
    BY <1>1, Zenon
  <2> QED
    BY <1>0, <1>1, <2>2, <2>3, <2>4, <2>5 DEF Typed, Place
<1>5. Stored'
  <2>1. Len(array'["stack"]) = 0 /\ words["stack"] \in Nat /\ Len(array["stack"]) \in Nat
    BY <1>0, <1>2 DEF Typed, Place
  <2>2. ~ stray' => array'["static"] = <<>> /\ Len(array'["stack"]) + 1 <= words'["stack"]
    BY <1>0, <1>1, <1>2, <1>3, <2>1 DEF Stored
  <2>3. damaged' => stray'
    BY <1>0, <1>1 DEF Stored
  <2> QED
    BY <1>0, <1>1, <1>3, <2>2, <2>3 DEF Stored
<1>6. ASSUME ~ damaged' PROVE Distinct(array'[environ'], twice') /\ Agrees'
  <2>1. array'[environ'] = <<>>
    BY <1>1, <1>2, <1>6
  <2>2. <<>> \in Seq(Entry) /\ Len(<<>>) = 0
    OBVIOUS
  <2>3. Distinct(<<>>, {})
    BY <2>2 DEF Distinct
  <2>4. ASSUME NEW name PROVE Lookup(<<>>, name) = <<"null">>
    <3> DEFINE s == <<>>
    <3>1. s \in Seq(Entry) /\ \A i \in 1 .. Len(s) : s[i].name # name
      BY <2>2
    <3> HIDE DEF s
    <3>2. Lookup(s, name) = <<"null">>
      BY <3>1, LookupNone
    <3> QED
      BY <3>2 DEF s
  <2> QED
    BY <1>1, <2>1, <2>3, <2>4 DEF Agrees
<1> QED
  BY <1>4, <1>5, <1>6 DEF Inv

(* What the owner of a word behind an array may do to it.                  *)
LEMMA OverwrittenInv ==
  ASSUME Inv, Overwritten
  PROVE  Inv'
<1>1. /\ damaged' = TRUE /\ stray
      /\ UNCHANGED <<environ, array, words, header, view, twice, stray>>
  BY DEF Overwritten
<1>2. Typed' /\ Stored'
  BY <1>1 DEF Inv, Typed, Stored
<1> QED
  BY <1>1, <1>2 DEF Inv

-----------------------------------------------------------------------------
(* Every reachable state of the environment satisfies Inv.                 *)
THEOREM Invariance == Spec => []Inv
<1>1. Inv /\ [Next]_vars => Inv'
  <2> SUFFICES ASSUME Inv, [Next]_vars PROVE Inv'
    OBVIOUS
  <2>1. ASSUME NEW name \in Name, NEW value \in Value, putenv(name, value) PROVE Inv'
    BY <2>1, SetenvInv DEF putenv
  <2>2. ASSUME NEW name \in Name, NEW value \in Value, NEW overwrite \in BOOLEAN,
               setenv(name, value, overwrite)
        PROVE  Inv'
    BY <2>2, SetenvInv
  <2>3. ASSUME NEW name \in Name, unsetenv(name) PROVE Inv'
    BY <2>3, UnsetenvInv
  <2>4. CASE clearenv
    BY <2>4, ClearenvInv
  <2>5. CASE BadName \/ (\E file : execvp(file)) \/ ExecStep \/ AfterExec
    <3>1. UNCHANGED env
      BY <2>5 DEF BadName, execvp, ExecStep, ExecSkip, ExecTry, ExecReturn, AfterExec
    <3> QED
      BY <3>1, Untouched
  <2>6. CASE UNCHANGED vars
    <3>1. UNCHANGED env
      BY <2>6 DEF vars, env
    <3> QED
      BY <3>1, Untouched
  <2>7. CASE Overwritten
    BY <2>7, OverwrittenInv
  <2> QED
    BY <2>1, <2>2, <2>3, <2>4, <2>5, <2>6, <2>7 DEF Next
<1> QED
  BY <1>1, InitInv, PTL DEF Spec

(* getenv returns what was set last, or null after unsetenv and clearenv,  *)
(* for every name and every inherited array, as long as no entry was lost  *)
(* or overwritten; after unsetenv a name that was inherited more than once *)
(* may keep a value.                                                       *)
THEOREM LookupsAgree == Spec => []LookupAgrees
<1>1. Inv => LookupAgrees
  BY EnvFind DEF Inv, Agrees, LookupAgrees
<1> QED
  BY <1>1, Invariance, PTL

(* An array from malloc is never written behind its end; stray writes and  *)
(* lost entries come only from reallocating the inherited or static array, *)
(* whatever the word in front of the static one is.                        *)
THEOREM ArraysHold == Spec => []ArraysFit
<1>1. Inv => ArraysFit
  BY DEF Inv, Stored, ArraysFit
<1> QED
  BY <1>1, Invariance, PTL

-----------------------------------------------------------------------------
(* The search of execvp.  What is left of the path is its end, and what was *)
(* tried are the usable directories in front of that end.                  *)
Error == {"none", "ENOMEM", "EINVAL", "EFAULT", "ENOENT", "EACCES"}

Search == [pc : {"none", "loop", "image", "failed"}, file : {"none", "null", "slash", "plain"},
           path : Seq(Directory), todo : Seq(Directory), tried : Seq(Directory), errno : Error]

SearchTyped ==
  /\ search \in Search
  /\ errno \in Error

Reached ==
  \E k \in 0 .. Len(search.path) :
    /\ search.todo = SubSeq(search.path, k + 1, Len(search.path))
    /\ TriedUpTo(k, search.tried, search.path)

Reports ==
  /\ search.pc = "loop" =>
       IF search.tried = <<>> THEN errno = search.errno ELSE errno = "ENOENT"
  /\ search.pc = "failed" /\ search.file = "plain" =>
       /\ errno = "ENOENT" \/ search.tried = <<>> => search.todo = <<>>
       /\ search.tried = <<>> => errno = search.errno
  /\ search.file # "plain" => search.tried = <<>> /\ search.pc # "loop"
  /\ search.file = "null" => search.pc = "failed" /\ errno = "EFAULT"
  /\ search.file = "slash" /\ search.pc = "failed" => errno \in {"ENOENT", "EACCES"}

SearchInv == SearchTyped /\ Reached /\ Reports

(* Before the first directory nothing was tried.                           *)
LEMMA NothingTried ==
  ASSUME NEW path
  PROVE  TriedUpTo(0, << >>, path)
<1> DEFINE at == [i \in 1 .. Len(<< >>) |-> 0]
<1>1. 1 .. Len(<< >>) = {} /\ 1 .. 0 = {}
  OBVIOUS
<1>2. at \in [1 .. Len(<< >>) -> 1 .. 0]
  BY <1>1
<1> QED
  BY <1>1, <1>2 DEF TriedUpTo

(* A directory that is not usable is passed over.                          *)
LEMMA PassedOver ==
  ASSUME NEW path \in Seq(Directory), NEW tried \in Seq(Directory), NEW k \in Nat,
         TriedUpTo(k, tried, path), ~ Usable(path[k + 1])
  PROVE  TriedUpTo(k + 1, tried, path)
<1>1. PICK at \in [1 .. Len(tried) -> 1 .. k] :
        /\ \A i, j \in 1 .. Len(tried) : i < j => at[i] < at[j]
        /\ \A i \in 1 .. Len(tried) : tried[i] = path[at[i]] /\ Usable(path[at[i]])
        /\ \A j \in 1 .. k : Usable(path[j]) => \E i \in 1 .. Len(tried) : at[i] = j
  BY DEF TriedUpTo
<1>2. at \in [1 .. Len(tried) -> 1 .. k + 1]
  BY <1>1
<1>3. \A j \in 1 .. k + 1 : j \in 1 .. k \/ j = k + 1
  OBVIOUS
<1>4. \A j \in 1 .. k + 1 : Usable(path[j]) => \E i \in 1 .. Len(tried) : at[i] = j
  BY <1>1, <1>3
<1> QED
  BY <1>1, <1>2, <1>4 DEF TriedUpTo

(* A usable one is the next that is tried.                                 *)
LEMMA TriedNext ==
  ASSUME NEW path \in Seq(Directory), NEW tried \in Seq(Directory), NEW k \in Nat, NEW dir \in Directory,
         TriedUpTo(k, tried, path), dir = path[k + 1], Usable(dir)
  PROVE  TriedUpTo(k + 1, Append(tried, dir), path)
<1>1. PICK at \in [1 .. Len(tried) -> 1 .. k] :
        /\ \A i, j \in 1 .. Len(tried) : i < j => at[i] < at[j]
        /\ \A i \in 1 .. Len(tried) : tried[i] = path[at[i]] /\ Usable(path[at[i]])
        /\ \A j \in 1 .. k : Usable(path[j]) => \E i \in 1 .. Len(tried) : at[i] = j
  BY DEF TriedUpTo
<1> DEFINE m == Len(tried)
           more == Append(tried, dir)
           to == [i \in 1 .. m + 1 |-> IF i = m + 1 THEN k + 1 ELSE at[i]]
<1>2. /\ m \in Nat /\ more \in Seq(Directory) /\ Len(more) = m + 1 /\ more[m + 1] = dir
      /\ \A i \in 1 .. m : more[i] = tried[i]
  BY AppendProperties, LenProperties
<1> HIDE DEF m, more
<1>3. \A i \in 1 .. m + 1 : i \in 1 .. m \/ i = m + 1
  BY <1>2
<1>4. \A i \in 1 .. m : i # m + 1 /\ i \in 1 .. m + 1
  BY <1>2
<1>5. /\ m + 1 \in 1 .. m + 1 /\ k + 1 \in 1 .. k + 1 /\ \A j \in 1 .. k + 1 : j \in 1 .. k \/ j = k + 1
      /\ 1 .. k \subseteq 1 .. k + 1
  BY <1>2
<1>6. \A i \in 1 .. m : at[i] \in 1 .. k
  BY <1>1 DEF m
<1>7. to[m + 1] = k + 1 /\ \A i \in 1 .. m : to[i] = at[i]
  BY <1>4, <1>5
<1>8. to \in [1 .. m + 1 -> 1 .. k + 1]
  BY <1>3, <1>5, <1>6
<1> HIDE DEF to
<1>9. \A i, j \in 1 .. m + 1 : i < j => to[i] < to[j]
  <2> SUFFICES ASSUME NEW i \in 1 .. m + 1, NEW j \in 1 .. m + 1, i < j PROVE to[i] < to[j]
    OBVIOUS
  <2>1. i \in 1 .. m
    BY <1>2
  <2>2. CASE j = m + 1
    BY <1>6, <1>7, <2>1, <2>2
  <2>3. CASE j \in 1 .. m
    BY <1>1, <1>7, <2>1, <2>3 DEF m
  <2> QED
    BY <1>3, <2>2, <2>3
<1>10. \A i \in 1 .. m + 1 : more[i] = path[to[i]] /\ Usable(path[to[i]])
  <2> SUFFICES ASSUME NEW i \in 1 .. m + 1 PROVE more[i] = path[to[i]] /\ Usable(path[to[i]])
    OBVIOUS
  <2>1. CASE i = m + 1
    BY <1>2, <1>7, <2>1
  <2>2. CASE i \in 1 .. m
    BY <1>1, <1>2, <1>7, <2>2 DEF m
  <2> QED
    BY <1>3, <2>1, <2>2
<1>11. \A j \in 1 .. k + 1 : Usable(path[j]) => \E i \in 1 .. m + 1 : to[i] = j
  <2> SUFFICES ASSUME NEW j \in 1 .. k + 1, Usable(path[j]) PROVE \E i \in 1 .. m + 1 : to[i] = j
    OBVIOUS
  <2>1. CASE j = k + 1
    BY <1>5, <1>7, <2>1
  <2>2. CASE j \in 1 .. k
    <3>1. PICK i \in 1 .. m : at[i] = j
      BY <1>1, <2>2 DEF m
    <3> QED
      BY <1>4, <1>7, <3>1
  <2> QED
    BY <1>5, <2>1, <2>2
<1>12. TriedUpTo(k + 1, more, path)
  <2>1. 1 .. Len(more) = 1 .. m + 1
    BY <1>2
  <2>2. /\ to \in [1 .. Len(more) -> 1 .. k + 1]
        /\ \A i, j \in 1 .. Len(more) : i < j => to[i] < to[j]
        /\ \A i \in 1 .. Len(more) : more[i] = path[to[i]] /\ Usable(path[to[i]])
        /\ \A j \in 1 .. k + 1 : Usable(path[j]) => \E i \in 1 .. Len(more) : to[i] = j
    BY <1>8, <1>9, <1>10, <1>11, <2>1
  <2> QED
    BY <2>2, Zenon DEF TriedUpTo
<1> QED
  BY <1>12 DEF more

(* The next directory of the path, and the end behind it.                  *)
LEMMA NextDirectory ==
  ASSUME NEW path \in Seq(Directory), NEW k \in 0 .. Len(path),
         SubSeq(path, k + 1, Len(path)) # << >>
  PROVE  /\ k + 1 \in 0 .. Len(path) /\ Head(SubSeq(path, k + 1, Len(path))) = path[k + 1]
         /\ Tail(SubSeq(path, k + 1, Len(path))) = SubSeq(path, (k + 1) + 1, Len(path))
         /\ path[k + 1] \in Directory
<1>1. Len(path) \in Nat /\ k \in Nat
  BY LenProperties
<1>2. k < Len(path)
  <2> SUFFICES ASSUME ~ (k < Len(path)) PROVE FALSE
    OBVIOUS
  <2>1. Len(path) < k + 1 /\ k + 1 \in Int /\ Len(path) \in Int
    BY <1>1
  <2> QED
    BY <2>1, SubSeqEmpty
<1>3. k + 1 \in 1 .. Len(path) /\ Len(path) \in k + 1 .. Len(path) /\ k + 1 \in 0 .. Len(path)
  BY <1>1, <1>2
<1> QED
  BY <1>3, HeadTailOfSubSeq, ElementOfSeq

(* The search as one step leaves it: the next directory was tried or not.  *)
LEMMA OneDirectory ==
  ASSUME SearchInv, search.todo # << >>
  PROVE  \E k \in 0 .. Len(search.path) :
           /\ Head(search.todo) = search.path[k + 1] /\ k + 1 \in 0 .. Len(search.path)
           /\ Tail(search.todo) = SubSeq(search.path, (k + 1) + 1, Len(search.path))
           /\ Head(search.todo) \in Directory /\ Tail(search.todo) \in Seq(Directory)
           /\ TriedUpTo(k, search.tried, search.path)
<1>1. search.path \in Seq(Directory) /\ search.todo \in Seq(Directory)
  BY DEF SearchInv, SearchTyped, Search
<1>2. PICK k \in 0 .. Len(search.path) :
        /\ search.todo = SubSeq(search.path, k + 1, Len(search.path))
        /\ TriedUpTo(k, search.tried, search.path)
  BY DEF SearchInv, Reached
<1>3. Tail(search.todo) \in Seq(Directory) /\ Head(search.todo) \in Directory
  BY <1>1, HeadTailProperties
<1> QED
  BY <1>1, <1>2, <1>3, NextDirectory

(* execvp of a plain file starts at the front of what getenv gives, or of  *)
(* the default; of any other file it is over at once.                      *)
LEMMA ExecvpSearch ==
  ASSUME Inv, SearchInv, NEW file \in {"null", "slash", "plain"}, execvp(file)
  PROVE  SearchInv'
<1> DEFINE path == IF getenv("PATH") = <<"null">> THEN <<"/bin">> ELSE getenv("PATH")
           found == IF file = "plain" THEN path ELSE << >>
<1>1. path \in Seq(Directory)
  <2>1. "PATH" \in Name /\ Value \subseteq Seq(Directory)
    BY EnvironmentAssumption
  <2>2. getenv("PATH") \in Value \cup {<<"null">>}
    <3>1. array[environ] \in Seq(Entry)
      BY DEF Inv, Typed
    <3> QED
      BY <3>1, EnvFind, LookupTyped
  <2>3. <<"/bin">> \in Seq(Directory)
    BY EnvironmentAssumption
  <2> QED
    BY <2>1, <2>2, <2>3
<1>2. found \in Seq(Directory) /\ << >> \in Seq(Directory)
  BY <1>1
<1>3. errno \in Error
  BY DEF SearchInv, SearchTyped
<1>4. PICK pc \in {"loop", "image", "failed"} :
        /\ search' = [pc |-> pc, file |-> file, path |-> found, todo |-> found,
                      tried |-> << >>, errno |-> errno]
        /\ pc = "loop" <=> file = "plain"
        /\ file = "null" => pc = "failed" /\ errno' = "EFAULT"
        /\ file = "slash" /\ pc = "failed" => errno' \in {"ENOENT", "EACCES"}
        /\ pc = "loop" => errno' = errno
        /\ errno' \in Error
  <2> DEFINE Searching(pc, dirs) == [pc |-> pc, file |-> file, path |-> dirs, todo |-> dirs,
                                     tried |-> << >>, errno |-> errno]
  <2>1. \/ file = "null" /\ search' = Searching("failed", << >>) /\ errno' = "EFAULT"
        \/ file = "slash" /\ search' = Searching("image", << >>) /\ errno' = errno
        \/ /\ file = "slash" /\ search' = Searching("failed", << >>)
           /\ errno' \in {"ENOENT", "EACCES"}
        \/ file = "plain" /\ search' = Searching("loop", path) /\ errno' = errno
    BY DEF execvp
  <2> HIDE DEF path
  <2> QED
    BY <1>3, <2>1 DEF Error
<1> HIDE DEF path, found
<1>5. SearchTyped'
  BY <1>2, <1>3, <1>4 DEF SearchTyped, Search
<1>6. /\ search'.pc = pc /\ search'.path = found /\ search'.todo = found /\ search'.file = file
      /\ search'.tried = << >> /\ search'.errno = errno
  BY <1>4
<1>7. found = SubSeq(found, 0 + 1, Len(found)) /\ 0 \in 0 .. Len(found)
  BY <1>2, SubSeqFull, LenProperties
<1>8. Reached'
  BY <1>6, <1>7, NothingTried DEF Reached
<1>9. Reports'
  BY <1>4, <1>6 DEF Reports
<1> QED
  BY <1>5, <1>8, <1>9 DEF SearchInv

(* A directory that cannot be tried.                                       *)
LEMMA SkipSearch ==
  ASSUME SearchInv, ExecSkip
  PROVE  SearchInv'
<1>1. /\ search' = [search EXCEPT !.todo = Tail(search.todo)] /\ errno' = errno
      /\ search.pc = "loop" /\ search.todo # << >> /\ ~ Usable(Head(search.todo))
  BY DEF ExecSkip
<1>2. PICK k \in 0 .. Len(search.path) :
           /\ Head(search.todo) = search.path[k + 1] /\ k + 1 \in 0 .. Len(search.path)
           /\ Tail(search.todo) = SubSeq(search.path, (k + 1) + 1, Len(search.path))
           /\ Head(search.todo) \in Directory /\ Tail(search.todo) \in Seq(Directory)
           /\ TriedUpTo(k, search.tried, search.path)
  BY <1>1, OneDirectory
<1>3. SearchTyped'
  BY <1>1, <1>2 DEF SearchInv, SearchTyped, Search
<1>4. /\ search'.pc = search.pc /\ search'.path = search.path /\ search'.tried = search.tried
      /\ search'.errno = search.errno /\ search'.todo = Tail(search.todo)
      /\ search'.file = search.file
  BY <1>1 DEF SearchInv, SearchTyped, Search
<1>5. TriedUpTo(k + 1, search.tried, search.path)
  <2>1. k \in Nat /\ search.path \in Seq(Directory) /\ search.tried \in Seq(Directory)
    BY <1>2, LenProperties DEF SearchInv, SearchTyped, Search
  <2> QED
    BY <1>1, <1>2, <2>1, PassedOver
<1>6. Reached'
  BY <1>2, <1>4, <1>5 DEF Reached
<1>7. Reports'
  BY <1>1, <1>4 DEF SearchInv, Reports
<1> QED
  BY <1>3, <1>6, <1>7 DEF SearchInv

(* A directory that is tried, with any outcome.                            *)
LEMMA TrySearch ==
  ASSUME SearchInv, ExecTry
  PROVE  SearchInv'
<1> DEFINE dir == Head(search.todo)
           tried == Append(search.tried, dir)
<1>1. /\ search.pc = "loop" /\ search.todo # << >> /\ Usable(dir)
  BY DEF ExecTry
<1>2. PICK k \in 0 .. Len(search.path) :
           /\ dir = search.path[k + 1] /\ k + 1 \in 0 .. Len(search.path)
           /\ Tail(search.todo) = SubSeq(search.path, (k + 1) + 1, Len(search.path))
           /\ dir \in Directory /\ Tail(search.todo) \in Seq(Directory)
           /\ TriedUpTo(k, search.tried, search.path)
  BY <1>1, OneDirectory
<1>3. PICK pc \in {"image", "loop", "failed"} :
        /\ search' = [search EXCEPT !.todo = Tail(search.todo), !.tried = tried, !.pc = pc]
        /\ pc = "loop" => errno' = "ENOENT"
        /\ pc = "failed" => errno' = "EACCES"
        /\ errno' \in {errno, "ENOENT", "EACCES"}
  <2> DEFINE next == [search EXCEPT !.todo = Tail(search.todo), !.tried = tried]
  <2>1. search \in Search
    BY DEF SearchInv, SearchTyped
  <2>2. \A pc : [next EXCEPT !.pc = pc] =
                  [search EXCEPT !.todo = Tail(search.todo), !.tried = tried, !.pc = pc]
    BY <2>1 DEF Search
  <2>3. next = [search EXCEPT !.todo = Tail(search.todo), !.tried = tried, !.pc = "loop"]
    BY <1>1, <2>1 DEF Search
  <2>4. \/ search' = [next EXCEPT !.pc = "image"] /\ errno' = errno
        \/ search' = next /\ errno' = "ENOENT"
        \/ search' = [next EXCEPT !.pc = "failed"] /\ errno' = "EACCES"
    BY DEF ExecTry
  <2> HIDE DEF next, tried
  <2> QED
    BY <2>2, <2>3, <2>4
<1>4. tried \in Seq(Directory) /\ tried # << >>
  BY <1>2, AppendProperties DEF SearchInv, SearchTyped, Search
<1>5. TriedUpTo(k + 1, tried, search.path)
  <2>1. k \in Nat /\ search.path \in Seq(Directory) /\ search.tried \in Seq(Directory)
    BY <1>2, LenProperties DEF SearchInv, SearchTyped, Search
  <2> QED
    BY <1>1, <1>2, <2>1, TriedNext
<1> HIDE DEF dir, tried
<1>6. SearchTyped'
  BY <1>2, <1>3, <1>4 DEF SearchInv, SearchTyped, Search, Error
<1>7. /\ search'.pc = pc /\ search'.path = search.path /\ search'.tried = tried
      /\ search'.errno = search.errno /\ search'.todo = Tail(search.todo)
      /\ search'.file = search.file
  BY <1>3 DEF SearchInv, SearchTyped, Search
<1>8. Reached'
  BY <1>2, <1>5, <1>7 DEF Reached
<1>9. Reports'
  <2>1. search.file = "plain"
    BY <1>1 DEF SearchInv, Reports
  <2> QED
    BY <1>3, <1>4, <1>7, <2>1 DEF Reports
<1> QED
  BY <1>6, <1>8, <1>9 DEF SearchInv

(* The end of the path.                                                    *)
LEMMA ReturnSearch ==
  ASSUME SearchInv, ExecReturn
  PROVE  SearchInv'
<1>1. /\ search' = [search EXCEPT !.pc = "failed"] /\ errno' = errno
      /\ search.pc = "loop" /\ search.todo = << >>
  BY DEF ExecReturn
<1>2. SearchTyped'
  BY <1>1 DEF SearchInv, SearchTyped, Search
<1>3. /\ search'.pc = "failed" /\ search'.path = search.path /\ search'.tried = search.tried
      /\ search'.errno = search.errno /\ search'.todo = search.todo
      /\ search'.file = search.file
  BY <1>1 DEF SearchInv, SearchTyped, Search
<1>4. Reached' /\ Reports'
  BY <1>1, <1>3 DEF SearchInv, Reached, Reports
<1> QED
  BY <1>2, <1>4 DEF SearchInv

(* No search, with any errno.                                              *)
LEMMA NoSearch == search = NotSearching /\ errno \in Error => SearchInv
<1> SUFFICES ASSUME search = NotSearching, errno \in Error PROVE SearchInv
  OBVIOUS
<1>1. SearchTyped
  BY DEF SearchTyped, Search, NotSearching, Error
<1>2. /\ search.pc = "none" /\ search.file = "none" /\ search.path = << >> /\ search.todo = << >> /\ search.tried = << >>
  BY DEF NotSearching
<1>3. SubSeq(<< >>, 0 + 1, Len(<< >>)) = << >> /\ 0 \in 0 .. Len(<< >>)
  OBVIOUS
<1>4. Reached
  BY <1>2, <1>3, NothingTried DEF Reached
<1>5. Reports
  BY <1>2 DEF Reports
<1> QED
  BY <1>1, <1>4, <1>5 DEF SearchInv

(* Every state of an execvp satisfies SearchInv.                           *)
THEOREM SearchInvariance == Spec => []SearchInv
<1>1. Init => SearchInv
  BY NoSearch DEF Init, Error
<1>2. ASSUME SearchInv, search' = search, errno' \in Error, errno' = errno \/ search.pc = "none"
      PROVE  SearchInv'
  <2>1. SearchTyped' /\ Reached'
    BY <1>2 DEF SearchInv, SearchTyped, Search, Reached
  <2>2. Reports'
    BY <1>2 DEF SearchInv, Reports
  <2> QED
    BY <2>1, <2>2 DEF SearchInv
<1>3. Inv /\ SearchInv /\ [Next]_vars => SearchInv'
  <2> SUFFICES ASSUME Inv, SearchInv, [Next]_vars PROVE SearchInv'
    OBVIOUS
  <2>1. ASSUME NEW name, NEW value, NEW overwrite, setenv(name, value, overwrite) PROVE SearchInv'
    <3>1. search' = search /\ search.pc = "none" /\ (errno' = errno \/ errno' = "ENOMEM")
      BY <2>1 DEF setenv, Calm
    <3> QED
      BY <1>2, <3>1 DEF SearchInv, SearchTyped, Search, Error
  <2>2. ASSUME NEW name, unsetenv(name) PROVE SearchInv'
    BY <1>2, <2>2 DEF unsetenv, SearchInv, SearchTyped
  <2>3. CASE BadName
    <3>1. search' = search /\ search.pc = "none" /\ errno' = "EINVAL"
      BY <2>3 DEF BadName, Calm
    <3> QED
      BY <1>2, <3>1 DEF Error
  <2>4. CASE clearenv
    BY <1>2, <2>4 DEF clearenv, SearchInv, SearchTyped
  <2>5. CASE (\E file \in {"null", "slash", "plain"} : execvp(file)) \/ ExecStep
    BY <2>5, ExecvpSearch, SkipSearch, TrySearch, ReturnSearch DEF ExecStep
  <2>6. CASE AfterExec
    <3>1. (search = NotSearching /\ errno \in Error)'
      BY <2>6 DEF AfterExec, SearchInv, SearchTyped
    <3> QED
      BY <3>1, NoSearch, PTL
  <2>7. CASE UNCHANGED vars
    BY <1>2, <2>7 DEF vars, SearchInv, SearchTyped
  <2>8. CASE Overwritten
    BY <1>2, <2>8 DEF Overwritten, SearchInv, SearchTyped
  <2> QED
    BY <2>1, <2>2, <2>3, <2>4, <2>5, <2>6, <2>7, <2>8 DEF Next, putenv
<1> QED
  BY <1>1, <1>3, Invariance, PTL DEF Spec

(* execvp tries the usable directories of PATH in order, for every PATH,   *)
(* stops only at one that exists or at its end, and reports the last       *)
(* error; a file with a slash or a null pointer is not searched for.       *)
THEOREM PathSearched == Spec => []SearchesPath
<1>1. SearchInv => SearchesPath
  <2> SUFFICES ASSUME SearchInv PROVE SearchesPath
    OBVIOUS
  <2>1. PICK k \in 0 .. Len(search.path) :
          /\ search.todo = SubSeq(search.path, k + 1, Len(search.path))
          /\ TriedUpTo(k, search.tried, search.path)
    BY DEF SearchInv, Reached
  <2>2. search.path \in Seq(Directory) /\ Len(search.path) \in Nat
    BY LenProperties DEF SearchInv, SearchTyped, Search
  <2>3. ASSUME search.todo = << >> PROVE k = Len(search.path)
    <3>1. k + 1 \in Int /\ Len(search.path) \in Int /\ k + 1 >= 1 /\ k <= Len(search.path)
      BY <2>2
    <3>2. \A i \in k + 1 .. Len(search.path) : search.path[i] \in Directory
      BY <2>2, <3>1, ElementOfSeq
    <3>3. Len(search.todo) = IF k + 1 <= Len(search.path) THEN Len(search.path) - (k + 1) + 1 ELSE 0
      BY <2>1, <3>1, <3>2, SubSeqProperties
    <3>4. Len(search.todo) = 0
      BY <2>3
    <3> QED
      BY <2>2, <3>1, <3>3, <3>4
  <2>4. search.todo = << >> => TriedUpTo(Len(search.path), search.tried, search.path)
    BY <2>1, <2>3
  <2> QED
    BY <2>1, <2>4 DEF SearchInv, Reports, SearchesPath
<1> QED
  BY <1>1, SearchInvariance, PTL
=============================================================================
