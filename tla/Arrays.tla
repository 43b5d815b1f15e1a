------------------------------- MODULE Arrays -------------------------------
(***************************************************************************)
(* Sorting and searching (qsort and bsearch of lib/libc_stdlib.c), moving  *)
(* bytes (memmove) and cutting a string into tokens (strtok_r and strsep   *)
(* of lib/libc_string.c).  Arrays and strings are sequences; the caller's  *)
(* comparison is a function of two elements.                               *)
(*                                                                         *)
(* A definition named D_suffix in front of D is D with a plausible bug.    *)
(***************************************************************************)
EXTENDS Integers, Sequences, SequencesExt, FiniteSetsExt

Swap(b, i, j) == [b EXCEPT ![i] = b[j], ![j] = b[i]]

(* Every pair in turn; elements larger than the temporary are not sorted.  *)
Pairs(n) ==
  FlattenSeq([i \in 1 .. n |-> [k \in 1 .. n - i |-> <<i, i + k>>]])

qsort_Neighbours(b, size, max, compar) ==
  FoldLeft(LAMBDA a, i : IF compar[a[i], a[i + 1]] > 0 THEN Swap(a, i, i + 1) ELSE a,
           b, [i \in 1 .. Len(b) - 1 |-> i])

qsort(b, size, max, compar) ==
  IF size > max THEN b
  ELSE FoldLeft(LAMBDA a, p : IF compar[a[p[1]], a[p[2]]] > 0 THEN Swap(a, p[1], p[2]) ELSE a,
                b, Pairs(Len(b)))

(* The index of an element that compares equal, 0 if there is none. *)
bsearch_SkipsLow(key, base, compar) ==
  LET find[r \in (0 .. Len(base)) \X (0 .. Len(base))] ==
        IF r[1] >= r[2] THEN 0
        ELSE LET mid == r[1] + (r[2] - r[1]) \div 2
                 cmp == compar[key, base[mid + 1]]
             IN  IF cmp < 0 THEN find[<<r[1], IF mid = 0 THEN 0 ELSE mid - 1>>]
                 ELSE IF cmp > 0 THEN find[<<mid + 1, r[2]>>]
                 ELSE mid + 1
  IN  find[<<0, Len(base)>>]

bsearch(key, base, compar) ==
  LET find[r \in (0 .. Len(base)) \X (0 .. Len(base))] ==
        IF r[1] >= r[2] THEN 0
        ELSE LET mid == r[1] + (r[2] - r[1]) \div 2
                 cmp == compar[key, base[mid + 1]]
             IN  IF cmp < 0 THEN find[<<r[1], mid>>]
                 ELSE IF cmp > 0 THEN find[<<mid + 1, r[2]>>]
                 ELSE mid + 1
  IN  find[<<0, Len(base)>>]

(* n bytes of one buffer, byte by byte, from the end that is safe.         *)
memmove_Forward(m, d, s, n) ==
  FoldLeft(LAMBDA b, i : [b EXCEPT ![d + i] = b[s + i]], m, [i \in 1 .. n |-> i])

memmove(m, d, s, n) ==
  FoldLeft(LAMBDA b, i : [b EXCEPT ![d + i] = b[s + i]], m,
           IF d < s THEN [i \in 1 .. n |-> i] ELSE [i \in 1 .. n |-> n + 1 - i])

-----------------------------------------------------------------------------
(* Tokens.  A cursor is an offset into the string; the separator that ends *)
(* a token becomes a terminator, so that the token is what lies between.   *)
strspn(s, i, set)  == Min({k \in i .. Len(s) : k = Len(s) \/ s[k + 1] \notin set})
strcspn(s, i, set) == Min({k \in i .. Len(s) : k = Len(s) \/ s[k + 1] \in set})

(* Behind the token and the separator that ended it. *)
After(s, end) == IF end < Len(s) THEN end + 1 ELSE end

NoToken(cursor) == [token |-> <<"null">>, cursor |-> cursor]

strtok_r_KeepsEmpty(s, cursor, delim) ==
  LET end == strcspn(s, cursor, delim)
  IN  IF cursor = Len(s) THEN NoToken(cursor)
      ELSE [token |-> SubSeq(s, cursor + 1, end), cursor |-> After(s, end)]

strtok_r(s, cursor, delim) ==
  LET start == strspn(s, cursor, delim)
      end == strcspn(s, start, delim)
  IN  IF start = Len(s) THEN NoToken(start)
      ELSE [token |-> SubSeq(s, start + 1, end), cursor |-> After(s, end)]

strsep(s, cursor, delim) ==
  LET end == strcspn(s, cursor, delim)
  IN  [token |-> SubSeq(s, cursor + 1, end), cursor |-> After(s, end)]
=============================================================================
