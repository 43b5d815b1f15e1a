------------------------------- MODULE Options -------------------------------
(***************************************************************************)
(* getopt of lib/libc_misc.c: one call as a function of the vector and of  *)
(* what it keeps between calls: optind, and g_getopt_pos, which points     *)
(* into the argument whose letters are being handed out.  A position is    *)
(* the index of an argument and an offset in it.                           *)
(*                                                                         *)
(* A definition named D_suffix in front of D is D with a plausible bug.    *)
(***************************************************************************)
EXTENDS Numbers

NoPos == <<0, 0>>
NoArg == <<NUL>>

AtStart == [ret |-> NUL, optind |-> 1, pos |-> NoPos, optarg |-> NoArg, optopt |-> NUL]

(* optind = 0 starts a new scan; g_getopt_pos is forgotten with it. *)
Restarted_KeepsPos(st) == IF st.optind = 0 THEN [st EXCEPT !.optind = 1] ELSE st

Restarted(st) == IF st.optind = 0 THEN [st EXCEPT !.optind = 1, !.pos = NoPos] ELSE st

(* argv[i] is argv[i + 1] here. *)
getopt(argv, optstring, before) ==
  LET st     == Restarted(before)
      argc   == Len(argv)
      inside == st.pos # NoPos /\ At(argv[st.pos[1] + 1], st.pos[2]) # NUL
      arg    == argv[st.optind + 1]
      done   == st.optind >= argc \/ At(arg, 0) # "-" \/ At(arg, 1) = NUL
      pos    == IF inside THEN st.pos ELSE <<st.optind, 1>>
      text   == argv[pos[1] + 1]
      c      == At(text, pos[2])
      next   == <<pos[1], pos[2] + 1>>
      last   == At(text, next[2]) = NUL
      spec   == SelectInSeq(optstring, LAMBDA o : o = c)
      wants  == At(optstring, spec) = ":"
      Gives(ret, optind, p, optarg) ==
        [ret |-> ret, optind |-> optind, pos |-> p, optarg |-> optarg, optopt |-> c]
  IN  CASE ~ inside /\ done -> [st EXCEPT !.ret = "end", !.optarg = NoArg]
        [] ~ inside /\ ~ done /\ arg = <<"-", "-">> ->
             [st EXCEPT !.ret = "end", !.optarg = NoArg, !.optind = @ + 1]
        [] OTHER ->
             CASE spec = 0 \/ c = ":" ->
                    Gives("?", IF last THEN st.optind + 1 ELSE st.optind, next, NoArg)
               [] spec # 0 /\ c # ":" /\ wants ->
                    IF ~ last THEN Gives(c, st.optind + 1, NoPos, SubSeq(text, next[2] + 1, Len(text)))
                    ELSE IF st.optind + 1 < argc THEN Gives(c, st.optind + 2, NoPos, argv[st.optind + 2])
                    ELSE Gives(IF optstring[1] = ":" THEN ":" ELSE "?", st.optind + 1, next, NoArg)
               [] OTHER ->
                    IF last THEN Gives(c, st.optind + 1, NoPos, NoArg)
                    ELSE Gives(c, st.optind, next, NoArg)
=============================================================================
