----------------------------- MODULE ParserProofs -----------------------------
(***************************************************************************)
(* Theorems about Parser, for every line, however much an array grows at a *)
(* time and wherever an allocation fails.                                  *)
(***************************************************************************)
EXTENDS Parser, DataLemmas

-----------------------------------------------------------------------------
(* Arrays.                                                                 *)

Job == [argv : Seq(Seq(Nat)), mode : {"undefined", "foreground", "background"},
        infile : Nat, outfile : Nat, num : Nat, begin : Nat]

\* realloc keeps the elements before idx, and the others are null.
LEMMA GrowLemma ==
  ASSUME NEW S, NEW array \in Seq(S), NEW idx \in Nat, idx <= Len(array),
         NEW max \in Nat, NEW null \in S
  PROVE  /\ Grow(array, idx, max, null) \in Seq(S)
         /\ Len(Grow(array, idx, max, null)) = max
         /\ \A i \in 1..max :
              /\ i <= idx => Grow(array, idx, max, null)[i] = array[i]
              /\ i > idx => Grow(array, idx, max, null)[i] = null
<1>1. \A i \in 1..max : (IF i <= idx THEN array[i] ELSE null) \in S
  OBVIOUS
<1>2. Grow(array, idx, max, null) \in [1..max -> S]
  BY <1>1 DEF Grow
<1> QED BY <1>2 DEF Grow

\* An array with one element replaced.
LEMMA StoreLemma ==
  ASSUME NEW S, NEW array \in Seq(S), NEW k \in 1..Len(array), NEW x \in S
  PROVE  LET new == [array EXCEPT ![k] = x]
         IN /\ new \in Seq(S) /\ Len(new) = Len(array) /\ new[k] = x
            /\ \A i \in 1..Len(array) : i # k => new[i] = array[i]
OBVIOUS

\* One field of one element of the arrays of jobs replaced.
Argv(s, k, x)  == [s EXCEPT ![k].argv = x]
Mode(s, k, x)  == [s EXCEPT ![k].mode = x]
In(s, k, x)    == [s EXCEPT ![k].infile = x]
Out(s, k, x)   == [s EXCEPT ![k].outfile = x]
Num(s, k, x)   == [s EXCEPT ![k].num = x]
Begin(s, k, x) == [s EXCEPT ![k].begin = x]

\* The arrays s and t have the same commands.
SameArgv(s, t) == /\ Len(t) = Len(s)
                  /\ \A i \in 1..Len(s) : t[i].argv = s[i].argv

LEMMA ArgvLemma ==
  ASSUME NEW s \in Seq(Job), NEW k \in 1..Len(s), NEW x \in Seq(Seq(Nat)),
         NEW t, t = Argv(s, k, x)
  PROVE  /\ t \in Seq(Job) /\ Len(t) = Len(s) /\ t[k] = [s[k] EXCEPT !.argv = x]
         /\ \A i \in 1..Len(s) : i # k => t[i] = s[i]
<1>0. s[k] \in Job OBVIOUS
<1>1. [s[k] EXCEPT !.argv = x] \in Job BY <1>0 DEF Job
<1>2. t = [s EXCEPT ![k] = [s[k] EXCEPT !.argv = x]] BY DEF Argv
<1> QED BY <1>1, <1>2, StoreLemma

LEMMA ReplaceLemma ==
  ASSUME NEW s \in Seq(Job), NEW k \in 1..Len(s), NEW x \in Job,
         x.argv = s[k].argv, NEW t, t = [s EXCEPT ![k] = x]
  PROVE  t \in Seq(Job) /\ SameArgv(s, t)
<1>1. /\ t \in Seq(Job) /\ Len(t) = Len(s) /\ t[k] = x
      /\ \A i \in 1..Len(s) : i # k => t[i] = s[i]
  BY StoreLemma
<1>2. \A i \in 1..Len(s) : t[i].argv = s[i].argv
  BY <1>1
<1> QED BY <1>1, <1>2 DEF SameArgv

LEMMA FieldLemma ==
  ASSUME NEW s \in Seq(Job), NEW k \in 1..Len(s), NEW n \in Nat,
         NEW m \in {"undefined", "foreground", "background"}
  PROVE  /\ Mode(s, k, m) \in Seq(Job) /\ SameArgv(s, Mode(s, k, m))
         /\ In(s, k, n) \in Seq(Job) /\ SameArgv(s, In(s, k, n))
         /\ Out(s, k, n) \in Seq(Job) /\ SameArgv(s, Out(s, k, n))
         /\ Num(s, k, n) \in Seq(Job) /\ SameArgv(s, Num(s, k, n))
         /\ Begin(s, k, n) \in Seq(Job) /\ SameArgv(s, Begin(s, k, n))
<1>0. s[k] \in Job OBVIOUS
<1>1. Mode(s, k, m) \in Seq(Job) /\ SameArgv(s, Mode(s, k, m))
  <2> DEFINE x == [s[k] EXCEPT !.mode = m]
  <2>1. x \in Job /\ x.argv = s[k].argv BY <1>0 DEF Job
  <2>2. Mode(s, k, m) = [s EXCEPT ![k] = x] BY DEF Mode
  <2> HIDE DEF x
  <2> QED BY ONLY <2>1, <2>2, ReplaceLemma, s \in Seq(Job), k \in 1..Len(s)
<1>2. In(s, k, n) \in Seq(Job) /\ SameArgv(s, In(s, k, n))
  <2> DEFINE x == [s[k] EXCEPT !.infile = n]
  <2>1. x \in Job /\ x.argv = s[k].argv BY <1>0 DEF Job
  <2>2. In(s, k, n) = [s EXCEPT ![k] = x] BY DEF In
  <2> HIDE DEF x
  <2> QED BY ONLY <2>1, <2>2, ReplaceLemma, s \in Seq(Job), k \in 1..Len(s)
<1>3. Out(s, k, n) \in Seq(Job) /\ SameArgv(s, Out(s, k, n))
  <2> DEFINE x == [s[k] EXCEPT !.outfile = n]
  <2>1. x \in Job /\ x.argv = s[k].argv BY <1>0 DEF Job
  <2>2. Out(s, k, n) = [s EXCEPT ![k] = x] BY DEF Out
  <2> HIDE DEF x
  <2> QED BY ONLY <2>1, <2>2, ReplaceLemma, s \in Seq(Job), k \in 1..Len(s)
<1>4. Num(s, k, n) \in Seq(Job) /\ SameArgv(s, Num(s, k, n))
  <2> DEFINE x == [s[k] EXCEPT !.num = n]
  <2>1. x \in Job /\ x.argv = s[k].argv BY <1>0 DEF Job
  <2>2. Num(s, k, n) = [s EXCEPT ![k] = x] BY DEF Num
  <2> HIDE DEF x
  <2> QED BY ONLY <2>1, <2>2, ReplaceLemma, s \in Seq(Job), k \in 1..Len(s)
<1>5. Begin(s, k, n) \in Seq(Job) /\ SameArgv(s, Begin(s, k, n))
  <2> DEFINE x == [s[k] EXCEPT !.begin = n]
  <2>1. x \in Job /\ x.argv = s[k].argv BY <1>0 DEF Job
  <2>2. Begin(s, k, n) = [s EXCEPT ![k] = x] BY DEF Begin
  <2> HIDE DEF x
  <2> QED BY ONLY <2>1, <2>2, ReplaceLemma, s \in Seq(Job), k \in 1..Len(s)
<1> QED BY <1>1, <1>2, <1>3, <1>4, <1>5

LEMMA SameArgvTransitive ==
  ASSUME NEW s, NEW t, NEW u, SameArgv(s, t), SameArgv(t, u)
  PROVE  SameArgv(s, u)
BY DEF SameArgv
-----------------------------------------------------------------------------
(* The terminators.                                                        *)

\* What the walks need: an array that was allocated has a NULL.
NullEnded(args) == args # <<>> => NULL \in Range(args)
Ended(argv) == argv # <<>> => /\ <<>> \in Range(argv)
                              /\ \A args \in Range(argv) : NullEnded(args)

\* The array of arguments being filled: max entries, those from idx on NULL,
\* and at least one of them.
Filled(args, idx, max) ==
  /\ Len(args) = max /\ IF max = 0 THEN idx = 0 ELSE idx < max
  /\ \A k \in 1..max : k > idx => args[k] = NULL

\* The commands of the job being filled, in state st: the ones before cI are
\* complete, the ones after it NULL, of which there is one as soon as command
\* cI has an argument.
Fill(argv, st, cI, cM, aI, aM) ==
  /\ Len(argv) = cM /\ IF cM = 0 THEN cI = 0 ELSE cI < cM
  /\ IF st \in {1, 2, 3} THEN cI + 1 < cM /\ aI < aM ELSE aI = 0 /\ aM = 0
  /\ cM > 0 => Filled(argv[cI + 1], aI, aM)
  /\ \A c \in 1..cM : /\ c > cI + 1 => argv[c] = <<>>
                      /\ c <= cI => NullEnded(argv[c])

LEMMA FilledIsEnded ==
  ASSUME NEW args \in Seq(Nat), NEW idx \in Nat, NEW max \in Nat,
         Filled(args, idx, max)
  PROVE  NullEnded(args)
<1> SUFFICES ASSUME args # <<>> PROVE NULL \in Range(args)
  BY DEF NullEnded
<1>1. Len(args) = max /\ max # 0 BY DEF Filled
<1>2. max \in 1..max /\ args[max] = NULL BY <1>1 DEF Filled
<1> QED BY <1>1, <1>2 DEF Range

\* A job may be left at any time: its commands end in a NULL.
LEMMA FillIsEnded ==
  ASSUME NEW argv \in Seq(Seq(Nat)), NEW st, NEW cI \in Nat, NEW cM \in Nat,
         NEW aI \in Nat, NEW aM \in Nat, Fill(argv, st, cI, cM, aI, aM)
  PROVE  Ended(argv)
<1> SUFFICES ASSUME argv # <<>> PROVE /\ <<>> \in Range(argv)
                                      /\ \A c \in 1..cM : NullEnded(argv[c])
  BY DEF Ended, Range, Fill
<1>1. Len(argv) = cM /\ cM # 0 /\ cI < cM BY DEF Fill
<1>2. cI + 1 \in 1..cM /\ Filled(argv[cI + 1], aI, aM) BY <1>1 DEF Fill
<1>3. argv[cM] = <<>>
  <2>1. CASE cM > cI + 1
    BY <1>1, <2>1 DEF Fill
  <2>2. CASE cM = cI + 1
    <3>1. aM = 0 BY <2>2 DEF Fill
    <3>2. argv[cM] \in Seq(Nat) /\ Len(argv[cM]) = 0
      BY <1>1, <1>2, <2>2, <3>1 DEF Filled
    <3> QED BY <3>2
  <2> QED BY <1>1, <2>1, <2>2
<1>4. ASSUME NEW c \in 1..cM PROVE NullEnded(argv[c])
  <2>1. CASE c <= cI BY <2>1 DEF Fill
  <2>2. CASE c = cI + 1
    <3>1. argv[c] \in Seq(Nat) BY <1>1
    <3> QED BY <2>2, <3>1, <1>2, FilledIsEnded
  <2>3. CASE c > cI + 1
    <3>1. argv[c] = <<>> BY <2>3 DEF Fill
    <3> QED BY <3>1 DEF NullEnded
  <2> QED BY <2>1, <2>2, <2>3
<1>5. <<>> \in Range(argv)
  <2>1. cM \in DOMAIN argv BY <1>1
  <2> QED BY <1>3, <2>1 DEF Range
<1> QED BY <1>4, <1>5

\* An argument is stored, and behind it is a NULL.
LEMMA StoreInFills ==
  ASSUME NEW args \in Seq(Nat), argIdx \in Nat, argMax \in Nat, Len(text) \in Nat,
         Filled(args, argIdx, argMax),
         NEW max, max = IF ArgsGrow THEN argMax + GROW ELSE argMax
  PROVE  /\ max \in Nat /\ argIdx + 1 < max
         /\ StoreIn(args) \in Seq(Nat) /\ Filled(StoreIn(args), argIdx + 1, max)
<1> USE ParserAssumption
<1>1. max \in Nat /\ argIdx + 1 < max
  <2>1. CASE ArgsGrow BY <2>1 DEF Filled
  <2>2. CASE ~ArgsGrow BY <2>2 DEF ArgsGrow
  <2> QED BY <2>1, <2>2
<1>2. /\ GrownArgs(args) \in Seq(Nat) /\ Len(GrownArgs(args)) = max
      /\ \A k \in 1..max : k > argIdx => GrownArgs(args)[k] = NULL
  <2>1. CASE ArgsGrow
    <3>1. argIdx <= Len(args) /\ NULL \in Nat BY DEF Filled, NULL
    <3> DEFINE new == Grow(args, argIdx, max, NULL)
    <3>2. /\ new \in Seq(Nat) /\ Len(new) = max
          /\ \A k \in 1..max : k > argIdx => new[k] = NULL
      BY ONLY <3>1, <1>1, args \in Seq(Nat), argIdx \in Nat, GrowLemma
    <3>3. GrownArgs(args) = new BY <2>1 DEF GrownArgs
    <3> QED BY <3>2, <3>3
  <2>2. CASE ~ArgsGrow
    BY <2>2 DEF GrownArgs, Filled
  <2> QED BY <2>1, <2>2
<1> DEFINE new == StoreIn(args)
<1>3. /\ new \in Seq(Nat) /\ Len(new) = max
      /\ \A k \in 1..max : k # argIdx + 1 => new[k] = GrownArgs(args)[k]
  <2>1. argIdx + 1 \in 1..Len(GrownArgs(args)) /\ Len(text) + 1 \in Nat BY <1>1, <1>2
  <2>2. new = [GrownArgs(args) EXCEPT ![argIdx + 1] = Len(text) + 1] BY DEF StoreIn
  <2> HIDE DEF new
  <2> QED BY <1>2, <2>1, <2>2, StoreLemma
<1> HIDE DEF new
<1>4. \A k \in 1..max : k > argIdx + 1 => new[k] = NULL BY <1>1, <1>2, <1>3
<1>5. Filled(new, argIdx + 1, max) BY <1>1, <1>3, <1>4 DEF Filled
<1> QED BY <1>1, <1>3, <1>5 DEF new

LEMMA StoreInCmdsFills ==
  ASSUME NEW argv \in Seq(Seq(Nat)), {cmdIdx, cmdMax, argIdx, argMax} \subseteq Nat,
         Len(text) \in Nat, Fill(argv, state, cmdIdx, cmdMax, argIdx, argMax),
         NEW cM, cM = IF CmdsGrow THEN cmdMax + GROW ELSE cmdMax,
         NEW aM, aM = IF ArgsGrow THEN argMax + GROW ELSE argMax
  PROVE  /\ cM \in Nat /\ aM \in Nat
         /\ StoreInCmds(argv) \in Seq(Seq(Nat))
         /\ Fill(StoreInCmds(argv), 1, cmdIdx, cM, argIdx + 1, aM)
<1> USE ParserAssumption
<1>0. cmdIdx \in Nat /\ cmdMax \in Nat /\ argIdx \in Nat /\ argMax \in Nat
  OBVIOUS
<1> USE <1>0
<1>1. cM \in Nat /\ cmdIdx + 1 < cM
  <2>1. CASE CmdsGrow BY <2>1 DEF Fill
  <2>2. CASE ~CmdsGrow BY <2>2 DEF CmdsGrow
  <2> QED BY <2>1, <2>2
<1> DEFINE grown == GrownCmds(argv)
<1>2. /\ grown \in Seq(Seq(Nat)) /\ Len(grown) = cM
      /\ \A c \in 1..cM : /\ c > cmdIdx + 1 => grown[c] = <<>>
                          /\ c <= cmdIdx => NullEnded(grown[c])
      /\ Filled(grown[cmdIdx + 1], argIdx, argMax)
  <2>1. CASE CmdsGrow
    <3>1. cmdIdx <= Len(argv) /\ <<>> \in Seq(Nat) BY DEF Fill
    <3> DEFINE new == Grow(argv, cmdIdx, cM, <<>>)
    <3>2. /\ new \in Seq(Seq(Nat)) /\ Len(new) = cM
          /\ \A c \in 1..cM : /\ c <= cmdIdx => new[c] = argv[c]
                              /\ c > cmdIdx => new[c] = <<>>
      <4>1. PICK Args : Args = Seq(Nat) OBVIOUS
      <4>2. argv \in Seq(Args) /\ <<>> \in Args BY <3>1, <4>1
      <4>3. /\ new \in Seq(Args) /\ Len(new) = cM
            /\ \A c \in 1..cM : /\ c <= cmdIdx => new[c] = argv[c]
                                /\ c > cmdIdx => new[c] = <<>>
        BY ONLY <3>1, <4>2, <1>1, cmdIdx \in Nat, GrowLemma
      <4> HIDE DEF new
      <4> QED BY <4>1, <4>3
    <3>3. GrownCmds(argv) = new BY <2>1 DEF GrownCmds
    <3> HIDE DEF new
    <3>5. \A c \in 1..cM : c > cmdIdx => new[c] = <<>>
      BY <3>2
    <3>6. \A c \in 1..cM : c <= cmdIdx => c \in 1..cmdMax /\ new[c] = argv[c]
      BY <3>2 DEF Fill
    <3>7. \A c \in 1..cM : c <= cmdIdx => NullEnded(new[c])
      BY <3>6 DEF Fill
    <3>8. Filled(new[cmdIdx + 1], argIdx, argMax)
      <4>1. cmdIdx + 1 \in 1..cM BY <1>1
      <4>4. new[cmdIdx + 1] = <<>> BY <3>5, <4>1
      <4>2. CASE state \in {1, 2, 3}
        <5>1. cmdIdx + 1 < cmdMax BY <4>2 DEF Fill
        <5>2. cmdIdx >= cmdMax - 1 BY <2>1 DEF CmdsGrow
        <5> QED BY <5>1, <5>2
      <4>3. CASE state \notin {1, 2, 3}
        <5>1. argIdx = 0 /\ argMax = 0 BY <4>3 DEF Fill
        <5> QED BY <4>4, <5>1 DEF Filled
      <4> QED BY <4>2, <4>3
    <3>9. \A c \in 1..cM : c > cmdIdx + 1 => c > cmdIdx BY <1>1
    <3> HIDE DEF grown
    <3> QED BY ONLY <3>2, <3>3, <3>5, <3>7, <3>8, <3>9 DEF grown
  <2>2. CASE ~CmdsGrow
    BY <1>1, <2>2 DEF GrownCmds, Fill
  <2> QED BY <2>1, <2>2
<1>3. cmdIdx + 1 \in 1..cM /\ grown[cmdIdx + 1] \in Seq(Nat)
  <2>1. cmdIdx + 1 \in 1..cM BY <1>1
  <2> HIDE DEF grown
  <2> QED BY <2>1, <1>2
<1> DEFINE args == StoreIn(grown[cmdIdx + 1])
<1>4. /\ aM \in Nat /\ argIdx + 1 < aM /\ args \in Seq(Nat)
      /\ Filled(args, argIdx + 1, aM)
  <2> HIDE DEF grown
  <2> QED BY <1>2, <1>3, StoreInFills
<1>5. StoreInCmds(argv) = [grown EXCEPT ![cmdIdx + 1] = args]
  BY DEF StoreInCmds
<1> DEFINE new == StoreInCmds(argv)
<1> HIDE DEF grown, args, new
<1>6. /\ new \in Seq(Seq(Nat)) /\ Len(new) = cM /\ new[cmdIdx + 1] = args
      /\ \A c \in 1..cM : c # cmdIdx + 1 => new[c] = grown[c]
  BY <1>2, <1>3, <1>4, <1>5, StoreLemma DEF new
<1>7. ASSUME NEW c \in 1..cM PROVE /\ c > cmdIdx + 1 => new[c] = <<>>
                                   /\ c <= cmdIdx => NullEnded(new[c])
  <2>1. c > cmdIdx + 1 \/ c <= cmdIdx => c # cmdIdx + 1 BY <1>0
  <2> QED BY ONLY <2>1, <1>2, <1>6, c \in 1..cM
<1>8. Fill(new, 1, cmdIdx, cM, argIdx + 1, aM)
  <2>1. Filled(new[cmdIdx + 1], argIdx + 1, aM) BY <1>4, <1>6
  <2>2. cM # 0 /\ cmdIdx < cM BY <1>1
  <2> QED BY ONLY <2>1, <2>2, <1>1, <1>4, <1>6, <1>7 DEF Fill
<1> QED BY <1>1, <1>4, <1>6, <1>8 DEF new

\* '|' turns to the next command.
LEMMA NextCommandFills ==
  ASSUME NEW argv \in Seq(Seq(Nat)), NEW cI \in Nat, NEW cM \in Nat,
         NEW aI \in Nat, NEW aM \in Nat, Fill(argv, 1, cI, cM, aI, aM)
  PROVE  Fill(argv, 0, cI + 1, cM, 0, 0)
<1>1. cI + 1 < cM /\ Len(argv) = cM BY DEF Fill
<1>2. Filled(argv[(cI + 1) + 1], 0, 0)
  <2>1. argv[(cI + 1) + 1] = <<>> BY <1>1 DEF Fill
  <2> QED BY <2>1 DEF Filled
<1>3. ASSUME NEW c \in 1..cM PROVE /\ c > (cI + 1) + 1 => argv[c] = <<>>
                                   /\ c <= cI + 1 => NullEnded(argv[c])
  <2>1. CASE c = cI + 1
    <3>1. argv[c] \in Seq(Nat) BY <1>1
    <3>2. Filled(argv[c], aI, aM) BY <2>1, <1>1 DEF Fill
    <3> QED BY <2>1, <3>1, <3>2, FilledIsEnded
  <2>2. CASE c # cI + 1
    BY <2>2 DEF Fill
  <2> QED BY <2>1, <2>2
<1> QED BY <1>1, <1>2, <1>3 DEF Fill

\* A job of which nothing is stored.
LEMMA NothingFills ==
  ASSUME NEW st \in {0, 4}
  PROVE  Fill(<<>>, st, 0, 0, 0, 0)
BY DEF Fill
-----------------------------------------------------------------------------
(* Typing.                                                                 *)

Typed ==
  /\ text \in Seq(Token) /\ Len(text) <= MaxLen
  /\ state \in 0..4 /\ inout \in Redirection /\ jobs \in Seq(Job)
  /\ jobIdx \in Nat /\ cmdIdx \in Nat /\ cmdMax \in Nat /\ argIdx \in Nat
  /\ argMax \in Nat /\ jobBegin \in Nat
  /\ status \in {"parsing", "returned", "undefined", "overrun", "endless"}
  /\ result \in -1..MaxLen /\ error \in -1..8 /\ freed \subseteq Nat

\* A job takes at least one token: what makes the result a number of jobs that
\* a line of MaxLen tokens can have.
Counted == /\ jobIdx <= Len(text)
           /\ state \in {1, 2, 3} => jobIdx + 1 <= Len(text)

\* Nothing is stored without an array, and an array is there from the first
\* argument on.
NoArrays ==
  jobs = <<>> => /\ state = 0 /\ jobIdx = 0 /\ cmdIdx = 0 /\ cmdMax = 0
                 /\ argIdx = 0 /\ argMax = 0
                 /\ status = "parsing" => text = <<>>

\* The job being read, those read, and those to come.
CurrentJob ==
  jobs # <<>> => /\ jobIdx < Len(jobs)
                 /\ Fill(jobs[jobIdx + 1].argv, state, cmdIdx, cmdMax, argIdx, argMax)
OtherJobs == \A i \in 1..Len(jobs) : /\ i <= jobIdx => Ended(jobs[i].argv)
                                     /\ i > jobIdx + 1 => jobs[i].argv = <<>>
SpareJob == cmdMax > 0 => jobIdx + 1 < Len(jobs)

UndefinedAtOnce == status = "undefined" => Len(text) = 1

Arrays == NoArrays /\ CurrentJob /\ OtherJobs /\ SpareJob /\ UndefinedAtOnce

Inv == Typed /\ Counted /\ Arrays

LEMMA InitInv == Init => Inv
<1> SUFFICES ASSUME Init PROVE Inv
  OBVIOUS
<1> USE DEF Init
<1>1. Typed
  <2>1. text \in Seq(Token) /\ Len(text) <= MaxLen /\ result \in -1..MaxLen
    BY ParserAssumption
  <2>2. state \in 0..4 /\ inout \in Redirection /\ jobs \in Seq(Job)
    BY DEF Redirection
  <2>3. error \in -1..8 BY DEF NoError
  <2> QED BY <2>1, <2>2, <2>3 DEF Typed
<1>2. Counted BY DEF Counted
<1>3. Arrays BY DEF Arrays, NoArrays, CurrentJob, OtherJobs, SpareJob, UndefinedAtOnce
<1> QED BY <1>1, <1>2, <1>3 DEF Inv

LEMMA ReadsText ==
  ASSUME Typed, NEW t \in Token, Reads(t)
  PROVE  /\ status = "parsing"
         /\ text' \in Seq(Token) /\ Len(text') = Len(text) + 1
         /\ Len(text') <= MaxLen /\ Len(text) \in Nat
<1>1. Len(text) \in Nat /\ text \in Seq(Token) BY DEF Typed
<1>2. Len(text) < MaxLen /\ MaxLen \in Nat BY ParserAssumption DEF Reads
<1> QED BY <1>1, <1>2, AppendProperties DEF Reads

\* Wherever the reading ends, the arrays are as they were.
LEMMA StopKeeps ==
  ASSUME Inv, UNCHANGED <<state, inout, jobs, indexVars, jobBegin, freed>>,
         status = "parsing",
         status' \in {"returned", "endless", "overrun", "undefined"},
         \/ \E t \in Token : Reads(t)
         \/ text' = text,
         status' = "undefined" => Len(text') = 1,
         result' \in -1..MaxLen, error' \in -1..8
  PROVE  Inv'
<1>1. /\ text' \in Seq(Token) /\ Len(text') <= MaxLen /\ Len(text) <= Len(text')
      /\ Len(text) \in Nat
  BY ReadsText DEF Inv, Typed
<1>2. Typed' BY <1>1 DEF Inv, Typed, indexVars
<1>3. Counted'
  <2>1. Len(text') \in Nat BY <1>1
  <2> QED BY <1>1, <2>1 DEF Inv, Typed, Counted, indexVars
<1>4. NoArrays' BY DEF Inv, Arrays, NoArrays, indexVars
<1>5. CurrentJob' /\ OtherJobs' /\ SpareJob'
  BY DEF Inv, Arrays, CurrentJob, OtherJobs, SpareJob, indexVars
<1>6. UndefinedAtOnce' BY DEF UndefinedAtOnce
<1> QED BY <1>2, <1>3, <1>4, <1>5, <1>6 DEF Inv, Arrays

LEMMA ErrorInv ==
  ASSUME Inv, status = "parsing", \/ \E t \in Token : Reads(t)
                                  \/ text' = text,
         NEW code \in -1..8, parseline_error(code)
  PROVE  Inv'
<1>1. /\ UNCHANGED <<state, inout, jobs, indexVars, jobBegin, freed>>
      /\ status' = "returned" /\ result' = -1 /\ error' = code
  BY DEF parseline_error
<1>2. result' \in -1..MaxLen BY <1>1, ParserAssumption
<1>3. /\ status' \in {"returned", "endless", "overrun", "undefined"} /\ error' \in -1..8
      /\ status' = "undefined" => Len(text') = 1
  BY <1>1
<1> QED BY <1>1, <1>2, <1>3, StopKeeps

LEMMA JobTyped ==
  ASSUME Typed, NEW i \in 1..Len(jobs)
  PROVE  jobs[i] \in Job /\ jobs[i].argv \in Seq(Seq(Nat))
<1>1. jobs[i] \in Job BY DEF Typed
<1> QED BY <1>1 DEF Job

LEMMA PipeInv == Inv /\ Pipe => Inv'
<1> SUFFICES ASSUME Inv, Pipe PROVE Inv'
  OBVIOUS
<1>0. "|" \in Token /\ Reads("|") /\ state \in -1..8 /\ status = "parsing"
  BY DEF Token, Pipe, Inv, Typed, Reads
<1>1. CASE parseline_error(state)
  BY <1>0, <1>1, ErrorInv
<1>2. CASE /\ state = 1
           /\ cmdIdx' = cmdIdx + 1 /\ argIdx' = 0 /\ argMax' = 0 /\ state' = 0
           /\ UNCHANGED <<inout, jobs, jobIdx, cmdMax, jobBegin, status, result,
                          error, freed>>
  <2>0. /\ text' \in Seq(Token) /\ Len(text') = Len(text) + 1
        /\ Len(text') <= MaxLen /\ Len(text) \in Nat
    BY <1>0, ReadsText DEF Inv
  <2>1. Typed' BY <1>2, <2>0 DEF Inv, Typed
  <2>2. Counted' BY <1>2, <2>0 DEF Inv, Typed, Counted
  <2>3. jobs # <<>> BY <1>2 DEF Inv, Arrays, NoArrays
  <2>4. NoArrays' BY <1>2, <2>3 DEF NoArrays
  <2>5. CurrentJob'
    <3>1. jobIdx < Len(jobs) /\ Fill(jobs[jobIdx + 1].argv, 1, cmdIdx, cmdMax, argIdx, argMax)
      BY <1>2, <2>3 DEF Inv, Arrays, CurrentJob
    <3>2. jobs[jobIdx + 1].argv \in Seq(Seq(Nat))
      BY <3>1, JobTyped DEF Inv, Typed
    <3>3. Fill(jobs[jobIdx + 1].argv, 0, cmdIdx + 1, cmdMax, 0, 0)
      BY <3>1, <3>2, NextCommandFills DEF Inv, Typed
    <3> QED BY <3>1, <3>3, <1>2 DEF CurrentJob
  <2>6. OtherJobs' /\ SpareJob' /\ UndefinedAtOnce'
    BY <1>0, <1>2 DEF Inv, Arrays, OtherJobs, SpareJob, UndefinedAtOnce
  <2> QED BY <2>1, <2>2, <2>4, <2>5, <2>6 DEF Inv, Arrays
<1> QED BY <1>1, <1>2 DEF Pipe

LEMMA RedirectInv == ASSUME NEW t \in Redirection PROVE Inv /\ Redirect(t) => Inv'
<1> SUFFICES ASSUME Inv, Redirect(t) PROVE Inv'
  OBVIOUS
<1>0. t \in Token /\ Reads(t) /\ state \in -1..8 /\ status = "parsing"
  BY DEF Token, Redirection, Redirect, Inv, Typed, Reads
<1>a. /\ text' \in Seq(Token) /\ Len(text') = Len(text) + 1
      /\ Len(text') <= MaxLen /\ Len(text) \in Nat
  BY <1>0, ReadsText DEF Inv
<1>1. CASE /\ NoEntry /\ status' = "undefined"
           /\ UNCHANGED <<state, inout, jobs, indexVars, jobBegin, result, error,
                          freed>>
  <2>1. jobs = <<>>
    BY <1>1 DEF NoEntry, Inv, Typed, Arrays, CurrentJob
  <2>2. Len(text') = 1 BY <1>0, <1>a, <2>1 DEF Inv, Arrays, NoArrays
  <2>3. result' \in -1..MaxLen /\ error' \in -1..8 BY <1>1 DEF Inv, Typed
  <2> QED BY <1>0, <1>1, <2>2, <2>3, StopKeeps
<1>2. CASE parseline_error(IF t = "<" THEN 7 ELSE 8)
  BY <1>0, <1>2, ErrorInv
<1>3. CASE parseline_error(state)
  BY <1>0, <1>3, ErrorInv
<1>4. CASE /\ ~NoEntry /\ File(t) = NULL /\ state \in {1, 3}
           /\ state' = 2 /\ inout' = t
           /\ UNCHANGED <<jobs, indexVars, jobBegin, status, result, error, freed>>
  <2>1. Typed' BY <1>4, <1>a DEF Inv, Typed, indexVars
  <2>2. Counted' BY <1>4, <1>a DEF Inv, Typed, Counted, indexVars
  <2>3. jobs # <<>> BY <1>4 DEF Inv, Arrays, NoArrays
  <2>4. NoArrays' BY <1>4, <2>3 DEF NoArrays
  <2>5. CurrentJob' BY <1>4 DEF Inv, Arrays, CurrentJob, Fill, indexVars
  <2>6. OtherJobs' /\ SpareJob' /\ UndefinedAtOnce'
    BY <1>0, <1>4 DEF Inv, Arrays, OtherJobs, SpareJob, UndefinedAtOnce, indexVars
  <2> QED BY <2>1, <2>2, <2>4, <2>5, <2>6 DEF Inv, Arrays
<1> QED BY <1>1, <1>2, <1>3, <1>4 DEF Redirect
LEMMA BackgroundInv == Inv /\ Background => Inv'
<1> SUFFICES ASSUME Inv, Background PROVE Inv'
  OBVIOUS
<1>0. "&" \in Token /\ Reads("&") /\ state \in -1..8 /\ status = "parsing"
  BY DEF Token, Background, Inv, Typed, Reads
<1>1. CASE parseline_error(state)
  BY <1>0, <1>1, ErrorInv
<1>2. CASE /\ state \in {1, 3}
           /\ jobs' = [jobs EXCEPT ![jobIdx + 1].num = cmdIdx + 1,
                                   ![jobIdx + 1].begin = jobBegin,
                                   ![jobIdx + 1].mode = "background"]
           /\ jobIdx' = jobIdx + 1
           /\ cmdIdx' = 0 /\ cmdMax' = 0 /\ argIdx' = 0 /\ argMax' = 0
           /\ state' = 4
           /\ UNCHANGED <<inout, jobBegin, status, result, error, freed>>
  <2> DEFINE k == jobIdx + 1
             s == Num(jobs, k, cmdIdx + 1)
             t == Begin(s, k, jobBegin)
             u == Mode(t, k, "background")
  <2>0. /\ text' \in Seq(Token) /\ Len(text') = Len(text) + 1
        /\ Len(text') <= MaxLen /\ Len(text) \in Nat
    BY <1>0, ReadsText DEF Inv
  <2>1. jobs # <<>> BY <1>2 DEF Inv, Arrays, NoArrays
  <2>2. /\ jobIdx < Len(jobs) /\ k \in 1..Len(jobs)
        /\ Fill(jobs[k].argv, state, cmdIdx, cmdMax, argIdx, argMax)
    BY <2>1 DEF Inv, Typed, Arrays, CurrentJob
  <2>3. k < Len(jobs)
    <3>1. cmdMax > 0 BY <1>2, <2>2 DEF Inv, Typed, Fill
    <3> QED BY <3>1 DEF Inv, Arrays, SpareJob
  <2>4. u \in Seq(Job) /\ SameArgv(jobs, u)
    <3>1. jobs \in Seq(Job) /\ cmdIdx + 1 \in Nat /\ jobBegin \in Nat
      BY DEF Inv, Typed
    <3>2. s \in Seq(Job) /\ SameArgv(jobs, s)
      BY <3>1, <2>2, FieldLemma
    <3>3. Len(s) = Len(jobs) BY <3>2 DEF SameArgv
    <3> HIDE DEF s
    <3>4. t \in Seq(Job) /\ SameArgv(s, t)
      BY <3>1, <3>2, <3>3, <2>2, FieldLemma
    <3>5. Len(t) = Len(jobs) BY <3>3, <3>4 DEF SameArgv
    <3> HIDE DEF t
    <3>6. u \in Seq(Job) /\ SameArgv(t, u)
      BY <3>4, <3>5, <2>2, FieldLemma
    <3> HIDE DEF u
    <3> QED BY <3>2, <3>4, <3>6 DEF SameArgv
  <2>5. jobs' = u BY <1>2 DEF Num, Begin, Mode
  <2> HIDE DEF u
  <2>6. /\ jobs' \in Seq(Job) /\ Len(jobs') = Len(jobs)
        /\ \A i \in 1..Len(jobs) : jobs'[i].argv = jobs[i].argv
    BY <2>4, <2>5 DEF SameArgv
  <2>7. Typed' BY <1>2, <2>0, <2>6 DEF Inv, Typed
  <2>8. Counted' BY <1>2, <2>0 DEF Inv, Typed, Counted
  <2>9. NoArrays' BY <2>2, <2>6 DEF NoArrays
  <2>10. CurrentJob'
    <3>1. k + 1 \in 1..Len(jobs) /\ k + 1 > jobIdx + 1 BY <2>2, <2>3 DEF Inv, Typed
    <3>2. jobs'[k + 1].argv = <<>>
      BY <2>6, <3>1 DEF Inv, Arrays, OtherJobs
    <3>3. Fill(jobs'[jobIdx' + 1].argv, state', cmdIdx', cmdMax', argIdx', argMax')
      BY <1>2, <3>2, NothingFills
    <3> QED BY <1>2, <2>3, <2>6, <3>3 DEF CurrentJob
  <2>11. OtherJobs'
    <3> SUFFICES ASSUME NEW i \in 1..Len(jobs)
                 PROVE  /\ i <= jobIdx + 1 => Ended(jobs[i].argv)
                        /\ i > (jobIdx + 1) + 1 => jobs[i].argv = <<>>
      BY <1>2, <2>6 DEF OtherJobs
    <3>1. CASE i = k
      <4>1. jobs[k].argv \in Seq(Seq(Nat)) BY <2>2, JobTyped DEF Inv
      <4>2. Ended(jobs[k].argv) BY <4>1, <2>2, FillIsEnded DEF Inv, Typed
      <4> QED BY <3>1, <4>2 DEF Inv, Typed
    <3>2. CASE i # k
      BY <3>2 DEF Inv, Typed, Arrays, OtherJobs
    <3> QED BY <3>1, <3>2
  <2>12. SpareJob' /\ UndefinedAtOnce'
    BY <1>0, <1>2 DEF SpareJob, UndefinedAtOnce
  <2> QED BY <2>7, <2>8, <2>9, <2>10, <2>11, <2>12 DEF Inv, Arrays
<1> QED BY <1>1, <1>2 DEF Background

LEMMA FileNameInv == Inv /\ FileName => Inv'
<1> SUFFICES ASSUME Inv, FileName PROVE Inv'
  OBVIOUS
<1> DEFINE k == jobIdx + 1
           n == Len(text) + 1
<1>0. /\ "word" \in Token /\ Reads("word") /\ status = "parsing" /\ state = 2
      /\ state' = 3
      /\ UNCHANGED <<inout, indexVars, jobBegin, status, result, error, freed>>
  BY DEF Token, FileName, Reads
<1>1. /\ text' \in Seq(Token) /\ Len(text') = Len(text) + 1
      /\ Len(text') <= MaxLen /\ Len(text) \in Nat
  BY <1>0, ReadsText DEF Inv
<1>2. jobs # <<>> BY <1>0 DEF Inv, Arrays, NoArrays
<1>3. /\ k \in 1..Len(jobs)
      /\ Fill(jobs[k].argv, state, cmdIdx, cmdMax, argIdx, argMax)
  BY <1>2 DEF Inv, Typed, Arrays, CurrentJob
<1>4. jobs' \in Seq(Job) /\ SameArgv(jobs, jobs')
  <2>1. jobs' = In(jobs, k, n) \/ jobs' = Out(jobs, k, n)
    BY DEF FileName, In, Out
  <2>2. jobs \in Seq(Job) /\ n \in Nat BY <1>1 DEF Inv, Typed
  <2> QED BY <2>1, <2>2, <1>3, FieldLemma
<1>5. Len(jobs') = Len(jobs) /\ \A i \in 1..Len(jobs) : jobs'[i].argv = jobs[i].argv
  BY <1>4 DEF SameArgv
<1>6. Typed' BY <1>0, <1>1, <1>4 DEF Inv, Typed, indexVars
<1>7. Counted' BY <1>0, <1>1 DEF Inv, Typed, Counted, indexVars
<1>8. NoArrays' BY <1>3, <1>5 DEF NoArrays
<1>9. CurrentJob'
  <2>1. Fill(jobs[k].argv, 3, cmdIdx, cmdMax, argIdx, argMax)
    BY <1>0, <1>3 DEF Fill
  <2> QED BY <1>0, <1>3, <1>5, <2>1 DEF CurrentJob, indexVars, Inv, Typed
<1>10. OtherJobs' /\ SpareJob' /\ UndefinedAtOnce'
  BY <1>0, <1>5 DEF Inv, Arrays, OtherJobs, SpareJob, UndefinedAtOnce, indexVars
<1> QED BY <1>6, <1>7, <1>8, <1>9, <1>10 DEF Inv, Arrays
\* The arrays of jobs have room for the current job and a NULL behind it.
LEMMA GrownJobsLemma ==
  ASSUME Inv, state \in {0, 1, 4}
  PROVE  /\ GrownJobs \in Seq(Job) /\ jobIdx + 1 < Len(GrownJobs)
         /\ Fill(GrownJobs[jobIdx + 1].argv, state, cmdIdx, cmdMax, argIdx, argMax)
         /\ \A i \in 1..Len(GrownJobs) :
              /\ i <= jobIdx => Ended(GrownJobs[i].argv)
              /\ i > jobIdx + 1 => GrownJobs[i].argv = <<>>
<1>0. jobs \in Seq(Job) /\ Len(jobs) \in Nat /\ jobIdx \in Nat /\ cmdMax \in Nat
  BY DEF Inv, Typed
<1>1. CASE ~JobsGrow
  <2>1. jobIdx + 1 < Len(jobs) /\ jobs # <<>> BY <1>0, <1>1 DEF JobsGrow
  <2> QED BY <1>0, <1>1, <2>1 DEF Inv, Arrays, CurrentJob, OtherJobs, GrownJobs
<1>2. CASE JobsGrow
  <2> DEFINE new == Grow(jobs, jobIdx, Len(jobs) + GROW, NoJob)
  <2>1. NoJob \in Job BY DEF NoJob, Job, NULL
  <2>2. jobIdx <= Len(jobs) BY <1>0 DEF Inv, Arrays, NoArrays, CurrentJob
  <2>3. PICK max \in Nat : max = Len(jobs) + GROW BY <1>0, ParserAssumption
  <2>4. PICK none \in Job : none = NoJob BY <2>1
  <2>5. GrownJobs = Grow(jobs, jobIdx, max, none) BY <1>2, <2>3, <2>4 DEF GrownJobs
  <2>6. /\ GrownJobs \in Seq(Job) /\ Len(GrownJobs) = max
        /\ \A i \in 1..max : /\ i <= jobIdx => GrownJobs[i] = jobs[i]
                             /\ i > jobIdx => GrownJobs[i] = none
    <3> DEFINE grown == Grow(jobs, jobIdx, max, none)
    <3>1. grown \in Seq(Job) /\ Len(grown) = max
      BY ONLY <1>0, <2>2, GrowLemma, max \in Nat, none \in Job
    <3>2. \A i \in 1..max : i <= jobIdx => grown[i] = jobs[i]
      BY ONLY <1>0, <2>2, GrowLemma, max \in Nat, none \in Job
    <3>3. \A i \in 1..max : i > jobIdx => grown[i] = none
      BY ONLY <1>0, <2>2, GrowLemma, max \in Nat, none \in Job
    <3>4. GrownJobs = grown BY <2>5
    <3> HIDE DEF grown
    <3> QED BY ONLY <3>1, <3>2, <3>3, <3>4
  <2>7. jobIdx + 1 < max BY <1>0, <2>2, <2>3, ParserAssumption
  <2>8. none.argv = <<>> BY <2>4 DEF NoJob
  <2>9. GrownJobs[jobIdx + 1].argv = <<>>
    BY <1>0, <2>6, <2>7, <2>8
  <2>10. Fill(<<>>, state, cmdIdx, cmdMax, argIdx, argMax)
    <3>1. CASE jobs = <<>>
      BY <3>1, NothingFills DEF Inv, Arrays, NoArrays
    <3>2. CASE jobs # <<>>
      <4>1. /\ jobIdx < Len(jobs) /\ cmdMax = 0
            /\ Fill(jobs[jobIdx + 1].argv, state, cmdIdx, cmdMax, argIdx, argMax)
        BY <1>0, <1>2, <3>2 DEF JobsGrow, Inv, Arrays, CurrentJob, SpareJob
      <4>2. jobIdx + 1 \in 1..Len(jobs) BY <1>0, <4>1
      <4>3. jobs[jobIdx + 1].argv \in Seq(Seq(Nat)) BY <4>2, JobTyped DEF Inv
      <4>4. jobs[jobIdx + 1].argv = <<>> BY <4>1, <4>3 DEF Fill
      <4> QED BY <4>1, <4>4
    <3> QED BY <3>1, <3>2
  <2>11. ASSUME NEW i \in 1..max
         PROVE /\ i <= jobIdx => Ended(GrownJobs[i].argv)
               /\ i > jobIdx + 1 => GrownJobs[i].argv = <<>>
    <3>1. ASSUME i <= jobIdx PROVE Ended(GrownJobs[i].argv)
      <4>1. i \in 1..Len(jobs) BY <1>0, <2>2, <3>1
      <4> QED BY <3>1, <4>1, <2>6 DEF Inv, Arrays, OtherJobs
    <3>2. ASSUME i > jobIdx + 1 PROVE GrownJobs[i].argv = <<>>
      <4>1. i > jobIdx BY <1>0, <3>2
      <4> QED BY <4>1, <2>6, <2>8
    <3> QED BY <3>1, <3>2
  <2> QED BY <2>6, <2>7, <2>9, <2>10, <2>11
<1> QED BY <1>1, <1>2

LEMMA ArgumentInv == Inv /\ Argument => Inv'
<1> SUFFICES ASSUME Inv, Argument PROVE Inv'
  OBVIOUS
<1> DEFINE k == jobIdx + 1
           g == GrownJobs
           new == StoreInCmds(g[k].argv)
           mode == IF g[k].mode = "undefined" THEN "foreground" ELSE g[k].mode
           s == Argv(g, k, new)
<1>0. /\ "word" \in Token /\ Reads("word") /\ status = "parsing"
      /\ state \in {0, 1, 4} /\ state' = 1 /\ argIdx' = argIdx + 1
      /\ UNCHANGED <<inout, jobIdx, cmdIdx, status, result, error, freed>>
  BY DEF Token, Argument, Reads, Inv, Typed
<1>1. /\ text' \in Seq(Token) /\ Len(text') = Len(text) + 1
      /\ Len(text') <= MaxLen /\ Len(text) \in Nat
  BY <1>0, ReadsText DEF Inv
<1>2. /\ g \in Seq(Job) /\ k < Len(g)
      /\ Fill(g[k].argv, state, cmdIdx, cmdMax, argIdx, argMax)
      /\ \A i \in 1..Len(g) : /\ i <= jobIdx => Ended(g[i].argv)
                              /\ i > k => g[i].argv = <<>>
  BY <1>0, GrownJobsLemma
<1>3. /\ jobIdx \in Nat /\ k \in 1..Len(g)
      /\ {cmdIdx, cmdMax, argIdx, argMax} \subseteq Nat
      /\ g[k].argv \in Seq(Seq(Nat))
      /\ g[k].mode \in {"undefined", "foreground", "background"}
  <2>1. jobIdx \in Nat /\ k \in 1..Len(g) BY <1>2 DEF Inv, Typed
  <2>2. g[k] \in Job BY <1>2, <2>1
  <2> QED BY <2>1, <2>2 DEF Inv, Typed, Job
<1>4. /\ cmdMax' \in Nat /\ argMax' \in Nat
      /\ new \in Seq(Seq(Nat)) /\ Fill(new, 1, cmdIdx, cmdMax', argIdx + 1, argMax')
  <2>1. /\ cmdMax' = IF CmdsGrow THEN cmdMax + GROW ELSE cmdMax
        /\ argMax' = IF ArgsGrow THEN argMax + GROW ELSE argMax
    BY DEF Argument
  <2> HIDE DEF g
  <2> QED BY <1>1, <1>2, <1>3, <2>1, StoreInCmdsFills
<1>5. jobs' = Mode(s, k, mode)
  <2>1. jobs' = [g EXCEPT ![k].argv = StoreInCmds(@),
                          ![k].mode = IF @ = "undefined" THEN "foreground" ELSE @]
    BY DEF Argument
  <2>2. s[k].mode = g[k].mode /\ k \in DOMAIN g BY <1>2, <1>3 DEF Argv, Job
  <2> HIDE DEF g
  <2> QED BY <2>1, <2>2 DEF Argv, Mode
<1> HIDE DEF g, new, mode
<1>6. /\ s \in Seq(Job) /\ Len(s) = Len(g) /\ s[k] = [g[k] EXCEPT !.argv = new]
      /\ \A i \in 1..Len(g) : i # k => s[i] = g[i]
  <2>0. g \in Seq(Job) /\ k \in 1..Len(g) /\ new \in Seq(Seq(Nat))
    BY <1>2, <1>3, <1>4
  <2>1. s = Argv(g, k, new) OBVIOUS
  <2> HIDE DEF s, k
  <2> QED BY ONLY <2>0, <2>1, ArgvLemma
<1> HIDE DEF s
<1>7. s[k].argv = new
  <2>1. g[k] \in Job BY <1>2, <1>3
  <2> QED BY <2>1, <1>6 DEF Job
<1>8. /\ jobs' \in Seq(Job) /\ Len(jobs') = Len(g) /\ jobs'[k].argv = new
      /\ \A i \in 1..Len(g) : i # k => jobs'[i].argv = g[i].argv
  <2>1. mode \in {"undefined", "foreground", "background"} BY <1>3 DEF mode
  <2>2. jobs' \in Seq(Job) /\ SameArgv(s, jobs')
    BY <1>3, <1>5, <1>6, <2>1, FieldLemma
  <2> QED BY <1>3, <1>6, <1>7, <2>2 DEF SameArgv
<1>9. Typed'
  <2>1. jobBegin' \in Nat BY <1>1 DEF Argument, Inv, Typed
  <2> QED BY <1>0, <1>1, <1>4, <1>8, <2>1 DEF Inv, Typed
<1>10. Counted'
  <2>1. jobIdx <= Len(text) BY DEF Inv, Counted
  <2> QED BY <1>0, <1>1, <1>3, <2>1 DEF Counted
<1>11. NoArrays' BY <1>2, <1>3, <1>8 DEF NoArrays
<1>12. CurrentJob' BY <1>0, <1>2, <1>3, <1>4, <1>8 DEF CurrentJob
<1>13. OtherJobs'
  <2> SUFFICES ASSUME NEW i \in 1..Len(g)
               PROVE  /\ i <= jobIdx => Ended(jobs'[i].argv)
                      /\ i > k => jobs'[i].argv = <<>>
    BY <1>0, <1>8 DEF OtherJobs
  <2>1. i <= jobIdx \/ i > k => i # k BY <1>3
  <2> QED BY <1>2, <1>8, <2>1
<1>14. SpareJob' /\ UndefinedAtOnce' BY <1>0, <1>2, <1>8 DEF SpareJob, UndefinedAtOnce
<1> QED BY <1>9, <1>10, <1>11, <1>12, <1>13, <1>14 DEF Inv, Arrays

LEMMA MisplacedInv == Inv /\ (Misplaced \/ OutOfMemory) => Inv'
<1> SUFFICES ASSUME Inv, Misplaced \/ OutOfMemory PROVE Inv'
  OBVIOUS
<1>1. PICK code \in -1..8, t \in Token : Reads(t) /\ parseline_error(code)
  <2>1. 3 \in -1..8 /\ 6 \in -1..8 OBVIOUS
  <2>2. "word" \in Token BY DEF Token
  <2> QED BY <2>1, <2>2 DEF Misplaced, OutOfMemory
<1>2. status = "parsing" BY <1>1 DEF Reads
<1> QED BY <1>1, <1>2, ErrorInv

LEMMA UnquotedInv == Inv /\ Unquoted => Inv'
<1> SUFFICES ASSUME Inv, Unquoted PROVE Inv'
  OBVIOUS
<1>0. /\ "quote" \in Token /\ Reads("quote") /\ status = "parsing"
      /\ 3 \in -1..8 /\ 5 \in -1..8
  BY DEF Token, Unquoted, Reads
<1>1. CASE parseline_error(3) BY <1>0, <1>1, ErrorInv
<1>2. CASE parseline_error(5) BY <1>0, <1>2, ErrorInv
<1>3. CASE /\ status' = "overrun"
           /\ UNCHANGED <<state, inout, jobs, indexVars, jobBegin, result, error,
                          freed>>
  <2>1. result' \in -1..MaxLen /\ error' \in -1..8 BY <1>3 DEF Inv, Typed
  <2> QED BY <1>0, <1>3, <2>1, StopKeeps
<1> QED BY <1>1, <1>2, <1>3 DEF Unquoted

LEMMA CutOffInv == Inv /\ CutOff => Inv'
<1> SUFFICES ASSUME Inv, CutOff PROVE Inv'
  OBVIOUS
<1>0. "nul" \in Token /\ Reads("nul") /\ status = "parsing" /\ 3 \in -1..8
  BY DEF Token, CutOff, Reads
<1>1. CASE parseline_error(3)
  BY <1>0, <1>1, ErrorInv
<1>2. CASE /\ status' = "endless"
           /\ UNCHANGED <<state, inout, jobs, indexVars, jobBegin, result, error,
                          freed>>
  <2>1. result' \in -1..MaxLen /\ error' \in -1..8 BY <1>2 DEF Inv, Typed
  <2> QED BY <1>0, <1>2, <2>1, StopKeeps
<1> QED BY <1>1, <1>2 DEF CutOff
LEMMA NewlineInv == Inv /\ Newline => Inv'
<1> SUFFICES ASSUME Inv, Newline PROVE Inv'
  OBVIOUS
<1>1. CASE parseline_error(state)
  <2>1. status = "parsing" /\ text' = text /\ state \in -1..8
    BY DEF Newline, Inv, Typed
  <2> QED BY <1>1, <2>1, ErrorInv
<1>2. CASE /\ state \in {0, 2} => jobs = <<>>
           /\ jobs' = IF state \in {1, 3}
                      THEN [jobs EXCEPT ![jobIdx + 1].num = cmdIdx + 1,
                                        ![jobIdx + 1].begin = jobBegin]
                      ELSE jobs
           /\ status' = "returned"
           /\ result' = IF state = 0 /\ jobIdx = 0 THEN 0
                        ELSE IF state = 4 THEN jobIdx ELSE jobIdx + 1
           /\ UNCHANGED <<state, inout, indexVars, jobBegin, error, freed>>
  <2>0. text' = text /\ status = "parsing" BY DEF Newline
  <2>1. result' \in -1..MaxLen
    <3>1. jobIdx \in Nat /\ Len(text) \in Nat /\ Len(text) <= MaxLen /\ MaxLen \in Nat
      BY ParserAssumption DEF Inv, Typed
    <3>2. CASE state = 0
      <4>1. jobIdx = 0 BY <1>2, <3>2 DEF Inv, Arrays, NoArrays
      <4> QED BY <1>2, <3>1, <3>2, <4>1
    <3>3. CASE state = 2
      <4>1. FALSE BY <1>2, <3>3 DEF Inv, Arrays, NoArrays
      <4> QED BY <4>1
    <3>4. CASE state = 4
      <4>1. jobIdx <= Len(text) BY DEF Inv, Counted
      <4> QED BY <1>2, <3>1, <3>4, <4>1
    <3>5. CASE state \in {1, 3}
      <4>1. jobIdx + 1 <= Len(text) BY <3>5 DEF Inv, Counted
      <4>2. result' = jobIdx + 1 BY <1>2, <3>5
      <4> QED BY <3>1, <4>1, <4>2
    <3>6. state \in 0..4 BY DEF Inv, Typed
    <3> QED BY <3>2, <3>3, <3>4, <3>5, <3>6
  <2>2. jobs' \in Seq(Job) /\ SameArgv(jobs, jobs')
    <3>1. CASE state \in {1, 3}
      <4> DEFINE k == jobIdx + 1
                 s == Num(jobs, k, cmdIdx + 1)
                 t == Begin(s, k, jobBegin)
      <4>1. jobs # <<>> BY <3>1 DEF Inv, Arrays, NoArrays
      <4>2. k \in 1..Len(jobs) BY <4>1 DEF Inv, Typed, Arrays, CurrentJob
      <4>3. jobs \in Seq(Job) /\ cmdIdx + 1 \in Nat /\ jobBegin \in Nat
        BY DEF Inv, Typed
      <4>4. s \in Seq(Job) /\ SameArgv(jobs, s) BY <4>2, <4>3, FieldLemma
      <4>5. jobs' = t BY <1>2, <3>1 DEF Num, Begin
      <4>6. Len(s) = Len(jobs) BY <4>4 DEF SameArgv
      <4> HIDE DEF s
      <4>7. t \in Seq(Job) /\ SameArgv(s, t) BY <4>2, <4>3, <4>4, <4>6, FieldLemma
      <4> HIDE DEF t
      <4> QED BY <4>4, <4>5, <4>7 DEF SameArgv
    <3>2. CASE state \notin {1, 3}
      BY <1>2, <3>2 DEF SameArgv, Inv, Typed
    <3> QED BY <3>1, <3>2
  <2>3. Len(jobs') = Len(jobs) /\ \A i \in 1..Len(jobs) : jobs'[i].argv = jobs[i].argv
    BY <2>2 DEF SameArgv
  <2>4. Typed' BY <1>2, <2>0, <2>1, <2>2 DEF Inv, Typed, indexVars
  <2>5. Counted' BY <1>2, <2>0 DEF Inv, Counted, indexVars
  <2>6. jobs' = <<>> <=> jobs = <<>> BY <2>2, <2>3 DEF Inv, Typed
  <2>7. NoArrays' BY <1>2, <2>6 DEF Inv, Arrays, NoArrays, indexVars
  <2>8. CurrentJob'
    <3> SUFFICES ASSUME jobs # <<>>
                 PROVE  /\ jobIdx < Len(jobs')
                        /\ Fill(jobs'[jobIdx + 1].argv, state, cmdIdx, cmdMax,
                                argIdx, argMax)
      BY <1>2, <2>6 DEF CurrentJob, indexVars
    <3>1. /\ jobIdx < Len(jobs)
          /\ Fill(jobs[jobIdx + 1].argv, state, cmdIdx, cmdMax, argIdx, argMax)
      BY DEF Inv, Arrays, CurrentJob
    <3>2. jobIdx + 1 \in 1..Len(jobs) BY <3>1 DEF Inv, Typed
    <3> QED BY <2>3, <3>1, <3>2
  <2>9. OtherJobs' /\ SpareJob' /\ UndefinedAtOnce'
    BY <1>2, <2>3 DEF Inv, Arrays, OtherJobs, SpareJob, UndefinedAtOnce, indexVars
  <2> QED BY <2>4, <2>5, <2>7, <2>8, <2>9 DEF Inv, Arrays
<1> QED BY <1>1, <1>2 DEF Newline

\* What a walk to the first null sees are elements of the array.
LEMMA WalkLemma ==
  ASSUME NEW S, NEW array \in Seq(S), NEW null
  PROVE  /\ Walk(array, null) \in Seq(S) /\ Len(Walk(array, null)) <= Len(array)
         /\ \A i \in 1..Len(Walk(array, null)) : Walk(array, null)[i] = array[i]
<1> DEFINE ends == {i \in 1..Len(array) : array[i] = null}
           end == SelectInSeq(array, LAMBDA x : x = null)
<1>1. end = IF ends # {} THEN Min(ends) ELSE 0
  BY DEF SelectInSeq
<1>2. ends # {} => Min(ends) \in ends
  <2>1. ends \subseteq Nat OBVIOUS
  <2> HIDE DEF ends
  <2> QED BY <2>1, MinLemma
<1>3. end \in 0..Len(array) BY <1>1, <1>2
<1>4. Walk(array, null) = IF end = 0 THEN array ELSE SubSeq(array, 1, end - 1)
  BY DEF Walk
<1> HIDE DEF end
<1>5. CASE end = 0
  BY <1>4, <1>5
<1>6. CASE end # 0
  <2>1. end - 1 \in 0..Len(array) BY <1>3, <1>6
  <2>2. PICK n \in 0..Len(array) : n = end - 1 BY <2>1
  <2>3. /\ SubSeq(array, 1, n) \in Seq(S) /\ Len(SubSeq(array, 1, n)) = n
        /\ \A i \in 1..n : SubSeq(array, 1, n)[i] = array[i]
    OBVIOUS
  <2> QED BY <1>4, <1>6, <2>2, <2>3
<1> QED BY <1>5, <1>6
LEMMA CommandsTyped ==
  ASSUME Typed, NEW i \in 1..Len(jobs), NEW args \in Range(Commands(i))
  PROVE  Range(args) \subseteq Nat
<1> DEFINE argv == Walk(jobs[i].argv, <<>>)
<1>1. jobs[i].argv \in Seq(Seq(Nat)) BY JobTyped
<1>2. argv \in Seq(Seq(Nat)) BY <1>1, WalkLemma
<1>3. Commands(i) = [c \in DOMAIN argv |-> Walk(argv[c], NULL)]
  BY DEF Commands
<1> HIDE DEF argv
<1>4. PICK c \in DOMAIN argv : args = Walk(argv[c], NULL)
  BY <1>3 DEF Range
<1>5. argv[c] \in Seq(Nat) BY <1>2, <1>4
<1>6. args \in Seq(Nat) BY <1>4, <1>5, WalkLemma
<1> QED BY <1>6 DEF Range

LEMMA FreeInv == Inv /\ free_cmdstruct => Inv'
<1> SUFFICES ASSUME Inv, free_cmdstruct PROVE Inv'
  OBVIOUS
<1>1. UNCHANGED <<text, state, inout, jobs, indexVars, jobBegin, status, result,
                  error>>
  BY DEF free_cmdstruct
<1>2. freed' \subseteq Nat
  <2> SUFFICES ASSUME NEW i \in DOMAIN Walk(jobs, NoJob)
               PROVE  /\ \A args \in Range(Commands(i)) : Range(args) \subseteq Nat
                      /\ {jobs[i].infile, jobs[i].outfile} \subseteq Nat
    <3> DEFINE Of(i) == (UNION {Range(args) : args \in Range(Commands(i))})
                          \cup ({jobs[i].infile, jobs[i].outfile} \ {NULL})
    <3>1. freed' = UNION {Of(i) : i \in DOMAIN Walk(jobs, NoJob)}
      BY DEF free_cmdstruct
    <3>2. ASSUME NEW i, \A args \in Range(Commands(i)) : Range(args) \subseteq Nat,
                 {jobs[i].infile, jobs[i].outfile} \subseteq Nat
          PROVE  Of(i) \subseteq Nat
      BY <3>2
    <3> HIDE DEF Of
    <3> QED BY <3>1, <3>2
  <2>1. jobs \in Seq(Job) BY DEF Inv, Typed
  <2>2. i \in 1..Len(jobs)
    <3>1. /\ Walk(jobs, NoJob) \in Seq(Job)
          /\ Len(Walk(jobs, NoJob)) <= Len(jobs)
      BY <2>1, WalkLemma
    <3> QED BY <2>1, <3>1
  <2>3. jobs[i] \in Job BY <2>1, <2>2
  <2> QED BY <2>2, <2>3, CommandsTyped DEF Inv, Job
<1>3. Typed' BY <1>1, <1>2 DEF Inv, Typed, indexVars
<1>4. Counted' BY <1>1 DEF Inv, Counted, indexVars
<1>5. Arrays'
  BY <1>1 DEF Inv, Arrays, NoArrays, CurrentJob, OtherJobs, SpareJob,
              UndefinedAtOnce, indexVars
<1> QED BY <1>3, <1>4, <1>5 DEF Inv

LEMMA StutterInv == Inv /\ UNCHANGED vars => Inv'
BY DEF Inv, Typed, Counted, Arrays, NoArrays, CurrentJob, OtherJobs, SpareJob,
       UndefinedAtOnce, vars

LEMMA NextInv == Inv /\ [Next]_vars => Inv'
<1> SUFFICES ASSUME Inv, [Next]_vars PROVE Inv'
  OBVIOUS
<1>1. CASE Pipe BY <1>1, PipeInv
<1>2. CASE Background BY <1>2, BackgroundInv
<1>3. CASE Argument BY <1>3, ArgumentInv
<1>4. CASE FileName BY <1>4, FileNameInv
<1>5. CASE Newline BY <1>5, NewlineInv
<1>6. CASE \E t \in Redirection : Redirect(t) BY <1>6, RedirectInv
<1>7. CASE Misplaced \/ Unquoted \/ OutOfMemory
  BY <1>7, MisplacedInv, UnquotedInv
<1>8. CASE CutOff BY <1>8, CutOffInv
<1>9. CASE free_cmdstruct BY <1>9, FreeInv
<1>10. CASE UNCHANGED vars BY <1>10, StutterInv
<1> QED BY <1>1, <1>2, <1>3, <1>4, <1>5, <1>6, <1>7, <1>8, <1>9, <1>10 DEF Next

\* The invariant holds of every reachable state.
LEMMA AlwaysInv == Spec => []Inv
BY InitInv, NextInv, PTL DEF Spec

\* The types, that the number of jobs parse_cmdline returns is no larger than
\* the line is long, and that an error has a code parseline_error knows.
THEOREM ParserTypeOK == Spec => []TypeOK
<1>1. Inv => TypeOK
  <2> SUFFICES ASSUME Inv PROVE TypeOK
    OBVIOUS
  <2>1. \A j \in Range(jobs) : j \in Job BY DEF Inv, Typed, Range
  <2>2. \A j \in Range(jobs) :
          /\ j.argv \in Seq(Seq(Nat))
          /\ j.mode \in {"undefined", "foreground", "background"}
          /\ {j.infile, j.outfile, j.num, j.begin} \subseteq Nat
    BY <2>1 DEF Job
  <2> QED BY <2>2 DEF Inv, Typed, TypeOK
<1> QED BY <1>1, AlwaysInv, PTL

\* However often the arrays of parse_cmdline grow, whatever the line and
\* wherever it is given up, the walks that have no end but a NULL find one; and
\* infile and outfile are read without an entry only for a redirection at the
\* very beginning of a line.
THEOREM ParserArraysHold == Spec => []ArraysHold
<1>1. Inv => ArraysHold
  <2> SUFFICES ASSUME Inv PROVE ArraysHold
    OBVIOUS
  <2>0. jobs \in Seq(Job) /\ Len(jobs) \in Nat /\ jobIdx \in Nat BY DEF Inv, Typed
  <2>1. ASSUME NEW i \in 1..Len(jobs) PROVE Ended(jobs[i].argv)
    <3>1. CASE i <= jobIdx BY <3>1 DEF Inv, Arrays, OtherJobs
    <3>2. CASE i = jobIdx + 1
      <4>1. Fill(jobs[i].argv, state, cmdIdx, cmdMax, argIdx, argMax)
        BY <3>2 DEF Inv, Arrays, CurrentJob
      <4> QED BY <4>1, JobTyped, FillIsEnded DEF Inv, Typed
    <3>3. CASE i > jobIdx + 1
      <4>1. jobs[i].argv = <<>> BY <3>3 DEF Inv, Arrays, OtherJobs
      <4> QED BY <4>1 DEF Ended
    <3> QED BY <2>0, <3>1, <3>2, <3>3
  <2>2. ASSUME jobs # <<>> PROVE jobs[Len(jobs)].argv = <<>>
    <3>1. /\ jobIdx < Len(jobs) /\ Len(jobs) \in 1..Len(jobs)
          /\ Fill(jobs[jobIdx + 1].argv, state, cmdIdx, cmdMax, argIdx, argMax)
      BY <2>0, <2>2 DEF Inv, Arrays, CurrentJob
    <3>2. CASE Len(jobs) > jobIdx + 1 BY <3>1, <3>2 DEF Inv, Arrays, OtherJobs
    <3>3. CASE Len(jobs) = jobIdx + 1
      <4>1. cmdMax = 0 BY <3>3 DEF Inv, Typed, Arrays, SpareJob
      <4>2. /\ jobs[Len(jobs)].argv \in Seq(Seq(Nat))
            /\ Len(jobs[Len(jobs)].argv) = 0
        BY <3>1, <3>3, <4>1, JobTyped DEF Fill, Inv
      <4> QED BY <4>2
    <3> QED BY <2>0, <3>1, <3>2, <3>3
  <2>3. jobs # <<>> => \E j \in Range(jobs) : j.argv = <<>>
    <3> SUFFICES ASSUME jobs # <<>> PROVE \E j \in Range(jobs) : j.argv = <<>>
      OBVIOUS
    <3>1. Len(jobs) \in DOMAIN jobs BY <2>0
    <3> QED BY <2>2, <3>1 DEF Range
  <2>4. \A j \in Range(jobs) : Ended(j.argv) BY <2>0, <2>1 DEF Range
  <2>5. status = "undefined" => Len(text) = 1 BY DEF Inv, Arrays, UndefinedAtOnce
  <2> QED BY <2>3, <2>4, <2>5 DEF ArraysHold, Ended, NullEnded
<1> QED BY <1>1, AlwaysInv, PTL
-----------------------------------------------------------------------------
(* The grammar: what a token changes of the jobs of a line.                *)

Amps(s, i) == {k \in 1..(i - 1) : s[k] = "&"}

LEMMA AmpsFinite ==
  ASSUME NEW s, NEW i \in Nat
  PROVE  IsFiniteSet(Amps(s, i)) /\ Cardinality(Amps(s, i)) \in Nat
<1>1. IsFiniteSet(1..(i - 1)) BY FS_Interval
<1>2. Amps(s, i) \subseteq 1..(i - 1) BY DEF Amps
<1> QED BY <1>1, <1>2, FS_Subset, FS_CardinalityType

LEMMA JobOfIs ==
  ASSUME NEW s, NEW i \in Nat
  PROVE  JobOf(s, i) \in Nat /\ JobOf(s, i) = 1 + Cardinality(Amps(s, i))
<1>1. JobOf(s, i) = 1 + Cardinality(Amps(s, i)) BY DEF JobOf, Amps
<1> QED BY <1>1, AmpsFinite

LEMMA JobOfMonotone ==
  ASSUME NEW s, NEW i \in Nat, NEW j \in Nat, i <= j
  PROVE  JobOf(s, i) <= JobOf(s, j)
<1>1. Amps(s, i) \subseteq Amps(s, j) BY DEF Amps
<1>2. Cardinality(Amps(s, i)) <= Cardinality(Amps(s, j))
  BY <1>1, AmpsFinite, FS_Subset
<1> QED BY <1>2, JobOfIs, AmpsFinite

\* The job after token i is the job of token i unless that is "&".
LEMMA JobOfStep ==
  ASSUME NEW s, NEW i \in Nat \ {0}
  PROVE  JobOf(s, i + 1) = IF s[i] = "&" THEN JobOf(s, i) + 1 ELSE JobOf(s, i)
<1>0. i \in Nat /\ i + 1 \in Nat /\ i \notin 1..(i - 1) OBVIOUS
<1>1. CASE s[i] = "&"
  <2>1. Amps(s, i + 1) = Amps(s, i) \cup {i} BY <1>1 DEF Amps
  <2>2. i \notin Amps(s, i) BY <1>0 DEF Amps
  <2>3. Cardinality(Amps(s, i + 1)) = Cardinality(Amps(s, i)) + 1
    BY <1>0, <2>1, <2>2, AmpsFinite, FS_AddElement
  <2>4. /\ JobOf(s, i) = 1 + Cardinality(Amps(s, i))
        /\ JobOf(s, i + 1) = 1 + Cardinality(Amps(s, i + 1))
        /\ Cardinality(Amps(s, i)) \in Nat
    BY <1>0, JobOfIs, AmpsFinite
  <2> QED BY <1>1, <2>3, <2>4
<1>2. CASE s[i] # "&"
  <2>1. Amps(s, i + 1) = Amps(s, i) BY <1>2 DEF Amps
  <2> QED BY <1>0, <1>2, <2>1, JobOfIs
<1> QED BY <1>1, <1>2

\* A later token changes nothing of the earlier ones.
LEMMA JobOfAppend ==
  ASSUME NEW s \in Seq(Token), NEW t \in Token, NEW i \in 1..(Len(s) + 1)
  PROVE  JobOf(Append(s, t), i) = JobOf(s, i)
<1>1. \A k \in 1..(i - 1) : Append(s, t)[k] = s[k]
  BY AppendProperties
<1>2. Amps(Append(s, t), i) = Amps(s, i) BY <1>1 DEF Amps
<1> QED BY <1>2, JobOfIs

\* The token before the next one, and the redirections the job of the next
\* token already has.
LastOf(s) == IF s = <<>> THEN "&" ELSE s[Len(s)]
Seen(s, r) ==
  \E k \in 1..Len(s) : s[k] = r /\ JobOf(s, k) = JobOf(s, Len(s) + 1)

LEMMA SeenAppend ==
  ASSUME NEW s \in Seq(Token), NEW t \in Token, NEW r \in Redirection
  PROVE  Seen(Append(s, t), r) <=> t # "&" /\ (t = r \/ Seen(s, r))
<1> DEFINE n == Len(s)
           u == Append(s, t)
<1>1. /\ n \in Nat /\ Len(u) = n + 1 /\ u[n + 1] = t
      /\ \A k \in 1..n : u[k] = s[k]
  BY AppendProperties
<1>2. \A k \in 1..(n + 1) : JobOf(u, k) = JobOf(s, k) /\ JobOf(s, k) \in Nat
  BY JobOfAppend, JobOfIs
<1>3. JobOf(u, (n + 1) + 1) = IF t = "&" THEN JobOf(u, n + 1) + 1 ELSE JobOf(u, n + 1)
  <2>1. n + 1 \in Nat \ {0} BY <1>1
  <2> HIDE DEF n, u
  <2> QED BY <1>1, <2>1, JobOfStep
<1> HIDE DEF n, u
<1>4. CASE t = "&"
  <2>1. ASSUME NEW k \in 1..(n + 1) PROVE JobOf(u, k) # JobOf(u, (n + 1) + 1)
    <3>1. k \in Nat /\ n + 1 \in Nat /\ k <= n + 1 BY <1>1
    <3>2. JobOf(u, k) <= JobOf(u, n + 1) BY <3>1, JobOfMonotone
    <3>3. JobOf(u, k) \in Nat /\ JobOf(u, n + 1) \in Nat BY <3>1, JobOfIs
    <3> QED BY <1>3, <1>4, <3>2, <3>3
  <2> QED BY <1>1, <1>4, <2>1 DEF Seen, u
<1>5. CASE t # "&"
  <2>1. JobOf(u, (n + 1) + 1) = JobOf(s, n + 1)
    <3>1. n + 1 \in 1..(n + 1) BY <1>1
    <3> QED BY <1>2, <1>3, <1>5, <3>1
  <2>2. Seen(u, r) <=> \E k \in 1..(n + 1) : u[k] = r /\ JobOf(s, k) = JobOf(s, n + 1)
    BY <1>1, <1>2, <2>1 DEF Seen
  <2>3. Seen(s, r) <=> \E k \in 1..n : s[k] = r /\ JobOf(s, k) = JobOf(s, n + 1)
    BY DEF Seen, n
  <2>4. n + 1 \in 1..(n + 1) /\ \A k \in 1..(n + 1) : k \in 1..n \/ k = n + 1
    BY <1>1
  <2>5. 1..n \subseteq 1..(n + 1) BY <1>1
  <2>6. Seen(u, r) <=> t = r \/ Seen(s, r)
    BY <1>1, <2>2, <2>3, <2>4, <2>5
  <2> QED BY <1>5, <2>6 DEF u
<1> QED BY <1>4, <1>5

\* MayFollow for the token that follows s.
MayCome(s, t) ==
  LET redirected == \E r \in Redirection : Seen(s, r)
  IN \/ t = "word" /\ (redirected => LastOf(s) \in Redirection)
     \/ t = "|" /\ LastOf(s) = "word" /\ ~redirected
     \/ t = "&" /\ LastOf(s) = "word"
     \/ t \in Redirection /\ LastOf(s) = "word" /\ ~Seen(s, t)

LEMMA MayFollowLast ==
  ASSUME NEW s \in Seq(Token), NEW t \in Token
  PROVE  MayFollow(Append(s, t), Len(s) + 1) <=> MayCome(s, t)
<1> DEFINE n == Len(s)
           u == Append(s, t)
<1>1. /\ n \in Nat /\ u[n + 1] = t /\ \A k \in 1..n : u[k] = s[k]
  BY AppendProperties
<1>2. \A k \in 1..(n + 1) : JobOf(u, k) = JobOf(s, k)
  BY JobOfAppend
<1>3. Before(u, n + 1) = LastOf(s)
  <2>1. CASE n = 0
    <3>1. s = <<>> BY <2>1
    <3> QED BY <2>1, <3>1 DEF Before, LastOf
  <2>2. CASE n # 0
    <3>1. s # <<>> /\ n \in 1..n /\ (n + 1) - 1 = n /\ n + 1 # 1 BY <1>1, <2>2
    <3> HIDE DEF u
    <3> QED BY <1>1, <3>1 DEF Before, LastOf
  <2> QED BY <2>1, <2>2
<1> HIDE DEF u
<1>4. n + 1 \in 1..(n + 1) /\ 1..n \subseteq 1..(n + 1) /\ (n + 1) - 1 = n BY <1>1
<1>5. (\E k \in 1..((n + 1) - 1) : /\ u[k] \in Redirection
                                   /\ JobOf(u, k) = JobOf(u, n + 1))
      <=> \E r \in Redirection : Seen(s, r)
  BY <1>1, <1>2, <1>4 DEF Seen
<1>6. (\A k \in 1..((n + 1) - 1) : JobOf(u, k) = JobOf(u, n + 1) => u[k] # u[n + 1])
      <=> ~Seen(s, t)
  BY <1>1, <1>2, <1>4 DEF Seen
<1>7. MayFollow(u, n + 1) <=> MayCome(s, t)
  <2> HIDE DEF n
  <2> QED BY <1>1, <1>3, <1>5, <1>6 DEF MayFollow, MayCome
<1> QED BY <1>7 DEF u

LEMMA MayFollowAppend ==
  ASSUME NEW s \in Seq(Token), NEW t \in Token, NEW i \in 1..Len(s)
  PROVE  MayFollow(Append(s, t), i) <=> MayFollow(s, i)
<1> DEFINE u == Append(s, t)
<1>1. /\ Len(s) \in Nat /\ \A k \in 1..Len(s) : u[k] = s[k]
  BY AppendProperties
<1>2. \A k \in 1..i : JobOf(u, k) = JobOf(s, k) /\ u[k] = s[k]
  BY <1>1, JobOfAppend
<1> HIDE DEF u
<1>3. i \in 1..i /\ 1..(i - 1) \subseteq 1..i BY <1>1
<1>4. Before(u, i) = Before(s, i)
  <2>1. i # 1 => i - 1 \in 1..i BY <1>1
  <2> QED BY <1>2, <2>1 DEF Before
<1>5. \A k \in 1..(i - 1) : /\ JobOf(u, k) = JobOf(s, k) /\ u[k] = s[k]
                            /\ JobOf(u, i) = JobOf(s, i)
  BY <1>2, <1>3
<1>6. u[i] = s[i] BY <1>2, <1>3
<1>7. MayFollow(u, i) <=> MayFollow(s, i)
  BY <1>4, <1>5, <1>6 DEF MayFollow
<1> QED BY <1>7 DEF u

\* A line can be continued by a token that may come, and by no other.
LEMMA ViableAppend ==
  ASSUME NEW s \in Seq(Token), NEW t \in Token
  PROVE  Viable(Append(s, t)) <=> Viable(s) /\ MayCome(s, t)
<1> DEFINE u == Append(s, t)
<1>1. Len(s) \in Nat /\ DOMAIN u = 1..(Len(s) + 1) /\ DOMAIN s = 1..Len(s)
  BY AppendProperties
<1>2. MayFollow(u, Len(s) + 1) <=> MayCome(s, t) BY MayFollowLast
<1>3. \A i \in 1..Len(s) : MayFollow(u, i) <=> MayFollow(s, i) BY MayFollowAppend
<1> HIDE DEF u
<1>4. \A i \in 1..(Len(s) + 1) : i \in 1..Len(s) \/ i = Len(s) + 1 BY <1>1
<1>5. Len(s) + 1 \in 1..(Len(s) + 1) /\ 1..Len(s) \subseteq 1..(Len(s) + 1) BY <1>1
<1>6. Viable(u) <=> Viable(s) /\ MayCome(s, t)
  BY <1>1, <1>2, <1>3, <1>4, <1>5 DEF Viable
<1> QED BY <1>6 DEF u

LEMMA LastOfAppend ==
  ASSUME NEW s \in Seq(Token), NEW t \in Token
  PROVE  Append(s, t) # <<>> /\ LastOf(Append(s, t)) = t
BY AppendProperties DEF LastOf
-----------------------------------------------------------------------------
(* The grammar: what the state says of the line.                           *)

\* The file of redirection r in the arrays s at index k.
FileIn(s, k, r) == IF r = "<" THEN s[k].infile ELSE s[k].outfile
NoFiles(s, k) == \A r \in Redirection : FileIn(s, k, r) = NULL

\* The last token, and the redirections of the current job.
LastFits ==
  /\ state = 0 => text = <<>> \/ LastOf(text) = "|"
  /\ state \in {1, 3} => LastOf(text) = "word"
  /\ state = 2 => LastOf(text) = inout
  /\ state = 4 => text # <<>> /\ LastOf(text) = "&"
SeenFits ==
  /\ state \in {0, 1, 4} => \A r \in Redirection : ~Seen(text, r)
  /\ state \in {2, 3} =>
       \A r \in Redirection :
         Seen(text, r) <=> \/ FileIn(jobs, jobIdx + 1, r) # NULL
                           \/ state = 2 /\ r = inout
  /\ state = 3 => ~NoFiles(jobs, jobIdx + 1)

\* No file waits where none was given.
FilesFit == \A i \in 1..Len(jobs) :
              i > jobIdx + 1 \/ (i = jobIdx + 1 /\ state \in {0, 1, 4}) => NoFiles(jobs, i)

Reading == status = "parsing" => /\ Viable(text) /\ LastFits /\ SeenFits /\ FilesFit

Grammar == Inv /\ Reading /\ TakesTheGrammar

\* The arrays s and t have the same files.
SameFiles(s, t) == \A i \in 1..Len(s), r \in Redirection : FileIn(t, i, r) = FileIn(s, i, r)

LEMMA ReplaceFilesLemma ==
  ASSUME NEW s \in Seq(Job), NEW k \in 1..Len(s), NEW x \in Job,
         x.infile = s[k].infile, x.outfile = s[k].outfile,
         NEW t, t = [s EXCEPT ![k] = x]
  PROVE  SameFiles(s, t)
<1>1. t[k] = x /\ \A i \in 1..Len(s) : i # k => t[i] = s[i]
  BY StoreLemma
<1>2. \A i \in 1..Len(s) : t[i].infile = s[i].infile /\ t[i].outfile = s[i].outfile
  BY <1>1
<1> QED BY <1>2 DEF SameFiles, FileIn

LEMMA SameFilesLemma ==
  ASSUME NEW s \in Seq(Job), NEW k \in 1..Len(s)
  PROVE  /\ \A a \in Seq(Seq(Nat)) : SameFiles(s, Argv(s, k, a))
         /\ \A m \in {"undefined", "foreground", "background"} :
              SameFiles(s, Mode(s, k, m))
         /\ \A n \in Nat : SameFiles(s, Num(s, k, n)) /\ SameFiles(s, Begin(s, k, n))
<1>0. s[k] \in Job OBVIOUS
<1>1. ASSUME NEW a \in Seq(Seq(Nat)) PROVE SameFiles(s, Argv(s, k, a))
  <2> DEFINE x == [s[k] EXCEPT !.argv = a]
  <2>1. x \in Job /\ x.infile = s[k].infile /\ x.outfile = s[k].outfile
    BY <1>0 DEF Job
  <2>2. Argv(s, k, a) = [s EXCEPT ![k] = x] BY DEF Argv
  <2> HIDE DEF x
  <2> QED BY <2>1, <2>2, ReplaceFilesLemma
<1>2. ASSUME NEW m \in {"undefined", "foreground", "background"} PROVE SameFiles(s, Mode(s, k, m))
  <2> DEFINE x == [s[k] EXCEPT !.mode = m]
  <2>1. x \in Job /\ x.infile = s[k].infile /\ x.outfile = s[k].outfile
    BY <1>0 DEF Job
  <2>2. Mode(s, k, m) = [s EXCEPT ![k] = x] BY DEF Mode
  <2> HIDE DEF x
  <2> QED BY <2>1, <2>2, ReplaceFilesLemma
<1>3. ASSUME NEW n \in Nat PROVE SameFiles(s, Num(s, k, n))
  <2> DEFINE x == [s[k] EXCEPT !.num = n]
  <2>1. x \in Job /\ x.infile = s[k].infile /\ x.outfile = s[k].outfile
    BY <1>0 DEF Job
  <2>2. Num(s, k, n) = [s EXCEPT ![k] = x] BY DEF Num
  <2> HIDE DEF x
  <2> QED BY <2>1, <2>2, ReplaceFilesLemma
<1>4. ASSUME NEW n \in Nat PROVE SameFiles(s, Begin(s, k, n))
  <2> DEFINE x == [s[k] EXCEPT !.begin = n]
  <2>1. x \in Job /\ x.infile = s[k].infile /\ x.outfile = s[k].outfile
    BY <1>0 DEF Job
  <2>2. Begin(s, k, n) = [s EXCEPT ![k] = x] BY DEF Begin
  <2> HIDE DEF x
  <2> QED BY <2>1, <2>2, ReplaceFilesLemma
<1> QED BY <1>1, <1>2, <1>3, <1>4

LEMMA InitReading == Init => Reading /\ TakesTheGrammar
<1> SUFFICES ASSUME Init PROVE Reading /\ TakesTheGrammar
  OBVIOUS
<1>1. text = <<>> /\ state = 0 /\ jobs = <<>> /\ status = "parsing" BY DEF Init
<1>2. Viable(text) BY <1>1 DEF Viable
<1>3. LastFits /\ SeenFits /\ FilesFit
  BY <1>1 DEF LastFits, SeenFits, Seen, FilesFit
<1> QED BY <1>1, <1>2, <1>3 DEF Reading, TakesTheGrammar, Accepted

\* A token that may not come is the end, with an error.
LEMMA WrongToken ==
  ASSUME Typed, Reading, NEW t \in Token, Reads(t),
         ~MayCome(text, t) \/ error' = 6, status' = "returned", result' = -1
  PROVE  Reading' /\ TakesTheGrammar'
<1>1. text \in Seq(Token) /\ text' = Append(text, t) BY DEF Typed, Reads
<1>2. error' = 6 \/ ~Viable(text') BY <1>1, ViableAppend
<1>3. status' # "parsing" /\ ~Accepted' BY DEF Accepted
<1> QED BY <1>2, <1>3 DEF Reading, TakesTheGrammar

\* A token that may come is read.
LEMMA RightToken ==
  ASSUME Typed, Reading, NEW t \in Token, Reads(t), MayCome(text, t),
         status' = "parsing"
  PROVE  /\ Viable(text') /\ TakesTheGrammar'
         /\ text' # <<>> /\ LastOf(text') = t
         /\ \A r \in Redirection :
              Seen(text', r) <=> t # "&" /\ (t = r \/ Seen(text, r))
<1>1. text \in Seq(Token) /\ text' = Append(text, t) /\ status = "parsing"
  BY DEF Typed, Reads
<1>2. Viable(text') BY <1>1, ViableAppend DEF Reading
<1>3. TakesTheGrammar' BY <1>2 DEF TakesTheGrammar, Accepted
<1>4. \A r \in Redirection :
        Seen(text', r) <=> t # "&" /\ (t = r \/ Seen(text, r))
  BY <1>1, SeenAppend
<1> QED BY <1>1, <1>2, <1>3, <1>4, LastOfAppend
LEMMA PipeReads == Grammar /\ Pipe => Reading' /\ TakesTheGrammar'
<1> SUFFICES ASSUME Grammar, Pipe PROVE Reading' /\ TakesTheGrammar'
  OBVIOUS
<1>0. /\ "|" \in Token /\ Reads("|") /\ status = "parsing" /\ Typed /\ Reading
      /\ state \in 0..4
  BY DEF Token, Pipe, Reads, Grammar, Inv, Typed
<1>1. CASE state # 1 /\ parseline_error(state)
  <2>1. LastOf(text) # "word" \/ \E r \in Redirection : Seen(text, r)
    <3>1. CASE state = 3
      <4>1. PICK r \in Redirection : FileIn(jobs, jobIdx + 1, r) # NULL
        BY <1>0, <3>1 DEF Reading, SeenFits, NoFiles
      <4> QED BY <1>0, <3>1, <4>1 DEF Reading, SeenFits
    <3>2. CASE state # 3
      BY <1>0, <1>1, <3>2 DEF Reading, LastFits, LastOf, Typed, Redirection
    <3> QED BY <3>1, <3>2
  <2>2. ~MayCome(text, "|") BY <2>1 DEF MayCome, Redirection
  <2> QED BY <1>0, <1>1, <2>2, WrongToken DEF parseline_error
<1>2. CASE /\ state = 1
           /\ cmdIdx' = cmdIdx + 1 /\ argIdx' = 0 /\ argMax' = 0 /\ state' = 0
           /\ UNCHANGED <<inout, jobs, jobIdx, cmdMax, jobBegin, status, result,
                          error, freed>>
  <2>1. MayCome(text, "|")
    BY <1>0, <1>2 DEF MayCome, Reading, LastFits, SeenFits
  <2>2. /\ Viable(text') /\ TakesTheGrammar' /\ LastOf(text') = "|"
        /\ \A r \in Redirection : Seen(text', r) <=> "|" # "&" /\ ("|" = r \/ Seen(text, r))
    BY <1>0, <1>2, <2>1, RightToken
  <2>3. LastFits' BY <1>2, <2>2 DEF LastFits
  <2>4. SeenFits'
    BY <1>0, <1>2, <2>2 DEF SeenFits, Redirection, Reading
  <2>5. FilesFit' BY <1>0, <1>2 DEF FilesFit, Reading
  <2> QED BY <2>2, <2>3, <2>4, <2>5 DEF Reading
<1> QED BY <1>1, <1>2 DEF Pipe

LEMMA RedirectReads ==
  ASSUME NEW t \in Redirection
  PROVE  Grammar /\ Redirect(t) => Reading' /\ TakesTheGrammar'
<1> SUFFICES ASSUME Grammar, Redirect(t) PROVE Reading' /\ TakesTheGrammar'
  OBVIOUS
<1> DEFINE k == jobIdx + 1
<1>0. /\ t \in Token /\ Reads(t) /\ status = "parsing" /\ Typed /\ Reading
      /\ state \in 0..4 /\ jobs \in Seq(Job) /\ jobIdx \in Nat
  BY DEF Token, Redirection, Redirect, Reads, Grammar, Inv, Typed
<1>a. t \notin {"word", "|", "&"} BY DEF Redirection
<1>b. File(t) = FileIn(jobs, k, t) BY DEF File, FileIn
<1>c. ~NoEntry => k \in 1..Len(jobs) BY <1>0 DEF NoEntry
<1>1. CASE NoEntry /\ status' = "undefined"
  BY <1>1 DEF Reading, TakesTheGrammar, Accepted
<1>2. CASE ~NoEntry /\ File(t) # NULL /\ parseline_error(IF t = "<" THEN 7 ELSE 8)
  <2>1. ~NoFiles(jobs, k) BY <1>2, <1>b DEF NoFiles
  <2>2. state \in {2, 3} BY <1>0, <1>2, <1>c, <2>1 DEF Reading, FilesFit
  <2>3. Seen(text, t) BY <1>0, <1>2, <1>b, <2>2 DEF Reading, SeenFits
  <2>4. ~MayCome(text, t) BY <1>a, <2>3 DEF MayCome
  <2> QED BY <1>0, <1>2, <2>4, WrongToken DEF parseline_error
<1>3. CASE state \notin {1, 3} /\ parseline_error(state)
  <2>1. LastOf(text) # "word"
    BY <1>0, <1>3 DEF Reading, LastFits, LastOf, Typed, Redirection
  <2>2. ~MayCome(text, t) BY <1>a, <2>1 DEF MayCome
  <2> QED BY <1>0, <1>3, <2>2, WrongToken DEF parseline_error
<1>4. CASE /\ ~NoEntry /\ File(t) = NULL /\ state \in {1, 3}
           /\ state' = 2 /\ inout' = t
           /\ UNCHANGED <<jobs, indexVars, jobBegin, status, result, error, freed>>
  <2>1. ~Seen(text, t)
    BY <1>0, <1>4, <1>b DEF Reading, SeenFits
  <2>2. MayCome(text, t)
    BY <1>0, <1>4, <2>1 DEF MayCome, Reading, LastFits
  <2>3. /\ Viable(text') /\ TakesTheGrammar' /\ LastOf(text') = t
        /\ \A r \in Redirection : Seen(text', r) <=> t # "&" /\ (t = r \/ Seen(text, r))
    BY <1>0, <1>4, <2>2, RightToken
  <2>4. LastFits' BY <1>4, <2>3 DEF LastFits
  <2>5. \A r \in Redirection : Seen(text, r) <=> FileIn(jobs, k, r) # NULL
    <3>1. CASE state = 1
      <4>1. NoFiles(jobs, k) BY <1>0, <1>4, <1>c, <3>1 DEF Reading, FilesFit
      <4> QED BY <1>0, <3>1, <4>1 DEF Reading, SeenFits, NoFiles
    <3>2. CASE state = 3
      BY <1>0, <3>2 DEF Reading, SeenFits
    <3> QED BY <1>4, <3>1, <3>2
  <2>6. SeenFits' BY <1>a, <1>4, <2>3, <2>5 DEF SeenFits, indexVars
  <2>7. FilesFit' BY <1>0, <1>4 DEF FilesFit, Reading, indexVars
  <2> QED BY <2>3, <2>4, <2>6, <2>7 DEF Reading
<1> QED BY <1>1, <1>2, <1>3, <1>4 DEF Redirect

LEMMA BackgroundReads == Grammar /\ Background => Reading' /\ TakesTheGrammar'
<1> SUFFICES ASSUME Grammar, Background PROVE Reading' /\ TakesTheGrammar'
  OBVIOUS
<1> DEFINE k == jobIdx + 1
<1>0. /\ "&" \in Token /\ Reads("&") /\ status = "parsing" /\ Typed /\ Reading
      /\ state \in 0..4
  BY DEF Token, Background, Reads, Grammar, Inv, Typed
<1>1. CASE state \notin {1, 3} /\ parseline_error(state)
  <2>1. ~MayCome(text, "&")
    BY <1>0, <1>1 DEF MayCome, Reading, LastFits, LastOf, Typed, Redirection
  <2> QED BY <1>0, <1>1, <2>1, WrongToken DEF parseline_error
<1>2. CASE /\ state \in {1, 3}
           /\ jobs' = [jobs EXCEPT ![jobIdx + 1].num = cmdIdx + 1,
                                   ![jobIdx + 1].begin = jobBegin,
                                   ![jobIdx + 1].mode = "background"]
           /\ jobIdx' = jobIdx + 1
           /\ cmdIdx' = 0 /\ cmdMax' = 0 /\ argIdx' = 0 /\ argMax' = 0
           /\ state' = 4
           /\ UNCHANGED <<inout, jobBegin, status, result, error, freed>>
  <2>1. MayCome(text, "&") BY <1>0, <1>2 DEF MayCome, Reading, LastFits
  <2>2. /\ Viable(text') /\ TakesTheGrammar' /\ text' # <<>> /\ LastOf(text') = "&"
        /\ \A r \in Redirection : ~Seen(text', r)
    BY <1>0, <1>2, <2>1, RightToken
  <2>3. LastFits' BY <1>2, <2>2 DEF LastFits
  <2>4. SeenFits' BY <1>2, <2>2 DEF SeenFits
  <2>5. Len(jobs') = Len(jobs) /\ SameFiles(jobs, jobs')
    <3> DEFINE s == Num(jobs, k, cmdIdx + 1)
               t == Begin(s, k, jobBegin)
               u == Mode(t, k, "background")
    <3>1. jobs \in Seq(Job) /\ cmdIdx + 1 \in Nat /\ jobBegin \in Nat
      BY DEF Grammar, Inv, Typed
    <3>2. k \in 1..Len(jobs)
      <4>1. jobs # <<>> BY <1>2 DEF Grammar, Inv, Arrays, NoArrays
      <4>2. jobIdx < Len(jobs) BY <4>1 DEF Grammar, Inv, Arrays, CurrentJob
      <4> QED BY <4>2 DEF Grammar, Inv, Typed
    <3>3. s \in Seq(Job) /\ Len(s) = Len(jobs) /\ SameFiles(jobs, s)
      <4>1. s \in Seq(Job) /\ SameArgv(jobs, s) BY <3>1, <3>2, FieldLemma
      <4>2. SameFiles(jobs, s) BY <3>1, <3>2, SameFilesLemma
      <4> QED BY <4>1, <4>2 DEF SameArgv
    <3> HIDE DEF s
    <3>4. t \in Seq(Job) /\ Len(t) = Len(s) /\ SameFiles(s, t)
      <4>1. k \in 1..Len(s) BY <3>2, <3>3
      <4>2. t \in Seq(Job) /\ SameArgv(s, t) BY <3>1, <3>3, <4>1, FieldLemma
      <4>3. SameFiles(s, t) BY <3>1, <3>3, <4>1, SameFilesLemma
      <4> QED BY <4>2, <4>3 DEF SameArgv
    <3> HIDE DEF t
    <3>5. u \in Seq(Job) /\ Len(u) = Len(t) /\ SameFiles(t, u)
      <4>1. k \in 1..Len(t) BY <3>2, <3>3, <3>4
      <4>2. u \in Seq(Job) /\ SameArgv(t, u) BY <3>1, <3>4, <4>1, FieldLemma
      <4>3. SameFiles(t, u) BY <3>4, <4>1, SameFilesLemma
      <4> QED BY <4>2, <4>3 DEF SameArgv
    <3>6. jobs' = u BY <1>2 DEF Num, Begin, Mode, s, t
    <3> HIDE DEF u
    <3> QED BY <3>3, <3>4, <3>5, <3>6 DEF SameFiles
  <2>6. FilesFit'
    <3> SUFFICES ASSUME NEW i \in 1..Len(jobs), i > k PROVE NoFiles(jobs', i)
      <4>1. Len(jobs') = Len(jobs) /\ jobIdx' = k /\ jobIdx \in Nat /\ Len(jobs) \in Nat
        BY <1>0, <1>2, <2>5 DEF Typed
      <4>2. \A i \in 1..Len(jobs) : i > k + 1 \/ i = k + 1 => i > k BY <4>1
      <4> QED BY <4>1, <4>2 DEF FilesFit
    <3>1. NoFiles(jobs, i) BY <1>0 DEF Reading, FilesFit
    <3> QED BY <2>5, <3>1 DEF SameFiles, NoFiles
  <2> QED BY <2>2, <2>3, <2>4, <2>6 DEF Reading
<1> QED BY <1>1, <1>2 DEF Background
LEMMA FileNameReads == Grammar /\ FileName => Reading' /\ TakesTheGrammar'
<1> SUFFICES ASSUME Grammar, FileName PROVE Reading' /\ TakesTheGrammar'
  OBVIOUS
<1> DEFINE k == jobIdx + 1
           n == Len(text) + 1
<1>0. /\ "word" \in Token /\ Reads("word") /\ status = "parsing" /\ Typed /\ Reading
      /\ state = 2 /\ state' = 3 /\ inout \in Redirection
      /\ UNCHANGED <<inout, indexVars, jobBegin, status, result, error, freed>>
      /\ jobs \in Seq(Job) /\ jobIdx \in Nat /\ Len(text) \in Nat
  <2>1. Typed /\ Reading BY DEF Grammar, Inv
  <2>2. /\ inout \in Redirection /\ jobs \in Seq(Job) /\ jobIdx \in Nat
        /\ Len(text) \in Nat
    BY <2>1 DEF Typed
  <2>3. /\ Reads("word") /\ state = 2 /\ state' = 3
        /\ UNCHANGED <<inout, indexVars, jobBegin, status, result, error, freed>>
    BY DEF FileName
  <2>4. "word" \in Token /\ status = "parsing" BY <2>3 DEF Token, Reads
  <2> QED BY <2>1, <2>2, <2>3, <2>4
<1>1. k \in 1..Len(jobs)
  BY <1>0 DEF Grammar, Inv, Typed, Arrays, NoArrays, CurrentJob
<1>2. MayCome(text, "word") BY <1>0 DEF MayCome, Reading, LastFits
<1>3. /\ Viable(text') /\ TakesTheGrammar' /\ LastOf(text') = "word"
      /\ \A r \in Redirection : Seen(text', r) <=> Seen(text, r)
  <2>1. "word" \notin Redirection BY DEF Redirection
  <2> QED BY <1>0, <1>2, <2>1, RightToken
<1>4. LastFits' BY <1>0, <1>3 DEF LastFits
<1>5. /\ Len(jobs') = Len(jobs) /\ FileIn(jobs', k, inout) # NULL
      /\ \A r \in Redirection : r # inout => FileIn(jobs', k, r) = FileIn(jobs, k, r)
      /\ \A i \in 1..Len(jobs) : i # k => jobs'[i] = jobs[i]
  <2>0. jobs[k] \in Job /\ n # NULL /\ n \in Nat BY <1>0, <1>1 DEF NULL
  <2>1. CASE inout = "<"
    <3> DEFINE x == [jobs[k] EXCEPT !.infile = n]
    <3>1. x \in Job /\ x.infile = n /\ x.outfile = jobs[k].outfile
      <4> HIDE DEF n, k
      <4> QED BY <2>0 DEF Job
    <3>2. jobs' = [jobs EXCEPT ![k] = x] BY <2>1 DEF FileName
    <3> HIDE DEF x
    <3>3. /\ Len(jobs') = Len(jobs) /\ jobs'[k] = x
          /\ \A i \in 1..Len(jobs) : i # k => jobs'[i] = jobs[i]
      BY <1>0, <1>1, <3>1, <3>2, StoreLemma
    <3> QED BY <2>0, <2>1, <3>1, <3>3 DEF FileIn, Redirection
  <2>2. CASE inout = ">"
    <3> DEFINE x == [jobs[k] EXCEPT !.outfile = n]
    <3>1. x \in Job /\ x.outfile = n /\ x.infile = jobs[k].infile
      <4> HIDE DEF n, k
      <4> QED BY <2>0 DEF Job
    <3>2. jobs' = [jobs EXCEPT ![k] = x] BY <2>2 DEF FileName
    <3> HIDE DEF x
    <3>3. /\ Len(jobs') = Len(jobs) /\ jobs'[k] = x
          /\ \A i \in 1..Len(jobs) : i # k => jobs'[i] = jobs[i]
      BY <1>0, <1>1, <3>1, <3>2, StoreLemma
    <3> QED BY <2>0, <2>2, <3>1, <3>3 DEF FileIn, Redirection
  <2> QED BY <1>0, <2>1, <2>2 DEF Redirection
<1>6. SeenFits'
  <2>1. ASSUME NEW r \in Redirection
        PROVE  Seen(text', r) <=> FileIn(jobs', k, r) # NULL
    <3>1. Seen(text, r) <=> FileIn(jobs, k, r) # NULL \/ r = inout
      BY <1>0 DEF Reading, SeenFits
    <3> QED BY <1>3, <1>5, <3>1
  <2>2. ~NoFiles(jobs', k) BY <1>0, <1>5 DEF NoFiles
  <2> QED BY <1>0, <2>1, <2>2 DEF SeenFits, indexVars
<1>7. FilesFit'
  <2> SUFFICES ASSUME NEW i \in 1..Len(jobs), i > k PROVE NoFiles(jobs', i)
    BY <1>0, <1>5 DEF FilesFit, indexVars
  <2>1. NoFiles(jobs, i) /\ i # k BY <1>0 DEF Reading, FilesFit
  <2> QED BY <1>5, <2>1 DEF NoFiles, FileIn
<1> QED BY <1>0, <1>3, <1>4, <1>6, <1>7 DEF Reading

\* Where no redirection was given the grown arrays have no file either.
LEMMA GrownFilesLemma ==
  ASSUME Inv, Reading, status = "parsing", state \in {0, 1, 4}
  PROVE  \A i \in 1..Len(GrownJobs) : i > jobIdx => NoFiles(GrownJobs, i)
<1>0. jobs \in Seq(Job) /\ Len(jobs) \in Nat /\ jobIdx \in Nat
  BY DEF Inv, Typed
<1>1. CASE ~JobsGrow
  BY <1>0, <1>1 DEF GrownJobs, Reading, FilesFit
<1>2. CASE JobsGrow
  <2>1. PICK max \in Nat : max = Len(jobs) + GROW BY <1>0, ParserAssumption
  <2>2. GrownJobs = [i \in 1..max |-> IF i <= jobIdx THEN jobs[i] ELSE NoJob]
    BY <1>2, <2>1 DEF GrownJobs, Grow
  <2>3. Len(GrownJobs) = max BY <2>2
  <2>4. ASSUME NEW i \in 1..max, i > jobIdx PROVE NoFiles(GrownJobs, i)
    <3>1. GrownJobs[i] = NoJob BY <1>0, <2>2, <2>4
    <3>2. NoJob.infile = NULL /\ NoJob.outfile = NULL BY DEF NoJob
    <3> QED BY <3>1, <3>2 DEF NoFiles, FileIn
  <2> QED BY <2>3, <2>4
<1> QED BY <1>1, <1>2

LEMMA ArgumentReads == Grammar /\ Argument => Reading' /\ TakesTheGrammar'
<1> SUFFICES ASSUME Grammar, Argument PROVE Reading' /\ TakesTheGrammar'
  OBVIOUS
<1> DEFINE k == jobIdx + 1
           g == GrownJobs
           new == StoreInCmds(g[k].argv)
           mode == IF g[k].mode = "undefined" THEN "foreground" ELSE g[k].mode
           s == Argv(g, k, new)
<1>0. /\ "word" \in Token /\ Reads("word") /\ status = "parsing" /\ Typed /\ Reading
      /\ state \in {0, 1, 4} /\ state' = 1 /\ Inv
      /\ UNCHANGED <<inout, jobIdx, cmdIdx, status, result, error, freed>>
  <2>1. Typed /\ Reading /\ Inv BY DEF Grammar, Inv
  <2>2. /\ Reads("word") /\ state \notin {2, 3} /\ state' = 1
        /\ UNCHANGED <<inout, jobIdx, cmdIdx, status, result, error, freed>>
    BY DEF Argument
  <2>3. "word" \in Token /\ status = "parsing" BY <2>2 DEF Token, Reads
  <2>4. state \in {0, 1, 4} BY <2>1, <2>2 DEF Typed
  <2> QED BY <2>1, <2>2, <2>3, <2>4
<1>1. MayCome(text, "word") BY <1>0 DEF MayCome, Reading, SeenFits
<1>2. /\ Viable(text') /\ TakesTheGrammar' /\ LastOf(text') = "word"
      /\ \A r \in Redirection : ~Seen(text', r)
  <2>1. "word" \notin Redirection BY DEF Redirection
  <2>2. \A r \in Redirection : ~Seen(text, r) BY <1>0 DEF Reading, SeenFits
  <2> QED BY <1>0, <1>1, <2>1, <2>2, RightToken
<1>3. LastFits' BY <1>0, <1>2 DEF LastFits
<1>4. SeenFits' BY <1>0, <1>2 DEF SeenFits
<1>5. /\ g \in Seq(Job) /\ k \in 1..Len(g) /\ jobIdx \in Nat
      /\ Fill(g[k].argv, state, cmdIdx, cmdMax, argIdx, argMax)
      /\ \A i \in 1..Len(g) : i > jobIdx => NoFiles(g, i)
  BY <1>0, GrownJobsLemma, GrownFilesLemma DEF Typed
<1>6. g[k] \in Job BY <1>5
<1>7. new \in Seq(Seq(Nat))
  <2>1. /\ cmdMax' = IF CmdsGrow THEN cmdMax + GROW ELSE cmdMax
        /\ argMax' = IF ArgsGrow THEN argMax + GROW ELSE argMax
    BY DEF Argument
  <2>2. {cmdIdx, cmdMax, argIdx, argMax} \subseteq Nat /\ Len(text) \in Nat
    BY <1>0 DEF Typed
  <2>3. g[k].argv \in Seq(Seq(Nat)) BY <1>6 DEF Job
  <2> HIDE DEF g
  <2> QED BY <1>5, <2>1, <2>2, <2>3, StoreInCmdsFills
<1>8. jobs' = Mode(s, k, mode)
  <2>1. jobs' = [g EXCEPT ![k].argv = StoreInCmds(@),
                          ![k].mode = IF @ = "undefined" THEN "foreground" ELSE @]
    BY DEF Argument
  <2>2. s[k].mode = g[k].mode /\ k \in DOMAIN g BY <1>5, <1>6 DEF Argv, Job
  <2> HIDE DEF g
  <2> QED BY <2>1, <2>2 DEF Argv, Mode
<1>9. mode \in {"undefined", "foreground", "background"} BY <1>6 DEF Job
<1> HIDE DEF g, new, mode
<1>10. s \in Seq(Job) /\ Len(s) = Len(g) /\ SameFiles(g, s)
  <2>1. s \in Seq(Job) /\ Len(s) = Len(g)
    <3>1. g \in Seq(Job) /\ k \in 1..Len(g) /\ s = Argv(g, k, new) BY <1>5
    <3> HIDE DEF s, k
    <3> QED BY ONLY <1>7, <3>1, ArgvLemma
  <2>2. SameFiles(g, s) BY <1>5, <1>7, SameFilesLemma
  <2> QED BY <2>1, <2>2
<1> HIDE DEF s
<1>11. Len(jobs') = Len(s) /\ SameFiles(s, jobs')
  <2>1. k \in 1..Len(s) /\ 0 \in Nat BY <1>5, <1>10
  <2>2. SameArgv(s, jobs') BY <1>8, <1>9, <1>10, <2>1, FieldLemma
  <2>3. SameFiles(s, jobs') BY <1>8, <1>9, <1>10, <2>1, SameFilesLemma
  <2> QED BY <2>2, <2>3 DEF SameArgv
<1>12. FilesFit'
  <2> SUFFICES ASSUME NEW i \in 1..Len(g), i > jobIdx PROVE NoFiles(jobs', i)
    BY <1>0, <1>5, <1>10, <1>11 DEF FilesFit
  <2>1. NoFiles(g, i) BY <1>5
  <2> QED BY <1>10, <1>11, <2>1 DEF SameFiles, NoFiles
<1> QED BY <1>0, <1>2, <1>3, <1>4, <1>12 DEF Reading

LEMMA ErrorReads ==
  Grammar /\ (Misplaced \/ Unquoted \/ OutOfMemory \/ CutOff)
    => Reading' /\ TakesTheGrammar'
<1> SUFFICES ASSUME Grammar, Misplaced \/ Unquoted \/ OutOfMemory \/ CutOff
             PROVE  Reading' /\ TakesTheGrammar'
  OBVIOUS
<1>0. Typed /\ Reading /\ {"word", "quote", "nul"} \subseteq Token
  BY DEF Grammar, Inv, Token
<1>1. CASE Misplaced
  <2>1. Reads("word") /\ state = 3 /\ status = "parsing" /\ parseline_error(3)
    BY <1>1 DEF Misplaced, Reads
  <2>2. PICK r \in Redirection : FileIn(jobs, jobIdx + 1, r) # NULL
    BY <1>0, <2>1 DEF Reading, SeenFits, NoFiles
  <2>3. Seen(text, r) /\ LastOf(text) = "word"
    BY <1>0, <2>1, <2>2 DEF Reading, SeenFits, LastFits
  <2>4. ~MayCome(text, "word") BY <2>3 DEF MayCome, Redirection
  <2> QED BY <1>0, <2>1, <2>4, WrongToken DEF parseline_error
<1>2. CASE Unquoted
  <2>1. ~MayCome(text, "quote") BY DEF MayCome, Redirection
  <2>2. CASE parseline_error(3) \/ parseline_error(5)
    BY <1>0, <1>2, <2>1, <2>2, WrongToken DEF Unquoted, parseline_error
  <2>3. CASE status' = "overrun"
    BY <2>3 DEF Reading, TakesTheGrammar, Accepted
  <2> QED BY <1>2, <2>2, <2>3 DEF Unquoted
<1>3. CASE OutOfMemory
  BY <1>0, <1>3, WrongToken DEF OutOfMemory, parseline_error
<1>4. CASE CutOff
  <2>1. ~MayCome(text, "nul") BY DEF MayCome, Redirection
  <2>2. CASE parseline_error(3)
    BY <1>0, <1>4, <2>1, <2>2, WrongToken DEF CutOff, parseline_error
  <2>3. CASE status' = "endless"
    BY <2>3 DEF Reading, TakesTheGrammar, Accepted
  <2> QED BY <1>4, <2>2, <2>3 DEF CutOff
<1> QED BY <1>1, <1>2, <1>3, <1>4

LEMMA NewlineReads == Grammar /\ Newline => Reading' /\ TakesTheGrammar'
<1> SUFFICES ASSUME Grammar, Newline PROVE Reading' /\ TakesTheGrammar'
  OBVIOUS
<1>0. /\ status = "parsing" /\ text' = text /\ Viable(text) /\ LastFits
      /\ state \in 0..4 /\ jobIdx \in Nat /\ inout \in Redirection
      /\ text \in Seq(Token)
  BY DEF Newline, Grammar, Reading, Inv, Typed
<1>1. status' = "returned" BY DEF Newline, parseline_error
<1>2. Complete(text) <=> text = <<>> \/ LastOf(text) \in {"word", "&"}
  BY DEF Complete, LastOf
<1>3. CASE state \in {0, 2} /\ parseline_error(state)
  <2>1. text = <<>> \/ ~Complete(text)
    BY <1>0, <1>2, <1>3 DEF LastFits, LastOf, Redirection
  <2>2. ~Accepted' /\ error' \in {0, 2} BY <1>3 DEF Accepted, parseline_error
  <2> QED BY <1>0, <1>1, <2>1, <2>2 DEF Reading, TakesTheGrammar
<1>4. CASE /\ state \in {0, 2} => jobs = <<>>
           /\ result' = IF state = 0 /\ jobIdx = 0 THEN 0
                        ELSE IF state = 4 THEN jobIdx ELSE jobIdx + 1
  <2>1. Complete(text)
    <3>1. state \in {0, 2} => text = <<>>
      BY <1>0, <1>4 DEF Grammar, Inv, Arrays, NoArrays
    <3> QED BY <1>0, <1>2, <3>1 DEF LastFits
  <2>2. result' >= 0 BY <1>0, <1>4
  <2>3. InGrammar(text) \/ text = <<>> \/ Reversed(text)
    BY <1>0, <2>1 DEF InGrammar
  <2> QED BY <1>0, <1>1, <2>1, <2>2, <2>3 DEF Reading, TakesTheGrammar, Accepted
<1> QED BY <1>3, <1>4 DEF Newline

LEMMA NextGrammar == Grammar /\ [Next]_vars => Grammar'
<1> SUFFICES ASSUME Grammar, [Next]_vars PROVE Reading' /\ TakesTheGrammar'
  BY NextInv DEF Grammar
<1>1. CASE Pipe BY <1>1, PipeReads
<1>2. CASE Background BY <1>2, BackgroundReads
<1>3. CASE Argument BY <1>3, ArgumentReads
<1>4. CASE FileName BY <1>4, FileNameReads
<1>5. CASE Newline BY <1>5, NewlineReads
<1>6. CASE \E t \in Redirection : Redirect(t) BY <1>6, RedirectReads
<1>7. CASE Misplaced \/ Unquoted \/ OutOfMemory \/ CutOff BY <1>7, ErrorReads
<1>8. CASE free_cmdstruct
  BY <1>8 DEF free_cmdstruct, Builtin, Grammar, Reading, TakesTheGrammar, Accepted
<1>9. CASE UNCHANGED vars
  BY <1>9 DEF vars, indexVars, Grammar, Reading, LastFits, SeenFits, FilesFit,
              TakesTheGrammar, Accepted
<1> QED BY <1>1, <1>2, <1>3, <1>4, <1>5, <1>6, <1>7, <1>8, <1>9 DEF Next

\* parse_cmdline accepts every line of the grammar unless memory runs out, and
\* besides them the blank line and lines whose redirections are reversed; the
\* others it refuses at the first token that may not follow or, where a command
\* or a file name is missing, at the end: for lines of any length and arrays
\* that grow by any number.
THEOREM ParserTakesTheGrammar == Spec => []TakesTheGrammar
<1>1. Init => Grammar BY InitInv, InitReading DEF Grammar
<1>2. Grammar => TakesTheGrammar BY DEF Grammar
<1> QED BY <1>1, <1>2, NextGrammar, PTL DEF Spec
-----------------------------------------------------------------------------
(* What the line says, and what a further token adds to it.                *)

\* Words, Arguments and the files of Parser, of any line.
WordsIn(s, j)   == {i \in DOMAIN s : s[i] = "word" /\ JobOf(s, i) = j}
ArgsIn(s, j, c) == {i \in WordsIn(s, j) : ~IsFile(s, i) /\ CommandOf(s, i) = c}
FilesIn(s, j, r) == {i \in WordsIn(s, j) : Before(s, i) = r}
Closed(s, j) == \E k \in DOMAIN s : s[k] = "&" /\ JobOf(s, k) = j

Pipes(s, i) == {k \in 1..(i - 1) : s[k] = "|" /\ JobOf(s, k) = JobOf(s, i)}

LEMMA CommandOfIs ==
  ASSUME NEW s, NEW i \in Nat
  PROVE  /\ CommandOf(s, i) = 1 + Cardinality(Pipes(s, i))
         /\ IsFiniteSet(Pipes(s, i)) /\ Cardinality(Pipes(s, i)) \in Nat
         /\ CommandOf(s, i) \in Nat /\ CommandOf(s, i) >= 1
<1>1. IsFiniteSet(1..(i - 1)) BY FS_Interval
<1>2. Pipes(s, i) \subseteq 1..(i - 1) BY DEF Pipes
<1>3. IsFiniteSet(Pipes(s, i)) /\ Cardinality(Pipes(s, i)) \in Nat
  BY <1>1, <1>2, FS_Subset, FS_CardinalityType
<1>4. CommandOf(s, i) = 1 + Cardinality(Pipes(s, i)) BY DEF CommandOf, Pipes
<1> QED BY <1>3, <1>4

\* The first command of a job.
LEMMA CommandOfFirst ==
  ASSUME NEW s, NEW i \in Nat, \A k \in 1..(i - 1) : JobOf(s, k) # JobOf(s, i)
  PROVE  CommandOf(s, i) = 1
<1>1. Pipes(s, i) = {} BY DEF Pipes
<1> QED BY <1>1, CommandOfIs, FS_EmptySet

\* Within a job '|' begins the next command and nothing else does.
LEMMA CommandOfStep ==
  ASSUME NEW s, NEW i \in Nat \ {0}, s[i] # "&"
  PROVE  CommandOf(s, i + 1) = IF s[i] = "|" THEN CommandOf(s, i) + 1 ELSE CommandOf(s, i)
<1>0. JobOf(s, i + 1) = JobOf(s, i) BY JobOfStep
<1>1. /\ i + 1 \in Nat /\ (i + 1) - 1 = i /\ i \in 1..i /\ i \notin 1..(i - 1)
      /\ \A k \in 1..i : k \in 1..(i - 1) \/ k = i
      /\ 1..(i - 1) \subseteq 1..i
  OBVIOUS
<1>2. CASE s[i] = "|"
  <2>1. Pipes(s, i + 1) = Pipes(s, i) \cup {i} BY <1>0, <1>1, <1>2 DEF Pipes
  <2>2. i \notin Pipes(s, i) BY <1>1 DEF Pipes
  <2>3. Cardinality(Pipes(s, i + 1)) = Cardinality(Pipes(s, i)) + 1
    BY <2>1, <2>2, CommandOfIs, FS_AddElement
  <2>4. CommandOf(s, i + 1) = 1 + Cardinality(Pipes(s, i + 1)) BY <1>1, CommandOfIs
  <2>5. CommandOf(s, i) = 1 + Cardinality(Pipes(s, i)) /\ Cardinality(Pipes(s, i)) \in Nat
    BY CommandOfIs
  <2> QED BY <1>2, <2>3, <2>4, <2>5
<1>3. CASE s[i] # "|"
  <2>1. Pipes(s, i + 1) = Pipes(s, i) BY <1>0, <1>1, <1>3 DEF Pipes
  <2>2. CommandOf(s, i + 1) = 1 + Cardinality(Pipes(s, i + 1)) BY <1>1, CommandOfIs
  <2> QED BY <1>3, <2>1, <2>2, CommandOfIs
<1> QED BY <1>2, <1>3

LEMMA CommandOfMonotone ==
  ASSUME NEW s, NEW i \in Nat, NEW k \in Nat, k <= i, JobOf(s, k) = JobOf(s, i)
  PROVE  CommandOf(s, k) <= CommandOf(s, i)
<1>1. 1..(k - 1) \subseteq 1..(i - 1) OBVIOUS
<1>2. Pipes(s, k) \subseteq Pipes(s, i) BY <1>1 DEF Pipes
<1>3. PICK c, d \in Nat : c = Cardinality(Pipes(s, k)) /\ d = Cardinality(Pipes(s, i))
  BY CommandOfIs
<1>4. c <= d BY <1>2, <1>3, CommandOfIs, FS_Subset
<1>5. CommandOf(s, k) = 1 + c /\ CommandOf(s, i) = 1 + d BY <1>3, CommandOfIs
<1> QED BY <1>4, <1>5

\* u is s and a token t: of the tokens of s nothing has changed.
Extends(s, t, u) ==
  /\ u \in Seq(Token) /\ Len(s) \in Nat /\ Len(u) = Len(s) + 1
  /\ DOMAIN s = 1..Len(s) /\ DOMAIN u = 1..(Len(s) + 1)
  /\ u[Len(s) + 1] = t
  /\ \A i \in 1..Len(s) : u[i] = s[i] /\ Before(u, i) = Before(s, i)
  /\ Before(u, Len(s) + 1) = LastOf(s)
  /\ \A i \in 1..(Len(s) + 1) :
       JobOf(u, i) = JobOf(s, i) /\ CommandOf(u, i) = CommandOf(s, i)

LEMMA EarlierAppend ==
  ASSUME NEW s \in Seq(Token), NEW t \in Token, NEW u, u = Append(s, t)
  PROVE  Extends(s, t, u)
<1> DEFINE n == Len(s)
<1>1. /\ u \in Seq(Token) /\ n \in Nat /\ Len(u) = n + 1 /\ u[n + 1] = t
      /\ \A k \in 1..n : u[k] = s[k]
      /\ DOMAIN s = 1..n /\ DOMAIN u = 1..(n + 1)
  BY AppendProperties
<1>2. \A k \in 1..(n + 1) : JobOf(u, k) = JobOf(s, k)
  BY JobOfAppend
<1>3. Before(u, n + 1) = LastOf(s)
  <2>1. CASE n = 0
    <3>1. s = <<>> BY <2>1
    <3> QED BY <2>1, <3>1 DEF Before, LastOf
  <2>2. CASE n # 0
    <3>1. s # <<>> /\ n \in 1..n /\ (n + 1) - 1 = n /\ n + 1 # 1 BY <1>1, <2>2
    <3> QED BY <1>1, <3>1 DEF Before, LastOf
  <2> QED BY <2>1, <2>2
<1>4. ASSUME NEW i \in 1..n PROVE Before(u, i) = Before(s, i)
  <2>1. i # 1 => i - 1 \in 1..n OBVIOUS
  <2> HIDE DEF n
  <2> QED BY <1>1, <2>1 DEF Before
<1>5. ASSUME NEW i \in 1..(n + 1) PROVE CommandOf(u, i) = CommandOf(s, i)
  <2>1. i \in Nat /\ 1..(i - 1) \subseteq 1..n /\ 1..n \subseteq 1..(n + 1) BY <1>1
  <2> HIDE DEF n
  <2>2. Pipes(u, i) = Pipes(s, i) BY <1>1, <1>2, <2>1 DEF Pipes
  <2> QED BY <2>1, <2>2, CommandOfIs
<1> HIDE DEF n
<1>6. \A i \in 1..n : u[i] = s[i] /\ Before(u, i) = Before(s, i)
  BY <1>1, <1>4
<1> QED BY <1>1, <1>2, <1>3, <1>5, <1>6 DEF n, Extends

\* What the line says of a job after one more token: only a word adds to it,
\* and only to the job that was being read.
Adds(s, t, u, j) ==
  LET N == Len(s) + 1
      here == t = "word" /\ j = JobOf(s, N)
  IN /\ here => WordsIn(u, j) = WordsIn(s, j) \cup {N}
     /\ ~here => WordsIn(u, j) = WordsIn(s, j)
     /\ \A r \in Redirection :
          IF here /\ LastOf(s) = r THEN FilesIn(u, j, r) = FilesIn(s, j, r) \cup {N}
          ELSE FilesIn(u, j, r) = FilesIn(s, j, r)
     /\ \A c : IF here /\ LastOf(s) \notin Redirection /\ c = CommandOf(s, N)
               THEN ArgsIn(u, j, c) = ArgsIn(s, j, c) \cup {N}
               ELSE ArgsIn(u, j, c) = ArgsIn(s, j, c)

LEMMA WordsAppend ==
  ASSUME NEW s \in Seq(Token), NEW t \in Token, NEW u, u = Append(s, t), NEW j
  PROVE  Adds(s, t, u, j)
<1>0. PICK N : N = Len(s) + 1 OBVIOUS
<1>h. PICK here \in BOOLEAN : here <=> (t = "word" /\ j = JobOf(s, N)) OBVIOUS
<1>1. /\ DOMAIN s = 1..Len(s) /\ DOMAIN u = 1..N /\ u[N] = t
      /\ \A i \in 1..Len(s) : u[i] = s[i] /\ Before(u, i) = Before(s, i)
      /\ Before(u, N) = LastOf(s)
      /\ \A i \in 1..N : JobOf(u, i) = JobOf(s, i) /\ CommandOf(u, i) = CommandOf(s, i)
      /\ Len(s) \in Nat
  <2>1. Extends(s, t, u) BY EarlierAppend
  <2> QED BY ONLY <1>0, <2>1 DEF Extends
<1>2. /\ N \in 1..N /\ N \notin 1..Len(s) /\ 1..Len(s) \subseteq 1..N
      /\ \A i \in 1..N : i \in 1..Len(s) \/ i = N
  BY <1>0, <1>1
<1>3. PICK n : n = Len(s) OBVIOUS
<1>4. /\ DOMAIN s = 1..n /\ N \notin 1..n /\ 1..n \subseteq 1..N
      /\ \A i \in 1..N : i \in 1..n \/ i = N
      /\ \A i \in 1..n : u[i] = s[i] /\ Before(u, i) = Before(s, i)
  BY <1>1, <1>2, <1>3
<1>5. \A i \in 1..n : /\ i \in WordsIn(u, j) <=> i \in WordsIn(s, j)
                      /\ IsFile(u, i) <=> IsFile(s, i)
  BY ONLY <1>1, <1>4 DEF WordsIn, IsFile
<1>6. WordsIn(u, j) \subseteq 1..N /\ WordsIn(s, j) \subseteq 1..n
  BY ONLY <1>1, <1>4 DEF WordsIn
<1>7. N \in WordsIn(u, j) <=> here
  BY ONLY <1>1, <1>2, <1>h DEF WordsIn
<1>8. here => WordsIn(u, j) = WordsIn(s, j) \cup {N} BY ONLY <1>4, <1>5, <1>6, <1>7
<1>9. ~here => WordsIn(u, j) = WordsIn(s, j) BY ONLY <1>4, <1>5, <1>6, <1>7
<1>10. ASSUME NEW r \in Redirection
       PROVE IF here /\ LastOf(s) = r THEN FilesIn(u, j, r) = FilesIn(s, j, r) \cup {N}
             ELSE FilesIn(u, j, r) = FilesIn(s, j, r)
  <2>1. \A i \in 1..n : i \in FilesIn(u, j, r) <=> i \in FilesIn(s, j, r)
    BY ONLY <1>4, <1>5 DEF FilesIn
  <2>2. N \in FilesIn(u, j, r) <=> here /\ LastOf(s) = r BY ONLY <1>1, <1>7 DEF FilesIn
  <2>3. FilesIn(u, j, r) \subseteq 1..N /\ FilesIn(s, j, r) \subseteq 1..n
    BY ONLY <1>6 DEF FilesIn
  <2>4. PICK F, G : F = FilesIn(u, j, r) /\ G = FilesIn(s, j, r) OBVIOUS
  <2>5. /\ here /\ LastOf(s) = r => F = G \cup {N}
        /\ ~(here /\ LastOf(s) = r) => F = G
    BY ONLY <1>4, <2>1, <2>2, <2>3, <2>4
  <2> QED BY ONLY <2>4, <2>5
<1>11. ASSUME NEW c
       PROVE IF here /\ LastOf(s) \notin Redirection /\ c = CommandOf(s, N)
             THEN ArgsIn(u, j, c) = ArgsIn(s, j, c) \cup {N}
             ELSE ArgsIn(u, j, c) = ArgsIn(s, j, c)
  <2>1. \A i \in 1..n : i \in ArgsIn(u, j, c) <=> i \in ArgsIn(s, j, c)
    BY ONLY <1>1, <1>4, <1>5 DEF ArgsIn
  <2>2. N \in WordsIn(u, j) => (IsFile(u, N) <=> LastOf(s) \in Redirection)
    BY ONLY <1>1 DEF IsFile, WordsIn
  <2>3. N \in ArgsIn(u, j, c) <=> here /\ LastOf(s) \notin Redirection /\ c = CommandOf(s, N)
    BY ONLY <1>1, <1>2, <1>7, <2>2 DEF ArgsIn
  <2>4. ArgsIn(u, j, c) \subseteq 1..N /\ ArgsIn(s, j, c) \subseteq 1..n
    BY ONLY <1>6 DEF ArgsIn
  <2>5. PICK F, G : F = ArgsIn(u, j, c) /\ G = ArgsIn(s, j, c) OBVIOUS
  <2>6. PICK adds \in BOOLEAN :
          adds <=> here /\ LastOf(s) \notin Redirection /\ c = CommandOf(s, N)
    OBVIOUS
  <2>7. (adds => F = G \cup {N}) /\ (~adds => F = G)
    BY ONLY <1>4, <2>1, <2>3, <2>4, <2>5, <2>6
  <2> QED BY ONLY <2>5, <2>6, <2>7
<1> QED BY ONLY <1>0, <1>h, <1>8, <1>9, <1>10, <1>11 DEF Adds
-----------------------------------------------------------------------------
(* First positions, and arrays that list positions in order.               *)

LEMMA FirstOfLemma ==
  ASSUME NEW S, S \subseteq Nat \ {0}
  PROVE  /\ FirstOf(S) = NULL <=> S = {}
         /\ S # {} => FirstOf(S) \in S /\ \A y \in S : FirstOf(S) <= y
<1>1. CASE S = {} BY <1>1 DEF FirstOf
<1>2. CASE S # {}
  <2>1. S \subseteq Nat OBVIOUS
  <2>2. Min(S) \in S /\ \A y \in S : Min(S) <= y BY <1>2, <2>1, MinLemma
  <2>3. FirstOf(S) = Min(S) BY <1>2 DEF FirstOf
  <2> QED BY <1>2, <2>2, <2>3 DEF NULL
<1> QED BY <1>1, <1>2

\* A later position does not become the first.
LEMMA FirstOfAdd ==
  ASSUME NEW N \in Nat \ {0}, NEW S, S \subseteq 1..(N - 1)
  PROVE  FirstOf(S \cup {N}) = IF S = {} THEN N ELSE FirstOf(S)
<1>1. PICK T : T = S \cup {N} OBVIOUS
<1>2. /\ T \subseteq Nat \ {0} /\ T # {} /\ S \subseteq Nat \ {0}
      /\ \A y \in S : y \in Nat /\ y < N
  BY <1>1
<1>3. PICK a : a = FirstOf(T) OBVIOUS
<1>4. a \in T /\ \A y \in T : a <= y BY <1>2, <1>3, FirstOfLemma
<1>5. CASE S = {} BY <1>1, <1>3, <1>4, <1>5
<1>6. CASE S # {}
  <2>1. PICK b : b = FirstOf(S) OBVIOUS
  <2>2. b \in S /\ \A y \in S : b <= y BY <1>2, <1>6, <2>1, FirstOfLemma
  <2>3. a = b BY ONLY <1>1, <1>2, <1>4, <2>2, N \in Nat \ {0}
  <2> QED BY <1>1, <1>3, <1>6, <2>1, <2>3
<1> QED BY <1>5, <1>6

\* The first m elements of args are the positions S in the order of the line;
\* args has these and a NULL behind them.
Filling(args, m, S) == /\ {args[k] : k \in 1..m} = S
                       /\ \A a, b \in 1..m : a < b => args[a] < args[b]
Listed(args, S) ==
  \E m \in Nat : m < Len(args) /\ args[m + 1] = NULL /\ Filling(args, m, S)

LEMMA FillingAdd ==
  ASSUME NEW m \in Nat, NEW N \in Nat \ {0}, NEW S, S \subseteq 1..(N - 1),
         NEW args, Filling(args, m, S),
         NEW new, \A k \in 1..m : new[k] = args[k], new[m + 1] = N
  PROVE  Filling(new, m + 1, S \cup {N})
<1>1. /\ \A k \in 1..(m + 1) : k \in 1..m \/ k = m + 1
      /\ 1..m \subseteq 1..(m + 1) /\ m + 1 \in 1..(m + 1) /\ m + 1 \notin 1..m
  OBVIOUS
<1>2. {args[k] : k \in 1..m} = S /\ \A a, b \in 1..m : a < b => args[a] < args[b]
  BY DEF Filling
<1>3. {new[k] : k \in 1..m} = S BY <1>2
<1>4. {new[k] : k \in 1..(m + 1)} = {new[k] : k \in 1..m} \cup {new[m + 1]} BY <1>1
<1>5. \A a \in 1..m : new[a] \in 1..(N - 1) BY <1>3
<1>6. ASSUME NEW a \in 1..(m + 1), NEW b \in 1..(m + 1), a < b PROVE new[a] < new[b]
  <2>1. CASE b = m + 1
    <3>1. a \in 1..m BY <1>6, <2>1
    <3> QED BY <1>5, <2>1, <3>1
  <2>2. CASE b # m + 1
    <3>1. a \in 1..m /\ b \in 1..m BY <1>6, <2>2
    <3> QED BY <1>2, <1>6, <3>1
  <2> QED BY <2>1, <2>2
<1> QED BY <1>3, <1>4, <1>6 DEF Filling

\* An empty list of positions is listed by whatever stands in the array.
LEMMA FillingNothing ==
  ASSUME NEW S, NEW args, NEW new, Filling(args, 0, S)
  PROVE  S = {} /\ Filling(new, 0, S)
BY DEF Filling

\* w is the first m elements of array.
Upto(w, array, S, m) ==
  w \in Seq(S) /\ Len(w) = m /\ \A k \in 1..m : w[k] = array[k]

\* The walk to the first null.
LEMMA WalkStops ==
  ASSUME NEW S, NEW array \in Seq(S), NEW null, NEW m \in Nat, m < Len(array),
         array[m + 1] = null, \A k \in 1..m : array[k] # null
  PROVE  Upto(Walk(array, null), array, S, m)
<1> DEFINE ends == {i \in 1..Len(array) : array[i] = null}
           end == SelectInSeq(array, LAMBDA x : x = null)
<1>1. end = IF ends # {} THEN Min(ends) ELSE 0
  BY DEF SelectInSeq
<1>2. m + 1 \in ends /\ \A i \in ends : m + 1 <= i OBVIOUS
<1>3. Min(ends) = m + 1
  <2>1. ends \subseteq Nat /\ ends # {} BY <1>2
  <2> HIDE DEF ends
  <2>2. PICK x : x = Min(ends) OBVIOUS
  <2>3. x \in ends /\ \A i \in ends : x <= i BY <2>1, <2>2, MinLemma
  <2>4. x = m + 1 BY ONLY <1>2, <2>1, <2>3, m \in Nat
  <2> QED BY <2>2, <2>4
<1>4. end = m + 1 BY <1>1, <1>2, <1>3
<1>5. Walk(array, null) = IF end = 0 THEN array ELSE SubSeq(array, 1, end - 1)
  BY DEF Walk
<1> HIDE DEF end
<1>6. Walk(array, null) = SubSeq(array, 1, m) BY <1>4, <1>5
<1> QED BY <1>6 DEF Upto

\* An argument is listed behind those before it.
LEMMA StoreInLists ==
  ASSUME NEW args \in Seq(Nat), argIdx \in Nat, argMax \in Nat, Len(text) \in Nat,
         Filled(args, argIdx, argMax), NEW S, S \subseteq 1..Len(text),
         Filling(args, argIdx, S)
  PROVE  Filling(StoreIn(args), argIdx + 1, S \cup {Len(text) + 1})
<1> DEFINE g == GrownArgs(args)
           max == IF ArgsGrow THEN argMax + GROW ELSE argMax
<1>1. Len(args) = argMax /\ argIdx <= argMax /\ max \in Nat /\ argIdx + 1 <= max
  BY ParserAssumption DEF Filled, ArgsGrow
<1>2. DOMAIN g = 1..max /\ \A k \in 1..argIdx : g[k] = args[k]
  <2>1. CASE ArgsGrow
    <3>1. g = [i \in 1..max |-> IF i <= argIdx THEN args[i] ELSE NULL]
      BY <2>1 DEF GrownArgs, Grow
    <3>2. 1..argIdx \subseteq 1..max BY <1>1
    <3> HIDE DEF g, max
    <3> QED BY <3>1, <3>2
  <2>2. CASE ~ArgsGrow
    BY <1>1, <2>2 DEF GrownArgs
  <2> QED BY <2>1, <2>2
<1>3. argIdx + 1 \in 1..max /\ \A k \in 1..argIdx : k # argIdx + 1 /\ k \in 1..max
  BY <1>1
<1>4. StoreIn(args) = [g EXCEPT ![argIdx + 1] = Len(text) + 1] BY DEF StoreIn
<1> HIDE DEF g, max
<1>5. PICK new : new = StoreIn(args) OBVIOUS
<1>6. new[argIdx + 1] = Len(text) + 1 /\ \A k \in 1..argIdx : new[k] = args[k]
  BY <1>2, <1>3, <1>4, <1>5
<1>7. PICK N \in Nat \ {0} : N = Len(text) + 1 OBVIOUS
<1>8. S \subseteq 1..(N - 1) BY <1>7
<1>9. Filling(new, argIdx + 1, S \cup {N}) BY <1>6, <1>7, <1>8, FillingAdd
<1> QED BY <1>5, <1>7, <1>9

LEMMA StoreInCmdsLists ==
  ASSUME NEW argv \in Seq(Seq(Nat)), {cmdIdx, cmdMax, argIdx, argMax} \subseteq Nat,
         Len(text) \in Nat, Fill(argv, state, cmdIdx, cmdMax, argIdx, argMax),
         NEW S, S \subseteq 1..Len(text), Filling(argv[cmdIdx + 1], argIdx, S)
  PROVE  /\ \A c \in 1..cmdIdx : StoreInCmds(argv)[c] = argv[c]
         /\ Filling(StoreInCmds(argv)[cmdIdx + 1], argIdx + 1, S \cup {Len(text) + 1})
<1>0. cmdIdx \in Nat /\ cmdMax \in Nat /\ argIdx \in Nat /\ argMax \in Nat
  OBVIOUS
<1> DEFINE g == GrownCmds(argv)
           max == IF CmdsGrow THEN cmdMax + GROW ELSE cmdMax
<1>1. Len(argv) = cmdMax /\ cmdIdx <= cmdMax /\ max \in Nat /\ cmdIdx + 1 <= max
  BY <1>0, ParserAssumption DEF Fill, CmdsGrow
<1>2. /\ DOMAIN g = 1..max /\ \A c \in 1..cmdIdx : g[c] = argv[c]
      /\ g[cmdIdx + 1] \in Seq(Nat)
      /\ Filled(g[cmdIdx + 1], argIdx, argMax) /\ Filling(g[cmdIdx + 1], argIdx, S)
  <2>1. CASE CmdsGrow
    <3>1. g = [i \in 1..max |-> IF i <= cmdIdx THEN argv[i] ELSE <<>>]
      BY <2>1 DEF GrownCmds, Grow
    <3>2. 1..cmdIdx \subseteq 1..max /\ cmdIdx + 1 \in 1..max /\ ~(cmdIdx + 1 <= cmdIdx)
      BY <1>0, <1>1
    <3> HIDE DEF g, max
    <3>3. DOMAIN g = 1..max /\ g[cmdIdx + 1] = <<>> /\ \A c \in 1..cmdIdx : g[c] = argv[c]
      BY <3>1, <3>2, <1>0
    <3>4. argIdx = 0 /\ argMax = 0
      <4>1. state \notin {1, 2, 3}
        <5>1. cmdIdx >= cmdMax - 1 BY <2>1 DEF CmdsGrow
        <5> QED BY <1>0, <5>1 DEF Fill
      <4> QED BY <4>1 DEF Fill
    <3>5. Filled(<<>>, 0, 0) BY DEF Filled
    <3>6. Filling(<<>>, 0, S) BY <3>4, FillingNothing
    <3> QED BY <3>3, <3>4, <3>5, <3>6
  <2>2. CASE ~CmdsGrow
    <3>1. cmdMax > 0 /\ cmdIdx + 1 \in 1..cmdMax BY <1>0, <2>2 DEF CmdsGrow
    <3>2. g = argv /\ max = cmdMax BY <2>2 DEF GrownCmds
    <3> HIDE DEF g, max
    <3>3. Filled(argv[cmdIdx + 1], argIdx, argMax) BY <3>1 DEF Fill
    <3> QED BY <1>1, <3>1, <3>2, <3>3
  <2> QED BY <2>1, <2>2
<1>3. cmdIdx + 1 \in 1..max /\ \A c \in 1..cmdIdx : c # cmdIdx + 1 /\ c \in 1..max
  BY <1>0, <1>1
<1>4. StoreInCmds(argv) = [g EXCEPT ![cmdIdx + 1] = StoreIn(g[cmdIdx + 1])]
  BY DEF StoreInCmds
<1> HIDE DEF g, max
<1>5. /\ StoreInCmds(argv)[cmdIdx + 1] = StoreIn(g[cmdIdx + 1])
      /\ \A c \in 1..cmdIdx : StoreInCmds(argv)[c] = g[c]
  BY <1>2, <1>3, <1>4
<1>6. Filling(StoreIn(g[cmdIdx + 1]), argIdx + 1, S \cup {Len(text) + 1})
  BY <1>0, <1>2, StoreInLists
<1> QED BY <1>2, <1>5, <1>6
-----------------------------------------------------------------------------
(* The jobs built, of a line s.                                            *)

FilesBuilt(s, j, job) == /\ job.infile = FirstOf(FilesIn(s, j, "<"))
                         /\ job.outfile = FirstOf(FilesIn(s, j, ">"))
Counts(s, j, num) == /\ \E i \in WordsIn(s, j) : CommandOf(s, i) = num
                     /\ \A i \in WordsIn(s, j) : CommandOf(s, i) <= num
Ends(argv, num) == num < Len(argv) /\ argv[num + 1] = <<>>

\* A job that has been read.
JobBuilt(s, j, job) ==
  /\ FilesBuilt(s, j, job) /\ job.begin = FirstOf(WordsIn(s, j))
  /\ Counts(s, j, job.num) /\ Ends(job.argv, job.num)
  /\ \A c \in 1..job.num : Listed(job.argv[c], ArgsIn(s, j, c))

\* The job being read: cI commands are complete and the next one has aI
\* arguments.
Progress(s, j, job, cI, aI, begin) ==
  /\ FilesBuilt(s, j, job)
  /\ IF cI = 0 /\ aI = 0
     THEN job = NoJob /\ WordsIn(s, j) = {}
     ELSE job.mode = "foreground" /\ WordsIn(s, j) # {} /\ begin = FirstOf(WordsIn(s, j))
  /\ \A c \in 1..cI : Listed(job.argv[c], ArgsIn(s, j, c))
  /\ Filling(job.argv[cI + 1], aI, ArgsIn(s, j, cI + 1))

\* The position in the line after one more token.
LEMMA PositionStep ==
  ASSUME NEW s \in Seq(Token), NEW t \in Token, NEW u, u = Append(s, t)
  PROVE  /\ JobOf(u, Len(u) + 1) = IF t = "&" THEN JobOf(s, Len(s) + 1) + 1
                                   ELSE JobOf(s, Len(s) + 1)
         /\ CommandOf(u, Len(u) + 1) = IF t = "&" THEN 1
                                       ELSE IF t = "|" THEN CommandOf(s, Len(s) + 1) + 1
                                       ELSE CommandOf(s, Len(s) + 1)
<1>1. PICK N \in Nat \ {0} : N = Len(s) + 1 OBVIOUS
<1>2. /\ Len(u) = N /\ u[N] = t /\ JobOf(u, N) = JobOf(s, N)
      /\ CommandOf(u, N) = CommandOf(s, N)
  <2>1. Extends(s, t, u) BY EarlierAppend
  <2>2. N \in 1..N OBVIOUS
  <2> QED BY ONLY <1>1, <2>1, <2>2 DEF Extends
<1>3. JobOf(u, N + 1) = IF t = "&" THEN JobOf(s, N) + 1 ELSE JobOf(s, N)
  BY <1>2, JobOfStep
<1>4. CASE t = "&"
  <2>1. \A k \in 1..((N + 1) - 1) : JobOf(u, k) # JobOf(u, N + 1)
    <3> SUFFICES ASSUME NEW k \in 1..N PROVE JobOf(u, k) # JobOf(u, N + 1)
      OBVIOUS
    <3>1. JobOf(u, k) <= JobOf(u, N) BY JobOfMonotone
    <3>2. JobOf(u, k) \in Nat /\ JobOf(u, N) \in Nat BY JobOfIs
    <3> QED BY <1>2, <1>3, <1>4, <3>1, <3>2
  <2>2. CommandOf(u, N + 1) = 1
    <3>1. N + 1 \in Nat OBVIOUS
    <3> QED BY ONLY <2>1, <3>1, CommandOfFirst
  <2> QED BY <1>1, <1>2, <1>3, <1>4, <2>2
<1>5. CASE t # "&"
  <2>1. CommandOf(u, N + 1) = IF t = "|" THEN CommandOf(s, N) + 1 ELSE CommandOf(s, N)
    BY <1>2, <1>5, CommandOfStep
  <2> QED BY <1>1, <1>2, <1>3, <1>5, <2>1
<1> QED BY <1>4, <1>5

\* The tokens read belong to jobs up to the one being read, and those of that
\* one to commands up to the one being read; it is not closed yet.
LEMMA JobsRead ==
  ASSUME NEW s \in Seq(Token), NEW J, J = JobOf(s, Len(s) + 1)
  PROVE  /\ \A j \in Nat : j > J => WordsIn(s, j) = {}
         /\ \A i \in WordsIn(s, J) : CommandOf(s, i) <= CommandOf(s, Len(s) + 1)
         /\ ~Closed(s, J)
<1>1. PICK n \in Nat : n = Len(s) OBVIOUS
<1>2. DOMAIN s = 1..n /\ n + 1 \in Nat /\ J \in Nat BY <1>1, JobOfIs
<1>3. \A i \in 1..n : JobOf(s, i) <= J /\ JobOf(s, i) \in Nat
  <2> TAKE i \in 1..n
  <2>1. i \in Nat /\ i <= n + 1 BY <1>1
  <2> QED BY <1>1, <1>2, <2>1, JobOfMonotone, JobOfIs
<1>4. ASSUME NEW j \in Nat, j > J PROVE WordsIn(s, j) = {}
  BY <1>2, <1>3, <1>4 DEF WordsIn
<1>5. ASSUME NEW i \in WordsIn(s, J) PROVE CommandOf(s, i) <= CommandOf(s, Len(s) + 1)
  <2>1. i \in 1..n /\ JobOf(s, i) = J BY <1>2 DEF WordsIn
  <2>2. i \in Nat /\ i <= n + 1 /\ JobOf(s, i) = JobOf(s, n + 1) BY <1>1, <2>1
  <2> QED BY <1>1, <1>2, <2>2, CommandOfMonotone
<1>6. ASSUME Closed(s, J) PROVE FALSE
  <2>1. PICK k \in 1..n : s[k] = "&" /\ JobOf(s, k) = J BY <1>2, <1>6 DEF Closed
  <2>2. JobOf(s, k + 1) = J + 1 BY <2>1, JobOfStep
  <2>3. k + 1 \in Nat /\ k + 1 <= n + 1 BY <1>1
  <2>4. JobOf(s, k + 1) <= JobOf(s, n + 1) BY <1>2, <2>3, JobOfMonotone
  <2> QED BY <1>1, <1>2, <2>2, <2>4
<1> QED BY <1>4, <1>5, <1>6

\* The sets of positions are sets of positions.
LEMMA PositionsLemma ==
  ASSUME NEW s \in Seq(Token), NEW j
  PROVE  /\ WordsIn(s, j) \subseteq 1..Len(s) /\ WordsIn(s, j) \subseteq Nat \ {0}
         /\ \A r : FilesIn(s, j, r) \subseteq WordsIn(s, j)
         /\ \A c : ArgsIn(s, j, c) \subseteq WordsIn(s, j)
BY DEF WordsIn, FilesIn, ArgsIn

\* What is built of job j of the line s is built of it in the line u.
Keeps(s, u, j) ==
  /\ \A job : JobBuilt(s, j, job) => JobBuilt(u, j, job)
  /\ \A job, cI, aI, b : Progress(s, j, job, cI, aI, b) => Progress(u, j, job, cI, aI, b)
  /\ Closed(s, j) => Closed(u, j)

\* A token that is not a word of the job changes nothing of it.
LEMMA BuiltAppend ==
  ASSUME NEW s \in Seq(Token), NEW t \in Token, NEW u, u = Append(s, t),
         NEW j, t # "word" \/ j # JobOf(s, Len(s) + 1)
  PROVE  Keeps(s, u, j)
<1>4. /\ WordsIn(u, j) = WordsIn(s, j)
      /\ \A r \in Redirection : FilesIn(u, j, r) = FilesIn(s, j, r)
      /\ \A c : ArgsIn(u, j, c) = ArgsIn(s, j, c)
  <2>1. Adds(s, t, u, j) BY WordsAppend
  <2> QED BY <2>1 DEF Adds
<1>5. FilesIn(u, j, "<") = FilesIn(s, j, "<") /\ FilesIn(u, j, ">") = FilesIn(s, j, ">")
  BY <1>4 DEF Redirection
<1>6. /\ \A i \in WordsIn(s, j) : CommandOf(u, i) = CommandOf(s, i)
      /\ \A i \in DOMAIN s : i \in DOMAIN u /\ u[i] = s[i] /\ JobOf(u, i) = JobOf(s, i)
  <2>1. Extends(s, t, u) BY EarlierAppend
  <2>2. Len(s) \in Nat /\ 1..Len(s) \subseteq 1..(Len(s) + 1) OBVIOUS
  <2>3. WordsIn(s, j) \subseteq 1..Len(s) BY PositionsLemma
  <2> QED BY ONLY <2>1, <2>2, <2>3 DEF Extends
<1>7. \A num : Counts(s, j, num) => Counts(u, j, num)
  BY ONLY <1>4, <1>6 DEF Counts
<1>8. \A job : FilesBuilt(s, j, job) => FilesBuilt(u, j, job)
  BY ONLY <1>5 DEF FilesBuilt
<1>9. \A job : JobBuilt(s, j, job) => JobBuilt(u, j, job)
  BY ONLY <1>4, <1>7, <1>8 DEF JobBuilt
<1>10. \A job, cI, aI, b : Progress(s, j, job, cI, aI, b) => Progress(u, j, job, cI, aI, b)
  BY ONLY <1>4, <1>8 DEF Progress
<1>11. Closed(s, j) => Closed(u, j) BY ONLY <1>6 DEF Closed
<1> QED BY <1>9, <1>10, <1>11 DEF Keeps
-----------------------------------------------------------------------------
(* What each token makes of the job being read.                            *)

LEMMA ProgressNew ==
  ASSUME NEW s \in Seq(Token), NEW j, WordsIn(s, j) = {}, NEW b
  PROVE  Progress(s, j, NoJob, 0, 0, b)
<1>1. /\ FilesIn(s, j, "<") = {} /\ FilesIn(s, j, ">") = {}
      /\ \A c : ArgsIn(s, j, c) = {}
  BY DEF FilesIn, ArgsIn
<1>2. FilesBuilt(s, j, NoJob) BY <1>1 DEF FilesBuilt, FirstOf, NoJob
<1>3. Filling(NoJob.argv[0 + 1], 0, ArgsIn(s, j, 0 + 1)) BY <1>1 DEF Filling
<1> QED BY <1>2, <1>3 DEF Progress

\* The arguments of the command being read, which a NULL follows.
LEMMA CommandListed ==
  ASSUME NEW argv \in Seq(Seq(Nat)), NEW st \in {1, 2, 3}, NEW cI \in Nat,
         NEW cM \in Nat, NEW aI \in Nat, NEW aM \in Nat,
         Fill(argv, st, cI, cM, aI, aM), NEW S, Filling(argv[cI + 1], aI, S)
  PROVE  Listed(argv[cI + 1], S)
<1>1. cM > 0 /\ aI < aM BY DEF Fill
<1>2. Filled(argv[cI + 1], aI, aM) BY <1>1 DEF Fill
<1>3. aI + 1 \in 1..aM /\ aI + 1 > aI BY <1>1
<1>4. aI < Len(argv[cI + 1]) /\ argv[cI + 1][aI + 1] = NULL
  BY <1>1, <1>2, <1>3 DEF Filled
<1> QED BY <1>4 DEF Listed

\* '|': the next command has no arguments yet.
LEMMA ProgressPipe ==
  ASSUME NEW s \in Seq(Token), NEW u, u = Append(s, "|"), NEW cI \in Nat,
         NEW j, j = JobOf(s, Len(s) + 1), cI + 1 = CommandOf(s, Len(s) + 1),
         NEW aI \in Nat, aI > 0, NEW b, NEW job, Progress(s, j, job, cI, aI, b),
         Listed(job.argv[cI + 1], ArgsIn(s, j, cI + 1))
  PROVE  Progress(u, j, job, cI + 1, 0, b)
<1>1. "|" \in Token BY DEF Token
<1>2. Progress(u, j, job, cI, aI, b)
  <2>1. Keeps(s, u, j) BY <1>1, BuiltAppend
  <2> QED BY <2>1 DEF Keeps
<1>3. WordsIn(u, j) = WordsIn(s, j) /\ \A c : ArgsIn(u, j, c) = ArgsIn(s, j, c)
  <2>1. Adds(s, "|", u, j) BY <1>1, WordsAppend
  <2> QED BY <2>1 DEF Adds
<1>4. ArgsIn(s, j, (cI + 1) + 1) = {}
  <2>1. \A i \in WordsIn(s, j) : CommandOf(s, i) <= cI + 1 BY JobsRead
  <2>2. ~((cI + 1) + 1 <= cI + 1) OBVIOUS
  <2> QED BY <2>1, <2>2 DEF ArgsIn
<1>5. \A c \in 1..(cI + 1) : c \in 1..cI \/ c = cI + 1 OBVIOUS
<1>6. \A c \in 1..(cI + 1) : Listed(job.argv[c], ArgsIn(u, j, c))
  BY <1>2, <1>3, <1>5 DEF Progress
<1>7. Filling(job.argv[(cI + 1) + 1], 0, ArgsIn(u, j, (cI + 1) + 1))
  BY <1>3, <1>4 DEF Filling
<1>8. FilesBuilt(u, j, job) /\ job.mode = "foreground" /\ WordsIn(u, j) # {}
      /\ b = FirstOf(WordsIn(u, j))
  BY <1>2 DEF Progress
<1>9. ~(cI + 1 = 0 /\ 0 = 0) OBVIOUS
<1> QED BY ONLY <1>6, <1>7, <1>8, <1>9 DEF Progress

\* An argument of the command being read.
LEMMA ProgressArgument ==
  ASSUME NEW s \in Seq(Token), NEW u, u = Append(s, "word"), LastOf(s) \notin Redirection,
         NEW cI \in Nat, NEW j, j = JobOf(s, Len(s) + 1), cI + 1 = CommandOf(s, Len(s) + 1),
         NEW aI \in Nat, NEW b, NEW job, Progress(s, j, job, cI, aI, b),
         NEW new, new.infile = job.infile, new.outfile = job.outfile,
         new.mode = "foreground", \A c \in 1..cI : new.argv[c] = job.argv[c],
         Filling(new.argv[cI + 1], aI + 1, ArgsIn(s, j, cI + 1) \cup {Len(s) + 1}),
         NEW b2, b2 = IF cI = 0 /\ aI = 0 THEN Len(s) + 1 ELSE b
  PROVE  Progress(u, j, new, cI, aI + 1, b2)
<1>1. "word" \in Token BY DEF Token
<1>2. PICK N \in Nat \ {0} : N = Len(s) + 1 OBVIOUS
<1>3. /\ WordsIn(u, j) = WordsIn(s, j) \cup {N}
      /\ \A r \in Redirection : FilesIn(u, j, r) = FilesIn(s, j, r)
      /\ \A c : c # cI + 1 => ArgsIn(u, j, c) = ArgsIn(s, j, c)
      /\ ArgsIn(u, j, cI + 1) = ArgsIn(s, j, cI + 1) \cup {N}
  <2>1. Adds(s, "word", u, j) BY <1>1, WordsAppend
  <2>2. \A r \in Redirection : LastOf(s) # r OBVIOUS
  <2> QED BY <1>2, <2>1, <2>2 DEF Adds
<1>4. FilesBuilt(u, j, new)
  <2>1. FilesBuilt(s, j, job) BY DEF Progress
  <2> QED BY <1>3, <2>1 DEF FilesBuilt, Redirection
<1>5. b2 = FirstOf(WordsIn(u, j))
  <2>1. WordsIn(s, j) \subseteq 1..(N - 1) BY <1>2, PositionsLemma
  <2>2. FirstOf(WordsIn(u, j)) = IF WordsIn(s, j) = {} THEN N ELSE FirstOf(WordsIn(s, j))
    BY <1>3, <2>1, FirstOfAdd
  <2>3. CASE cI = 0 /\ aI = 0
    BY <1>2, <2>2, <2>3 DEF Progress
  <2>4. CASE ~(cI = 0 /\ aI = 0)
    BY <1>2, <2>2, <2>4 DEF Progress
  <2> QED BY <2>3, <2>4
<1>6. \A c \in 1..cI : Listed(new.argv[c], ArgsIn(u, j, c))
  <2>1. \A c \in 1..cI : c # cI + 1 OBVIOUS
  <2> QED BY <1>3, <2>1 DEF Progress
<1>7. Filling(new.argv[cI + 1], aI + 1, ArgsIn(u, j, cI + 1)) BY <1>2, <1>3
<1>8. ~(cI = 0 /\ aI + 1 = 0) OBVIOUS
<1>9. WordsIn(u, j) # {} BY <1>3
<1> QED BY <1>4, <1>5, <1>6, <1>7, <1>8, <1>9 DEF Progress

\* The file name of redirection r.
LEMMA ProgressFile ==
  ASSUME NEW s \in Seq(Token), NEW u, u = Append(s, "word"), NEW r \in Redirection,
         LastOf(s) = r, NEW j, j = JobOf(s, Len(s) + 1), NEW cI \in Nat,
         NEW aI \in Nat, aI > 0, NEW b, NEW job, Progress(s, j, job, cI, aI, b),
         (IF r = "<" THEN job.infile ELSE job.outfile) = NULL,
         NEW new, new.argv = job.argv, new.mode = job.mode,
         new.infile = IF r = "<" THEN Len(s) + 1 ELSE job.infile,
         new.outfile = IF r = ">" THEN Len(s) + 1 ELSE job.outfile
  PROVE  Progress(u, j, new, cI, aI, b)
<1>1. "word" \in Token /\ (r = "<" \/ r = ">") /\ {"<", ">"} = Redirection
  BY DEF Token, Redirection
<1>2. PICK N \in Nat \ {0} : N = Len(s) + 1 OBVIOUS
<1>3. /\ WordsIn(u, j) = WordsIn(s, j) \cup {N}
      /\ FilesIn(u, j, r) = FilesIn(s, j, r) \cup {N}
      /\ \A q \in Redirection : q # r => FilesIn(u, j, q) = FilesIn(s, j, q)
      /\ \A c : ArgsIn(u, j, c) = ArgsIn(s, j, c)
  <2>1. Adds(s, "word", u, j) BY <1>1, WordsAppend
  <2> QED BY <1>2, <2>1 DEF Adds
<1>4. FilesBuilt(u, j, new)
  <2>1. job.infile = FirstOf(FilesIn(s, j, "<")) /\ job.outfile = FirstOf(FilesIn(s, j, ">"))
    BY DEF Progress, FilesBuilt
  <2>2. FilesIn(s, j, r) \subseteq Nat \ {0} /\ FilesIn(s, j, r) \subseteq 1..(N - 1)
    <3>1. /\ WordsIn(s, j) \subseteq 1..Len(s) /\ WordsIn(s, j) \subseteq Nat \ {0}
          /\ FilesIn(s, j, r) \subseteq WordsIn(s, j)
      BY PositionsLemma
    <3>2. 1..Len(s) = 1..(N - 1) BY <1>2
    <3> QED BY ONLY <3>1, <3>2
  <2>3. FirstOf(FilesIn(s, j, r)) = NULL BY <1>1, <2>1
  <2>4. FilesIn(s, j, r) = {} BY <2>2, <2>3, FirstOfLemma
  <2>5. FirstOf(FilesIn(u, j, r)) = N BY <1>3, <2>2, <2>4, FirstOfAdd
  <2>6. CASE r = "<" BY <1>1, <1>2, <1>3, <2>1, <2>5, <2>6 DEF FilesBuilt
  <2>7. CASE r = ">" BY <1>1, <1>2, <1>3, <2>1, <2>5, <2>7 DEF FilesBuilt
  <2> QED BY <1>1, <2>6, <2>7
<1>5. new.mode = "foreground" /\ b = FirstOf(WordsIn(u, j)) /\ WordsIn(u, j) # {}
  <2>1. /\ job.mode = "foreground" /\ WordsIn(s, j) # {}
        /\ b = FirstOf(WordsIn(s, j))
    BY DEF Progress
  <2>2. WordsIn(s, j) \subseteq 1..(N - 1) BY <1>2, PositionsLemma
  <2> QED BY <1>3, <2>1, <2>2, FirstOfAdd
<1>6. /\ \A c \in 1..cI : Listed(new.argv[c], ArgsIn(u, j, c))
      /\ Filling(new.argv[cI + 1], aI, ArgsIn(u, j, cI + 1))
  BY <1>3 DEF Progress
<1>7. ~(cI = 0 /\ aI = 0) OBVIOUS
<1> QED BY ONLY <1>4, <1>5, <1>6, <1>7 DEF Progress

\* The end of the job: what was read of it is complete.
LEMMA Completed ==
  ASSUME NEW s \in Seq(Token), NEW j, j = JobOf(s, Len(s) + 1),
         NEW cI \in Nat, cI + 1 = CommandOf(s, Len(s) + 1), NEW aI \in Nat, aI > 0,
         NEW b, NEW job, Progress(s, j, job, cI, aI, b), job.argv \in Seq(Seq(Nat)),
         NEW st \in {1, 3}, NEW cM \in Nat, NEW aM \in Nat,
         Fill(job.argv, st, cI, cM, aI, aM),
         NEW new, new.infile = job.infile, new.outfile = job.outfile,
         new.argv = job.argv, new.num = cI + 1, new.begin = b
  PROVE  JobBuilt(s, j, new)
<1>1. Listed(job.argv[cI + 1], ArgsIn(s, j, cI + 1))
  <2>1. Filling(job.argv[cI + 1], aI, ArgsIn(s, j, cI + 1)) BY DEF Progress
  <2>2. st \in {1, 2, 3} OBVIOUS
  <2> QED BY <2>1, <2>2, CommandListed
<1>2. \A c \in 1..(cI + 1) : Listed(new.argv[c], ArgsIn(s, j, c))
  <2>1. \A c \in 1..(cI + 1) : c \in 1..cI \/ c = cI + 1 OBVIOUS
  <2> QED BY <1>1, <2>1 DEF Progress
<1>3. Counts(s, j, cI + 1)
  <2>1. \A i \in WordsIn(s, j) : CommandOf(s, i) <= cI + 1 BY JobsRead
  <2>2. \E i \in WordsIn(s, j) : CommandOf(s, i) = cI + 1
    <3>1. {job.argv[cI + 1][k] : k \in 1..aI} = ArgsIn(s, j, cI + 1)
      BY DEF Progress, Filling
    <3>2. 1 \in 1..aI OBVIOUS
    <3>3. ArgsIn(s, j, cI + 1) # {} BY <3>1, <3>2
    <3> QED BY <3>3 DEF ArgsIn
  <2> QED BY <2>1, <2>2 DEF Counts
<1>4. Ends(new.argv, cI + 1)
  <2>1. Len(job.argv) = cM /\ cI + 1 < cM BY DEF Fill
  <2>2. (cI + 1) + 1 \in 1..cM /\ (cI + 1) + 1 > cI + 1 BY <2>1
  <2>3. job.argv[(cI + 1) + 1] = <<>> BY <2>2 DEF Fill
  <2> QED BY <2>1, <2>3 DEF Ends
<1>5. FilesBuilt(s, j, new) BY DEF Progress, FilesBuilt
<1>6. new.begin = FirstOf(WordsIn(s, j)) BY DEF Progress
<1> QED BY <1>2, <1>3, <1>4, <1>5, <1>6 DEF JobBuilt
-----------------------------------------------------------------------------
(* The jobs built, while the line is read and when it is accepted.         *)

JobDone(s, j, job) == JobBuilt(s, j, job) /\ job.mode = "background" /\ Closed(s, j)

InState == /\ state \in {1, 2, 3} => argIdx > 0
           /\ state = 4 => cmdIdx = 0 /\ argIdx = 0
Position == /\ JobOf(text, Len(text) + 1) = jobIdx + 1
            /\ CommandOf(text, Len(text) + 1) = cmdIdx + 1
Current ==
  jobs # <<>> => /\ Progress(text, jobIdx + 1, jobs[jobIdx + 1], cmdIdx, argIdx, jobBegin)
                 /\ state = 2 => FileIn(jobs, jobIdx + 1, inout) = NULL
Coming == \A i \in 1..Len(jobs) : i > jobIdx + 1 => jobs[i] = NoJob
Done == \A i \in 1..jobIdx : JobDone(text, i, jobs[i])

Building == InState /\ Position /\ Current /\ Coming /\ Done /\ freed = {}

Finished ==
  /\ result = IF text = <<>> THEN 0 ELSE Jobs(text)
  /\ result > 0 => result < Len(jobs) /\ jobs[result + 1] = NoJob
  /\ \A j \in 1..result :
       /\ JobBuilt(text, j, jobs[j])
       /\ jobs[j].mode = IF Closed(text, j) THEN "background" ELSE "foreground"
  /\ freed # {} => freed = UNION {Words(j) : j \in 1..result}

Built == (status = "parsing" => Building) /\ (Accepted => Finished)

Full == Grammar /\ Built

LEMMA InitBuilt == Init => Built
<1> SUFFICES ASSUME Init PROVE Built
  OBVIOUS
<1>1. /\ text = <<>> /\ state = 0 /\ jobs = <<>> /\ status = "parsing" /\ jobIdx = 0
      /\ cmdIdx = 0 /\ argIdx = 0 /\ freed = {}
  BY DEF Init
<1>2. Position
  <2>1. \A k \in 1..(1 - 1) : text[k] = "&" /\ FALSE OBVIOUS
  <2>2. JobOf(text, 1) = 1
    <3>1. Amps(text, 1) = {} BY <2>1 DEF Amps
    <3> QED BY <3>1, JobOfIs, FS_EmptySet
  <2>3. CommandOf(text, 1) = 1
    <3>1. \A k \in 1..(1 - 1) : JobOf(text, k) # JobOf(text, 1) OBVIOUS
    <3> QED BY <3>1, CommandOfFirst
  <2>4. Len(text) + 1 = 1 BY <1>1
  <2> QED BY <1>1, <2>2, <2>3, <2>4 DEF Position
<1>3. InState /\ Current /\ Coming /\ Done BY <1>1 DEF InState, Current, Coming, Done
<1> QED BY <1>1, <1>2, <1>3 DEF Built, Building, Accepted

\* A token is read and the reading goes on.
LEMMA BuildingReads ==
  ASSUME Typed, Building, NEW t \in Token, Reads(t)
  PROVE  /\ status = "parsing" /\ text \in Seq(Token) /\ text' = Append(text, t)
         /\ text' \in Seq(Token) /\ jobIdx \in Nat
         /\ JobOf(text', Len(text') + 1) = IF t = "&" THEN jobIdx + 2 ELSE jobIdx + 1
         /\ CommandOf(text', Len(text') + 1) = IF t = "&" THEN 1
                                               ELSE IF t = "|" THEN cmdIdx + 2 ELSE cmdIdx + 1
         /\ \A i \in 1..jobIdx : JobDone(text', i, jobs[i])
<1>1. /\ status = "parsing" /\ text \in Seq(Token) /\ text' = Append(text, t)
      /\ jobIdx \in Nat /\ cmdIdx \in Nat
  BY DEF Typed, Reads
<1>2. text' \in Seq(Token) BY <1>1, AppendProperties
<1>3. /\ JobOf(text, Len(text) + 1) = jobIdx + 1
      /\ CommandOf(text, Len(text) + 1) = cmdIdx + 1
  BY DEF Building, Position
<1>4. /\ JobOf(text', Len(text') + 1) = IF t = "&" THEN (jobIdx + 1) + 1 ELSE jobIdx + 1
      /\ CommandOf(text', Len(text') + 1) = IF t = "&" THEN 1
                                            ELSE IF t = "|" THEN (cmdIdx + 1) + 1 ELSE cmdIdx + 1
  <2>1. PICK s, u : s = text /\ u = text' OBVIOUS
  <2>2. s \in Seq(Token) /\ u = Append(s, t) BY <1>1, <2>1
  <2>3. JobOf(u, Len(u) + 1) = IF t = "&" THEN JobOf(s, Len(s) + 1) + 1
                               ELSE JobOf(s, Len(s) + 1)
    BY ONLY <2>2, t \in Token, PositionStep
  <2>4. CommandOf(u, Len(u) + 1) = IF t = "&" THEN 1
                                   ELSE IF t = "|" THEN CommandOf(s, Len(s) + 1) + 1
                                   ELSE CommandOf(s, Len(s) + 1)
    BY ONLY <2>2, t \in Token, PositionStep
  <2> QED BY ONLY <1>3, <2>1, <2>3, <2>4
<1>5. ASSUME NEW i \in 1..jobIdx PROVE JobDone(text', i, jobs[i])
  <2>1. i # jobIdx + 1 BY <1>1
  <2>2. Keeps(text, text', i) BY <1>1, <1>3, <2>1, BuiltAppend
  <2> QED BY <2>2 DEF Building, Done, JobDone, Keeps
<1> QED BY <1>1, <1>2, <1>4, <1>5

\* A line that is given up.
LEMMA StopBuilt ==
  ASSUME status' # "parsing", status' # "returned" \/ result' = -1
  PROVE  Built'
BY DEF Built, Accepted

LEMMA PipeBuilt == Full /\ Pipe => Built'
<1> SUFFICES ASSUME Full, Pipe PROVE Built'
  OBVIOUS
<1>0. /\ "|" \in Token /\ Reads("|") /\ status = "parsing" /\ Inv /\ Typed /\ Building
  BY DEF Token, Pipe, Reads, Full, Grammar, Inv, Built
<1>1. CASE parseline_error(state)
  BY <1>1, StopBuilt DEF parseline_error
<1>2. CASE /\ state = 1
           /\ cmdIdx' = cmdIdx + 1 /\ argIdx' = 0 /\ argMax' = 0 /\ state' = 0
           /\ UNCHANGED <<inout, jobs, jobIdx, cmdMax, jobBegin, status, result,
                          error, freed>>
  <2>1. /\ text \in Seq(Token) /\ text' = Append(text, "|") /\ jobIdx \in Nat
        /\ JobOf(text', Len(text') + 1) = jobIdx + 1
        /\ CommandOf(text', Len(text') + 1) = cmdIdx + 2
        /\ \A i \in 1..jobIdx : JobDone(text', i, jobs[i])
    <3>1. "|" # "&" OBVIOUS
    <3> QED BY <1>0, <3>1, BuildingReads
  <2>2. cmdIdx \in Nat /\ argIdx \in Nat BY <1>0 DEF Typed
  <2>3. InState' BY <1>2 DEF InState
  <2>4. Position' BY <1>2, <2>1, <2>2 DEF Position
  <2>5. Current'
    <3> SUFFICES ASSUME jobs # <<>>
                 PROVE  Progress(text', jobIdx + 1, jobs[jobIdx + 1], cmdIdx + 1, 0, jobBegin)
      BY <1>2 DEF Current
    <3>1. PICK job : job = jobs[jobIdx + 1] OBVIOUS
    <3>2. /\ Progress(text, jobIdx + 1, job, cmdIdx, argIdx, jobBegin)
          /\ argIdx > 0 /\ cmdIdx + 1 = CommandOf(text, Len(text) + 1)
          /\ jobIdx + 1 = JobOf(text, Len(text) + 1)
      BY <1>0, <1>2, <3>1 DEF Building, Current, InState, Position
    <3>3. /\ Fill(job.argv, 1, cmdIdx, cmdMax, argIdx, argMax)
          /\ job.argv \in Seq(Seq(Nat)) /\ cmdMax \in Nat /\ argMax \in Nat
      <4>1. jobIdx + 1 \in 1..Len(jobs) /\ Fill(job.argv, 1, cmdIdx, cmdMax, argIdx, argMax)
        BY <1>0, <1>2, <2>1, <3>1 DEF Inv, Typed, Arrays, CurrentJob
      <4> QED BY <1>0, <3>1, <4>1, JobTyped DEF Typed
    <3>4. Listed(job.argv[cmdIdx + 1], ArgsIn(text, jobIdx + 1, cmdIdx + 1))
      <4>1. Filling(job.argv[cmdIdx + 1], argIdx, ArgsIn(text, jobIdx + 1, cmdIdx + 1))
        BY <3>2 DEF Progress
      <4>2. 1 \in {1, 2, 3} OBVIOUS
      <4> QED BY <2>2, <3>3, <4>1, <4>2, CommandListed
    <3> QED BY <2>1, <2>2, <3>1, <3>2, <3>4, ProgressPipe
  <2>6. Coming' /\ Done' /\ freed' = {} BY <1>0, <1>2, <2>1 DEF Building, Coming, Done
  <2> QED BY <1>0, <1>2, <2>3, <2>4, <2>5, <2>6 DEF Built, Building, Accepted
<1> QED BY <1>1, <1>2 DEF Pipe

LEMMA RedirectBuilt == ASSUME NEW t \in Redirection PROVE Full /\ Redirect(t) => Built'
<1> SUFFICES ASSUME Full, Redirect(t) PROVE Built'
  OBVIOUS
<1>0. /\ t \in Token /\ Reads(t) /\ status = "parsing" /\ Typed /\ Building
      /\ t # "&" /\ t # "|" /\ t # "word"
  BY DEF Token, Redirection, Redirect, Reads, Full, Grammar, Inv, Built
<1>1. CASE status' = "undefined"
  BY <1>1, StopBuilt
<1>2. CASE \E code : parseline_error(code)
  BY <1>2, StopBuilt DEF parseline_error
<1>3. CASE /\ ~NoEntry /\ File(t) = NULL /\ state \in {1, 3}
           /\ state' = 2 /\ inout' = t
           /\ UNCHANGED <<jobs, indexVars, jobBegin, status, result, error, freed>>
  <2>1. /\ text \in Seq(Token) /\ text' = Append(text, t) /\ jobIdx \in Nat
        /\ JobOf(text', Len(text') + 1) = jobIdx + 1
        /\ CommandOf(text', Len(text') + 1) = cmdIdx + 1
        /\ \A i \in 1..jobIdx : JobDone(text', i, jobs[i])
    BY <1>0, BuildingReads
  <2>2. InState' BY <1>0, <1>3 DEF InState, Building, indexVars
  <2>3. Position' BY <1>3, <2>1 DEF Position, indexVars
  <2>4. Current'
    <3> SUFFICES ASSUME jobs # <<>>
                 PROVE  /\ Progress(text', jobIdx + 1, jobs[jobIdx + 1], cmdIdx, argIdx, jobBegin)
                        /\ FileIn(jobs, jobIdx + 1, t) = NULL
      BY <1>3 DEF Current, indexVars
    <3>1. FileIn(jobs, jobIdx + 1, t) = NULL BY <1>3 DEF File, FileIn
    <3>2. Keeps(text, text', jobIdx + 1) BY <1>0, <2>1, BuiltAppend
    <3> QED BY <1>0, <3>1, <3>2 DEF Keeps, Building, Current
  <2>5. Coming' /\ Done' /\ freed' = {}
    BY <1>0, <1>3, <2>1 DEF Building, Coming, Done, indexVars
  <2> QED BY <1>0, <1>3, <2>2, <2>3, <2>4, <2>5 DEF Built, Building, Accepted
<1> QED BY <1>1, <1>2, <1>3 DEF Redirect

LEMMA ErrorBuilt ==
  Full /\ (Misplaced \/ Unquoted \/ OutOfMemory \/ CutOff) => Built'
<1> SUFFICES ASSUME Misplaced \/ Unquoted \/ OutOfMemory \/ CutOff PROVE Built'
  OBVIOUS
<1>1. status' # "parsing" /\ (status' # "returned" \/ result' = -1)
  BY DEF Misplaced, Unquoted, OutOfMemory, CutOff, parseline_error
<1> QED BY <1>1, StopBuilt
\* The job being read in a state that can end it.
LEMMA CurrentEnds ==
  ASSUME Inv, Building, status = "parsing", state \in {1, 3}
  PROVE  LET k == jobIdx + 1
         IN /\ k \in 1..Len(jobs) /\ k < Len(jobs) /\ jobs[k] \in Job
            /\ jobs[k].mode = "foreground" /\ jobs[k + 1] = NoJob
            /\ \A new : /\ new.infile = jobs[k].infile /\ new.outfile = jobs[k].outfile
                        /\ new.argv = jobs[k].argv
                        /\ new.num = cmdIdx + 1 /\ new.begin = jobBegin
                        => JobBuilt(text, k, new)
<1> DEFINE k == jobIdx + 1
<1>1. /\ jobs \in Seq(Job) /\ jobIdx \in Nat /\ cmdIdx \in Nat /\ cmdMax \in Nat
      /\ argIdx \in Nat /\ argMax \in Nat /\ text \in Seq(Token)
  BY DEF Inv, Typed
<1>2. jobs # <<>> BY DEF Inv, Arrays, NoArrays
<1>3. jobIdx < Len(jobs) /\ Fill(jobs[k].argv, state, cmdIdx, cmdMax, argIdx, argMax)
  BY <1>2 DEF Inv, Arrays, CurrentJob
<1>4. k < Len(jobs)
  <2>1. cmdMax > 0 BY <1>1, <1>3 DEF Fill
  <2> QED BY <2>1 DEF Inv, Arrays, SpareJob
<1>5. k \in 1..Len(jobs) /\ k + 1 \in 1..Len(jobs) /\ k + 1 > jobIdx + 1
  BY <1>1, <1>3, <1>4
<1>6. jobs[k] \in Job /\ jobs[k].argv \in Seq(Seq(Nat)) BY <1>5, JobTyped DEF Inv
<1>7. jobs[k + 1] = NoJob BY <1>5 DEF Building, Coming
<1>8. /\ Progress(text, k, jobs[k], cmdIdx, argIdx, jobBegin) /\ argIdx > 0
      /\ k = JobOf(text, Len(text) + 1) /\ cmdIdx + 1 = CommandOf(text, Len(text) + 1)
  BY <1>2 DEF Building, Current, InState, Position
<1>9. jobs[k].mode = "foreground" BY <1>1, <1>8 DEF Progress
<1>10. ASSUME NEW new, new.infile = jobs[k].infile, new.outfile = jobs[k].outfile,
              new.argv = jobs[k].argv, new.num = cmdIdx + 1, new.begin = jobBegin
       PROVE  JobBuilt(text, k, new)
  <2>1. PICK job, j, b : job = jobs[k] /\ j = k /\ b = jobBegin OBVIOUS
  <2> HIDE DEF k
  <2> QED BY <1>1, <1>3, <1>6, <1>8, <1>10, <2>1, Completed
<1> QED BY <1>4, <1>5, <1>6, <1>7, <1>9, <1>10

LEMMA BackgroundBuilt == Full /\ Background => Built'
<1> SUFFICES ASSUME Full, Background PROVE Built'
  OBVIOUS
<1>0. /\ "&" \in Token /\ Reads("&") /\ status = "parsing" /\ Inv /\ Typed /\ Building
  BY DEF Token, Background, Reads, Full, Grammar, Inv, Built
<1>1. CASE parseline_error(state)
  BY <1>1, StopBuilt DEF parseline_error
<1>2. CASE /\ state \in {1, 3}
           /\ jobs' = [jobs EXCEPT ![jobIdx + 1].num = cmdIdx + 1,
                                   ![jobIdx + 1].begin = jobBegin,
                                   ![jobIdx + 1].mode = "background"]
           /\ jobIdx' = jobIdx + 1
           /\ cmdIdx' = 0 /\ cmdMax' = 0 /\ argIdx' = 0 /\ argMax' = 0
           /\ state' = 4
           /\ UNCHANGED <<inout, jobBegin, status, result, error, freed>>
  <2> DEFINE k == jobIdx + 1
             x == [jobs[k] EXCEPT !.num = cmdIdx + 1, !.begin = jobBegin,
                                  !.mode = "background"]
  <2>1. /\ text \in Seq(Token) /\ text' = Append(text, "&") /\ jobIdx \in Nat
        /\ text' \in Seq(Token)
        /\ JobOf(text', Len(text') + 1) = k + 1
        /\ CommandOf(text', Len(text') + 1) = 1
        /\ \A i \in 1..jobIdx : JobDone(text', i, jobs[i])
    <3>1. jobIdx + 2 = k + 1 BY <1>0 DEF Typed
    <3> QED BY <1>0, <3>1, BuildingReads
  <2>2. /\ k \in 1..Len(jobs) /\ k < Len(jobs) /\ jobs[k] \in Job
        /\ jobs[k + 1] = NoJob
        /\ \A new : /\ new.infile = jobs[k].infile /\ new.outfile = jobs[k].outfile
                    /\ new.argv = jobs[k].argv
                    /\ new.num = cmdIdx + 1 /\ new.begin = jobBegin
                    => JobBuilt(text, k, new)
    BY <1>0, <1>2, CurrentEnds
  <2>3. /\ x \in Job /\ x.infile = jobs[k].infile /\ x.outfile = jobs[k].outfile
        /\ x.argv = jobs[k].argv /\ x.num = cmdIdx + 1 /\ x.begin = jobBegin
        /\ x.mode = "background"
    <3>1. jobs[k] \in Job /\ cmdIdx + 1 \in Nat /\ jobBegin \in Nat
      BY <1>0, <2>2 DEF Typed
    <3> HIDE DEF k
    <3> QED BY <3>1 DEF Job
  <2>4. jobs' = [jobs EXCEPT ![k] = x] BY <1>2
  <2> HIDE DEF x
  <2>5. /\ jobs' \in Seq(Job) /\ Len(jobs') = Len(jobs) /\ jobs'[k] = x
        /\ \A i \in 1..Len(jobs) : i # k => jobs'[i] = jobs[i]
    BY <1>0, <2>2, <2>3, <2>4, StoreLemma DEF Typed
  <2>6. JobDone(text', k, x)
    <3>1. JobBuilt(text, k, x) BY <2>2, <2>3
    <3>2. "&" # "word" OBVIOUS
    <3>3. JobBuilt(text', k, x)
      <4>1. Keeps(text, text', k) BY <1>0, <2>1, <3>2, BuiltAppend
      <4> QED BY <3>1, <4>1 DEF Keeps
    <3>4. Closed(text', k)
      <4>1. Extends(text, "&", text') BY <1>0, <2>1, EarlierAppend
      <4>2. JobOf(text, Len(text) + 1) = k BY <1>0 DEF Building, Position
      <4>3. Len(text) + 1 \in DOMAIN text' BY <4>1 DEF Extends
      <4>4. text'[Len(text) + 1] = "&" /\ JobOf(text', Len(text) + 1) = k
        BY <4>1, <4>2, <4>3 DEF Extends
      <4> QED BY <4>3, <4>4 DEF Closed
    <3> QED BY <2>3, <3>3, <3>4 DEF JobDone
  <2>7. InState' BY <1>2 DEF InState
  <2>8. Position' BY <1>2, <2>1 DEF Position
  <2>9. Current'
    <3>1. WordsIn(text', k + 1) = {}
      <4>1. WordsIn(text, k + 1) = {}
        <5>1. JobOf(text, Len(text) + 1) = k BY <1>0 DEF Building, Position
        <5>2. k + 1 \in Nat /\ k + 1 > k BY <2>1
        <5> QED BY <2>1, <5>1, <5>2, JobsRead
      <4>2. Adds(text, "&", text', k + 1) BY <1>0, <2>1, WordsAppend
      <4> QED BY <4>1, <4>2 DEF Adds
    <3>2. jobs'[k + 1] = NoJob
      <4>1. k + 1 \in 1..Len(jobs) /\ k + 1 # k BY <2>1, <2>2
      <4> QED BY <2>2, <2>5, <4>1
    <3>3. Progress(text', k + 1, NoJob, 0, 0, jobBegin)
      BY <2>1, <3>1, ProgressNew
    <3> QED BY <1>2, <3>2, <3>3 DEF Current
  <2>10. Coming'
    <3> SUFFICES ASSUME NEW i \in 1..Len(jobs), i > k + 1 PROVE jobs'[i] = NoJob
      BY <1>2, <2>5 DEF Coming
    <3>1. i # k /\ i > k BY <2>1
    <3> QED BY <1>0, <2>5, <3>1 DEF Building, Coming
  <2>11. Done'
    <3> SUFFICES ASSUME NEW i \in 1..k PROVE JobDone(text', i, jobs'[i])
      BY <1>2 DEF Done
    <3>1. CASE i = k BY <2>5, <2>6, <3>1
    <3>2. CASE i # k
      <4>1. i \in 1..jobIdx /\ i \in 1..Len(jobs) BY <2>1, <2>2, <3>2
      <4> QED BY <2>1, <2>5, <3>2, <4>1
    <3> QED BY <3>1, <3>2
  <2>12. freed' = {} BY <1>0, <1>2 DEF Building
  <2> QED BY <1>0, <1>2, <2>7, <2>8, <2>9, <2>10, <2>11, <2>12 DEF Built, Building, Accepted
<1> QED BY <1>1, <1>2 DEF Background

LEMMA FileNameBuilt == Full /\ FileName => Built'
<1> SUFFICES ASSUME Full, FileName PROVE Built'
  OBVIOUS
<1> DEFINE k == jobIdx + 1
           n == Len(text) + 1
<1>0. /\ "word" \in Token /\ Reads("word") /\ status = "parsing" /\ state = 2
      /\ state' = 3 /\ Inv /\ Typed /\ Building /\ Reading
      /\ UNCHANGED <<inout, indexVars, jobBegin, status, result, error, freed>>
  BY DEF Token, FileName, Reads, Full, Grammar, Inv, Built
<1>1. /\ text \in Seq(Token) /\ text' = Append(text, "word") /\ jobIdx \in Nat
      /\ JobOf(text', Len(text') + 1) = k
      /\ CommandOf(text', Len(text') + 1) = cmdIdx + 1
      /\ \A i \in 1..jobIdx : JobDone(text', i, jobs[i])
  <2>1. "word" # "&" /\ "word" # "|" OBVIOUS
  <2> QED BY <1>0, <2>1, BuildingReads
<1>2. /\ inout \in Redirection /\ jobs \in Seq(Job) /\ n \in Nat
      /\ LastOf(text) = inout
  BY <1>0 DEF Typed, Reading, LastFits
<1>3. k \in 1..Len(jobs) /\ jobs # <<>>
  BY <1>0 DEF Inv, Typed, Arrays, NoArrays, CurrentJob
<1>4. PICK job : job = jobs[k] OBVIOUS
<1>5. /\ Progress(text, k, job, cmdIdx, argIdx, jobBegin) /\ argIdx > 0
      /\ (IF inout = "<" THEN job.infile ELSE job.outfile) = NULL
      /\ k = JobOf(text, Len(text) + 1)
  BY <1>0, <1>3, <1>4 DEF Building, Current, InState, Position, FileIn
<1>6. PICK new \in Job : /\ new.argv = job.argv /\ new.mode = job.mode
                         /\ new.infile = IF inout = "<" THEN n ELSE job.infile
                         /\ new.outfile = IF inout = ">" THEN n ELSE job.outfile
                         /\ jobs' = [jobs EXCEPT ![k] = new]
  <2>1. job \in Job BY <1>2, <1>3, <1>4
  <2>2. inout = "<" \/ inout = ">" BY <1>2 DEF Redirection
  <2>3. CASE inout = "<"
    <3> DEFINE x == [job EXCEPT !.infile = n]
    <3>1. x \in Job /\ x.infile = n /\ x.outfile = job.outfile /\ x.argv = job.argv
          /\ x.mode = job.mode
      BY <1>2, <2>1 DEF Job
    <3>2. jobs' = [jobs EXCEPT ![k] = x] BY <1>4, <2>3 DEF FileName
    <3> HIDE DEF x
    <3> QED BY <2>3, <3>1, <3>2
  <2>4. CASE inout = ">"
    <3> DEFINE x == [job EXCEPT !.outfile = n]
    <3>1. x \in Job /\ x.outfile = n /\ x.infile = job.infile /\ x.argv = job.argv
          /\ x.mode = job.mode
      BY <1>2, <2>1 DEF Job
    <3>2. jobs' = [jobs EXCEPT ![k] = x] BY <1>4, <2>4 DEF FileName
    <3> HIDE DEF x
    <3> QED BY <2>4, <3>1, <3>2
  <2> QED BY <2>2, <2>3, <2>4
<1>7. /\ Len(jobs') = Len(jobs) /\ jobs'[k] = new
      /\ \A i \in 1..Len(jobs) : i # k => jobs'[i] = jobs[i]
  BY <1>2, <1>3, <1>6, StoreLemma
<1>8. Progress(text', k, new, cmdIdx, argIdx, jobBegin)
  <2>1. cmdIdx \in Nat /\ argIdx \in Nat BY <1>0 DEF Typed
  <2> HIDE DEF k
  <2> QED BY <1>1, <1>2, <1>5, <1>6, <2>1, ProgressFile DEF n
<1>9. InState' BY <1>0, <1>5 DEF InState, indexVars
<1>10. Position' BY <1>0, <1>1 DEF Position, indexVars
<1>11. Current' BY <1>0, <1>7, <1>8 DEF Current, indexVars
<1>12. Coming'
  <2> SUFFICES ASSUME NEW i \in 1..Len(jobs), i > k PROVE jobs'[i] = NoJob
    BY <1>0, <1>7 DEF Coming, indexVars
  <2>1. i # k BY <1>1
  <2> QED BY <1>0, <1>7, <2>1 DEF Building, Coming
<1>13. Done'
  <2> SUFFICES ASSUME NEW i \in 1..jobIdx PROVE JobDone(text', i, jobs'[i])
    BY <1>0 DEF Done, indexVars
  <2>1. i # k /\ i \in 1..Len(jobs) BY <1>1, <1>3
  <2> QED BY <1>1, <1>7, <2>1
<1>14. freed' = {} BY <1>0 DEF Building
<1> QED BY <1>0, <1>9, <1>10, <1>11, <1>12, <1>13, <1>14 DEF Built, Building, Accepted
\* The arrays of jobs after they have grown: nothing is lost, nothing is new.
LEMMA GrownBuilt ==
  ASSUME Inv, Building, status = "parsing", state \in {0, 1, 4}
  PROVE  /\ Progress(text, jobIdx + 1, GrownJobs[jobIdx + 1], cmdIdx, argIdx, jobBegin)
         /\ \A i \in 1..jobIdx : i \in 1..Len(GrownJobs) /\ GrownJobs[i] = jobs[i]
         /\ \A i \in 1..Len(GrownJobs) : i > jobIdx + 1 => GrownJobs[i] = NoJob
<1>0. /\ jobs \in Seq(Job) /\ Len(jobs) \in Nat /\ jobIdx \in Nat /\ cmdMax \in Nat
      /\ cmdIdx \in Nat /\ argIdx \in Nat /\ argMax \in Nat /\ text \in Seq(Token)
  BY DEF Inv, Typed
<1>1. CASE ~JobsGrow
  <2>1. jobIdx + 1 < Len(jobs) /\ jobs # <<>> BY <1>0, <1>1 DEF JobsGrow
  <2>2. GrownJobs = jobs BY <1>1 DEF GrownJobs
  <2>3. \A i \in 1..jobIdx : i \in 1..Len(jobs) BY <1>0, <2>1
  <2> QED BY <2>1, <2>2, <2>3 DEF Building, Current, Coming
<1>2. CASE JobsGrow
  <2>1. PICK max \in Nat : max = Len(jobs) + GROW BY <1>0, ParserAssumption
  <2>2. GrownJobs = [i \in 1..max |-> IF i <= jobIdx THEN jobs[i] ELSE NoJob]
    BY <1>2, <2>1 DEF GrownJobs, Grow
  <2>3. jobIdx <= Len(jobs) BY <1>0 DEF Inv, Arrays, NoArrays, CurrentJob
  <2>4. jobIdx + 1 < max BY <1>0, <2>1, <2>3, ParserAssumption
  <2>5. /\ Len(GrownJobs) = max /\ GrownJobs[jobIdx + 1] = NoJob
        /\ \A i \in 1..jobIdx : i \in 1..max /\ GrownJobs[i] = jobs[i]
        /\ \A i \in 1..max : i > jobIdx + 1 => GrownJobs[i] = NoJob
    <3>1. Len(GrownJobs) = max BY <2>2
    <3>2. /\ jobIdx + 1 \in 1..max /\ ~(jobIdx + 1 <= jobIdx)
          /\ \A i \in 1..jobIdx : i \in 1..max /\ i <= jobIdx
          /\ \A i \in 1..max : i > jobIdx + 1 => ~(i <= jobIdx)
      BY <1>0, <2>4
    <3> QED BY <2>2, <3>1, <3>2
  <2>6. Progress(text, jobIdx + 1, NoJob, cmdIdx, argIdx, jobBegin)
    <3>1. CASE jobs = <<>>
      <4>1. text = <<>> /\ cmdIdx = 0 /\ argIdx = 0 BY <3>1 DEF Inv, Arrays, NoArrays
      <4>2. WordsIn(text, jobIdx + 1) = {} BY <4>1 DEF WordsIn
      <4> QED BY <1>0, <4>1, <4>2, ProgressNew
    <3>2. CASE jobs # <<>>
      <4>1. /\ jobIdx < Len(jobs) /\ cmdMax = 0
            /\ Fill(jobs[jobIdx + 1].argv, state, cmdIdx, cmdMax, argIdx, argMax)
        BY <1>0, <1>2, <3>2 DEF JobsGrow, Inv, Arrays, CurrentJob, SpareJob
      <4>2. cmdIdx = 0 /\ argIdx = 0 BY <1>0, <4>1 DEF Fill
      <4>3. Progress(text, jobIdx + 1, jobs[jobIdx + 1], cmdIdx, argIdx, jobBegin)
        BY <3>2 DEF Building, Current
      <4>4. jobs[jobIdx + 1] = NoJob BY <4>2, <4>3 DEF Progress
      <4> QED BY <4>3, <4>4
    <3> QED BY <3>1, <3>2
  <2> QED BY <2>5, <2>6
<1> QED BY <1>1, <1>2

LEMMA ArgumentBuilt == Full /\ Argument => Built'
<1> SUFFICES ASSUME Full, Argument PROVE Built'
  OBVIOUS
<1> DEFINE k == jobIdx + 1
           g == GrownJobs
           argv == StoreInCmds(g[k].argv)
           mode == IF g[k].mode = "undefined" THEN "foreground" ELSE g[k].mode
           s == Argv(g, k, argv)
<1>0. /\ "word" \in Token /\ Reads("word") /\ status = "parsing"
      /\ state \in {0, 1, 4} /\ state' = 1 /\ argIdx' = argIdx + 1
      /\ Inv /\ Typed /\ Building /\ Reading
      /\ UNCHANGED <<inout, jobIdx, cmdIdx, status, result, error, freed>>
  <2>1. Inv /\ Typed /\ Building /\ Reading BY DEF Full, Grammar, Inv, Built, Argument, Reads
  <2>2. /\ Reads("word") /\ state \notin {2, 3} /\ state' = 1 /\ argIdx' = argIdx + 1
        /\ UNCHANGED <<inout, jobIdx, cmdIdx, status, result, error, freed>>
    BY DEF Argument
  <2>3. "word" \in Token /\ status = "parsing" BY <2>2 DEF Token, Reads
  <2>4. state \in {0, 1, 4} BY <2>1, <2>2 DEF Typed
  <2> QED BY <2>1, <2>2, <2>3, <2>4
<1>1. /\ text \in Seq(Token) /\ text' = Append(text, "word") /\ jobIdx \in Nat
      /\ JobOf(text', Len(text') + 1) = k
      /\ CommandOf(text', Len(text') + 1) = cmdIdx + 1
      /\ \A i \in 1..jobIdx : JobDone(text', i, jobs[i])
  <2>1. "word" # "&" /\ "word" # "|" OBVIOUS
  <2> QED BY <1>0, <2>1, BuildingReads
<1>2. /\ g \in Seq(Job) /\ k < Len(g) /\ k \in 1..Len(g)
      /\ Fill(g[k].argv, state, cmdIdx, cmdMax, argIdx, argMax)
      /\ Progress(text, k, g[k], cmdIdx, argIdx, jobBegin)
      /\ \A i \in 1..jobIdx : i \in 1..Len(g) /\ g[i] = jobs[i]
      /\ \A i \in 1..Len(g) : i > k => g[i] = NoJob
  BY <1>0, <1>1, GrownJobsLemma, GrownBuilt
<1>3. /\ g[k] \in Job /\ g[k].argv \in Seq(Seq(Nat)) /\ Len(text) \in Nat
      /\ {cmdIdx, cmdMax, argIdx, argMax} \subseteq Nat
  <2>1. g[k] \in Job BY <1>2
  <2> QED BY <1>0, <2>1 DEF Typed, Job
<1>4. argv \in Seq(Seq(Nat))
  <2>1. /\ cmdMax' = IF CmdsGrow THEN cmdMax + GROW ELSE cmdMax
        /\ argMax' = IF ArgsGrow THEN argMax + GROW ELSE argMax
    BY DEF Argument
  <2> HIDE DEF g
  <2> QED BY <1>2, <1>3, <2>1, StoreInCmdsFills
<1>5. jobs' = Mode(s, k, mode)
  <2>1. jobs' = [g EXCEPT ![k].argv = StoreInCmds(@),
                          ![k].mode = IF @ = "undefined" THEN "foreground" ELSE @]
    BY DEF Argument
  <2>2. s[k].mode = g[k].mode /\ k \in DOMAIN g BY <1>2, <1>3 DEF Argv, Job
  <2> HIDE DEF g
  <2> QED BY <2>1, <2>2 DEF Argv, Mode
<1>6. mode = "foreground"
  <2>1. NoJob.mode = "undefined" BY DEF NoJob
  <2>2. g[k] = NoJob \/ g[k].mode = "foreground" BY <1>2 DEF Progress
  <2> QED BY <2>1, <2>2
<1>7. LET S == ArgsIn(text, k, cmdIdx + 1)
      IN /\ \A c \in 1..cmdIdx : argv[c] = g[k].argv[c]
         /\ Filling(argv[cmdIdx + 1], argIdx + 1, S \cup {Len(text) + 1})
  <2>1. Filling(g[k].argv[cmdIdx + 1], argIdx, ArgsIn(text, k, cmdIdx + 1))
    BY <1>2 DEF Progress
  <2>2. PICK S : S = ArgsIn(text, k, cmdIdx + 1) OBVIOUS
  <2>3. S \subseteq 1..Len(text)
    <3>1. WordsIn(text, k) \subseteq 1..Len(text) BY <1>1, PositionsLemma
    <3> QED BY <2>2, <3>1 DEF ArgsIn
  <2> HIDE DEF g, k
  <2> QED BY <1>2, <1>3, <2>1, <2>2, <2>3, StoreInCmdsLists
<1> HIDE DEF g, argv, mode
<1>8. /\ s \in Seq(Job) /\ Len(s) = Len(g) /\ s[k] = [g[k] EXCEPT !.argv = argv]
      /\ \A i \in 1..Len(g) : i # k => s[i] = g[i]
  <2>0. g \in Seq(Job) /\ k \in 1..Len(g) /\ argv \in Seq(Seq(Nat)) BY <1>2, <1>4
  <2>1. s = Argv(g, k, argv) OBVIOUS
  <2> HIDE DEF s, k
  <2> QED BY ONLY <2>0, <2>1, ArgvLemma
<1>9. PICK new \in Job : /\ new.infile = g[k].infile /\ new.outfile = g[k].outfile
                         /\ new.argv = argv /\ new.mode = "foreground"
                         /\ jobs' = [s EXCEPT ![k] = new]
  <2> DEFINE x == [s[k] EXCEPT !.mode = "foreground"]
  <2>1. /\ s[k] \in Job /\ s[k].argv = argv /\ s[k].infile = g[k].infile
        /\ s[k].outfile = g[k].outfile
    BY <1>3, <1>4, <1>8 DEF Job
  <2> HIDE DEF s
  <2>2. /\ x \in Job /\ x.infile = g[k].infile /\ x.outfile = g[k].outfile
        /\ x.argv = argv /\ x.mode = "foreground"
    BY <2>1 DEF Job
  <2>3. jobs' = [s EXCEPT ![k] = x] BY <1>5, <1>6 DEF Mode
  <2> HIDE DEF x
  <2> QED BY <2>2, <2>3
<1> HIDE DEF s
<1>10. /\ Len(jobs') = Len(g) /\ jobs'[k] = new
       /\ \A i \in 1..Len(g) : i # k => jobs'[i] = g[i]
  <2>1. k \in 1..Len(s) BY <1>2, <1>8
  <2>2. /\ Len(jobs') = Len(s) /\ jobs'[k] = new
        /\ \A i \in 1..Len(s) : i # k => jobs'[i] = s[i]
    BY <1>8, <1>9, <2>1, StoreLemma
  <2> QED BY <1>8, <2>2
<1>11. Progress(text', k, new, cmdIdx, argIdx + 1, jobBegin')
  <2>1. LastOf(text) \notin Redirection
    BY <1>0 DEF Reading, LastFits, LastOf, Redirection
  <2>2. /\ k = JobOf(text, Len(text) + 1) /\ cmdIdx + 1 = CommandOf(text, Len(text) + 1)
        /\ cmdIdx \in Nat /\ argIdx \in Nat
    BY <1>0 DEF Building, Position, Typed
  <2>3. jobBegin' = IF cmdIdx = 0 /\ argIdx = 0 THEN Len(text) + 1 ELSE jobBegin
    BY DEF Argument
  <2>4. PICK b2 : b2 = jobBegin' OBVIOUS
  <2>5. PICK job : job = g[k] OBVIOUS
  <2>6. PICK j : j = k OBVIOUS
  <2>7. PICK u : u = text' OBVIOUS
  <2>8. /\ Progress(text, j, job, cmdIdx, argIdx, jobBegin)
        /\ new.infile = job.infile /\ new.outfile = job.outfile
        /\ new.mode = "foreground" /\ \A c \in 1..cmdIdx : new.argv[c] = job.argv[c]
        /\ Filling(new.argv[cmdIdx + 1], argIdx + 1,
                   ArgsIn(text, j, cmdIdx + 1) \cup {Len(text) + 1})
        /\ j = JobOf(text, Len(text) + 1) /\ u = Append(text, "word")
        /\ b2 = IF cmdIdx = 0 /\ argIdx = 0 THEN Len(text) + 1 ELSE jobBegin
    BY <1>1, <1>2, <1>7, <1>9, <2>2, <2>3, <2>4, <2>5, <2>6, <2>7
  <2>9. Progress(u, j, new, cmdIdx, argIdx + 1, b2)
    <3>1. text \in Seq(Token) BY <1>1
    <3>2. cmdIdx + 1 = CommandOf(text, Len(text) + 1) /\ cmdIdx \in Nat /\ argIdx \in Nat
      BY <2>2
    <3> QED BY ONLY <3>1, <2>1, <3>2, <2>8, ProgressArgument
  <2> QED BY <2>4, <2>6, <2>7, <2>9
<1>12. InState' BY <1>0, <1>3 DEF InState
<1>13. Position' BY <1>0, <1>1 DEF Position
<1>14. Current' BY <1>0, <1>10, <1>11 DEF Current
<1>15. Coming'
  <2> SUFFICES ASSUME NEW i \in 1..Len(g), i > k PROVE jobs'[i] = NoJob
    BY <1>0, <1>10 DEF Coming
  <2>1. i # k BY <1>1
  <2> QED BY <1>2, <1>10, <2>1
<1>16. Done'
  <2> SUFFICES ASSUME NEW i \in 1..jobIdx PROVE JobDone(text', i, jobs'[i])
    BY <1>0 DEF Done
  <2>1. i # k BY <1>1
  <2> QED BY <1>1, <1>2, <1>10, <2>1
<1>17. freed' = {} BY <1>0 DEF Building
<1> QED BY <1>0, <1>12, <1>13, <1>14, <1>15, <1>16, <1>17 DEF Built, Building, Accepted
\* The number of jobs of a line.
LEMMA JobsIs ==
  ASSUME NEW s \in Seq(Token), s # <<>>
  PROVE  Jobs(s) = IF s[Len(s)] = "&" THEN JobOf(s, Len(s) + 1) - 1
                   ELSE JobOf(s, Len(s) + 1)
<1>1. PICK n \in Nat \ {0} : n = Len(s) /\ DOMAIN s = 1..n OBVIOUS
<1>2. PICK c \in Nat : c = Cardinality(Amps(s, n + 1)) /\ JobOf(s, n + 1) = 1 + c
  <2>1. n + 1 \in Nat OBVIOUS
  <2> QED BY <2>1, AmpsFinite, JobOfIs
<1>3. {i \in DOMAIN s : s[i] = "&"} = Amps(s, n + 1)
  <2>1. (n + 1) - 1 = n OBVIOUS
  <2> QED BY <1>1, <2>1 DEF Amps
<1>4. n \in Amps(s, n + 1) <=> s[n] = "&"
  <2>1. n \in 1..((n + 1) - 1) OBVIOUS
  <2> QED BY <2>1 DEF Amps
<1>5. Jobs(s) = c + IF n \in Amps(s, n + 1) THEN 0 ELSE 1
  BY <1>1, <1>2, <1>3 DEF Jobs
<1> QED BY <1>1, <1>2, <1>4, <1>5

LEMMA NewlineBuilt == Full /\ Newline => Built'
<1> SUFFICES ASSUME Full, Newline PROVE Built'
  OBVIOUS
<1>0. /\ status = "parsing" /\ text' = text /\ Inv /\ Typed /\ Building /\ Reading
      /\ jobs \in Seq(Job) /\ text \in Seq(Token) /\ state \in 0..4 /\ jobIdx \in Nat
  <2>1. status = "parsing" /\ text' = text BY DEF Newline
  <2>2. Inv /\ Typed /\ Building /\ Reading BY <2>1 DEF Full, Grammar, Inv, Built
  <2> QED BY <2>1, <2>2 DEF Typed
<1>1. CASE parseline_error(state)
  BY <1>1, StopBuilt DEF parseline_error
<1>2. CASE /\ state \in {0, 2} => jobs = <<>>
           /\ jobs' = IF state \in {1, 3}
                      THEN [jobs EXCEPT ![jobIdx + 1].num = cmdIdx + 1,
                                        ![jobIdx + 1].begin = jobBegin]
                      ELSE jobs
           /\ status' = "returned"
           /\ result' = IF state = 0 /\ jobIdx = 0 THEN 0
                        ELSE IF state = 4 THEN jobIdx ELSE jobIdx + 1
           /\ UNCHANGED <<state, inout, indexVars, jobBegin, error, freed>>
  <2> DEFINE k == jobIdx + 1
  <2>1. /\ JobOf(text, Len(text) + 1) = k /\ freed' = {}
        /\ \A i \in 1..jobIdx : JobDone(text, i, jobs[i])
        /\ \A i \in 1..Len(jobs) : i > k => jobs[i] = NoJob
    BY <1>0, <1>2 DEF Building, Position, Done, Coming
  <2>2. CASE state \in {0, 2}
    <3>1. jobs = <<>> /\ state = 0 /\ jobIdx = 0 /\ text = <<>>
      BY <1>0, <1>2, <2>2 DEF Inv, Arrays, NoArrays
    <3>2. result' = 0 BY <1>2, <3>1
    <3> QED BY <1>0, <1>2, <2>1, <3>1, <3>2 DEF Built, Finished
  <2>3. CASE state = 4
    <3>1. text # <<>> /\ text[Len(text)] = "&" BY <1>0, <2>3 DEF Reading, LastFits, LastOf
    <3>2. result' = jobIdx /\ jobs' = jobs BY <1>2, <2>3
    <3>3. Jobs(text) = jobIdx
      <4>1. Jobs(text) = k - 1 BY <1>0, <2>1, <3>1, JobsIs
      <4> QED BY <1>0, <4>1
    <3>4. jobIdx > 0 => jobIdx < Len(jobs) /\ jobs[jobIdx + 1] = NoJob
      <4> SUFFICES ASSUME jobIdx > 0 PROVE jobIdx < Len(jobs) /\ jobs[k] = NoJob
        OBVIOUS
      <4>1. jobs # <<>> BY <1>0 DEF Inv, Arrays, NoArrays
      <4>2. jobIdx < Len(jobs) BY <1>0, <4>1 DEF Inv, Arrays, CurrentJob
      <4>3. cmdIdx = 0 /\ argIdx = 0 /\ Progress(text, k, jobs[k], cmdIdx, argIdx, jobBegin)
        BY <1>0, <2>3, <4>1 DEF Building, InState, Current
      <4> QED BY <4>2, <4>3 DEF Progress
    <3>5. \A j \in 1..jobIdx :
            /\ JobBuilt(text, j, jobs[j])
            /\ jobs[j].mode = IF Closed(text, j) THEN "background" ELSE "foreground"
      BY <2>1 DEF JobDone
    <3> QED BY <1>0, <1>2, <2>1, <3>1, <3>2, <3>3, <3>4, <3>5 DEF Built, Finished
  <2>4. CASE state \in {1, 3}
    <3> DEFINE x == [jobs[k] EXCEPT !.num = cmdIdx + 1, !.begin = jobBegin]
    <3>1. text # <<>> /\ text[Len(text)] # "&"
      BY <1>0, <2>4 DEF Reading, LastFits, LastOf
    <3>2. result' = k BY <1>2, <2>4
    <3>3. Jobs(text) = k BY <1>0, <2>1, <3>1, JobsIs
    <3>4. /\ k \in 1..Len(jobs) /\ k < Len(jobs) /\ jobs[k] \in Job
          /\ jobs[k].mode = "foreground" /\ jobs[k + 1] = NoJob
          /\ \A new : /\ new.infile = jobs[k].infile /\ new.outfile = jobs[k].outfile
                      /\ new.argv = jobs[k].argv
                      /\ new.num = cmdIdx + 1 /\ new.begin = jobBegin
                      => JobBuilt(text, k, new)
      BY <1>0, <2>4, CurrentEnds
    <3>5. /\ x \in Job /\ x.infile = jobs[k].infile /\ x.outfile = jobs[k].outfile
          /\ x.argv = jobs[k].argv /\ x.num = cmdIdx + 1 /\ x.begin = jobBegin
          /\ x.mode = "foreground"
      <4>1. jobs[k] \in Job /\ cmdIdx + 1 \in Nat /\ jobBegin \in Nat /\ jobs[k].mode = "foreground"
        BY <1>0, <3>4 DEF Typed
      <4> HIDE DEF k
      <4> QED BY <4>1 DEF Job
    <3>6. jobs' = [jobs EXCEPT ![k] = x] BY <1>2, <2>4
    <3> HIDE DEF x
    <3>7. /\ Len(jobs') = Len(jobs) /\ jobs'[k] = x
          /\ \A i \in 1..Len(jobs) : i # k => jobs'[i] = jobs[i]
      BY <1>0, <3>4, <3>5, <3>6, StoreLemma
    <3>8. k < Len(jobs') /\ jobs'[k + 1] = NoJob
      <4>1. k + 1 \in 1..Len(jobs) /\ k + 1 # k BY <1>0, <3>4
      <4> QED BY <3>4, <3>7, <4>1
    <3>9. ASSUME NEW j \in 1..k
          PROVE  /\ JobBuilt(text, j, jobs'[j])
                 /\ jobs'[j].mode = IF Closed(text, j) THEN "background" ELSE "foreground"
      <4>1. CASE j = k
        <5>1. ~Closed(text, k) BY <1>0, <2>1, JobsRead
        <5>2. JobBuilt(text, k, x) BY <3>4, <3>5
        <5> QED BY <3>5, <3>7, <4>1, <5>1, <5>2
      <4>2. CASE j # k
        <5>1. j \in 1..jobIdx /\ j \in 1..Len(jobs) BY <1>0, <3>4, <4>2
        <5> QED BY <2>1, <3>7, <4>2, <5>1 DEF JobDone
      <4> QED BY <4>1, <4>2
    <3> HIDE DEF k
    <3> QED BY <1>0, <1>2, <2>1, <3>1, <3>2, <3>3, <3>8, <3>9 DEF Built, Finished
  <2> QED BY <1>0, <2>2, <2>3, <2>4
<1> QED BY <1>1, <1>2 DEF Newline

\* What the walks find of a job that has been built.
LEMMA CommandsLemma ==
  ASSUME NEW j \in 1..Len(jobs), jobs[j] \in Job, text \in Seq(Token),
         JobBuilt(text, j, jobs[j])
  PROVE  /\ DOMAIN Commands(j) = 1..jobs[j].num
         /\ \A c \in 1..jobs[j].num : InOrder(Commands(j)[c], ArgsIn(text, j, c))
<1> DEFINE num == jobs[j].num
           argv == jobs[j].argv
<1>1. num \in Nat /\ argv \in Seq(Seq(Nat)) BY DEF Job
<1>2. /\ num < Len(argv) /\ argv[num + 1] = <<>>
      /\ \A c \in 1..num : Listed(argv[c], ArgsIn(text, j, c))
  BY DEF JobBuilt, Ends
<1>3. PICK w : w = Walk(argv, <<>>) OBVIOUS
<1>4. \A c \in 1..num : argv[c] # <<>> /\ argv[c] \in Seq(Nat)
  <2> TAKE c \in 1..num
  <2>1. PICK m \in Nat : m < Len(argv[c]) BY <1>2 DEF Listed
  <2>2. c \in 1..Len(argv) BY <1>1, <1>2
  <2>3. argv[c] \in Seq(Nat) BY <1>1, <2>2
  <2> QED BY <2>1, <2>3
<1>5. w \in Seq(Seq(Nat)) /\ Len(w) = num /\ \A c \in 1..num : w[c] = argv[c]
  <2> HIDE DEF num, argv
  <2>1. PICK Args : Args = Seq(Nat) OBVIOUS
  <2>2. argv \in Seq(Args) BY <1>1, <2>1
  <2>3. PICK null : null = <<>> OBVIOUS
  <2>4. argv[num + 1] = null /\ \A c \in 1..num : argv[c] # null
    BY <1>2, <1>4, <2>3
  <2>5. Upto(Walk(argv, null), argv, Args, num)
    BY ONLY <1>1, <1>2, <2>2, <2>4, WalkStops
  <2> QED BY <1>3, <2>1, <2>3, <2>5 DEF Upto
<1>6. Commands(j) = [c \in 1..num |-> Walk(argv[c], NULL)]
  <2>1. Commands(j) = [c \in DOMAIN w |-> Walk(w[c], NULL)] BY <1>3 DEF Commands
  <2>2. DOMAIN w = 1..num BY <1>1, <1>5
  <2> HIDE DEF num, argv
  <2> QED BY <1>5, <2>1, <2>2
<1>7. ASSUME NEW c \in 1..num PROVE InOrder(Commands(j)[c], ArgsIn(text, j, c))
  <2>1. PICK S, args : S = ArgsIn(text, j, c) /\ args = argv[c] OBVIOUS
  <2>2. PICK m \in Nat : m < Len(args) /\ args[m + 1] = NULL /\ Filling(args, m, S)
    BY <1>2, <2>1 DEF Listed
  <2>3. {args[i] : i \in 1..m} = S /\ \A a, b \in 1..m : a < b => args[a] < args[b]
    BY <2>2 DEF Filling
  <2>4. \A i \in 1..m : args[i] # NULL
    <3>1. S \subseteq WordsIn(text, j) /\ WordsIn(text, j) \subseteq Nat \ {0}
      BY <2>1, PositionsLemma
    <3>2. NULL \notin S BY <3>1 DEF NULL
    <3> QED BY <2>3, <3>2
  <2>5. args \in Seq(Nat) BY <1>4, <2>1
  <2>6. PICK v : v = Walk(args, NULL) OBVIOUS
  <2>7. v \in Seq(Nat) /\ Len(v) = m /\ \A i \in 1..m : v[i] = args[i]
    <3>1. PICK null, T : null = NULL /\ T = Nat OBVIOUS
    <3>2. args \in Seq(T) /\ args[m + 1] = null /\ \A i \in 1..m : args[i] # null
      BY <2>2, <2>4, <2>5, <3>1
    <3>3. Upto(Walk(args, null), args, T, m) BY ONLY <2>2, <3>2, WalkStops
    <3> QED BY <2>6, <3>1, <3>3 DEF Upto
  <2>8. DOMAIN v = 1..m BY <2>7
  <2>9. Range(v) = S BY ONLY <2>3, <2>7, <2>8 DEF Range
  <2>10. InOrder(v, S) BY ONLY <2>3, <2>7, <2>8, <2>9 DEF InOrder
  <2>11. Commands(j)[c] = v BY <1>6, <2>1, <2>6
  <2> QED BY <2>1, <2>10, <2>11
<1> QED BY <1>6, <1>7
\* The grammar gives a job one file name of each kind.
LEMMA OneFile ==
  ASSUME NEW s \in Seq(Token), Viable(s), NEW j, NEW r \in Redirection,
         NEW i \in FilesIn(s, j, r), NEW k \in FilesIn(s, j, r)
  PROVE  i = k
<1>1. ASSUME NEW a \in FilesIn(s, j, r), NEW b \in FilesIn(s, j, r), a < b
      PROVE  FALSE
  <2>0. r # "&" BY DEF Redirection
  <2>1. /\ a \in DOMAIN s /\ b \in DOMAIN s /\ Before(s, a) = r /\ Before(s, b) = r
        /\ JobOf(s, a) = j /\ JobOf(s, b) = j
    BY DEF FilesIn, WordsIn
  <2>2. a # 1 /\ s[a - 1] = r /\ b # 1 /\ s[b - 1] = r
    BY <2>0, <2>1 DEF Before
  <2>3. PICK p, q \in Nat \ {0} : a = p + 1 /\ b = q + 1
    <3>1. a \in Nat /\ b \in Nat /\ a > 1 /\ b > 1 BY <2>1, <2>2
    <3>2. a - 1 \in Nat \ {0} /\ b - 1 \in Nat \ {0} BY <3>1
    <3>3. a = (a - 1) + 1 /\ b = (b - 1) + 1 BY <3>1
    <3> QED BY <3>2, <3>3
  <2>4. s[p] = r /\ s[q] = r /\ p \in 1..(q - 1) /\ q \in DOMAIN s
    BY <1>1, <2>1, <2>2, <2>3
  <2>5. JobOf(s, p) = j /\ JobOf(s, q) = j
    <3>1. JobOf(s, p + 1) = JobOf(s, p) /\ JobOf(s, q + 1) = JobOf(s, q)
      BY <2>0, <2>4, JobOfStep
    <3> QED BY <2>1, <2>3, <3>1
  <2>6. MayFollow(s, q) BY <2>4 DEF Viable
  <2>7. s[q] # "word" /\ s[q] # "|" /\ s[q] # "&" BY <2>4 DEF Redirection
  <2>8. \A m \in 1..(q - 1) : JobOf(s, m) = JobOf(s, q) => s[m] # s[q]
    BY <2>6, <2>7 DEF MayFollow
  <2> QED BY <2>4, <2>5, <2>8
<1>2. i \in Nat /\ k \in Nat BY DEF FilesIn, WordsIn
<1>3. i < k \/ k < i \/ i = k BY <1>2
<1> QED BY <1>1, <1>3

\* The words of a job of one command that writes to no file.
LEMMA WordsOfOne ==
  ASSUME text \in Seq(Token), Viable(text), NEW job, JobBuilt(text, 1, job),
         job.num = 1, job.outfile = NULL
  PROVE  WordsIn(text, 1) = ArgsIn(text, 1, 1) \cup ({job.infile, job.outfile} \ {NULL})
<1> DEFINE W == WordsIn(text, 1)
           F(r) == FilesIn(text, 1, r)
<1>1. /\ W \subseteq Nat \ {0} /\ F("<") \subseteq W /\ F(">") \subseteq W
      /\ ArgsIn(text, 1, 1) \subseteq W
  BY PositionsLemma
<1>2. job.infile = FirstOf(F("<")) /\ job.outfile = FirstOf(F(">"))
  BY DEF JobBuilt, FilesBuilt
<1>3. F(">") = {} BY <1>1, <1>2, FirstOfLemma
<1>4. F("<") = {job.infile} \ {NULL}
  <2>1. PICK S : S = F("<") OBVIOUS
  <2>2. S \subseteq Nat \ {0} /\ job.infile = FirstOf(S) BY <1>1, <1>2, <2>1
  <2>3. /\ FirstOf(S) = NULL <=> S = {}
        /\ S # {} => FirstOf(S) \in S
    BY <2>2, FirstOfLemma
  <2>4. \A i, k \in S : i = k BY <2>1, OneFile DEF Redirection
  <2> QED BY ONLY <2>1, <2>2, <2>3, <2>4
<1>5. ASSUME NEW i \in W PROVE i \in ArgsIn(text, 1, 1) \/ i \in F("<")
  <2>1. CASE IsFile(text, i)
    <3>1. i \in F("<") \/ i \in F(">") BY <2>1 DEF IsFile, Redirection, FilesIn
    <3> QED BY <1>3, <3>1
  <2>2. CASE ~IsFile(text, i)
    <3>1. CommandOf(text, i) <= 1 BY DEF JobBuilt, Counts
    <3>2. CommandOf(text, i) \in Nat /\ CommandOf(text, i) >= 1
      <4>1. i \in Nat BY <1>1
      <4> QED BY <4>1, CommandOfIs
    <3>3. CommandOf(text, i) = 1 BY <3>1, <3>2
    <3> QED BY <2>2, <3>3 DEF ArgsIn
  <2> QED BY <2>1, <2>2
<1> HIDE DEF W, F
<1>6. W = ArgsIn(text, 1, 1) \cup ({job.infile, job.outfile} \ {NULL})
  BY <1>1, <1>4, <1>5
<1> QED BY <1>6 DEF W

LEMMA FreeBuilt == Full /\ free_cmdstruct => Built'
<1> SUFFICES ASSUME Full, free_cmdstruct PROVE Built'
  OBVIOUS
<1>0. /\ status = "returned" /\ result = 1 /\ jobs[1].num = 1 /\ jobs[1].outfile = NULL
      /\ UNCHANGED <<text, state, inout, jobs, indexVars, jobBegin, status, result, error>>
  BY DEF free_cmdstruct, Builtin
<1>1. Accepted BY <1>0 DEF Accepted
<1>2. /\ Finished /\ text \in Seq(Token) /\ Viable(text) /\ jobs \in Seq(Job)
  BY <1>1 DEF Full, Built, Grammar, Inv, Typed, TakesTheGrammar, InGrammar, Viable
<1>3. /\ 1 < Len(jobs) /\ jobs[1 + 1] = NoJob /\ JobBuilt(text, 1, jobs[1])
  BY <1>0, <1>2 DEF Finished
<1>4. 1 \in 1..Len(jobs) /\ jobs[1] \in Job BY <1>2, <1>3
<1> DEFINE Of(i) == (UNION {Range(args) : args \in Range(Commands(i))})
                      \cup ({jobs[i].infile, jobs[i].outfile} \ {NULL})
<1>5. freed' = UNION {Of(i) : i \in DOMAIN Walk(jobs, NoJob)}
  BY DEF free_cmdstruct
<1>6. DOMAIN Walk(jobs, NoJob) = {1}
  <2>1. jobs[1] # NoJob BY <1>0 DEF NoJob
  <2>2. PICK null, T : null = NoJob /\ T = Job OBVIOUS
  <2>3. /\ jobs \in Seq(T) /\ jobs[1 + 1] = null /\ 1 < Len(jobs)
        /\ \A i \in 1..1 : jobs[i] # null
    BY <1>2, <1>3, <2>1, <2>2
  <2>4. PICK m \in Nat : m = 1 OBVIOUS
  <2>5. Upto(Walk(jobs, null), jobs, T, m)
    BY ONLY <2>3, <2>4, WalkStops
  <2> QED BY <2>2, <2>4, <2>5 DEF Upto
<1>7. Of(1) = WordsIn(text, 1)
  <2>1. DOMAIN Commands(1) = 1..1 /\ InOrder(Commands(1)[1], ArgsIn(text, 1, 1))
    <3>1. /\ DOMAIN Commands(1) = 1..jobs[1].num
          /\ \A c \in 1..jobs[1].num : InOrder(Commands(1)[c], ArgsIn(text, 1, c))
      BY <1>2, <1>3, <1>4, CommandsLemma
    <3> QED BY <1>0, <3>1
  <2>2. Range(Commands(1)) = {Commands(1)[1]} BY <2>1 DEF Range
  <2>3. Range(Commands(1)[1]) = ArgsIn(text, 1, 1) BY <2>1 DEF InOrder
  <2>4. UNION {Range(args) : args \in Range(Commands(1))} = ArgsIn(text, 1, 1)
    BY <2>2, <2>3
  <2>5. WordsIn(text, 1)
          = ArgsIn(text, 1, 1) \cup ({jobs[1].infile, jobs[1].outfile} \ {NULL})
    BY <1>0, <1>2, <1>3, WordsOfOne
  <2> QED BY <2>4, <2>5
<1>8. freed' = WordsIn(text, 1)
  <2> HIDE DEF Of
  <2> QED BY <1>5, <1>6, <1>7
<1>9. UNION {Words(j) : j \in 1..1} = WordsIn(text, 1)
  BY DEF Words, WordsIn
<1>10. Finished'
  <2>1. freed' = UNION {Words(j) : j \in 1..result} BY <1>0, <1>8, <1>9
  <2>2. (freed # {} => freed = UNION {Words(j) : j \in 1..result})'
    BY <1>0, <2>1 DEF Words
  <2> QED BY <1>0, <1>2, <2>2 DEF Finished
<1> QED BY <1>0, <1>10 DEF Built

LEMMA NextFull == Full /\ [Next]_vars => Full'
<1> SUFFICES ASSUME Full, [Next]_vars PROVE Built'
  BY NextGrammar DEF Full
<1>1. CASE Pipe BY <1>1, PipeBuilt
<1>2. CASE Background BY <1>2, BackgroundBuilt
<1>3. CASE Argument BY <1>3, ArgumentBuilt
<1>4. CASE FileName BY <1>4, FileNameBuilt
<1>5. CASE Newline BY <1>5, NewlineBuilt
<1>6. CASE \E t \in Redirection : Redirect(t) BY <1>6, RedirectBuilt
<1>7. CASE Misplaced \/ Unquoted \/ OutOfMemory \/ CutOff BY <1>7, ErrorBuilt
<1>8. CASE free_cmdstruct BY <1>8, FreeBuilt
<1>9. CASE UNCHANGED vars
  <2>1. Built BY DEF Full
  <2>2. Building => Building'
    BY <1>9 DEF vars, Building, InState, Position, Current, Coming, Done
  <2>3. Finished => Finished' BY <1>9 DEF vars, Finished, Words
  <2>4. (status = "parsing") = (status = "parsing")' /\ Accepted = Accepted'
    BY <1>9 DEF vars, Accepted
  <2> QED BY <2>1, <2>2, <2>3, <2>4 DEF Built
<1> QED BY <1>1, <1>2, <1>3, <1>4, <1>5, <1>6, <1>7, <1>8, <1>9 DEF Next

\* The shell gets what stands in the line, for lines of any length and arrays
\* that grow by any number: the jobs in order with their commands and
\* arguments, their redirections, who runs in the background and where the text
\* of each begins; and free_cmdstruct frees what parse_cmdline allocated for the
\* line, no more and no less.
THEOREM ParserBuildsTheJobs == Spec => []BuildsTheJobs
<1>1. Init => Full BY InitInv, InitReading, InitBuilt DEF Full, Grammar
<1>2. Full => BuildsTheJobs
  <2> SUFFICES ASSUME Full, Accepted PROVE BuildsTheJobs
    BY DEF BuildsTheJobs
  <2>1. /\ Finished /\ text \in Seq(Token) /\ jobs \in Seq(Job) /\ result \in Int
    BY DEF Full, Built, Grammar, Inv, Typed
  <2>2. ASSUME NEW j \in 1..result
        PROVE  /\ jobs[j].num = Max({CommandOf(text, i) : i \in Words(j)})
               /\ jobs[j].mode = IF Closed(text, j) THEN "background" ELSE "foreground"
               /\ jobs[j].infile = FileOf(j, "<")
               /\ jobs[j].outfile = FileOf(j, ">")
               /\ jobs[j].begin = FirstOf(Words(j))
               /\ DOMAIN Commands(j) = 1..jobs[j].num
               /\ \A c \in 1..jobs[j].num : InOrder(Commands(j)[c], Arguments(j, c))
    <3>1. /\ j \in 1..Len(jobs) /\ JobBuilt(text, j, jobs[j])
          /\ jobs[j].mode = IF Closed(text, j) THEN "background" ELSE "foreground"
      BY <2>1 DEF Finished
    <3>2. jobs[j] \in Job BY <2>1, <3>1
    <3>3. /\ Words(j) = WordsIn(text, j)
          /\ FileOf(j, "<") = FirstOf(FilesIn(text, j, "<"))
          /\ FileOf(j, ">") = FirstOf(FilesIn(text, j, ">"))
          /\ \A c : Arguments(j, c) = ArgsIn(text, j, c)
      BY DEF Words, WordsIn, FileOf, FilesIn, Arguments, ArgsIn
    <3>4. jobs[j].num = Max({CommandOf(text, i) : i \in Words(j)})
      <4>1. PICK S : S = {CommandOf(text, i) : i \in Words(j)} OBVIOUS
      <4>2. PICK n \in Nat : n = jobs[j].num BY <3>2 DEF Job
      <4>3. n \in S /\ \A y \in S : n >= y
        <5>1. \A i \in WordsIn(text, j) : CommandOf(text, i) \in Nat
          <6>1. WordsIn(text, j) \subseteq Nat BY <2>1, PositionsLemma
          <6> QED BY <6>1, CommandOfIs
        <5> QED BY <3>1, <3>3, <4>1, <4>2, <5>1 DEF JobBuilt, Counts
      <4>4. S \subseteq Nat
        <5>1. \A i \in WordsIn(text, j) : CommandOf(text, i) \in Nat
          <6>1. WordsIn(text, j) \subseteq Nat BY <2>1, PositionsLemma
          <6> QED BY <6>1, CommandOfIs
        <5> QED BY <3>3, <4>1, <5>1
      <4>5. PICK x : x = Max(S) OBVIOUS
      <4>6. x \in S /\ \A y \in S : x >= y BY <4>3, <4>5 DEF Max
      <4>7. x = n BY ONLY <4>3, <4>4, <4>6
      <4> QED BY <4>1, <4>2, <4>5, <4>7
    <3>5. /\ DOMAIN Commands(j) = 1..jobs[j].num
          /\ \A c \in 1..jobs[j].num : InOrder(Commands(j)[c], ArgsIn(text, j, c))
      BY <2>1, <3>1, <3>2, CommandsLemma
    <3> QED BY <3>1, <3>3, <3>4, <3>5 DEF JobBuilt, FilesBuilt
  <2>3. result = IF text = <<>> THEN 0 ELSE Jobs(text) BY <2>1 DEF Finished
  <2>4. freed # {} => freed = UNION {Words(j) : j \in 1..result} BY <2>1 DEF Finished
  <2> QED BY <2>2, <2>3, <2>4 DEF BuildsTheJobs, Closed
<1> QED BY <1>1, <1>2, NextFull, PTL DEF Spec
=============================================================================
