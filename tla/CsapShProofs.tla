----------------------------- MODULE CsapShProofs -----------------------------
(***************************************************************************)
(* Theorems about CsapSh, for every number of processes, all lines the     *)
(* user may type and whatever keys and programs do.                        *)
(***************************************************************************)
EXTENDS CsapSh, DataLemmas

(***************************************************************************)
(* Typing, without the lower bound of nproc_cur, which takes the counting  *)
(* argument below.                                                         *)
(***************************************************************************)
PC == {"read", "list", "find", "bgfg", "state", "jid", "show", "print", "wait",
       "test", "begin", "fork", "next", "exited", "aborted", "undefined"}

Job == [jid : Nat, pid : Seq(Pid \cup {NULL}), cur : Int,
        state : JobState \cup {"undefined"}]

TypedTable == jobs \in Seq(Pid) /\ job \in [Pid -> Job]

TypedMain ==
  /\ pc \in PC /\ line \in Seq(ParsedJob) /\ pids \in Seq(Pid \cup {NULL})
  /\ ptr \in Pid \cup {NULL} /\ cmd \in {"none", "bg", "fg"} /\ jid \in Nat
  /\ blocked \in BOOLEAN

TypedHandlers ==
  /\ pending \subseteq Keys \cup {"CHLD"} /\ sch \in BOOLEAN
  /\ kbd \in [sig : Keys, job : Pid] \cup {NoKey}

TypedStops ==
  /\ stopped \in [Pid -> BOOLEAN]
  /\ signals \in [Pid -> SUBSET {"INT", "TSTP", "STOP"}]
  /\ report \in [Pid -> {"none", "stopped", "continued"}]

TypedChildren ==
  /\ phase \in [Pid -> {"none", "forked", "placed", "running", "builtin",
                        "zombie", "reaped"}]
  /\ group \in [Pid -> Pid \cup {Shell}]
  /\ spot \in [Pid -> [leader : Pid \cup {NULL}, idx : Nat, num : Nat,
                       name : {"program"} \cup Builtins]]
  /\ DOMAIN fds = Pid \cup {Shell}
  /\ copy \in [Pid -> [Pid -> JobState \cup {"undefined"}]]

\* What eval holds while it starts the jobs of a line.
LineHeld ==
  /\ pc \in {"begin", "fork"} => line # <<>>
  /\ pc = "fork" => blocked /\ Len(pids) <= Head(line).num
  /\ blocked => pc \in {"fork", "exited", "aborted", "undefined"} /\ ~sch
  /\ pc \in {"find", "bgfg", "state", "jid"} => cmd \in {"bg", "fg"}

Typed == /\ TypedTable /\ TypedMain /\ TypedHandlers /\ TypedStops
         /\ TypedChildren /\ LineHeld

LEMMA UnchangedTyped ==
  /\ TypedTable /\ UNCHANGED tableVars => TypedTable'
  /\ TypedMain /\ UNCHANGED mainVars => TypedMain'
  /\ TypedHandlers /\ UNCHANGED <<pending, handlerVars>> => TypedHandlers'
  /\ TypedStops /\ UNCHANGED stopVars => TypedStops'
  /\ TypedChildren /\ UNCHANGED childVars => TypedChildren'
  /\ LineHeld /\ UNCHANGED <<mainVars, sch>> => LineHeld'
BY DEF TypedTable, TypedMain, TypedHandlers, TypedStops, TypedChildren, LineHeld,
       tableVars, mainVars, handlerVars, stopVars, childVars

LEMMA InitTyped == Init => Typed
<1> SUFFICES ASSUME Init PROVE Typed
  OBVIOUS
<1> USE DEF Init
<1>1. TypedTable BY DEF TypedTable, NoJob, Job
<1>2. TypedMain
  <2>1. pc \in PC /\ blocked \in BOOLEAN BY DEF PC
  <2>2. line \in Seq(ParsedJob) /\ pids \in Seq(Pid \cup {NULL}) OBVIOUS
  <2>3. ptr \in Pid \cup {NULL} /\ cmd \in {"none", "bg", "fg"} /\ jid \in Nat OBVIOUS
  <2> QED BY <2>1, <2>2, <2>3 DEF TypedMain
<1>3. TypedHandlers BY DEF TypedHandlers, NoKey
<1>4. TypedStops BY DEF TypedStops
<1>5. TypedChildren
  <2>1. copy \in [Pid -> [Pid -> JobState \cup {"undefined"}]] BY DEF NoCopy
  <2> QED BY <2>1 DEF TypedChildren, NoSpot
<1>6. LineHeld BY DEF LineHeld
<1> QED BY <1>1, <1>2, <1>3, <1>4, <1>5, <1>6 DEF Typed

-----------------------------------------------------------------------------
(* The job table.                                                          *)

LEMMA ListedLemma ==
  ASSUME TypedTable
  PROVE  /\ Listed \subseteq Pid /\ NULL \notin Listed
         /\ Listed = {jobs[i] : i \in 1..Len(jobs)}
         /\ IsFiniteSet(Listed)
<1>1. jobs \in Seq(Pid) /\ DOMAIN jobs = 1..Len(jobs) BY DEF TypedTable
<1>2. Listed = {jobs[i] : i \in 1..Len(jobs)} BY <1>1 DEF Listed, Range
<1>3. Listed \subseteq Pid /\ NULL \notin Listed
  BY <1>1, <1>2, ShellAssumption DEF NULL
<1>4. IsFiniteSet(Listed) BY <1>3, ShellAssumption, FS_Subset
<1> QED BY <1>2, <1>3, <1>4

\* The lookup functions return a job of the list that matches, or NULL.
LEMMA FirstLemma ==
  ASSUME TypedTable, NEW S, S \subseteq Listed
  PROVE  /\ S = {} => First(S) = NULL
         /\ S # {} => First(S) \in S /\ First(S) # NULL
<1>1. jobs \in Seq(Pid) BY DEF TypedTable
<1> DEFINE I == {i \in DOMAIN jobs : jobs[i] \in S}
<1>2. ASSUME S # {} PROVE First(S) \in S
  <2>1. I \subseteq Nat /\ I # {} BY <1>1, <1>2, ListedLemma
  <2>2. Min(I) \in I
    <3> HIDE DEF I
    <3> QED BY <2>1, MinLemma
  <2> QED BY <2>2, <1>2 DEF First
<1> QED BY <1>2, ListedLemma DEF First

LEMMA LookupLemma ==
  ASSUME TypedTable
  PROVE  /\ \A n : getjob_jid(n) \in Listed \cup {NULL}
         /\ \A g : getjob_pgid(g) \in Listed \cup {NULL}
         /\ \A c : getjob_pid(c) \in Listed \cup {NULL}
         /\ getjob_foreground \in Listed \cup {NULL}
BY FirstLemma DEF getjob_jid, getjob_pgid, getjob_pid, getjob_foreground

\* The id of a new job is above all others.
LEMMA MaxIdLemma ==
  ASSUME TypedTable
  PROVE  getmaxid \in Nat /\ \A p \in Listed : job[p].jid <= getmaxid
<1> DEFINE J == {job[p].jid : p \in Listed}
<1>1. J \subseteq Nat BY ListedLemma DEF TypedTable, Job
<1>2. IsFiniteSet(J)
  <2> DEFINE f == [p \in Listed |-> job[p].jid]
  <2>1. f \in Surjection(Listed, J) BY DEF Surjection
  <2> HIDE DEF f, J
  <2> QED BY <2>1, ListedLemma, FS_Surjection
<1>3. {0} \cup J \subseteq Nat /\ {0} \cup J # {} BY <1>1
<1>4. IsFiniteSet({0} \cup J) BY <1>2, FS_Singleton, FS_Union
<1>5. Max({0} \cup J) \in {0} \cup J /\ \A y \in {0} \cup J : y <= Max({0} \cup J)
  <2> HIDE DEF J
  <2> QED BY <1>3, <1>4, MaxLemma
<1> QED BY <1>1, <1>5 DEF getmaxid
-----------------------------------------------------------------------------
(* Every step keeps the types.                                             *)

\* The main loop moves, and takes what it holds from the table.
LEMMA MoveTyped ==
  ASSUME Typed, pc \notin {"fork"}, pc' \in PC \ {"fork", "begin"},
         UNCHANGED <<line, pids, blocked, sch>>,
         ptr' \in Pid \cup {NULL}, cmd' \in {"none", "bg", "fg"}, jid' \in Nat,
         pc' \in {"find", "bgfg", "state", "jid"} => cmd' \in {"bg", "fg"},
         pc' \in {"exited", "aborted", "undefined"} \/ ~blocked
  PROVE  TypedMain' /\ LineHeld'
BY DEF Typed, TypedMain, LineHeld

\* A use after free ends the run.
LEMMA UndefinedTyped ==
  ASSUME Typed, Undefined
  PROVE  TypedMain' /\ (UNCHANGED sch => LineHeld')
BY DEF Typed, TypedMain, LineHeld, Undefined, PC

LEMMA PointersTyped ==
  ASSUME Typed, MainLoop, \A l \in Lines : ~TypeJobs(l),
         ~Begin, ~Fork, ~ForkFails, ~AddJob, ~NextJob, ~SetState, ~Restart
  PROVE  Typed'
<1>1. Listed \subseteq Pid /\ NULL \notin Listed BY ListedLemma DEF Typed
<1>2. blocked \in BOOLEAN /\ (blocked => pc \in {"fork", "exited", "aborted", "undefined"})
  BY DEF Typed, TypedMain, LineHeld
<1>3. /\ ptr \in Pid \cup {NULL} /\ jid \in Nat /\ cmd \in {"none", "bg", "fg"}
      /\ pc \in {"find", "bgfg", "state", "jid"} => cmd \in {"bg", "fg"}
  BY DEF Typed, TypedMain, LineHeld
<1>4. \A n : getjob_jid(n) \in Pid \cup {NULL}
  BY <1>1, LookupLemma DEF Typed
<1>5. CASE TypeList
  <2>1. ptr' \in Pid \cup {NULL}
    BY <1>5 DEF TypeList, Typed, TypedTable
  <2>2. TypedMain' /\ LineHeld'
    BY <1>5, <1>2, <1>3, <2>1, MoveTyped DEF TypeList, At, Goto, PC, handlerVars
  <2> QED BY <1>5, <2>2, UnchangedTyped DEF Typed, TypeList
<1>6. CASE ListNext
  <2>1. CASE Undefined
    BY <1>6, <2>1, UndefinedTyped, UnchangedTyped DEF Typed, ListNext, handlerVars
  <2>2. CASE ~Undefined
    <3>1. ptr' \in Pid \cup {NULL}
      <4>1. jobs \in Seq(Pid) /\ DOMAIN jobs = 1..Len(jobs) BY DEF Typed, TypedTable
      <4>2. CASE ptr \in Listed /\ ptr' # ptr /\ ptr' # NULL
        <5> DEFINE i == CHOOSE i \in DOMAIN jobs : jobs[i] = ptr
        <5>1. \E k \in DOMAIN jobs : jobs[k] = ptr
          BY <4>1, <4>2, ListedLemma DEF Typed
        <5>2. i \in 1..Len(jobs) BY <5>1, <4>1
        <5>3. ptr' = IF i = Len(jobs) THEN NULL ELSE jobs[i + 1]
          BY <1>6, <2>2, <4>2, <1>1 DEF ListNext, Dangling
        <5> HIDE DEF i
        <5>4. CASE i # Len(jobs)
          <6>1. i + 1 \in 1..Len(jobs)
            <7>1. Len(jobs) \in Nat BY <4>1
            <7> HIDE <4>1
            <7> QED BY <5>2, <5>4, <7>1
          <6>2. jobs[i + 1] \in Pid BY <6>1, <4>1
          <6> QED BY <5>3, <5>4, <6>2
        <5> QED BY <5>3, <5>4
      <4>3. CASE ptr' = ptr \/ ptr' = NULL BY <4>3, <1>3
      <4>4. ptr \in Listed \/ ptr' = ptr BY <1>6, <2>2 DEF ListNext
      <4> QED BY <4>2, <4>3, <4>4
    <3>2. TypedMain' /\ LineHeld'
      BY <1>6, <2>2, <1>2, <1>3, <3>1, MoveTyped DEF ListNext, At, Goto, PC, handlerVars
    <3> QED BY <1>6, <3>2, UnchangedTyped DEF Typed, ListNext
  <2> QED BY <2>1, <2>2
<1>7. ASSUME NEW name \in {"bg", "fg"}, TypeBgFg(name) PROVE Typed'
  <2>1. PICK id \in Pid :
          \E p \in {getjob_jid(id), getjob_pgid(id), getjob_pid(id)} :
            p # NULL /\ jid' = job[p].jid
    BY <1>7 DEF TypeBgFg
  <2>2. PICK p \in Pid : jid' = job[p].jid
    BY <2>1, LookupLemma, <1>1 DEF Typed
  <2>3. jid' \in Nat BY <2>2 DEF Typed, TypedTable, Job
  <2>4. TypedMain' /\ LineHeld'
    BY <1>7, <1>2, <1>3, <2>3, MoveTyped DEF TypeBgFg, At, Goto, PC, handlerVars
  <2> QED BY <1>7, <2>4, UnchangedTyped DEF Typed, TypeBgFg
<1>8. CASE ReadJid
  <2>1. CASE Undefined
    BY <1>8, <2>1, UndefinedTyped, UnchangedTyped DEF Typed, ReadJid, handlerVars
  <2>2. CASE ~Undefined
    <3>1. jid' \in Nat
      BY <1>8, <2>2, <1>1 DEF ReadJid, Typed, TypedTable, Job
    <3>2. TypedMain' /\ LineHeld'
      BY <1>8, <2>2, <1>2, <1>3, <3>1, MoveTyped DEF ReadJid, At, Goto, PC, handlerVars
    <3> QED BY <1>8, <3>2, UnchangedTyped DEF Typed, ReadJid
  <2> QED BY <2>1, <2>2
<1>9. CASE FindJob \/ FindShown \/ WaitLookup
  <2>0. pc \in {"find", "show", "wait"} /\ UNCHANGED sch
    BY <1>9 DEF FindJob, FindShown, WaitLookup, At, handlerVars
  <2>1. CASE Undefined
    BY <1>9, <2>0, <2>1, UndefinedTyped, UnchangedTyped
       DEF Typed, FindJob, FindShown, WaitLookup
  <2>2. CASE ~Undefined
    <3>1. PICK to \in {"bgfg", "print", "test"} :
            Found(to) /\ (to = "bgfg" => pc = "find")
      BY <1>9 DEF FindJob, FindShown, WaitLookup, At
    <3>2. TypedMain' /\ LineHeld'
      BY <2>0, <2>2, <3>1, <1>2, <1>3, <1>4, MoveTyped DEF Found, Goto, PC
    <3> QED BY <1>9, <3>2, UnchangedTyped DEF Typed, FindJob, FindShown, WaitLookup
  <2> QED BY <2>1, <2>2
<1>11. CASE Walk
  <2>1. ptr' \in Pid
    <3>1. jobs \in Seq(Pid) BY DEF Typed, TypedTable
    <3> QED BY <1>11, <3>1 DEF Walk, Passed
  <2>2. TypedMain' /\ LineHeld'
    BY <1>11, <1>2, <1>3, <2>1, MoveTyped
       DEF Walk, Walks, At, PC, handlerVars
  <2> QED BY <1>11, <2>2, UnchangedTyped DEF Typed, Walk
<1>10. CASE ShowJob \/ WaitTest
  <2>1. CASE Undefined
    BY <1>10, <2>1, UndefinedTyped, UnchangedTyped
       DEF Typed, ShowJob, WaitTest, handlerVars
  <2>2. CASE ~Undefined
    <3>1. TypedMain' /\ LineHeld'
      BY <1>10, <2>2, <1>2, <1>3, MoveTyped
         DEF ShowJob, WaitTest, At, Goto, PC, handlerVars
    <3> QED BY <1>10, <3>1, UnchangedTyped DEF Typed, ShowJob, WaitTest
  <2> QED BY <2>1, <2>2
<1> QED BY <1>5, <1>6, <1>7, <1>8, <1>9, <1>10, <1>11 DEF MainLoop

\* Signals sent, and continued processes.
LEMMA SendTyped ==
  ASSUME Typed, NEW g, NEW s \in {"INT", "TSTP", "STOP"}, Send(g, s)
  PROVE  signals' \in [Pid -> SUBSET {"INT", "TSTP", "STOP"}]
BY DEF Typed, TypedStops, Send

LEMMA ContinueTyped ==
  ASSUME Typed, NEW g, NEW rep \in [Pid -> {"none", "stopped", "continued"}],
         Continue(g, rep), UNCHANGED handlerVars
  PROVE  TypedStops' /\ TypedHandlers'
<1>1. TypedStops' BY DEF Typed, TypedStops, Continue
<1>2. TypedHandlers' BY DEF Typed, TypedHandlers, Continue, handlerVars
<1> QED BY <1>1, <1>2

LEMMA HeadLine ==
  ASSUME TypedMain, line # <<>>
  PROVE  /\ Head(line) \in ParsedJob /\ Tail(line) \in Seq(ParsedJob)
         /\ Head(line).num \in Nat \ {0}
         /\ Head(line).mode \in {"foreground", "background"}
         /\ Head(line).name \in {"program"} \cup Builtins
<1>1. Head(line) \in ParsedJob /\ Tail(line) \in Seq(ParsedJob)
  BY HeadTailProperties DEF TypedMain
<1> QED BY <1>1 DEF ParsedJob

LEMMA EvalTyped ==
  ASSUME Typed, (\E l \in Lines : TypeJobs(l)) \/ Begin \/ Fork \/ ForkFails \/ NextJob
  PROVE  Typed'
<1> USE DEF Typed
<1>1. CASE \E l \in Lines : TypeJobs(l)
  <2> PICK l \in Lines : TypeJobs(l) BY <1>1
  <2>1. l \in Seq(ParsedJob) /\ l # <<>> BY ShellAssumption
  <2>2. TypedMain' BY <2>1 DEF TypedMain, TypeJobs, Goto, PC
  <2>3. LineHeld' BY <2>1 DEF LineHeld, TypeJobs, Goto, At, handlerVars
  <2> QED BY <2>2, <2>3, UnchangedTyped DEF TypeJobs
<1>2. CASE Begin
  <2>1. TypedMain' BY <1>2 DEF TypedMain, Begin, Goto, PC
  <2>2. LineHeld'
    <3>1. line # <<>> BY <1>2 DEF LineHeld, Begin, At
    <3>2. Head(line).num \in Nat BY <3>1, HeadLine
    <3> QED BY <1>2, <3>1, <3>2 DEF LineHeld, Begin, Goto, At, handlerVars
  <2>3. TypedChildren' BY <1>2 DEF TypedChildren, Begin
  <2> QED BY <1>2, <2>1, <2>2, <2>3, UnchangedTyped DEF Begin
<1>3. CASE Fork \/ ForkFails
  <2>1. line # <<>> /\ pids \in Seq(Pid \cup {NULL}) /\ Len(pids) \in Nat
    BY <1>3 DEF LineHeld, TypedMain, Fork, ForkFails, At
  <2>2. PICK c \in Pid \cup {NULL} : pids' = Append(pids, c)
    BY <1>3 DEF Fork, ForkFails
  <2>3. /\ pids' \in Seq(Pid \cup {NULL}) /\ Len(pids') = Len(pids) + 1
        /\ pids'[1] \in Pid \cup {NULL}
    BY <2>1, <2>2
  <2>4. Head(line).num \in Nat \ {0} /\ Head(line).name \in {"program"} \cup Builtins
    BY <2>1, HeadLine
  <2>5. TypedMain'
    BY <1>3, <2>3 DEF TypedMain, Fork, ForkFails
  <2>6. LineHeld'
    BY <1>3, <2>1, <2>3, <2>4 DEF LineHeld, Fork, ForkFails, handlerVars
  <2>7. CASE Fork
    <3> PICK d \in Pid :
          /\ phase' = [phase EXCEPT ![d] = "forked"]
          /\ fds' = [fds EXCEPT ![d] = fds[Shell]]
          /\ spot' = [spot EXCEPT ![d] =
                        [leader |-> pids'[1], idx |-> Len(pids),
                         num |-> Head(line).num, name |-> Head(line).name]]
          /\ copy' = copy \/ copy' = [copy EXCEPT ![d] = [p \in Pid |-> job[p].state]]
      BY <2>7 DEF Fork
    <3> DEFINE there == [leader |-> pids'[1], idx |-> Len(pids),
                         num |-> Head(line).num, name |-> Head(line).name]
    <3>1. there \in [leader : Pid \cup {NULL}, idx : Nat, num : Nat,
                     name : {"program"} \cup Builtins]
      BY <2>1, <2>3, <2>4
    <3>2. TypedChildren'
      <4> HIDE DEF there
      <4>1. spot' = [spot EXCEPT ![d] = there] BY DEF there
      <4>2. copy' \in [Pid -> [Pid -> JobState \cup {"undefined"}]]
        <5>1. [p \in Pid |-> job[p].state] \in [Pid -> JobState \cup {"undefined"}]
          BY DEF TypedTable, Job
        <5> QED BY <5>1 DEF TypedChildren
      <4> QED BY <2>7, <3>1, <4>1, <4>2 DEF TypedChildren, Fork
    <3> QED BY <2>5, <2>6, <2>7, <3>2, UnchangedTyped DEF Fork
  <2>8. CASE ForkFails
    BY <2>5, <2>6, <2>8, UnchangedTyped DEF ForkFails
  <2> QED BY <1>3, <2>7, <2>8
<1>4. CASE NextJob
  <2>1. line' \in Seq(ParsedJob)
    BY <1>4, HeadLine DEF NextJob, TypedMain
  <2>2. TypedMain' BY <1>4, <2>1 DEF NextJob, TypedMain, Goto, PC
  <2>3. LineHeld' BY <1>4 DEF NextJob, LineHeld, Goto, At, handlerVars
  <2> QED BY <1>4, <2>2, <2>3, UnchangedTyped DEF NextJob
<1> QED BY <1>1, <1>2, <1>3, <1>4

LEMMA TableTyped ==
  ASSUME Typed, AddJob \/ SetState \/ Restart
  PROVE  Typed'
<1> USE DEF Typed
<1>1. CASE AddJob
  <2>1. /\ line # <<>> /\ pids \in Seq(Pid \cup {NULL})
        /\ Len(pids) = Head(line).num
    BY <1>1 DEF LineHeld, TypedMain, AddJob, At
  <2>2. /\ Head(line).num \in Nat \ {0}
        /\ Head(line).mode \in {"foreground", "background"}
    BY <2>1, HeadLine
  <2>3. pids[1] \in Pid \cup {NULL} BY <2>1, <2>2
  <2>4. getmaxid \in Nat BY MaxIdLemma
  <2>5. TypedChildren' BY <1>1 DEF AddJob, TypedChildren
  <2>6. TypedMain'
    <3>1. pc' \in PC BY <1>1 DEF AddJob, Goto, PC
    <3>2. jid' \in Nat /\ blocked' \in BOOLEAN
      <4>1. CASE pids[1] = NULL BY <1>1, <4>1 DEF AddJob, TypedMain
      <4>2. CASE pids[1] # NULL
        <5>1. jid' = getmaxid + 1 /\ blocked' = FALSE BY <1>1, <4>2 DEF AddJob, addjob
        <5>2. jid' \in Nat BY <5>1, <2>4
        <5> QED BY <5>1, <5>2
      <4> QED BY <4>1, <4>2
    <3> QED BY <1>1, <3>1, <3>2 DEF AddJob, TypedMain
  <2>7. LineHeld'
    BY <1>1 DEF AddJob, LineHeld, Goto, At, handlerVars
  <2>8. CASE pids[1] = NULL
    BY <1>1, <2>5, <2>6, <2>7, <2>8, UnchangedTyped DEF AddJob
  <2>9. CASE pids[1] # NULL
    <3> DEFINE new == [jid |-> getmaxid + 1, pid |-> pids,
                       cur |-> Head(line).num, state |-> Head(line).mode]
    <3>1. jobs' = <<pids[1]>> \o jobs /\ job' = [job EXCEPT ![pids[1]] = new]
      BY <1>1, <2>9 DEF AddJob, addjob
    <3>2. new \in Job BY <2>1, <2>2, <2>4 DEF Job, JobState
    <3>3. TypedTable'
      <4> HIDE DEF new
      <4>1. <<pids[1]>> \in Seq(Pid) BY <2>3, <2>9
      <4>2. jobs' \in Seq(Pid) BY <3>1, <4>1, ConcatProperties DEF TypedTable
      <4> QED BY <3>1, <3>2, <4>2 DEF TypedTable
    <3> QED BY <1>1, <2>5, <2>6, <2>7, <3>3, UnchangedTyped DEF AddJob
  <2> QED BY <2>8, <2>9
<1>2. CASE SetState
  <2>1. CASE Undefined
    <3>1. UNCHANGED job BY <1>2, <2>1 DEF SetState, Goto, Undefined
    <3> QED BY <1>2, <2>1, <3>1, UndefinedTyped, UnchangedTyped
            DEF SetState, handlerVars, tableVars
  <2>2. CASE ~Undefined
    <3>1. TypedTable'
      <4>1. ptr \in Pid BY <1>2, <2>2, ListedLemma DEF SetState
      <4>2. PICK st \in JobState : job' = [job EXCEPT ![ptr].state = st]
        BY <1>2, <2>2 DEF SetState, JobState
      <4>3. job[ptr] \in Job BY <4>1 DEF TypedTable
      <4>4. [job[ptr] EXCEPT !.state = st] \in Job BY <4>3 DEF Job
      <4>5. job' = [job EXCEPT ![ptr] = [job[ptr] EXCEPT !.state = st]]
        BY <4>1, <4>2
      <4>6. jobs' = jobs BY <1>2 DEF SetState
      <4> QED BY <4>1, <4>4, <4>5, <4>6 DEF TypedTable
    <3>2. TypedMain' /\ LineHeld'
      BY <1>2, <2>2, MoveTyped
         DEF SetState, TypedMain, LineHeld, Goto, At, PC, handlerVars
    <3> QED BY <1>2, <3>1, <3>2, UnchangedTyped DEF SetState
  <2> QED BY <2>1, <2>2
<1>3. CASE Restart
  <2>1. CASE Undefined
    <3>1. ptr \notin Listed \/ pc' = "state"
      BY <1>3 DEF Restart, Goto, Dangling
    <3>2. UNCHANGED <<pending, stopVars>>
      BY <1>3, <2>1, <3>1 DEF Restart, Goto, Undefined
    <3> QED BY <1>3, <2>1, <3>2, UndefinedTyped, UnchangedTyped DEF Restart, handlerVars
  <2>2. CASE ~Undefined
    <3>1. TypedMain' /\ LineHeld'
      BY <1>3, <2>2, MoveTyped
         DEF Restart, TypedMain, LineHeld, Goto, At, PC, handlerVars
    <3>2. TypedStops' /\ TypedHandlers'
      BY <1>3, <2>2, ContinueTyped, UnchangedTyped DEF Restart, TypedStops
    <3> QED BY <1>3, <3>1, <3>2, UnchangedTyped DEF Restart
  <2> QED BY <2>1, <2>2
<1> QED BY <1>1, <1>2, <1>3

LEMMA MainTyped == Typed /\ (MainLoop \/ Quit) => Typed'
<1> SUFFICES ASSUME Typed, MainLoop \/ Quit PROVE Typed'
  OBVIOUS
<1>1. CASE Quit
  <2>1. TypedMain' /\ LineHeld'
    BY <1>1 DEF Quit, Typed, TypedMain, LineHeld, Goto, PC, handlerVars
  <2> QED BY <1>1, <2>1, UnchangedTyped DEF Quit, Typed
<1>2. CASE MainLoop
  BY <1>2, PointersTyped, EvalTyped, TableTyped
<1> QED BY <1>1, <1>2

LEMMA HandlersTyped == Typed /\ Handlers => Typed'
<1> SUFFICES ASSUME Typed, Handlers PROVE Typed'
  OBVIOUS
<1> USE DEF Typed
<1>1. Listed \subseteq Pid BY ListedLemma
<1>2. CASE TakeChild
  <2>1. TypedHandlers' BY <1>2 DEF TypedHandlers, TakeChild
  <2>2. LineHeld' BY <1>2 DEF LineHeld, TakeChild, mainVars
  <2> QED BY <1>2, <2>1, <2>2, UnchangedTyped DEF TakeChild
<1>3. CASE HandlerEnds
  <2>1. TypedHandlers' BY <1>3 DEF TypedHandlers, HandlerEnds
  <2>2. LineHeld' BY <1>3 DEF LineHeld, HandlerEnds, mainVars
  <2> QED BY <1>3, <2>1, <2>2, UnchangedTyped DEF HandlerEnds
<1>4. CASE ForwardKey
  <2>1. TypedHandlers' BY <1>4 DEF TypedHandlers, ForwardKey, NoKey
  <2>2. TypedMain' /\ LineHeld'
    BY <1>4, UndefinedTyped, UnchangedTyped DEF ForwardKey
  <2>3. TypedStops'
    <3>1. CASE UNCHANGED signals
      BY <1>4, <3>1 DEF ForwardKey, TypedStops
    <3>2. CASE Send(kbd.job, kbd.sig)
      <4>1. kbd.sig \in {"INT", "TSTP", "STOP"}
        BY <1>4, ShellAssumption DEF ForwardKey, TypedHandlers
      <4> QED BY <1>4, <3>2, <4>1, SendTyped DEF ForwardKey, TypedStops
    <3> QED BY <1>4, <3>1, <3>2 DEF ForwardKey
  <2> QED BY <1>4, <2>1, <2>2, <2>3, UnchangedTyped DEF ForwardKey
<1>5. ASSUME NEW c \in Pid, Reap(c) PROVE Typed'
  <2>1. TypedChildren' BY <1>5 DEF Reap, TypedChildren, Shell
  <2>2. TypedTable'
    <3> DEFINE p == getjob_pid(c)
    <3>1. CASE UNCHANGED tableVars BY <3>1, UnchangedTyped
    <3>2. CASE p # NULL /\ deletejob(job[p].jid)
      <4> DEFINE q == getjob_jid(job[p].jid)
      <4>1. PICK k \in DOMAIN jobs : jobs[k] = q /\ jobs' = RemoveAt(jobs, k)
        BY <3>2 DEF deletejob
      <4>2. jobs \in Seq(Pid) /\ k \in 1..Len(jobs) BY DEF TypedTable
      <4>3. jobs' \in Seq(Pid) BY <4>1, <4>2, RemoveAtLemma
      <4>4. job' = [job EXCEPT ![q] = NoJob] BY <3>2 DEF deletejob
      <4>5. NoJob \in Job BY DEF NoJob, Job
      <4> HIDE DEF q
      <4> QED BY <4>3, <4>4, <4>5 DEF TypedTable
    <3>3. CASE p # NULL /\ job' = [job EXCEPT ![p].cur = @ - 1] /\ UNCHANGED jobs
      <4>1. p \in Pid BY <3>3, LookupLemma, <1>1
      <4>2. job[p] \in Job /\ job' = [job EXCEPT ![p] = [job[p] EXCEPT !.cur = @ - 1]]
        BY <3>3, <4>1 DEF TypedTable
      <4> HIDE DEF p
      <4>3. [job[p] EXCEPT !.cur = @ - 1] \in Job
        BY <4>2 DEF Job
      <4> QED BY <3>3, <4>1, <4>2, <4>3 DEF TypedTable
    <3> QED BY <1>5, <3>1, <3>2, <3>3 DEF Reap
  <2> QED BY <1>5, <2>1, <2>2, UnchangedTyped DEF Reap, handlerVars
<1>6. ASSUME NEW c \in Pid, Stop(c) PROVE Typed'
  <2> DEFINE p == getjob_pid(c)
  <2>1. CASE p = NULL
    <3>1. TypedStops' BY <1>6, <2>1 DEF Stop, TypedStops
    <3> QED BY <1>6, <2>1, <3>1, UndefinedTyped, UnchangedTyped DEF Stop, handlerVars
  <2>2. CASE p # NULL
    <3>1. p \in Pid BY <2>2, LookupLemma, <1>1
    <3>2. /\ job' = [job EXCEPT ![p].state = "stopped"] /\ Send(p, "STOP")
          /\ UNCHANGED <<jobs, mainVars>>
      BY <1>6, <2>2 DEF Stop
    <3> HIDE DEF p
    <3>3. TypedTable' BY <3>1, <3>2 DEF TypedTable, Job, JobState
    <3>4. TypedStops' BY <1>6, <3>2, SendTyped DEF Stop, TypedStops
    <3> QED BY <1>6, <3>2, <3>3, <3>4, UnchangedTyped DEF Stop, handlerVars
  <2> QED BY <2>1, <2>2
<1>7. ASSUME NEW c \in Pid, Resume(c) PROVE Typed'
  <2>1. [report EXCEPT ![c] = "none"] \in [Pid -> {"none", "stopped", "continued"}]
    BY DEF TypedStops
  <2>2. TypedStops' /\ TypedHandlers'
    <3>1. CASE getjob_pid(c) = NULL
      BY <1>7, <3>1, UnchangedTyped DEF Resume, TypedStops
    <3>2. CASE getjob_pid(c) # NULL
      BY <1>7, <3>2, <2>1, ContinueTyped DEF Resume
    <3> QED BY <3>1, <3>2
  <2>3. TypedMain' /\ LineHeld'
    BY <1>7, UndefinedTyped, UnchangedTyped DEF Resume, handlerVars
  <2> QED BY <1>7, <2>2, <2>3, UnchangedTyped DEF Resume
<1>8. ASSUME NEW s \in Keys, TakeKey(s) PROVE Typed'
  <2>1. s \in {"INT", "TSTP", "STOP"} BY ShellAssumption
  <2>2. TypedStops' BY <1>8, <2>1, SendTyped DEF TakeKey, TypedStops
  <2>3. TypedHandlers'
    <3>1. kbd' \in [sig : Keys, job : Pid] \cup {NoKey}
      BY <1>8, LookupLemma, <1>1 DEF TakeKey, TypedHandlers
    <3> QED BY <1>8, <3>1 DEF TakeKey, TypedHandlers
  <2> QED BY <1>8, <2>2, <2>3, UnchangedTyped DEF TakeKey
<1> QED BY <1>2, <1>3, <1>4, <1>5, <1>6, <1>7, <1>8 DEF Handlers

LEMMA ChildTyped ==
  ASSUME Typed, NEW c \in Pid, Child(c)
  PROVE  Typed'
<1> USE DEF Typed
<1>1. CASE Place(c)
  <2>1. spot[c].leader \in Pid \cup {NULL} BY DEF TypedChildren
  <2>2. TypedChildren' BY <1>1, <2>1 DEF Place, TypedChildren, Shell, NULL
  <2> QED BY <1>1, <2>2, UnchangedTyped DEF Place, handlerVars
<1>2. ASSUME Die(c), UNCHANGED <<tableVars, mainVars, handlerVars>>
      PROVE  Typed'
  <2>0. NoCopy \in [Pid -> JobState \cup {"undefined"}] BY DEF NoCopy
  <2>1. TypedChildren' BY <1>2, <2>0 DEF Die, TypedChildren
  <2>2. TypedStops' BY <1>2 DEF Die, TypedStops
  <2>3. TypedHandlers' BY <1>2 DEF Die, TypedHandlers, handlerVars
  <2> QED BY <1>2, <2>1, <2>2, <2>3, UnchangedTyped DEF handlerVars
<1>3. CASE Exec(c)
  <2>1. CASE UNCHANGED <<pending, stopVars, group, spot, fds, copy>> /\ phase' = [phase EXCEPT ![c] = "running"]
    <3>1. TypedChildren' BY <2>1 DEF TypedChildren
    <3> QED BY <1>3, <2>1, <3>1, UnchangedTyped DEF Exec, handlerVars
  <2> QED BY <1>2, <1>3, <2>1 DEF Exec
<1>7. CASE ForkedBgFg(c)
  <2>1. PICK p \in Pid, st \in JobState :
          /\ copy' = [copy EXCEPT ![c][p] = st]
          /\ Continue(p, report) \/ UNCHANGED <<pending, stopVars>>
    BY <1>7 DEF ForkedBgFg, JobState
  <2>2. TypedChildren' BY <1>7, <2>1 DEF ForkedBgFg, TypedChildren
  <2>3. TypedStops' /\ TypedHandlers'
    BY <1>7, <2>1, ContinueTyped, UnchangedTyped DEF ForkedBgFg, TypedStops
  <2> QED BY <1>7, <2>2, <2>3, UnchangedTyped DEF ForkedBgFg, handlerVars
<1>4. CASE Exit(c)
  BY <1>2, <1>4 DEF Exit
<1>5. ASSUME NEW s \in Raised, Raise(c, s) PROVE Typed'
  <2>1. s \in {"INT", "TSTP", "STOP"} BY ShellAssumption
  <2>2. TypedStops' BY <1>5, <2>1, SendTyped DEF Raise, TypedStops
  <2> QED BY <1>5, <2>2, UnchangedTyped DEF Raise, handlerVars
<1>6. ASSUME NEW s \in {"INT", "TSTP", "STOP"}, Deliver(c, s) PROVE Typed'
  <2>1. CASE Die(c)
    BY <1>2, <1>6, <2>1 DEF Deliver
  <2>2. CASE ~Die(c)
    <3>1. UNCHANGED childVars BY <1>6, <2>2 DEF Deliver
    <3>2. TypedStops'
      <4>1. stopped' \in [Pid -> BOOLEAN] BY <1>6, <2>2 DEF Deliver, TypedStops
      <4>2. signals' \in [Pid -> SUBSET {"INT", "TSTP", "STOP"}]
        BY <1>6, <2>2 DEF Deliver, TypedStops
      <4>3. report' \in [Pid -> {"none", "stopped", "continued"}]
        BY <1>6, <2>2 DEF Deliver, TypedStops
      <4> QED BY <4>1, <4>2, <4>3 DEF TypedStops
    <3>3. TypedHandlers' BY <1>6, <2>2 DEF Deliver, TypedHandlers, handlerVars
    <3> QED BY <1>6, <3>1, <3>2, <3>3, UnchangedTyped DEF Deliver, handlerVars
  <2> QED BY <2>1, <2>2
<1> QED BY <1>1, <1>3, <1>4, <1>5, <1>6, <1>7 DEF Child

LEMMA KeyboardTyped ==
  ASSUME Typed, NEW s \in Keys, Keyboard(s)
  PROVE  Typed'
<1> USE DEF Typed
<1>1. s \in {"INT", "TSTP", "STOP"} BY ShellAssumption
<1>2. TypedStops' BY <1>1, SendTyped DEF Keyboard, TypedStops
<1>3. TypedHandlers' BY DEF Keyboard, TypedHandlers, handlerVars
<1> QED BY <1>2, <1>3, UnchangedTyped DEF Keyboard, handlerVars

LEMMA NextTyped == Typed /\ [Next]_vars => Typed'
<1> SUFFICES ASSUME Typed, [Next]_vars PROVE Typed'
  OBVIOUS
<1>1. CASE UNCHANGED vars
  BY <1>1, UnchangedTyped DEF vars, Typed, handlerVars
<1> QED BY <1>1, MainTyped, HandlersTyped, ChildTyped, KeyboardTyped DEF Next

\* The types, with the domains that TypeOK leaves open, and that eval holds a
\* line whenever it uses one.
THEOREM ShellTyped == Spec => []Typed
BY InitTyped, NextTyped, PTL DEF Spec
-----------------------------------------------------------------------------
(***************************************************************************)
(* The job table and the processes.  The invariant relates the position    *)
(* of a process in the pid array of its job with the place it was forked   *)
(* for (spot), so a process is in one array and at one position of it.     *)
(***************************************************************************)

\* Every process in the array of a listed job was forked for its position.
JobsAreForked ==
  \A p \in Listed :
    /\ job[p].pid # <<>> /\ job[p].pid[1] = p
    /\ \A i \in DOMAIN job[p].pid : job[p].pid[i] # NULL =>
         /\ phase[job[p].pid[i]] # "none"
         /\ spot[job[p].pid[i]].leader = p /\ spot[job[p].pid[i]].idx = i - 1

\* So was every process of the job being started, and none of them is reaped.
PidsAreForked ==
  blocked =>
    /\ pids # <<>> => pids[1] \notin Listed
    /\ \A i \in DOMAIN pids : pids[i] # NULL =>
         /\ Exists(pids[i])
         /\ spot[pids[i]].leader = pids[1] /\ spot[pids[i]].idx = i - 1

\* Every child is in a job or in the pid array of eval.
ChildrenAreKnown ==
  \A c \in Pid : Exists(c) =>
    \/ \E p \in Listed : c \in Range(job[p].pid)
    \/ blocked /\ c \in Range(pids)

TableInv == /\ JobIdsDescend /\ JobsAreForked /\ PidsAreForked
            /\ ChildrenAreKnown /\ ProcessesAreCounted

\* The processes of job p that nproc_cur counts.
Left(p) == {i \in DOMAIN job[p].pid :
              job[p].pid[i] # NULL => phase[job[p].pid[i]] # "reaped"}

LEMMA CountedLemma ==
  /\ ProcessesAreCounted <=>
       \A p \in Listed : job[p].cur = Cardinality(Left(p)) /\ Left(p) # {}
  /\ ProcessesAreCounted' <=>
       \A p \in Listed' : job'[p].cur = Cardinality(Left(p)') /\ Left(p)' # {}
BY DEF ProcessesAreCounted, Left

LEMMA JobTyped ==
  ASSUME TypedTable, NEW p \in Listed
  PROVE  /\ p \in Pid /\ p # NULL /\ job[p] \in Job
         /\ job[p].jid \in Nat /\ job[p].cur \in Int
         /\ job[p].pid \in Seq(Pid \cup {NULL})
         /\ DOMAIN job[p].pid = 1..Len(job[p].pid)
         /\ Len(job[p].pid) \in Nat
         /\ \A i \in DOMAIN job[p].pid : job[p].pid[i] \in Pid \cup {NULL}
         /\ Range(job[p].pid) = {job[p].pid[i] : i \in DOMAIN job[p].pid}
         /\ IsFiniteSet(Left(p)) /\ Cardinality(Left(p)) \in Nat
<1>1. p \in Pid /\ p # NULL BY ListedLemma
<1>2. job[p] \in Job BY <1>1 DEF TypedTable
<1>3. job[p].jid \in Nat /\ job[p].cur \in Int /\ job[p].pid \in Seq(Pid \cup {NULL})
  BY <1>2 DEF Job
<1>4. DOMAIN job[p].pid = 1..Len(job[p].pid) /\ Len(job[p].pid) \in Nat
  BY <1>3
<1>5. \A i \in DOMAIN job[p].pid : job[p].pid[i] \in Pid \cup {NULL}
  BY <1>3
<1>6. Range(job[p].pid) = {job[p].pid[i] : i \in DOMAIN job[p].pid}
  BY DEF Range
<1>7. IsFiniteSet(Left(p)) /\ Cardinality(Left(p)) \in Nat
  <2>1. Left(p) \in SUBSET (1..Len(job[p].pid)) BY <1>4 DEF Left
  <2>2. IsFiniteSet(1..Len(job[p].pid)) BY <1>4, FS_Interval
  <2> QED BY <2>1, <2>2, FS_Subset, FS_CardinalityType
<1> QED BY <1>1, <1>2, <1>3, <1>4, <1>5, <1>6, <1>7

\* An id names one job of the list, at one position.
LEMMA JidLemma ==
  ASSUME TypedTable, JobIdsDescend
  PROVE  /\ \A p, q \in Listed : job[p].jid = job[q].jid => p = q
         /\ \A p \in Listed : getjob_jid(job[p].jid) = p
         /\ \A i, k \in 1..Len(jobs) : jobs[i] = jobs[k] => i = k
<1>1. jobs \in Seq(Pid) /\ DOMAIN jobs = 1..Len(jobs) /\ Len(jobs) \in Nat
  BY DEF TypedTable
<1>2. \A i \in 1..Len(jobs) : job[jobs[i]].jid \in Nat
  BY <1>1, ListedLemma, JobTyped
<1>3. ASSUME NEW i \in 1..Len(jobs), NEW k \in 1..Len(jobs),
             job[jobs[i]].jid = job[jobs[k]].jid
      PROVE  i = k
  <2>1. ~(i < k) /\ ~(k < i) BY <1>1, <1>2, <1>3 DEF JobIdsDescend
  <2> QED BY <2>1
<1>4. ASSUME NEW p \in Listed, NEW q \in Listed, job[p].jid = job[q].jid
      PROVE  p = q
  <2>1. PICK i \in 1..Len(jobs) : jobs[i] = p BY ListedLemma
  <2>2. PICK k \in 1..Len(jobs) : jobs[k] = q BY ListedLemma
  <2> QED BY <1>3, <1>4, <2>1, <2>2
<1>5. ASSUME NEW p \in Listed PROVE getjob_jid(job[p].jid) = p
  <2> DEFINE S == {q \in Listed : job[q].jid = job[p].jid}
  <2>1. S = {p} BY <1>4
  <2>2. First(S) \in S
    <3> HIDE DEF S
    <3>1. S \subseteq Listed BY DEF S
    <3> QED BY <2>1, <3>1, FirstLemma
  <2> QED BY <2>1, <2>2 DEF getjob_jid
<1> QED BY <1>3, <1>4, <1>5

\* A process is in one job, at one position, and getjob_pid finds it.
LEMMA PlaceLemma ==
  ASSUME TypedTable, JobsAreForked, NEW p \in Listed,
         NEW i \in DOMAIN job[p].pid, job[p].pid[i] # NULL
  PROVE  /\ \A q \in Listed : \A k \in DOMAIN job[q].pid :
              job[q].pid[k] = job[p].pid[i] => q = p /\ k = i
         /\ getjob_pid(job[p].pid[i]) = p
<1> DEFINE c == job[p].pid[i]
<1>1. spot[c].leader = p /\ spot[c].idx = i - 1 BY DEF JobsAreForked
<1>2. ASSUME NEW q \in Listed, NEW k \in DOMAIN job[q].pid, job[q].pid[k] = c
      PROVE  q = p /\ k = i
  <2>1. spot[c].leader = q /\ spot[c].idx = k - 1
    BY <1>2 DEF JobsAreForked
  <2>2. i \in Int /\ k \in Int BY JobTyped
  <2> HIDE DEF c
  <2> QED BY <1>1, <2>1, <2>2
<1>3. getjob_pid(c) = p
  <2> DEFINE S == {q \in Listed : c \in Range(job[q].pid)}
  <2>1. S = {p}
    <3>1. c \in Range(job[p].pid) BY JobTyped
    <3>2. ASSUME NEW q \in S PROVE q = p
      <4>0. q \in Listed /\ c \in Range(job[q].pid) OBVIOUS
      <4>1. PICK k \in DOMAIN job[q].pid : job[q].pid[k] = c BY <4>0 DEF Range
      <4> QED BY <4>0, <4>1, <1>2
    <3> QED BY <3>1, <3>2
  <2>2. First(S) \in S
    <3> HIDE DEF S
    <3>1. S \subseteq Listed BY DEF S
    <3> QED BY <2>1, <3>1, FirstLemma
  <2> HIDE DEF c
  <2> QED BY <2>1, <2>2 DEF getjob_pid
<1> QED BY <1>2, <1>3

LEMMA InitTable == Init => TableInv
<1> SUFFICES ASSUME Init PROVE TableInv
  OBVIOUS
<1>1. Listed = {} BY DEF Init, Listed, Range
<1>2. JobIdsDescend BY DEF Init, JobIdsDescend
<1> QED BY <1>1, <1>2 DEF Init, TableInv, JobsAreForked, PidsAreForked,
           ChildrenAreKnown, ProcessesAreCounted, Exists

\* Steps that leave the ids, arrays and counters of the table alone, and that
\* neither fork nor reap.
Quiet ==
  /\ UNCHANGED <<jobs, spot, blocked>> /\ (blocked => UNCHANGED pids)
  /\ \A p \in Pid : /\ job'[p].jid = job[p].jid /\ job'[p].pid = job[p].pid
                    /\ job'[p].cur = job[p].cur
  /\ \A c \in Pid : /\ phase'[c] = "none" <=> phase[c] = "none"
                    /\ phase'[c] = "reaped" <=> phase[c] = "reaped"

LEMMA TableFrame ==
  ASSUME Typed, TableInv, Quiet
  PROVE  TableInv'
<1> USE DEF TableInv, Quiet
<1>1. Listed' = Listed /\ Listed \subseteq Pid
  BY ListedLemma DEF Listed, Typed
<1>2. \A c \in Pid : Exists(c)' <=> Exists(c) BY DEF Exists
<1>3. JobIdsDescend'
  <2>1. jobs \in Seq(Pid) BY DEF Typed, TypedTable
  <2> QED BY <2>1 DEF JobIdsDescend
<1>4. \A p \in Listed : \A i \in DOMAIN job[p].pid : job[p].pid[i] \in Pid \cup {NULL}
  BY JobTyped DEF Typed
<1>5. JobsAreForked' BY <1>1, <1>4 DEF JobsAreForked
<1>6. PidsAreForked'
  <2> SUFFICES ASSUME blocked PROVE PidsAreForked'
    BY DEF PidsAreForked
  <2>1. \A i \in DOMAIN pids : pids[i] \in Pid \cup {NULL}
    BY DEF Typed, TypedMain
  <2> QED BY <2>1, <1>1, <1>2 DEF PidsAreForked
<1>7. ChildrenAreKnown' BY <1>1, <1>2 DEF ChildrenAreKnown
<1>8. ProcessesAreCounted'
  <2>1. \A p \in Listed : Left(p)' = Left(p)
    BY <1>1, <1>4 DEF Left
  <2> QED BY <1>1, <2>1, CountedLemma
<1> QED BY <1>3, <1>5, <1>6, <1>7, <1>8

LEMMA BeginTable ==
  ASSUME Typed, TableInv, Begin
  PROVE  TableInv'
<1>1. /\ ~blocked /\ pids' = <<>> /\ UNCHANGED <<jobs, job, phase, spot>>
  BY DEF Begin, At, Typed, LineHeld, tableVars
<1>2. Listed' = Listed BY <1>1 DEF Listed
<1>3. JobIdsDescend' BY <1>1 DEF TableInv, JobIdsDescend
<1>4. JobsAreForked' BY <1>1, <1>2 DEF TableInv, JobsAreForked
<1>5. PidsAreForked' BY <1>1 DEF PidsAreForked
<1>6. ChildrenAreKnown'
  BY <1>1, <1>2 DEF TableInv, ChildrenAreKnown, Exists
<1>7. ProcessesAreCounted' BY <1>1, <1>2 DEF TableInv, ProcessesAreCounted
<1> QED BY <1>3, <1>4, <1>5, <1>6, <1>7 DEF TableInv

LEMMA ForkFailsTable ==
  ASSUME Typed, TableInv, ForkFails
  PROVE  TableInv'
<1>1. /\ blocked /\ pids \in Seq(Pid \cup {NULL}) /\ Len(pids) \in Nat
      /\ DOMAIN pids = 1..Len(pids)
  BY DEF ForkFails, At, Typed, TypedMain, LineHeld
<1>2. pids' = Append(pids, NULL) /\ UNCHANGED <<jobs, job, phase, spot, blocked>>
  BY DEF ForkFails, tableVars, childVars
<1>3. /\ DOMAIN pids' = 1..(Len(pids) + 1)
      /\ \A i \in 1..Len(pids) : pids'[i] = pids[i]
      /\ pids'[Len(pids) + 1] = NULL
  BY <1>1, <1>2
<1>4. Listed' = Listed /\ NULL \notin Listed BY <1>2, ListedLemma DEF Listed, Typed
<1>5. JobIdsDescend' BY <1>2 DEF TableInv, JobIdsDescend
<1>6. JobsAreForked' BY <1>2, <1>4 DEF TableInv, JobsAreForked
<1>7. PidsAreForked'
  <2>1. pids'[1] \notin Listed
    <3>1. CASE Len(pids) = 0 BY <3>1, <1>3, <1>4
    <3>2. CASE Len(pids) # 0
      <4>1. pids # <<>> /\ 1 \in 1..Len(pids) BY <3>2, <1>1
      <4> QED BY <4>1, <1>1, <1>3 DEF TableInv, PidsAreForked
    <3> QED BY <3>1, <3>2
  <2>2. ASSUME NEW i \in DOMAIN pids', pids'[i] # NULL
        PROVE  /\ phase'[pids'[i]] \notin {"none", "reaped"}
               /\ spot'[pids'[i]].leader = pids'[1] /\ spot'[pids'[i]].idx = i - 1
    <3>1. i \in 1..Len(pids) /\ 1 \in 1..Len(pids) BY <2>2, <1>1, <1>3
    <3> QED BY <2>2, <3>1, <1>1, <1>2, <1>3 DEF TableInv, PidsAreForked, Exists
  <2> QED BY <2>1, <2>2, <1>4 DEF PidsAreForked, Exists
<1>8. ChildrenAreKnown'
  <2>1. Range(pids) \subseteq Range(pids')
    <3>1. \A i \in DOMAIN pids : i \in DOMAIN pids' BY <1>1, <1>3
    <3> QED BY <3>1, <1>1, <1>3 DEF Range
  <2> QED BY <2>1, <1>2, <1>4 DEF TableInv, ChildrenAreKnown, Exists
<1>9. ProcessesAreCounted' BY <1>2, <1>4 DEF TableInv, ProcessesAreCounted
<1> QED BY <1>5, <1>6, <1>7, <1>8, <1>9 DEF TableInv

LEMMA ForkTable ==
  ASSUME Typed, TableInv, Fork
  PROVE  TableInv'
<1>1. /\ blocked /\ pids \in Seq(Pid \cup {NULL}) /\ Len(pids) \in Nat
      /\ DOMAIN pids = 1..Len(pids)
  BY DEF Fork, At, Typed, TypedMain, LineHeld
<1>2. PICK c \in Pid :
        /\ phase[c] = "none" /\ pids' = Append(pids, c)
        /\ phase' = [phase EXCEPT ![c] = "forked"]
        /\ spot' = [spot EXCEPT ![c] =
                      [leader |-> pids'[1], idx |-> Len(pids),
                       num |-> Head(line).num, name |-> Head(line).name]]
        /\ UNCHANGED <<jobs, job, blocked>>
  BY DEF Fork, IsNext, tableVars
<1>3. /\ DOMAIN pids' = 1..(Len(pids) + 1)
      /\ \A i \in 1..Len(pids) : pids'[i] = pids[i]
      /\ pids'[Len(pids) + 1] = c
  BY <1>1, <1>2
<1>4. /\ phase'[c] = "forked" /\ \A d \in Pid \ {c} : phase'[d] = phase[d]
      /\ spot'[c].leader = pids'[1] /\ spot'[c].idx = Len(pids)
      /\ \A d \in Pid \ {c} : spot'[d] = spot[d]
  BY <1>2 DEF Typed, TypedChildren
<1>5. Listed' = Listed BY <1>2 DEF Listed
<1>6. ASSUME NEW p \in Listed, NEW i \in DOMAIN job[p].pid, job[p].pid[i] # NULL
      PROVE  job[p].pid[i] \in Pid \ {c}
  BY <1>6, <1>2, JobTyped DEF TableInv, JobsAreForked, Typed
<1>7. c \notin Listed
  <2> SUFFICES ASSUME c \in Listed PROVE FALSE
    OBVIOUS
  <2>1. job[c].pid[1] = c /\ 1 \in DOMAIN job[c].pid /\ c # NULL
    BY JobTyped DEF TableInv, JobsAreForked, Typed
  <2> QED BY <2>1, <1>6
<1>8. JobIdsDescend' BY <1>2 DEF TableInv, JobIdsDescend
<1>9. JobsAreForked'
  <2>1. ASSUME NEW p \in Listed, NEW i \in DOMAIN job[p].pid, job[p].pid[i] # NULL
        PROVE  /\ phase'[job[p].pid[i]] # "none"
               /\ spot'[job[p].pid[i]].leader = p /\ spot'[job[p].pid[i]].idx = i - 1
    BY <2>1, <1>4, <1>6 DEF TableInv, JobsAreForked
  <2> QED BY <2>1, <1>2, <1>5 DEF TableInv, JobsAreForked
<1>10. PidsAreForked'
  <2>1. pids'[1] \notin Listed
    <3>1. CASE Len(pids) = 0 BY <3>1, <1>3, <1>7
    <3>2. CASE Len(pids) # 0
      <4>1. pids # <<>> /\ 1 \in 1..Len(pids) BY <3>2, <1>1
      <4> QED BY <4>1, <1>1, <1>3 DEF TableInv, PidsAreForked
    <3> QED BY <3>1, <3>2
  <2>2. ASSUME NEW i \in DOMAIN pids', pids'[i] # NULL
        PROVE  /\ phase'[pids'[i]] \notin {"none", "reaped"}
               /\ spot'[pids'[i]].leader = pids'[1] /\ spot'[pids'[i]].idx = i - 1
    <3>1. CASE i \in 1..Len(pids)
      <4>1. 1 \in 1..Len(pids) /\ pids'[i] = pids[i] /\ pids'[1] = pids[1]
        BY <3>1, <1>1, <1>3
      <4>2. pids[i] \in Pid BY <2>2, <3>1, <4>1, <1>1
      <4>3. /\ Exists(pids[i]) /\ spot[pids[i]].leader = pids[1]
            /\ spot[pids[i]].idx = i - 1
        BY <2>2, <3>1, <4>1, <1>1 DEF TableInv, PidsAreForked
      <4>4. pids[i] # c BY <4>3, <1>2 DEF Exists
      <4> QED BY <4>1, <4>2, <4>3, <4>4, <1>4 DEF Exists
    <3>2. CASE i = Len(pids) + 1
      BY <3>2, <1>1, <1>3, <1>4 DEF Exists
    <3> QED BY <3>1, <3>2, <1>1, <1>3
  <2> QED BY <2>1, <2>2, <1>5 DEF PidsAreForked, Exists
<1>11. ChildrenAreKnown'
  <2>1. Range(pids) \subseteq Range(pids') /\ c \in Range(pids')
    <3>1. \A i \in DOMAIN pids : i \in DOMAIN pids' BY <1>1, <1>3
    <3>2. Len(pids) + 1 \in DOMAIN pids' BY <1>1, <1>3
    <3> QED BY <3>1, <3>2, <1>1, <1>3 DEF Range
  <2>2. ASSUME NEW d \in Pid, Exists(d)', d # c
        PROVE  (\E p \in Listed : d \in Range(job[p].pid)) \/ d \in Range(pids)
    BY <2>2, <1>4 DEF TableInv, ChildrenAreKnown, Exists
  <2> QED BY <2>1, <2>2, <1>1, <1>2, <1>5 DEF ChildrenAreKnown
<1>12. ProcessesAreCounted'
  <2>1. \A p \in Listed : Left(p)' = Left(p)
    BY <1>2, <1>4, <1>6 DEF Left
  <2> QED BY <2>1, <1>2, <1>5, CountedLemma DEF TableInv
<1> QED BY <1>8, <1>9, <1>10, <1>11, <1>12 DEF TableInv

\* The jobs of the list after addjob.
LEMMA ConsListed ==
  ASSUME TypedTable, NEW p \in Pid, jobs' = <<p>> \o jobs
  PROVE  /\ Len(jobs') = Len(jobs) + 1 /\ DOMAIN jobs' = 1..(Len(jobs) + 1)
         /\ jobs'[1] = p /\ \A i \in 1..Len(jobs) : jobs'[i + 1] = jobs[i]
         /\ Listed' = Listed \cup {p}
<1>1. jobs \in Seq(Pid) /\ Len(jobs) \in Nat /\ <<p>> \in Seq(Pid) /\ Len(<<p>>) = 1
      /\ <<p>>[1] = p /\ DOMAIN jobs = 1..Len(jobs)
  BY DEF TypedTable
<1>2. /\ Len(jobs') = Len(jobs) + 1 /\ DOMAIN jobs' = 1..(Len(jobs) + 1)
      /\ jobs'[1] = p /\ \A i \in 1..Len(jobs) : jobs'[i + 1] = jobs[i]
  <2>1. jobs' \in Seq(Pid) /\ Len(jobs') = Len(jobs) + 1
    BY <1>1, ConcatProperties
  <2>2. \A i \in 1..(1 + Len(jobs)) : jobs'[i] = IF i <= 1 THEN <<p>>[i] ELSE jobs[i - 1]
    BY <1>1, ConcatProperties
  <2>3. jobs'[1] = p BY <2>2, <1>1
  <2>4. ASSUME NEW i \in 1..Len(jobs) PROVE jobs'[i + 1] = jobs[i]
    <3>1. i + 1 \in 1..(1 + Len(jobs)) /\ ~(i + 1 <= 1) /\ (i + 1) - 1 = i BY <1>1
    <3> QED BY <3>1, <2>2
  <2> QED BY <2>1, <2>3, <2>4
<1>3. Listed' = Listed \cup {p}
  <2>1. ASSUME NEW i \in 1..(Len(jobs) + 1) PROVE jobs'[i] \in Listed \cup {p}
    <3>1. CASE i = 1 BY <3>1, <1>2
    <3>2. CASE i # 1
      <4>1. i - 1 \in 1..Len(jobs) /\ (i - 1) + 1 = i BY <3>2, <1>1
      <4>2. jobs'[i] = jobs[i - 1] BY <4>1, <1>2
      <4> QED BY <4>1, <4>2, ListedLemma
    <3> QED BY <3>1, <3>2
  <2>2. p \in Listed' BY <1>1, <1>2 DEF Listed, Range
  <2>3. ASSUME NEW q \in Listed PROVE q \in Listed'
    <3>1. PICK i \in 1..Len(jobs) : jobs[i] = q BY ListedLemma
    <3>2. i + 1 \in 1..(Len(jobs) + 1) BY <1>1
    <3> QED BY <3>1, <3>2, <1>2 DEF Listed, Range
  <2>4. \A q \in Listed' : q \in Listed \cup {p} BY <2>1, <1>2 DEF Listed, Range
  <2> QED BY <2>2, <2>3, <2>4
<1> QED BY <1>2, <1>3

LEMMA AddJobTable ==
  ASSUME Typed, TableInv, AddJob
  PROVE  TableInv'
<1>1. /\ blocked /\ line # <<>> /\ pids \in Seq(Pid \cup {NULL})
      /\ Len(pids) = Head(line).num /\ DOMAIN pids = 1..Len(pids)
  BY DEF AddJob, At, Typed, TypedMain, LineHeld
<1>2. Head(line).num \in Nat \ {0} BY <1>1, HeadLine DEF Typed
<1>3. pids # <<>> /\ 1 \in DOMAIN pids /\ pids[1] \in Pid \cup {NULL} BY <1>1, <1>2
<1>4. CASE pids[1] = NULL
  BY <1>4, TableFrame DEF Quiet, AddJob, tableVars
<1>5. CASE pids[1] # NULL
  <2>0. PICK p \in Pid : p = pids[1] BY <1>3, <1>5
  <2>1. /\ jobs' = <<p>> \o jobs /\ ~blocked'
        /\ job' = [job EXCEPT ![p] = [jid |-> getmaxid + 1, pid |-> pids,
                                     cur |-> Head(line).num, state |-> Head(line).mode]]
        /\ UNCHANGED <<pids, phase, spot>>
    BY <1>5, <2>0 DEF AddJob, addjob
  <2>2. p \in Pid /\ p \notin Listed
    BY <1>1, <1>3, <2>0 DEF TableInv, PidsAreForked
  <2>3. /\ job'[p].jid = getmaxid + 1 /\ job'[p].pid = pids
        /\ job'[p].cur = Head(line).num
        /\ \A q \in Listed : job'[q] = job[q]
    BY <2>1, <2>2, ListedLemma DEF Typed, TypedTable
  <2>4. jobs \in Seq(Pid) /\ Len(jobs) \in Nat /\ DOMAIN jobs = 1..Len(jobs)
    BY DEF Typed, TypedTable
  <2>5. /\ Len(jobs') = Len(jobs) + 1 /\ DOMAIN jobs' = 1..(Len(jobs) + 1)
        /\ jobs'[1] = p /\ \A i \in 1..Len(jobs) : jobs'[i + 1] = jobs[i]
    BY <2>1, ConsListed DEF Typed
  <2>6. Listed' = Listed \cup {p} BY <2>1, ConsListed DEF Typed
  <2>7. JobIdsDescend'
    <3>1. ASSUME NEW i \in 1..(Len(jobs) + 1), NEW k \in 1..(Len(jobs) + 1), i < k
          PROVE  job'[jobs'[i]].jid > job'[jobs'[k]].jid
      <4>1. k - 1 \in 1..Len(jobs) /\ (k - 1) + 1 = k BY <3>1, <2>4
      <4>2. jobs'[k] = jobs[k - 1] /\ jobs[k - 1] \in Listed
        BY <4>1, <2>5, ListedLemma DEF Typed
      <4>3. CASE i = 1
        <5>1. job'[jobs'[i]].jid = getmaxid + 1 BY <4>3, <2>3, <2>5
        <5>2. job'[jobs'[k]].jid <= getmaxid /\ getmaxid \in Nat /\ job'[jobs'[k]].jid \in Nat
          BY <4>2, <2>3, MaxIdLemma, JobTyped DEF Typed
        <5> QED BY <5>1, <5>2
      <4>4. CASE i # 1
        <5>1. i - 1 \in 1..Len(jobs) /\ (i - 1) + 1 = i /\ i - 1 < k - 1 BY <3>1, <4>4, <2>4
        <5>2. jobs'[i] = jobs[i - 1] /\ jobs[i - 1] \in Listed
          BY <5>1, <2>5, ListedLemma DEF Typed
        <5>3. job[jobs[i - 1]].jid > job[jobs[k - 1]].jid
          BY <4>1, <5>1, <2>4 DEF TableInv, JobIdsDescend
        <5> QED BY <4>2, <5>2, <5>3, <2>3
      <4> QED BY <4>3, <4>4
    <3> QED BY <3>1, <2>5 DEF JobIdsDescend
  <2>8. \A i \in DOMAIN pids : pids[i] # NULL =>
          /\ pids[i] \in Pid /\ Exists(pids[i])
          /\ spot[pids[i]].leader = p /\ spot[pids[i]].idx = i - 1
    BY <1>1, <2>0 DEF TableInv, PidsAreForked
  <2>9. JobsAreForked'
    <3>1. /\ job'[p].pid # <<>> /\ job'[p].pid[1] = p
          /\ \A i \in DOMAIN job'[p].pid : job'[p].pid[i] # NULL =>
               /\ phase'[job'[p].pid[i]] # "none"
               /\ spot'[job'[p].pid[i]].leader = p /\ spot'[job'[p].pid[i]].idx = i - 1
      BY <2>1, <2>3, <2>8, <1>3, <2>0 DEF Exists
    <3>2. ASSUME NEW q \in Listed
          PROVE  /\ job'[q].pid # <<>> /\ job'[q].pid[1] = q
                 /\ \A i \in DOMAIN job'[q].pid : job'[q].pid[i] # NULL =>
                      /\ phase'[job'[q].pid[i]] # "none"
                      /\ spot'[job'[q].pid[i]].leader = q /\ spot'[job'[q].pid[i]].idx = i - 1
      BY <2>1, <2>3 DEF TableInv, JobsAreForked
    <3> QED BY <3>1, <3>2, <2>6 DEF JobsAreForked
  <2>10. PidsAreForked' BY <2>1 DEF PidsAreForked
  <2>11. ChildrenAreKnown'
    <3> SUFFICES ASSUME NEW c \in Pid, Exists(c)'
                 PROVE  \E q \in Listed' : c \in Range(job'[q].pid)
      BY DEF ChildrenAreKnown
    <3>1. Exists(c) BY <2>1 DEF Exists
    <3>2. CASE c \in Range(pids) BY <3>2, <2>3, <2>6
    <3>3. CASE \E q \in Listed : c \in Range(job[q].pid) BY <3>3, <2>3, <2>6
    <3> QED BY <3>1, <3>2, <3>3 DEF TableInv, ChildrenAreKnown
  <2>12. ProcessesAreCounted'
    <3>1. job'[p].cur = Cardinality(Left(p)') /\ Left(p)' # {}
      <4>1. Left(p)' = 1..Len(pids)
        BY <2>1, <2>3, <2>8, <1>1 DEF Left, Exists
      <4>2. \A n \in Nat \ {0} : Cardinality(1..n) = n BY FS_Interval
      <4>3. 1 \in 1..Len(pids) BY <1>3, <1>1
      <4> QED BY <4>1, <4>2, <4>3, <2>3, <1>1, <1>2
    <3>2. ASSUME NEW q \in Listed
          PROVE  job'[q].cur = Cardinality(Left(q)') /\ Left(q)' # {}
      <4>1. Left(q)' = Left(q) BY <2>1, <2>3 DEF Left
      <4> QED BY <4>1, <2>3, CountedLemma DEF TableInv
    <3> QED BY <3>1, <3>2, <2>6, CountedLemma
  <2> QED BY <2>7, <2>9, <2>10, <2>11, <2>12 DEF TableInv
<1> QED BY <1>3, <1>4, <1>5

\* What deletejob leaves.
LEMMA DeleteLemma ==
  ASSUME Typed, JobIdsDescend, NEW p \in Listed, deletejob(job[p].jid)
  PROVE  /\ Listed' = Listed \ {p}
         /\ \A q \in Listed \ {p} : job'[q] = job[q]
         /\ JobIdsDescend'
<1>1. getjob_jid(job[p].jid) = p BY JidLemma DEF Typed
<1>2. PICK k \in DOMAIN jobs : jobs[k] = p /\ jobs' = RemoveAt(jobs, k)
  BY <1>1 DEF deletejob
<1>3. job' = [job EXCEPT ![p] = NoJob] BY <1>1 DEF deletejob
<1>4. \A q \in Listed \ {p} : job'[q] = job[q]
  BY <1>3, ListedLemma DEF Typed, TypedTable
<1>5. jobs \in Seq(Pid) /\ Len(jobs) \in Nat /\ DOMAIN jobs = 1..Len(jobs)
  BY DEF Typed, TypedTable
<1>6. /\ jobs' \in Seq(Pid) /\ Len(jobs') = Len(jobs) - 1
      /\ \A i \in 1..(Len(jobs) - 1) : jobs'[i] = IF i < k THEN jobs[i] ELSE jobs[i + 1]
  BY <1>2, <1>5, RemoveAtLemma
<1>7. DOMAIN jobs' = 1..(Len(jobs) - 1) BY <1>6
<1>8. \A i, m \in 1..Len(jobs) : jobs[i] = jobs[m] => i = m
  BY JidLemma DEF Typed
<1> DEFINE old(i) == IF i < k THEN i ELSE i + 1
<1>9. ASSUME NEW i \in DOMAIN jobs'
      PROVE  old(i) \in 1..Len(jobs) /\ old(i) # k /\ jobs'[i] = jobs[old(i)]
  <2>1. i \in Int /\ k \in Int /\ 1 <= k /\ k <= Len(jobs) /\ 1 <= i /\ i <= Len(jobs) - 1
    BY <1>5, <1>7
  <2>2. jobs'[i] = jobs[old(i)] BY <1>6, <1>7
  <2> QED BY <2>1, <2>2, <1>5
<1>10. Listed' = Listed \ {p}
  <2>1. ASSUME NEW q \in Listed' PROVE q \in Listed \ {p}
    <3>1. PICK i \in DOMAIN jobs' : jobs'[i] = q BY DEF Listed, Range
    <3>2. old(i) \in 1..Len(jobs) /\ old(i) # k /\ q = jobs[old(i)] BY <3>1, <1>9
    <3> HIDE DEF old
    <3>3. q # p BY <3>2, <1>2, <1>5, <1>8
    <3> QED BY <3>2, <3>3, ListedLemma DEF Typed
  <2>2. ASSUME NEW q \in Listed, q # p PROVE q \in Listed'
    <3>1. PICK m \in 1..Len(jobs) : jobs[m] = q BY ListedLemma DEF Typed
    <3>2. m # k BY <3>1, <2>2, <1>2
    <3>3. CASE m < k
      <4>1. m \in DOMAIN jobs' /\ old(m) = m BY <3>3, <1>5, <1>7
      <4> QED BY <4>1, <3>1, <1>9 DEF Listed, Range
    <3>4. CASE m > k
      <4>1. m - 1 \in DOMAIN jobs' /\ old(m - 1) = m BY <3>4, <1>5, <1>7
      <4> QED BY <4>1, <3>1, <1>9 DEF Listed, Range
    <3> QED BY <3>2, <3>3, <3>4, <1>5
  <2> QED BY <2>1, <2>2
<1>11. JobIdsDescend'
  <2>1. ASSUME NEW i \in DOMAIN jobs', NEW m \in DOMAIN jobs', i < m
        PROVE  job'[jobs'[i]].jid > job'[jobs'[m]].jid
    <3>1. old(i) < old(m) BY <2>1, <1>5, <1>7
    <3>2. job[jobs[old(i)]].jid > job[jobs[old(m)]].jid
      <4> HIDE DEF old
      <4> QED BY <3>1, <1>9, <1>5 DEF JobIdsDescend
    <3>3. jobs'[i] \in Listed' /\ jobs'[m] \in Listed' BY DEF Listed, Range
    <3>4. job'[jobs'[i]] = job[jobs'[i]] /\ job'[jobs'[m]] = job[jobs'[m]]
      BY <3>3, <1>4, <1>10
    <3> HIDE DEF old
    <3> QED BY <3>2, <3>4, <1>9
  <2> QED BY <2>1 DEF JobIdsDescend
<1> QED BY <1>4, <1>10, <1>11

LEMMA ReapTable ==
  ASSUME Typed, TableInv, NEW c \in Pid, Reap(c)
  PROVE  TableInv'
<1>1. /\ sch /\ ~blocked /\ phase[c] = "zombie" /\ Exists(c)
      /\ ~blocked' /\ UNCHANGED spot
      /\ phase'[c] = "reaped" /\ \A d \in Pid \ {c} : phase'[d] = phase[d]
  BY DEF Reap, Typed, TypedChildren, LineHeld, mainVars, Exists
<1>2. PICK p \in Listed : c \in Range(job[p].pid)
  BY <1>1 DEF TableInv, ChildrenAreKnown
<1>3. PICK i \in DOMAIN job[p].pid : job[p].pid[i] = c
  BY <1>2 DEF Range
<1>4. c # NULL /\ p \in Pid /\ p # NULL BY ShellAssumption, JobTyped DEF NULL, Typed
<1>5. /\ getjob_pid(c) = p
      /\ \A q \in Listed : \A k \in DOMAIN job[q].pid : job[q].pid[k] = c => q = p /\ k = i
  BY <1>3, <1>4, PlaceLemma DEF Typed, TableInv
<1>6. job[p].cur = Cardinality(Left(p)) /\ IsFiniteSet(Left(p)) /\ Cardinality(Left(p)) \in Nat
  BY CountedLemma, JobTyped DEF TableInv, Typed
<1>7. i \in Left(p) BY <1>1, <1>3 DEF Left
<1>8. /\ IsFiniteSet(Left(p) \ {i})
      /\ Cardinality(Left(p) \ {i}) = job[p].cur - 1
  BY <1>6, <1>7, FS_RemoveElement
<1>9. PidsAreForked' BY <1>1 DEF PidsAreForked
<1>10. ASSUME NEW q \in Listed, job'[q].pid = job[q].pid
       PROVE  /\ q # p => Left(q)' = Left(q)
              /\ q = p => Left(q)' = Left(p) \ {i}
  <2>1. \A k \in DOMAIN job[q].pid : job[q].pid[k] \in Pid \cup {NULL}
    BY JobTyped DEF Typed
  <2> QED BY <2>1, <1>1, <1>3, <1>4, <1>5, <1>10 DEF Left
<1>11. ASSUME NEW q \in Listed, job'[q].pid = job[q].pid
       PROVE  /\ job'[q].pid # <<>> /\ job'[q].pid[1] = q
              /\ \A k \in DOMAIN job'[q].pid : job'[q].pid[k] # NULL =>
                    /\ phase'[job'[q].pid[k]] # "none"
                    /\ spot'[job'[q].pid[k]].leader = q
                    /\ spot'[job'[q].pid[k]].idx = k - 1
  <2>1. \A k \in DOMAIN job[q].pid : job[q].pid[k] \in Pid \cup {NULL}
    BY JobTyped DEF Typed
  <2> QED BY <2>1, <1>1, <1>11 DEF TableInv, JobsAreForked
<1>12. CASE job[p].cur = 1
  <2>1. deletejob(job[p].jid) BY <1>4, <1>5, <1>12 DEF Reap
  <2>2. /\ Listed' = Listed \ {p} /\ JobIdsDescend'
        /\ \A q \in Listed \ {p} : job'[q] = job[q]
    BY <2>1, DeleteLemma DEF TableInv
  <2>3. Left(p) = {i}
    <3>1. Left(p) \ {i} = {} BY <1>8, <1>12, FS_EmptySet
    <3> QED BY <3>1, <1>7
  <2>4. JobsAreForked' BY <2>2, <1>11 DEF JobsAreForked
  <2>5. ChildrenAreKnown'
    <3> SUFFICES ASSUME NEW d \in Pid, Exists(d)'
                 PROVE  \E q \in Listed' : d \in Range(job'[q].pid)
      BY DEF ChildrenAreKnown
    <3>1. d # c /\ Exists(d) BY <1>1 DEF Exists
    <3>2. PICK q \in Listed : d \in Range(job[q].pid)
      BY <3>1, <1>1 DEF TableInv, ChildrenAreKnown
    <3>3. q # p
      <4> SUFFICES ASSUME q = p PROVE FALSE
        OBVIOUS
      <4>1. PICK k \in DOMAIN job[p].pid : job[p].pid[k] = d BY <3>2 DEF Range
      <4>2. k \in Left(p) BY <3>1, <4>1 DEF Left, Exists
      <4> QED BY <4>1, <4>2, <2>3, <1>3, <3>1
    <3> QED BY <3>2, <3>3, <2>2
  <2>6. ProcessesAreCounted'
    <3>1. ASSUME NEW q \in Listed'
          PROVE  job'[q].cur = Cardinality(Left(q)') /\ Left(q)' # {}
      BY <2>2, <1>10, CountedLemma DEF TableInv
    <3> QED BY <3>1, CountedLemma
  <2> QED BY <2>2, <2>4, <2>5, <2>6, <1>9 DEF TableInv
<1>13. CASE job[p].cur # 1
  <2>1. job' = [job EXCEPT ![p].cur = @ - 1] /\ UNCHANGED jobs
    BY <1>4, <1>5, <1>13 DEF Reap
  <2>2. /\ Listed' = Listed
        /\ \A q \in Listed : /\ job'[q].jid = job[q].jid /\ job'[q].pid = job[q].pid
                             /\ q # p => job'[q].cur = job[q].cur
        /\ job'[p].cur = job[p].cur - 1
    <3>1. Listed' = Listed BY <2>1 DEF Listed
    <3>2. job'[p].cur = job[p].cur - 1 /\ job'[p].jid = job[p].jid /\ job'[p].pid = job[p].pid
      BY <2>1, <1>4 DEF Typed, TypedTable, Job
    <3>3. \A q \in Listed \ {p} : job'[q] = job[q]
      BY <2>1, <1>4, ListedLemma DEF Typed, TypedTable
    <3> QED BY <3>1, <3>2, <3>3
  <2>3. JobIdsDescend'
    <3>1. \A k \in DOMAIN jobs : jobs[k] \in Listed BY DEF Listed, Range
    <3> QED BY <2>1, <2>2, <3>1 DEF TableInv, JobIdsDescend
  <2>4. JobsAreForked' BY <2>2, <1>11 DEF JobsAreForked
  <2>5. ChildrenAreKnown'
    <3> SUFFICES ASSUME NEW d \in Pid, Exists(d)'
                 PROVE  \E q \in Listed' : d \in Range(job'[q].pid)
      BY DEF ChildrenAreKnown
    <3>1. d # c /\ Exists(d) BY <1>1 DEF Exists
    <3>2. PICK q \in Listed : d \in Range(job[q].pid)
      BY <3>1, <1>1 DEF TableInv, ChildrenAreKnown
    <3> QED BY <3>2, <2>2
  <2>6. ProcessesAreCounted'
    <3>1. job'[p].cur = Cardinality(Left(p)') /\ Left(p)' # {}
      <4>1. Left(p)' = Left(p) \ {i} BY <2>2, <1>10
      <4>2. Left(p) \ {i} # {}
        <5> SUFFICES ASSUME Left(p) \ {i} = {} PROVE FALSE
          OBVIOUS
        <5>1. Cardinality(Left(p) \ {i}) = 0 BY FS_EmptySet
        <5>2. job[p].cur \in Int BY JobTyped DEF Typed
        <5>3. job[p].cur - 1 = 0 BY <5>1, <1>8
        <5> QED BY <5>2, <5>3, <1>13
      <4> QED BY <4>1, <4>2, <1>8, <2>2
    <3>2. ASSUME NEW q \in Listed, q # p
          PROVE  job'[q].cur = Cardinality(Left(q)') /\ Left(q)' # {}
      <4>1. Left(q)' = Left(q) BY <2>2, <3>2, <1>10
      <4> QED BY <4>1, <2>2, <3>2, CountedLemma DEF TableInv
    <3> QED BY <3>1, <3>2, <2>2, CountedLemma
  <2> QED BY <2>3, <2>4, <2>5, <2>6, <1>9 DEF TableInv
<1> QED BY <1>12, <1>13

\* The steps that neither touch jobs, ids, arrays and counters nor make or reap
\* a process.
LEMMA QuietSteps ==
  ASSUME Typed, Next,
         ~Begin, ~Fork, ~ForkFails, ~AddJob, \A c \in Pid : ~Reap(c)
  PROVE  Quiet
<1>1. /\ job \in [Pid -> Job] /\ jobs \in Seq(Pid)
      /\ pc \in {"exited", "aborted", "undefined", "fork"} \/ ~blocked
      /\ ptr \in Pid \cup {NULL}
  BY DEF Typed, TypedTable, TypedMain, LineHeld
<1>2. Listed \subseteq Pid BY ListedLemma DEF Typed
<1>3. ASSUME UNCHANGED <<tableVars, spot, blocked, phase>>, blocked => UNCHANGED pids
      PROVE  Quiet
  BY <1>3 DEF Quiet, tableVars
<1>4. ASSUME UNCHANGED <<jobs, mainVars, childVars>>,
             NEW p \in Pid, NEW st, job' = [job EXCEPT ![p].state = st]
      PROVE  Quiet
  <2>1. \A q \in Pid : /\ job'[q].jid = job[q].jid /\ job'[q].pid = job[q].pid
                       /\ job'[q].cur = job[q].cur
    BY <1>1, <1>4 DEF Job
  <2> QED BY <2>1, <1>4 DEF Quiet, mainVars, childVars
<1>5. CASE MainLoop
  <2>1. CASE SetState
    <3>1. CASE Undefined
      <4>1. UNCHANGED job BY <2>1, <3>1, <1>1 DEF SetState, Undefined, Goto
      <4> QED BY <2>1, <3>1, <4>1, <1>3 DEF SetState, Undefined, tableVars, childVars
    <3>2. CASE ~Undefined
      <4>1. ptr \in Pid /\ UNCHANGED <<jobs, pids, blocked, childVars>>
        BY <2>1, <3>2, <1>2 DEF SetState
      <4>2. PICK st : job' = [job EXCEPT ![ptr].state = st]
        BY <2>1, <3>2 DEF SetState
      <4>3. \A q \in Pid : /\ job'[q].jid = job[q].jid /\ job'[q].pid = job[q].pid
                           /\ job'[q].cur = job[q].cur
        BY <1>1, <4>1, <4>2 DEF Job
      <4> QED BY <4>1, <4>3 DEF Quiet, childVars
    <3> QED BY <3>1, <3>2
  <2>2. CASE NextJob
    BY <2>2, <1>1, <1>3 DEF NextJob, At, childVars
  <2>3. ASSUME ~SetState, ~NextJob
        PROVE  UNCHANGED <<tableVars, spot, blocked, phase, pids>>
    <3>1. CASE \E l \in Lines : TypeJobs(l)
      BY <3>1 DEF TypeJobs, childVars
    <3>2. CASE \E name \in {"bg", "fg"} : TypeBgFg(name)
      BY <3>2 DEF TypeBgFg, childVars
    <3>3. CASE TypeList \/ ListNext \/ Restart
      BY <3>3 DEF TypeList, ListNext, Restart, Undefined, childVars
    <3>4. CASE ReadJid \/ ShowJob \/ WaitTest
      BY <3>4 DEF ReadJid, ShowJob, WaitTest, Undefined, childVars
    <3>5. CASE Walk \/ FindJob \/ FindShown \/ WaitLookup
      BY <3>5 DEF Walk, FindJob, FindShown, WaitLookup, Found, Undefined, childVars
    <3> QED BY <1>5, <2>3, <3>1, <3>2, <3>3, <3>4, <3>5 DEF MainLoop
  <2> QED BY <2>1, <2>2, <2>3, <1>3
<1>6. CASE Quit BY <1>6, <1>3 DEF Quit, childVars
<1>7. CASE Handlers
  <2>1. ASSUME NEW c \in Pid, Stop(c) PROVE Quiet
    <3>1. CASE getjob_pid(c) = NULL
      BY <2>1, <3>1, <1>3 DEF Stop, Undefined, childVars
    <3>2. CASE getjob_pid(c) # NULL
      <4>1. PICK p \in Pid : p = getjob_pid(c)
        BY <3>2, <1>2, LookupLemma DEF Typed
      <4>2. job' = [job EXCEPT ![p].state = "stopped"] /\ UNCHANGED <<jobs, mainVars, childVars>>
        BY <2>1, <3>2, <4>1 DEF Stop
      <4> QED BY <4>1, <4>2, <1>4
    <3> QED BY <3>1, <3>2
  <2>2. ASSUME NEW c \in Pid, Resume(c) PROVE Quiet
    BY <2>2, <1>3 DEF Resume, Undefined, mainVars, childVars
  <2>3. CASE TakeChild \/ HandlerEnds \/ ForwardKey
    BY <2>3, <1>3 DEF TakeChild, HandlerEnds, ForwardKey, Undefined, mainVars, childVars
  <2>4. ASSUME NEW s \in Keys, TakeKey(s) PROVE Quiet
    BY <2>4, <1>3 DEF TakeKey, mainVars, childVars
  <2> QED BY <1>7, <2>1, <2>2, <2>3, <2>4 DEF Handlers
<1>8. ASSUME NEW c \in Pid, Child(c) PROVE Quiet
  <2>1. ASSUME NEW st \in {"placed", "running", "builtin", "zombie"},
               phase[c] \notin {"none", "reaped"}, phase' = [phase EXCEPT ![c] = st],
               UNCHANGED <<tableVars, mainVars, spot>>
        PROVE  Quiet
    <3>1. \A d \in Pid : /\ phase'[d] = "none" <=> phase[d] = "none"
                         /\ phase'[d] = "reaped" <=> phase[d] = "reaped"
      BY <2>1 DEF Typed, TypedChildren
    <3> QED BY <2>1, <3>1 DEF Quiet, tableVars, mainVars
  <2>2. CASE Place(c) BY <2>1, <2>2 DEF Place
  <2>3. CASE Exec(c) BY <2>1, <2>3 DEF Exec, Die
  <2>4. CASE Exit(c) BY <2>1, <2>4 DEF Exit, Die
  <2>7. CASE ForkedBgFg(c) BY <2>1, <2>7 DEF ForkedBgFg
  <2>5. ASSUME NEW s, Raise(c, s) PROVE Quiet
    BY <2>5, <1>3 DEF Raise, mainVars, childVars
  <2>6. ASSUME NEW s, Deliver(c, s) PROVE Quiet
    <3>1. CASE Die(c)
      BY <2>1, <2>6, <3>1 DEF Deliver, Die, Alive, Exists
    <3>2. CASE ~Die(c)
      BY <2>6, <3>2, <1>3 DEF Deliver, mainVars, childVars
    <3> QED BY <3>1, <3>2
  <2> QED BY <1>8, <2>2, <2>3, <2>4, <2>5, <2>6, <2>7 DEF Child
<1>9. ASSUME NEW s \in Keys, Keyboard(s) PROVE Quiet
  BY <1>9, <1>3 DEF Keyboard, mainVars, childVars
<1> QED BY <1>5, <1>6, <1>7, <1>8, <1>9 DEF Next

LEMMA NextTable == Typed /\ TableInv /\ [Next]_vars => TableInv'
<1> SUFFICES ASSUME Typed, TableInv, [Next]_vars PROVE TableInv'
  OBVIOUS
<1>1. CASE UNCHANGED vars
  BY <1>1, TableFrame DEF Quiet, vars, tableVars, mainVars, childVars
<1> QED BY <1>1, BeginTable, ForkTable, ForkFailsTable, AddJobTable, ReapTable,
           QuietSteps, TableFrame

\* What the properties of the job table rest on: ids descend, the jobs and their
\* processes were forked for them, and every child that is not reaped is counted.
THEOREM TableIsKept == Spec => [](Typed /\ TableInv)
<1>1. Init => Typed /\ TableInv BY InitTyped, InitTable
<1>2. Typed /\ TableInv /\ [Next]_vars => Typed' /\ TableInv' BY NextTyped, NextTable
<1> QED BY <1>1, <1>2, PTL DEF Spec

\* nproc_cur of a job is the number of its processes that are not reaped, and
\* is not zero: sigchld_handler never frees a job early, nor keeps it too long.
THEOREM ShellCountsProcesses == Spec => []ProcessesAreCounted
<1>1. TableInv => ProcessesAreCounted BY DEF TableInv
<1> QED BY <1>1, TableIsKept, PTL

\* Ids descend along the list, whichever jobs have ended.
THEOREM ShellIdsDescend == Spec => []JobIdsDescend
<1>1. TableInv => JobIdsDescend BY DEF TableInv
<1> QED BY <1>1, TableIsKept, PTL

\* While SIGCHLD may be handled, a child that is not reaped is in exactly one
\* job, so sigchld_handler never dereferences a null job.
THEOREM ShellHandlerFindsJob == Spec => []HandlerFindsJob
<1>1. ASSUME Typed, TableInv PROVE HandlerFindsJob
  <2> SUFFICES ASSUME ~blocked, NEW c \in Pid, Exists(c)
               PROVE  \E p \in Listed : \A q \in Listed : c \in Range(job[q].pid) <=> p = q
    BY DEF HandlerFindsJob
  <2>1. PICK p \in Listed : c \in Range(job[p].pid)
    BY <1>1 DEF TableInv, ChildrenAreKnown
  <2>2. PICK i \in DOMAIN job[p].pid : job[p].pid[i] = c BY <2>1 DEF Range
  <2>3. c # NULL BY ShellAssumption DEF NULL
  <2>4. ASSUME NEW q \in Listed, c \in Range(job[q].pid) PROVE p = q
    <3>1. PICK k \in DOMAIN job[q].pid : job[q].pid[k] = c BY <2>4 DEF Range
    <3> QED BY <3>1, <2>2, <2>3, <1>1, PlaceLemma DEF Typed, TableInv
  <2> QED BY <2>1, <2>4
<1> QED BY <1>1, TableIsKept, PTL

\* A job that is not in the list counts no process.
UnlistedIsFree == \A p \in Pid \ Listed : job[p].cur = 0

LEMMA NextUnlisted ==
  ASSUME Typed, TableInv, UnlistedIsFree, [Next]_vars
  PROVE  UnlistedIsFree'
<1>1. /\ job \in [Pid -> Job] /\ jobs \in Seq(Pid)
      /\ Typed' /\ Listed \subseteq Pid
  BY NextTyped, ListedLemma DEF Typed, TypedTable
<1>2. CASE Quiet
  BY <1>2 DEF Quiet, UnlistedIsFree, Listed
<1>3. CASE Begin \/ Fork \/ ForkFails
  BY <1>3 DEF Begin, Fork, ForkFails, tableVars, UnlistedIsFree, Listed
<1>4. CASE AddJob
  <2>1. CASE pids[1] = NULL
    BY <1>4, <2>1 DEF AddJob, tableVars, UnlistedIsFree, Listed
  <2>2. CASE pids[1] # NULL
    <3>1. PICK p : p = pids[1] /\ jobs' = <<p>> \o jobs /\ \A q \in Pid \ {p} : job'[q] = job[q]
      BY <1>1, <1>4, <2>2 DEF AddJob, addjob
    <3>2. p \in Pid
      <4>1. Len(pids) > 0
        BY <1>4, HeadLine DEF AddJob, At, Typed, LineHeld
      <4> QED BY <4>1, <3>1, <2>2 DEF Typed, TypedMain
    <3>3. Listed' = Listed \cup {p} BY <3>1, <3>2, ConsListed DEF Typed
    <3>7. \A q \in Pid \ Listed' : q \in Pid \ Listed /\ job'[q] = job[q]
      BY <3>1, <3>3
    <3> QED BY <3>7 DEF UnlistedIsFree
  <2> QED BY <2>1, <2>2
<1>5. ASSUME NEW c \in Pid, Reap(c) PROVE UnlistedIsFree'
  <2> DEFINE p == getjob_pid(c)
  <2>1. CASE p = NULL
    BY <1>5, <2>1 DEF Reap, tableVars, UnlistedIsFree, Listed
  <2>2. CASE p # NULL
    <3>1. p \in Listed BY <2>2, LookupLemma DEF Typed
    <3> HIDE DEF p
    <3>2. CASE deletejob(job[p].jid)
      <4>1. /\ Listed' = Listed \ {p} /\ job' = [job EXCEPT ![p] = NoJob]
        BY <3>1, <3>2, DeleteLemma, JidLemma DEF deletejob, TableInv, Typed
      <4> QED BY <4>1, <3>1, <1>1 DEF UnlistedIsFree, NoJob
    <3>3. CASE UNCHANGED jobs /\ job' = [job EXCEPT ![p].cur = @ - 1]
      BY <3>1, <3>3, <1>1 DEF UnlistedIsFree, Listed
    <3> QED BY <1>5, <2>2, <3>2, <3>3 DEF Reap, p
  <2> QED BY <2>1, <2>2
<1>6. CASE UNCHANGED vars
  BY <1>6 DEF vars, tableVars, UnlistedIsFree, Listed
<1> QED BY <1>2, <1>3, <1>4, <1>5, <1>6, QuietSteps

\* The types of the shell's variables; nproc_cur is never negative because it
\* counts processes.
THEOREM ShellTypeOK == Spec => []TypeOK
<1>1. Init => UnlistedIsFree
  BY DEF Init, UnlistedIsFree, NoJob
<1>2. Typed /\ TableInv /\ UnlistedIsFree /\ [Next]_vars => UnlistedIsFree'
  BY NextUnlisted
<1>3. ASSUME Typed, TableInv, UnlistedIsFree PROVE TypeOK
  <2>1. job \in [Pid -> [jid : Nat, pid : Seq(Pid \cup {NULL}), cur : Nat,
                         state : JobState \cup {"undefined"}]]
    <3>1. job \in [Pid -> Job] BY <1>3 DEF Typed, TypedTable
    <3>2. ASSUME NEW p \in Pid PROVE job[p].cur \in Nat
      <4>1. p \in Listed => job[p].cur = Cardinality(Left(p)) /\ Cardinality(Left(p)) \in Nat
        BY <1>3, JobTyped, CountedLemma DEF Typed, TableInv
      <4> QED BY <4>1, <1>3 DEF UnlistedIsFree
    <3>3. ASSUME NEW p \in Pid
          PROVE  job[p] \in [jid : Nat, pid : Seq(Pid \cup {NULL}), cur : Nat,
                             state : JobState \cup {"undefined"}]
      <4>1. job[p] \in Job BY <3>1
      <4> QED BY <4>1, <3>2 DEF Job
    <3> QED BY <3>1, <3>3
  <2>2. kbd \in [sig : Keys \cup {"none"}, job : Pid \cup {NULL}]
    BY <1>3 DEF Typed, TypedHandlers, NoKey
  <2>3. jobs \in Seq(Pid) BY <1>3 DEF Typed, TypedTable
  <2>4. /\ TypedMain /\ TypedStops /\ TypedChildren
        /\ pending \subseteq Keys \cup {"CHLD"} /\ sch \in BOOLEAN
    BY <1>3 DEF Typed, TypedHandlers
  <2> QED BY <2>1, <2>2, <2>3, <2>4 DEF TypeOK, TypedMain, TypedStops, TypedChildren, PC
<1> QED BY <1>1, <1>2, <1>3, TableIsKept, PTL DEF Spec

-----------------------------------------------------------------------------
(***************************************************************************)
(* The foreground job.  waitfg holds an id and looks it up again and       *)
(* again; what it found last still has that id when it is tested, if the   *)
(* job has not been freed meanwhile.                                       *)
(***************************************************************************)
TestedHasJid == pc = "test" /\ ptr \in Listed => job[ptr].jid = jid

Awaited == ForegroundIsAwaited /\ TestedHasJid

LEMMA InitAwaited == Init => Awaited
BY DEF Init, Awaited, ForegroundIsAwaited, TestedHasJid, Listed, Range

\* Where the shell waits for no job, no job is in the foreground.
LEMMA NoneAwaited ==
  ASSUME Awaited, Running, pc \notin {"wait", "test", "jid"}, NEW p \in Listed
  PROVE  job[p].state # "foreground"
BY DEF Awaited, ForegroundIsAwaited

\* The steps of the main loop that change the table or follow what it waits for.
LEMMA WaitingAwaited ==
  ASSUME Typed, JobIdsDescend, Awaited,
         SetState \/ ReadJid \/ WaitLookup \/ WaitTest
  PROVE  Awaited'
<1>1. job \in [Pid -> Job] /\ Listed \subseteq Pid
  BY ListedLemma DEF Typed, TypedTable
<1>2. /\ \A p, q \in Listed : job[p].jid = job[q].jid => p = q
      /\ \A p \in Listed : getjob_jid(job[p].jid) = p
  BY JidLemma DEF Typed
<1>3. CASE Undefined /\ UNCHANGED job
  BY <1>3 DEF Undefined, Awaited, ForegroundIsAwaited, TestedHasJid, Running
<1>4. CASE SetState /\ ~Undefined
  <2>1. /\ pc = "state" /\ ptr \in Listed /\ pc' = "jid" /\ UNCHANGED <<jobs, ptr, cmd>>
        /\ job' = [job EXCEPT ![ptr].state = IF cmd = "bg" THEN "background"
                                             ELSE "foreground"]
    BY <1>4 DEF SetState, At, Goto
  <2>2. cmd \in {"bg", "fg"} BY <2>1 DEF Typed, LineHeld
  <2>3. Listed' = Listed BY <2>1 DEF Listed
  <2>4. ASSUME NEW p \in Listed, job'[p].state = "foreground" PROVE ptr = p /\ cmd = "fg"
    <3>1. job[p].state # "foreground" BY <2>1, NoneAwaited DEF Running
    <3> QED BY <3>1, <2>1, <2>2, <2>4, <1>1 DEF Job
  <2> QED BY <2>1, <2>3, <2>4 DEF Awaited, ForegroundIsAwaited, TestedHasJid
<1>5. CASE ReadJid /\ ~Undefined
  <2>1. /\ pc = "jid" /\ ptr \in Listed /\ jid' = job[ptr].jid /\ UNCHANGED <<jobs, job>>
        /\ pc' = IF cmd = "bg" THEN "show" ELSE "wait"
    BY <1>5 DEF ReadJid, At, Goto, tableVars
  <2>2. Listed' = Listed BY <2>1 DEF Listed
  <2> QED BY <2>1, <2>2 DEF Awaited, ForegroundIsAwaited, TestedHasJid, Running
<1>6. CASE WaitLookup /\ ~Undefined
  <2>1. /\ pc = "wait" /\ ptr' = getjob_jid(jid) /\ UNCHANGED <<jobs, job, jid>>
        /\ pc' = IF getjob_jid(jid) = NULL THEN "next" ELSE "test"
    BY <1>6 DEF WaitLookup, Found, At, Goto, tableVars
  <2>2. Listed' = Listed BY <2>1 DEF Listed
  <2>3. ptr' # NULL => job[ptr'].jid = jid
    BY <2>1, FirstLemma DEF getjob_jid, Typed
  <2>4. ASSUME NEW p \in Listed, job[p].state = "foreground"
        PROVE  pc' = "test" /\ job[p].jid = jid
    BY <2>1, <2>4, <1>1, <1>2, ListedLemma DEF Awaited, ForegroundIsAwaited, Running, Typed
  <2>5. TestedHasJid' BY <2>1, <2>2, <2>3, ListedLemma DEF TestedHasJid, Typed
  <2>6. ForegroundIsAwaited' BY <2>1, <2>2, <2>4 DEF ForegroundIsAwaited
  <2> QED BY <2>5, <2>6 DEF Awaited
<1>7. CASE WaitTest /\ ~Undefined
  <2>1. /\ pc = "test" /\ ptr \in Listed /\ UNCHANGED <<jobs, job, jid>>
        /\ pc' = IF job[ptr].state = "foreground" THEN "wait" ELSE "next"
    BY <1>7 DEF WaitTest, At, Goto, tableVars
  <2>2. Listed' = Listed BY <2>1 DEF Listed
  <2>3. ASSUME NEW p \in Listed, job[p].state = "foreground" PROVE p = ptr /\ job[p].jid = jid
    BY <2>1, <2>3, <1>2 DEF Awaited, ForegroundIsAwaited, TestedHasJid, Running
  <2> QED BY <2>1, <2>2, <2>3 DEF Awaited, ForegroundIsAwaited, TestedHasJid
<1>8. SetState /\ Undefined => UNCHANGED job
  BY DEF SetState, Undefined, Goto
<1> QED BY <1>3, <1>4, <1>5, <1>6, <1>7, <1>8
        DEF ReadJid, WaitLookup, WaitTest, tableVars

LEMMA AddJobAwaited ==
  ASSUME Typed, TableInv, Awaited, AddJob
  PROVE  Awaited'
<1>1. CASE pids[1] = NULL
  BY <1>1 DEF AddJob, Goto, Awaited, ForegroundIsAwaited, TestedHasJid, Running
<1>2. CASE pids[1] # NULL
  <2>1. /\ pc = "fork" /\ pc' \in {"wait", "show"}
        /\ pc' = IF Head(line).mode = "foreground" THEN "wait" ELSE "show"
        /\ jobs' = <<pids[1]>> \o jobs /\ jid' = getmaxid + 1
        /\ job' = [job EXCEPT ![pids[1]] = [jid |-> getmaxid + 1, pid |-> pids,
                                  cur |-> Head(line).num, state |-> Head(line).mode]]
    BY <1>2 DEF AddJob, addjob, At, Goto
  <2>2. PICK p : p = pids[1] OBVIOUS
  <2>3. job \in [Pid -> Job] /\ jobs \in Seq(Pid) /\ jobs' \in Seq(Pid)
    BY NextTyped DEF Typed, TypedTable, Next, MainLoop
  <2>4. Listed' \subseteq Listed \cup {p}
    <3>1. p \in Pid
      <4>1. Len(pids) > 0 BY HeadLine DEF AddJob, At, Typed, LineHeld
      <4> QED BY <4>1, <1>2, <2>2 DEF Typed, TypedMain
    <3> QED BY <3>1, <2>1, <2>2, ConsListed DEF Typed
  <2>5. ASSUME NEW q \in Listed', job'[q].state = "foreground"
        PROVE  q = p /\ job'[q].jid = jid' /\ pc' = "wait"
    <3>1. q = p
      <4>1. CASE q \in Listed /\ q # p
        <5>1. job'[q] = job[q] BY <4>1, <2>1, <2>2, <2>3, ListedLemma DEF Typed
        <5> QED BY <4>1, <5>1, <2>1, <2>5, NoneAwaited DEF Running
      <4> QED BY <4>1, <2>4
    <3>2. p \in Pid BY <3>1, <2>3 DEF Listed, Range
    <3>3. job'[p] = [jid |-> getmaxid + 1, pid |-> pids,
                     cur |-> Head(line).num, state |-> Head(line).mode]
      BY <3>2, <2>1, <2>2, <2>3
    <3> QED BY <3>1, <3>3, <2>1, <2>5
  <2> QED BY <2>1, <2>5 DEF Awaited, ForegroundIsAwaited, TestedHasJid
<1> QED BY <1>1, <1>2

LEMMA NextAwaited ==
  ASSUME Typed, TableInv, Awaited, [Next]_vars
  PROVE  Awaited'
<1>1. job \in [Pid -> Job] /\ jobs \in Seq(Pid) /\ Listed \subseteq Pid
  BY ListedLemma DEF Typed, TypedTable
<1>2. CASE pc' \in {"exited", "aborted", "undefined"}
  BY <1>2 DEF Awaited, ForegroundIsAwaited, TestedHasJid, Running
<1>3. CASE UNCHANGED <<tableVars, mainVars>>
  BY <1>3 DEF Awaited, ForegroundIsAwaited, TestedHasJid, Running, Listed,
              tableVars, mainVars
<1>4. ASSUME UNCHANGED tableVars, Running, pc \notin {"wait", "test", "jid"}, pc' # "test"
      PROVE  Awaited'
  <2>1. Listed' = Listed /\ job' = job BY <1>4 DEF Listed, tableVars
  <2> QED BY <1>4, <2>1, NoneAwaited DEF Awaited, ForegroundIsAwaited, TestedHasJid
<1>5. CASE MainLoop
  <2>1. CASE \E l \in Lines : TypeJobs(l)
    BY <2>1, <1>4 DEF TypeJobs, At, Goto, Running
  <2>2. CASE \E name \in {"bg", "fg"} : TypeBgFg(name)
    BY <2>2, <1>4 DEF TypeBgFg, At, Goto, Running
  <2>3. CASE TypeList \/ ListNext \/ Restart
    BY <2>3, <1>4 DEF TypeList, ListNext, Restart, Undefined, At, Goto, Running
  <2>4. CASE FindJob \/ FindShown \/ ShowJob
    BY <2>4, <1>4 DEF FindJob, FindShown, ShowJob, Found, Undefined, At, Goto, Running
  <2>7. CASE Walk
    <3>1. Listed' = Listed /\ UNCHANGED <<job, pc, cmd, jid>> /\ pc \notin {"test", "jid"}
      BY <2>7 DEF Walk, Walks, At, tableVars, Listed
    <3> QED BY <3>1 DEF Awaited, ForegroundIsAwaited, TestedHasJid, Running
  <2>5. CASE Begin \/ Fork \/ ForkFails \/ NextJob
    BY <2>5, <1>4 DEF Begin, Fork, ForkFails, NextJob, At, Goto, Running
  <2>6. CASE SetState \/ ReadJid \/ WaitLookup \/ WaitTest
    BY <2>6, WaitingAwaited DEF TableInv
  <2> QED BY <1>5, <2>1, <2>2, <2>3, <2>4, <2>5, <2>6, <2>7, AddJobAwaited DEF MainLoop
<1>6. ASSUME NEW c \in Pid, Reap(c) PROVE Awaited'
  <2>1. Listed' \subseteq Listed /\ UNCHANGED <<pc, ptr, cmd, jid>>
        /\ \A p \in Listed' : job'[p].jid = job[p].jid /\ job'[p].state = job[p].state
    <3> DEFINE p == getjob_pid(c)
    <3>1. CASE p = NULL BY <1>6, <3>1 DEF Reap, tableVars, mainVars, Listed
    <3>2. CASE p # NULL
      <4>1. p \in Listed BY <3>2, LookupLemma DEF Typed
      <4> HIDE DEF p
      <4>2. CASE deletejob(job[p].jid)
        <5>1. Listed' = Listed \ {p} /\ \A q \in Listed \ {p} : job'[q] = job[q]
          BY <4>1, <4>2, DeleteLemma DEF TableInv
        <5> QED BY <5>1, <1>6 DEF Reap, mainVars
      <4>3. CASE UNCHANGED jobs /\ job' = [job EXCEPT ![p].cur = @ - 1]
        <5>1. \A q \in Pid : job'[q].jid = job[q].jid /\ job'[q].state = job[q].state
          BY <4>1, <4>3, <1>1 DEF Job
        <5> QED BY <5>1, <4>3, <1>1, <1>6 DEF Reap, mainVars, Listed
      <4> QED BY <1>6, <3>2, <4>2, <4>3 DEF Reap, p
    <3> QED BY <3>1, <3>2
  <2> QED BY <2>1 DEF Awaited, ForegroundIsAwaited, TestedHasJid, Running
<1>7. ASSUME NEW c \in Pid, Stop(c) PROVE Awaited'
  <2>1. CASE getjob_pid(c) = NULL
    BY <2>1, <1>2, <1>7 DEF Stop, Undefined
  <2>2. CASE getjob_pid(c) # NULL
    <3>1. PICK p \in Pid : p = getjob_pid(c) BY <2>2, <1>1, LookupLemma DEF Typed
    <3>2. job' = [job EXCEPT ![p].state = "stopped"] /\ UNCHANGED <<jobs, mainVars>>
      BY <1>7, <2>2, <3>1 DEF Stop
    <3>3. \A q \in Pid : /\ job'[q].jid = job[q].jid
                         /\ job'[q].state \in {job[q].state, "stopped"}
      BY <3>1, <3>2, <1>1 DEF Job
    <3> QED BY <3>2, <3>3, <1>1
            DEF Awaited, ForegroundIsAwaited, TestedHasJid, Running, Listed, mainVars
  <2> QED BY <2>1, <2>2
<1>8. ASSUME NEW c \in Pid, Resume(c) PROVE Awaited'
  BY <1>2, <1>3, <1>8 DEF Resume, Undefined
<1>9. ASSUME NEW c \in Pid, Child(c) PROVE Awaited'
  <2>1. CASE Place(c) \/ Exec(c) \/ ForkedBgFg(c) \/ Exit(c)
    BY <1>3, <2>1 DEF Place, Exec, ForkedBgFg, Exit
  <2>2. CASE (\E s \in Raised : Raise(c, s)) \/ \E s \in {"INT", "TSTP", "STOP"} : Deliver(c, s)
    BY <1>3, <2>2 DEF Raise, Deliver
  <2> QED BY <1>9, <2>1, <2>2 DEF Child
<1>10. CASE TakeChild \/ HandlerEnds \/ ForwardKey
  BY <1>2, <1>3, <1>10 DEF TakeChild, HandlerEnds, ForwardKey, Undefined
<1>11. ASSUME NEW s \in Keys, TakeKey(s) \/ Keyboard(s) PROVE Awaited'
  BY <1>3, <1>11 DEF TakeKey, Keyboard
<1>12. CASE Quit \/ UNCHANGED vars
  BY <1>2, <1>3, <1>12 DEF Quit, Goto, vars
<1> QED BY <1>5, <1>6, <1>7, <1>8, <1>9, <1>10, <1>11, <1>12 DEF Next, Handlers

\* At most one job is in the foreground, and the shell waits for it or is
\* about to, whatever the handlers do to the table meanwhile.
THEOREM ShellAwaitsForeground == Spec => []ForegroundIsAwaited
<1>1. Typed /\ TableInv /\ Awaited /\ [Next]_vars => Awaited'
  BY NextAwaited
<1>2. Awaited => ForegroundIsAwaited BY DEF Awaited
<1> QED BY <1>1, <1>2, InitAwaited, TableIsKept, PTL DEF Spec

-----------------------------------------------------------------------------
(***************************************************************************)
(* The pipes.  The shell holds the ends of the job it is starting, and a   *)
(* child those that were open when it was forked: its own job's until      *)
(* Place closes what its command does not use, and never those of a job    *)
(* started earlier and still in the table.                                 *)
(***************************************************************************)
EndsAreHeld ==
  /\ \A q \in Pid : phase[q] \in {"none", "zombie", "reaped"} => fds[q] = {}
  /\ fds[Shell] # {} => blocked

ShellEnds ==
  \A e \in fds[Shell] :
    /\ e[1] \in Pid \ Listed
    /\ phase[e[1]] # "none" \/ IsNext(e[1])
    /\ pc = "fork" => e \in Pipes(e[1], Head(line).num)
    /\ pc = "fork" /\ pids = <<>> => IsNext(e[1])

ChildEnds ==
  \A q \in Pid : \A e \in fds[q] :
    /\ e[1] \in Pid /\ phase[e[1]] # "none"
    /\ e[1] \in Listed => spot[q].leader = e[1]
    /\ blocked /\ pids # <<>> /\ pids[1] # NULL /\ e[1] = pids[1] =>
         spot[q].leader = e[1]
    /\ e[1] = spot[q].leader /\ phase[q] = "forked" => e \in Pipes(e[1], spot[q].num)
    /\ e[1] = spot[q].leader /\ phase[q] # "forked" /\ e[3] = "write" =>
         e[2] = spot[q].idx

Ends == EndsAreHeld /\ ShellEnds /\ ChildEnds

LEMMA InitEnds == Init => Ends
BY DEF Init, Ends, EndsAreHeld, ShellEnds, ChildEnds

\* What a placed command still holds of its own job's pipes for writing.
LEMMA PlacedEnds ==
  ASSUME NEW l, NEW num \in Nat, NEW idx \in Nat, NEW e \in Pipes(l, num),
         e \notin close_unused_pipes(l, num, idx), e[3] = "write"
  PROVE  e[2] = idx
<1>1. e[2] \in {idx, idx - 1} BY DEF close_unused_pipes
<1>2. e[2] # idx - 1 BY DEF close_unused_pipes
<1> QED BY <1>1, <1>2

\* Steps that leave the pipes, the processes and the list alone.
LEMMA EndsFrame ==
  ASSUME Ends, UNCHANGED <<jobs, phase, spot, fds, blocked>>,
         \/ ~blocked
         \/ UNCHANGED pids /\ (pc' # "fork" \/ UNCHANGED <<pc, line>>)
  PROVE  Ends'
<1> USE DEF Ends
<1>1. Listed' = Listed BY DEF Listed
<1>2. EndsAreHeld' BY DEF EndsAreHeld
<1>3. ShellEnds'
  <2>1. CASE ~blocked BY <2>1 DEF EndsAreHeld, ShellEnds
  <2>2. CASE UNCHANGED pids /\ (pc' # "fork" \/ UNCHANGED <<pc, line>>)
    BY <2>2, <1>1 DEF ShellEnds, IsNext
  <2> QED BY <2>1, <2>2
<1>4. ChildEnds'
  BY <1>1 DEF ChildEnds
<1> QED BY <1>2, <1>3, <1>4

LEMMA BeginEnds ==
  ASSUME Typed, TableInv, Ends, Begin
  PROVE  Ends'
<1> USE DEF Ends
<1>1. PICK l \in Pid : IsNext(l) /\ fds' = [fds EXCEPT ![Shell] = Pipes(l, Head(line).num)]
  BY DEF Begin
<1>2. UNCHANGED <<jobs, phase, spot, line>> /\ blocked' /\ pids' = <<>>
  BY DEF Begin, tableVars
<1>3. Listed' = Listed BY <1>2 DEF Listed
<1>4. l \notin Listed
  <2> SUFFICES ASSUME l \in Listed PROVE FALSE
    OBVIOUS
  <2>1. job[l].pid[1] = l /\ 1 \in DOMAIN job[l].pid /\ l # NULL
    BY JobTyped DEF TableInv, JobsAreForked, Typed
  <2>2. phase[l] # "none" BY <2>1 DEF TableInv, JobsAreForked
  <2> QED BY <2>2, <1>1 DEF IsNext
<1>5. fds'[Shell] = Pipes(l, Head(line).num) /\ \A q \in Pid : fds'[q] = fds[q]
  BY <1>1, ShellAssumption DEF Typed, TypedChildren, Shell
<1>6. EndsAreHeld' BY <1>2, <1>5 DEF EndsAreHeld
<1>7. ShellEnds'
  <2>1. IsNext(l)' BY <1>1, <1>2 DEF IsNext
  <2>2. ASSUME NEW e \in Pipes(l, Head(line).num) PROVE e[1] = l
    BY <2>2 DEF Pipes
  <2>3. \A e \in fds'[Shell] : e[1] = l /\ e \in Pipes(l, Head(line').num)
    BY <2>2, <1>2, <1>5
  <2> QED BY <2>1, <2>3, <1>3, <1>4 DEF ShellEnds
<1>8. ChildEnds' BY <1>2, <1>3, <1>5 DEF ChildEnds
<1> QED BY <1>6, <1>7, <1>8

LEMMA ForkFailsEnds ==
  ASSUME Typed, Ends, ForkFails
  PROVE  Ends'
<1> USE DEF Ends
<1>1. /\ UNCHANGED <<jobs, phase, spot, fds, blocked, pc, line>>
      /\ pids' = Append(pids, NULL) /\ pids \in Seq(Pid \cup {NULL})
  BY DEF ForkFails, tableVars, childVars, Typed, TypedMain
<1>2. /\ pids' # <<>> /\ (pids = <<>> => pids'[1] = NULL)
      /\ (pids # <<>> => pids'[1] = pids[1])
  BY <1>1
<1>3. Listed' = Listed BY <1>1 DEF Listed
<1>4. EndsAreHeld' BY <1>1 DEF EndsAreHeld
<1>5. ShellEnds' BY <1>1, <1>2, <1>3 DEF ShellEnds, IsNext
<1>6. ChildEnds' BY <1>1, <1>2, <1>3 DEF ChildEnds
<1> QED BY <1>4, <1>5, <1>6

LEMMA ForkEnds ==
  ASSUME Typed, Ends, Fork
  PROVE  Ends'
<1> USE DEF Ends
<1>1. /\ UNCHANGED <<jobs, blocked, pc, line>> /\ blocked /\ pc = "fork"
      /\ pids \in Seq(Pid \cup {NULL})
  BY DEF Fork, At, tableVars, Typed, TypedMain, LineHeld
<1>2. PICK c \in Pid :
        /\ IsNext(c) /\ pids' = Append(pids, c)
        /\ phase' = [phase EXCEPT ![c] = "forked"]
        /\ fds' = [fds EXCEPT ![c] = fds[Shell]]
        /\ spot' = [spot EXCEPT ![c] =
                      [leader |-> pids'[1], idx |-> Len(pids),
                       num |-> Head(line).num, name |-> Head(line).name]]
  BY DEF Fork
<1>3. /\ phase'[c] = "forked" /\ \A d \in Pid \ {c} : phase'[d] = phase[d]
      /\ spot'[c].leader = pids'[1] /\ spot'[c].num = Head(line).num
      /\ \A d \in Pid \ {c} : spot'[d] = spot[d]
      /\ fds'[c] = fds[Shell] /\ \A d \in Pid \ {c} : fds'[d] = fds[d]
      /\ fds'[Shell] = fds[Shell]
  BY <1>2, ShellAssumption DEF Typed, TypedChildren, Shell
<1>4. /\ pids' # <<>> /\ (pids = <<>> => pids'[1] = c)
      /\ (pids # <<>> => pids'[1] = pids[1])
  BY <1>1, <1>2
<1>5. Listed' = Listed BY <1>1 DEF Listed
<1>6. phase[c] = "none" BY <1>2 DEF IsNext
<1>7. ASSUME NEW d \in Pid, IsNext(d) PROVE d = c
  BY <1>2, <1>7, ShellAssumption DEF IsNext
<1>8. ASSUME NEW e \in fds[Shell]
      PROVE  /\ e[1] \in Pid \ Listed /\ phase'[e[1]] # "none"
             /\ e \in Pipes(e[1], Head(line).num)
             /\ pids = <<>> => e[1] = c
  BY <1>8, <1>1, <1>3, <1>7 DEF ShellEnds
<1>9. EndsAreHeld'
  BY <1>1, <1>3 DEF EndsAreHeld
<1>10. ShellEnds'
  BY <1>1, <1>3, <1>4, <1>5, <1>8 DEF ShellEnds
<1>11. ChildEnds'
  <2> SUFFICES ASSUME NEW q \in Pid, NEW e \in fds'[q]
               PROVE  /\ e[1] \in Pid /\ phase'[e[1]] # "none"
                      /\ e[1] \in Listed => spot'[q].leader = e[1]
                      /\ pids'[1] # NULL /\ e[1] = pids'[1] => spot'[q].leader = e[1]
                      /\ e[1] = spot'[q].leader /\ phase'[q] = "forked" =>
                           e \in Pipes(e[1], spot'[q].num)
                      /\ e[1] = spot'[q].leader /\ phase'[q] # "forked" /\ e[3] = "write" =>
                           e[2] = spot'[q].idx
    BY <1>5 DEF ChildEnds
  <2>1. CASE q = c
    BY <2>1, <1>3, <1>8
  <2>2. CASE q # c
    <3>1. e \in fds[q] BY <2>2, <1>3
    <3>2. e[1] # c BY <3>1, <1>6 DEF ChildEnds
    <3>3. e[1] \in Pid /\ phase'[e[1]] # "none" BY <3>1, <3>2, <1>3 DEF ChildEnds
    <3>4. pids'[1] # NULL /\ e[1] = pids'[1] => spot'[q].leader = e[1]
      BY <3>1, <3>2, <2>2, <1>1, <1>3, <1>4 DEF ChildEnds
    <3> QED BY <3>1, <3>3, <3>4, <2>2, <1>3 DEF ChildEnds
  <2> QED BY <2>1, <2>2
<1> QED BY <1>9, <1>10, <1>11

LEMMA AddJobEnds ==
  ASSUME Typed, Ends, AddJob
  PROVE  Ends'
<1> USE DEF Ends
<1>1. /\ UNCHANGED <<phase, spot, pids>> /\ blocked /\ line # <<>>
      /\ fds'[Shell] = {} /\ \A q \in Pid : fds'[q] = fds[q]
  BY ShellAssumption DEF AddJob, At, Typed, TypedChildren, LineHeld, Shell
<1>2. Len(pids) > 0 /\ pids \in Seq(Pid \cup {NULL})
  BY HeadLine DEF AddJob, At, Typed, TypedMain, LineHeld
<1>3. EndsAreHeld' BY <1>1 DEF EndsAreHeld
<1>4. ShellEnds' BY <1>1 DEF ShellEnds
<1>5. CASE pids[1] = NULL
  <2>1. UNCHANGED <<jobs, blocked>> BY <1>5 DEF AddJob, tableVars
  <2>2. Listed' = Listed BY <2>1 DEF Listed
  <2> QED BY <2>1, <2>2, <1>1, <1>3, <1>4 DEF ChildEnds
<1>6. CASE pids[1] # NULL
  <2>1. jobs' = <<pids[1]>> \o jobs /\ blocked' = FALSE BY <1>6 DEF AddJob, addjob
  <2>2. pids[1] \in Pid BY <1>2, <1>6
  <2>3. Listed' \subseteq Listed \cup {pids[1]}
    BY <2>1, <2>2, ConsListed DEF Typed
  <2>4. ASSUME NEW q \in Pid, NEW e \in fds[q], e[1] \in Listed'
        PROVE  spot[q].leader = e[1]
    BY <2>3, <2>4, <1>1, <1>2, <1>6 DEF ChildEnds
  <2>5. ChildEnds' BY <2>1, <2>4, <1>1 DEF ChildEnds
  <2> QED BY <2>5, <1>3, <1>4
<1> QED BY <1>5, <1>6

LEMMA ReapEnds ==
  ASSUME Typed, TableInv, Ends, NEW c \in Pid, Reap(c)
  PROVE  Ends'
<1> USE DEF Ends
<1>1. /\ ~blocked /\ UNCHANGED <<spot, fds, blocked>> /\ phase[c] = "zombie"
      /\ phase'[c] = "reaped" /\ \A d \in Pid \ {c} : phase'[d] = phase[d]
  BY DEF Reap, Typed, TypedChildren, LineHeld, mainVars
<1>2. Listed' \subseteq Listed
  <2> DEFINE p == getjob_pid(c)
  <2>1. CASE p # NULL /\ deletejob(job[p].jid)
    <3>1. p \in Listed BY <2>1, LookupLemma DEF Typed
    <3> HIDE DEF p
    <3> QED BY <2>1, <3>1, DeleteLemma DEF TableInv
  <2>2. CASE UNCHANGED jobs BY <2>2 DEF Listed
  <2> QED BY <2>1, <2>2 DEF Reap, tableVars
<1>3. EndsAreHeld' BY <1>1 DEF EndsAreHeld
<1>4. ShellEnds' BY <1>1 DEF EndsAreHeld, ShellEnds
<1>5. ChildEnds'
  <2> SUFFICES ASSUME NEW q \in Pid, NEW e \in fds[q]
               PROVE  /\ e[1] \in Pid /\ phase'[e[1]] # "none"
                      /\ e[1] \in Listed => spot[q].leader = e[1]
                      /\ e[1] = spot[q].leader /\ phase'[q] = "forked" =>
                           e \in Pipes(e[1], spot[q].num)
                      /\ e[1] = spot[q].leader /\ phase'[q] # "forked" /\ e[3] = "write" =>
                           e[2] = spot[q].idx
    BY <1>1, <1>2 DEF ChildEnds
  <2>1. q # c BY <1>1 DEF EndsAreHeld
  <2> QED BY <2>1, <1>1 DEF ChildEnds
<1> QED BY <1>3, <1>4, <1>5

LEMMA ChildKeepsEnds ==
  ASSUME Typed, Ends, NEW c \in Pid, Child(c)
  PROVE  Ends'
<1> USE DEF Ends
<1>1. ASSUME NEW st \in {"placed", "running", "builtin", "zombie"},
             phase[c] \notin {"none", "reaped"}, phase' = [phase EXCEPT ![c] = st],
             NEW F, F \subseteq fds[c],
             \A q \in Pid \cup {Shell} : fds'[q] = IF q = c THEN F ELSE fds[q],
             st = "zombie" => F = {}, UNCHANGED <<jobs, mainVars, spot>>,
             \A e \in F : e[1] = spot[c].leader /\ e[3] = "write" => e[2] = spot[c].idx
      PROVE  Ends'
  <2>1. /\ phase'[c] = st /\ \A d \in Pid \ {c} : phase'[d] = phase[d]
        /\ fds'[c] = F /\ \A d \in Pid \ {c} : fds'[d] = fds[d]
        /\ fds'[Shell] = fds[Shell]
    BY <1>1, ShellAssumption DEF Typed, TypedChildren, Shell
  <2>2. Listed' = Listed /\ UNCHANGED <<jobs, spot, pc, line, pids, blocked>>
    BY <1>1 DEF Listed, mainVars
  <2>3. \A d \in Pid : phase'[d] = "none" <=> phase[d] = "none" BY <1>1, <2>1
  <2>4. EndsAreHeld'
    <3>1. st # "zombie" => phase'[c] \notin {"none", "zombie", "reaped"} BY <2>1
    <3>2. phase'[c] \in {"none", "zombie", "reaped"} => fds'[c] = {} BY <3>1, <2>1, <1>1
    <3> QED BY <3>2, <2>1, <2>2 DEF EndsAreHeld
  <2>5. ShellEnds'
    <3>1. \A d \in Pid : IsNext(d)' <=> IsNext(d) BY <2>3 DEF IsNext
    <3> QED BY <3>1, <2>1, <2>2, <2>3 DEF ShellEnds
  <2>6. ChildEnds'
    <3> SUFFICES ASSUME NEW q \in Pid, NEW e \in fds'[q]
                 PROVE  /\ e[1] \in Pid /\ phase'[e[1]] # "none"
                        /\ e[1] \in Listed => spot[q].leader = e[1]
                        /\ blocked /\ pids # <<>> /\ pids[1] # NULL /\ e[1] = pids[1] =>
                             spot[q].leader = e[1]
                        /\ e[1] = spot[q].leader /\ phase'[q] = "forked" =>
                             e \in Pipes(e[1], spot[q].num)
                        /\ e[1] = spot[q].leader /\ phase'[q] # "forked" /\ e[3] = "write" =>
                             e[2] = spot[q].idx
      BY <2>2 DEF ChildEnds
    <3>1. e \in fds[q] BY <1>1, <2>1
    <3>2. /\ e[1] \in Pid /\ phase'[e[1]] # "none"
          /\ e[1] \in Listed => spot[q].leader = e[1]
          /\ blocked /\ pids # <<>> /\ pids[1] # NULL /\ e[1] = pids[1] =>
               spot[q].leader = e[1]
      BY <3>1, <2>3 DEF ChildEnds
    <3>3. CASE q = c BY <3>2, <3>3, <1>1, <2>1
    <3>4. CASE q # c BY <3>1, <3>2, <3>4, <2>1 DEF ChildEnds
    <3> QED BY <3>3, <3>4
  <2> QED BY <2>4, <2>5, <2>6
<1>2. CASE Place(c)
  <2> DEFINE F == fds[c] \ close_unused_pipes(spot[c].leader, spot[c].num, spot[c].idx)
  <2>1. \A q \in Pid \cup {Shell} : fds'[q] = IF q = c THEN F ELSE fds[q]
    BY <1>2 DEF Place, Typed, TypedChildren
  <2>2. spot[c].num \in Nat /\ spot[c].idx \in Nat BY DEF Typed, TypedChildren
  <2>3. \A e \in F : e[1] = spot[c].leader /\ e[3] = "write" => e[2] = spot[c].idx
    <3>1. ASSUME NEW e \in F, e[1] = spot[c].leader, e[3] = "write"
          PROVE  e[2] = spot[c].idx
      <4>1. e \in Pipes(spot[c].leader, spot[c].num)
        BY <3>1, <1>2 DEF Place, ChildEnds
      <4> QED BY <4>1, <3>1, <2>2, PlacedEnds
    <3> QED BY <3>1
  <2>4. /\ F \subseteq fds[c] /\ phase[c] = "forked"
        /\ phase' = [phase EXCEPT ![c] = "placed"] /\ UNCHANGED <<jobs, mainVars, spot>>
    BY <1>2 DEF Place, tableVars
  <2> HIDE DEF F
  <2> QED BY <2>1, <2>3, <2>4, <1>1
<1>3. ASSUME Die(c), Alive(c), UNCHANGED <<tableVars, mainVars>> PROVE Ends'
  <2>1. \A q \in Pid \cup {Shell} : fds'[q] = IF q = c THEN {} ELSE fds[q]
    BY <1>3 DEF Die, Typed, TypedChildren
  <2>2. /\ phase[c] \notin {"none", "reaped"} /\ phase' = [phase EXCEPT ![c] = "zombie"]
        /\ UNCHANGED <<jobs, mainVars, spot>>
    BY <1>3 DEF Die, Alive, Exists, tableVars
  <2> QED BY <2>1, <2>2, <1>1
<1>4. CASE Exec(c)
  <2>1. CASE UNCHANGED <<spot, fds>> /\ phase' = [phase EXCEPT ![c] = "running"]
    <3>1. \A e \in fds[c] : e[1] = spot[c].leader /\ e[3] = "write" => e[2] = spot[c].idx
      BY <1>4 DEF Exec, ChildEnds
    <3>2. \A q \in Pid \cup {Shell} : fds'[q] = IF q = c THEN fds[c] ELSE fds[q]
      BY <2>1
    <3> QED BY <3>1, <3>2, <2>1, <1>1, <1>4 DEF Exec, tableVars
  <2> QED BY <2>1, <1>3, <1>4 DEF Exec, Alive, Exists
<1>5. CASE Exit(c)
  BY <1>3, <1>5 DEF Exit, Alive, Exists
<1>7. CASE ForkedBgFg(c)
  <2>1. \A e \in fds[c] : e[1] = spot[c].leader /\ e[3] = "write" => e[2] = spot[c].idx
    BY <1>7 DEF ForkedBgFg, ChildEnds
  <2>2. \A q \in Pid \cup {Shell} : fds'[q] = IF q = c THEN fds[c] ELSE fds[q]
    BY <1>7 DEF ForkedBgFg
  <2>3. phase[c] = "placed" /\ phase' = [phase EXCEPT ![c] = "builtin"]
    BY <1>7 DEF ForkedBgFg
  <2> QED BY <2>1, <2>2, <2>3, <1>1, <1>7 DEF ForkedBgFg, tableVars
<1>6. CASE (\E s \in Raised : Raise(c, s)) \/ \E s \in {"INT", "TSTP", "STOP"} : Deliver(c, s)
  <2>1. CASE UNCHANGED <<tableVars, mainVars, childVars>>
    BY <2>1, EndsFrame DEF tableVars, childVars, mainVars
  <2>2. ASSUME ~UNCHANGED childVars
        PROVE  Die(c) /\ Alive(c) /\ UNCHANGED <<tableVars, mainVars>>
    BY <2>2, <1>6 DEF Raise, Deliver
  <2>3. UNCHANGED <<tableVars, mainVars>> BY <1>6 DEF Raise, Deliver
  <2> QED BY <2>1, <2>2, <2>3, <1>3
<1> QED BY <1>2, <1>4, <1>5, <1>6, <1>7 DEF Child

LEMMA NextEnds ==
  ASSUME Typed, TableInv, Ends, [Next]_vars
  PROVE  Ends'
<1>1. /\ pc \in {"exited", "aborted", "undefined", "fork"} \/ ~blocked
      /\ sch => ~blocked
  BY DEF Typed, TypedMain, LineHeld
<1>2. CASE UNCHANGED vars
  BY <1>2, EndsFrame DEF vars, tableVars, mainVars, childVars
<1>3. CASE Quit
  BY <1>3, EndsFrame DEF Quit, Goto, tableVars, childVars
<1>4. CASE MainLoop
  <2>1. CASE \E l \in Lines : TypeJobs(l)
    BY <2>1, <1>1, EndsFrame DEF TypeJobs, At, tableVars, childVars
  <2>2. CASE \E name \in {"bg", "fg"} : TypeBgFg(name)
    BY <2>2, <1>1, EndsFrame DEF TypeBgFg, At, tableVars, childVars
  <2>3. CASE TypeList \/ ListNext \/ Restart \/ SetState
    BY <2>3, <1>1, EndsFrame
       DEF TypeList, ListNext, Restart, SetState, Undefined, At, tableVars, childVars
  <2>4. CASE ReadJid \/ ShowJob \/ WaitTest \/ NextJob
    BY <2>4, <1>1, EndsFrame
       DEF ReadJid, ShowJob, WaitTest, NextJob, Undefined, At, tableVars, childVars
  <2>5. CASE Walk \/ FindJob \/ FindShown \/ WaitLookup
    BY <2>5, <1>1, EndsFrame
       DEF Walk, Walks, FindJob, FindShown, WaitLookup, Found, Undefined, At,
           tableVars, childVars
  <2> QED BY <1>4, <2>1, <2>2, <2>3, <2>4, <2>5, BeginEnds, ForkEnds, ForkFailsEnds,
             AddJobEnds DEF MainLoop
<1>5. CASE Handlers
  <2>1. ASSUME NEW c \in Pid, Stop(c) \/ Resume(c) PROVE Ends'
    <3>1. UNCHANGED <<jobs, blocked, childVars>>
      BY <2>1 DEF Stop, Resume, Undefined, tableVars, mainVars
    <3>2. ~blocked BY <2>1, <1>1 DEF Stop, Resume
    <3> QED BY <3>1, <3>2, EndsFrame DEF childVars
  <2>2. CASE TakeChild \/ HandlerEnds
    BY <2>2, EndsFrame DEF TakeChild, HandlerEnds, tableVars, mainVars, childVars
  <2>3. CASE ForwardKey
    BY <2>3, EndsFrame DEF ForwardKey, Undefined, tableVars, mainVars, childVars
  <2>4. ASSUME NEW s \in Keys, TakeKey(s) PROVE Ends'
    BY <2>4, EndsFrame DEF TakeKey, tableVars, mainVars, childVars
  <2> QED BY <1>5, <2>1, <2>2, <2>3, <2>4, ReapEnds DEF Handlers
<1>6. ASSUME NEW s \in Keys, Keyboard(s) PROVE Ends'
  BY <1>6, EndsFrame DEF Keyboard, tableVars, mainVars, childVars
<1> QED BY <1>2, <1>3, <1>4, <1>5, <1>6, ChildKeepsEnds DEF Next

\* Once the processes of a job have set up their pipes, only the command that
\* writes to a pipe holds its write end, so its reader sees the end of the
\* input: close_unused_pipes and the closes of eval miss none.
THEOREM ShellReaderSeesEnd == Spec => []ReaderSeesEnd
<1>1. Typed /\ TableInv /\ Ends /\ [Next]_vars => Ends'
  BY NextEnds
<1>2. ASSUME Ends PROVE ReaderSeesEnd
  <2> SUFFICES ASSUME NEW l \in Listed,
                      \A c \in Pid : spot[c].leader = l => phase[c] # "forked",
                      NEW q \in Pid \cup {Shell}, NEW e \in fds[q],
                      e[1] = l, e[3] = "write"
               PROVE  q # Shell /\ spot[q].leader = l /\ spot[q].idx = e[2]
    BY DEF ReaderSeesEnd
  <2>1. q # Shell BY <1>2 DEF Ends, ShellEnds
  <2>2. spot[q].leader = l BY <2>1, <1>2 DEF Ends, ChildEnds
  <2>3. phase[q] # "forked" BY <2>1, <2>2
  <2> QED BY <2>1, <2>2, <2>3, <1>2 DEF Ends, ChildEnds
<1> QED BY <1>1, <1>2, InitEnds, TableIsKept, PTL DEF Spec
=============================================================================
