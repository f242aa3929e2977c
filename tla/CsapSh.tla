------------------------------- MODULE CsapSh -------------------------------
(***************************************************************************)
(* The job-control shell: src/PA4/src/csapsh.c with the job table of       *)
(* src/PA4/src/jobcontrol.c.                                               *)
(*                                                                         *)
(* The actors are the main loop of the shell, its handlers of SIGCHLD,     *)
(* SIGINT and SIGTSTP, which run on top of it, its child processes, the    *)
(* kernel that delivers signals, and the user at the keyboard.  A step of  *)
(* the shell ends where a handler, taken between two of its statements,    *)
(* could see or change something the next statement uses.                  *)
(***************************************************************************)
EXTENDS Integers, Sequences, FiniteSets, SequencesExt, FiniteSetsExt

CONSTANTS Pid,      \* the processes the shell may fork, in the order it does
          Lines,    \* what parse_cmdline returns for the lines the user types
          Keys,     \* the keyboard's signals: subset of {"INT", "TSTP"}
          Raised,   \* the signals that programs send to their own group
          Faults    \* {"fork_fails"} when fork may fail, else {}

NULL == 0           \* no job, and the pid of a process that was not forked
Shell == 0          \* the shell as a process, and its process group

Builtins == {"quit", "jobs", "bg", "fg"}
JobState == {"foreground", "background", "stopped"}

\* A parsed job: its commands (all programs, or all one built-in), its mode
\* and whether its output goes to a file.  A line is a sequence of them.
ParsedJob == [num : Nat \ {0}, mode : {"foreground", "background"},
              name : {"program"} \cup Builtins, outfile : BOOLEAN]

ASSUME ShellAssumption ==
       /\ IsFiniteSet(Pid) /\ Pid \subseteq Nat \ {0}
       /\ \A l \in Lines : l \in Seq(ParsedJob) /\ Len(l) > 0
       /\ Keys \cup Raised \subseteq {"INT", "TSTP"}
       /\ Faults \subseteq {"fork_fails"}

VARIABLES
  jobs,      \* jobcontrol.c: the list of jobs, newest first, each by its pgid
  job,       \* jobcontrol.c: the fields of each job in the list
  pc,        \* main loop: where it is
  line,      \* eval: the jobs of the line from job_idx on
  pids,      \* eval: the pid array of the job being started
  ptr,       \* main loop: the Job* it holds, or the entry a lookup is at
  cmd,       \* do_bgfg: argv[0]
  jid,       \* do_bgfg, waitfg, printjob: the job they look for
  blocked,   \* whether SIGCHLD is blocked
  pending,   \* the signals pending for the shell
  sch,       \* whether sigchld_handler is running
  kbd,       \* sigint_handler or sigtstp_handler between lookup and kill
  phase,     \* child: its life
  stopped,   \* child: stopped by SIGSTOP or SIGTSTP
  group,     \* child: its process group
  signals,   \* child: the signals pending for it
  report,    \* child: the change of state waitpid has not returned yet
  spot,      \* child: the job and the position it was forked for
  fds,       \* shell and children: the pipe ends they hold open
  copy       \* child running bg or fg: its own table, the state of each job

tableVars == <<jobs, job>>
mainVars == <<pc, line, pids, ptr, cmd, jid, blocked>>
handlerVars == <<sch, kbd>>
stopVars == <<stopped, signals, report>>
childVars == <<phase, group, spot, fds, copy>>
vars == <<tableVars, mainVars, pending, handlerVars, stopVars, childVars>>

NoJob == [jid |-> 0, pid |-> <<>>, cur |-> 0, state |-> "undefined"]
NoKey == [sig |-> "none", job |-> NULL]
NoSpot == [leader |-> NULL, idx |-> 0, num |-> 0, name |-> "program"]
NoCopy == [p \in Pid |-> "undefined"]

Init ==
  /\ jobs = <<>> /\ job = [p \in Pid |-> NoJob]
  /\ pc = "read" /\ line = <<>> /\ pids = <<>>
  /\ ptr = NULL /\ cmd = "none" /\ jid = 0
  /\ blocked = FALSE /\ pending = {} /\ sch = FALSE /\ kbd = NoKey
  /\ phase = [c \in Pid |-> "none"]
  /\ stopped = [c \in Pid |-> FALSE]
  /\ group = [c \in Pid |-> Shell]
  /\ signals = [c \in Pid |-> {}]
  /\ report = [c \in Pid |-> "none"]
  /\ spot = [c \in Pid |-> NoSpot]
  /\ fds = [q \in Pid \cup {Shell} |-> {}]
  /\ copy = [c \in Pid |-> NoCopy]

Running == pc \notin {"exited", "aborted", "undefined"}

-----------------------------------------------------------------------------
(* The job table.  A Job* is the pgid of its job, which is unique; the     *)
(* pointer dangles when the job is no longer in the list.  An operator     *)
(* whose name ends in Wrongly is what the one after it would be with a     *)
(* plausible slip in the code; only the mutants of PROJECT.json use it.    *)

Listed == Range(jobs)
Dangling(p) == p \notin Listed

\* The first job of the list that is in S.
First(S) == IF S = {} THEN NULL
            ELSE jobs[Min({i \in DOMAIN jobs : jobs[i] \in S})]

getjob_jid(n) == First({p \in Listed : job[p].jid = n})
getjob_pgid(g) == First(Listed \cap {g})
getjob_pid(c) == First({p \in Listed : c \in Range(job[p].pid)})
getjob_foreground == First({p \in Listed : job[p].state = "foreground"})

getmaxid == Max({0} \cup {job[p].jid : p \in Listed})

addjobWrongly(pid, num, state) ==
  /\ jobs' = jobs \o <<pid[1]>>
  /\ job' = [job EXCEPT ![pid[1]] = [jid |-> getmaxid + 1, pid |-> pid,
                                     cur |-> num, state |-> state]]

addjob(pid, num, state) ==
  /\ jobs' = <<pid[1]>> \o jobs
  /\ job' = [job EXCEPT ![pid[1]] = [jid |-> getmaxid + 1, pid |-> pid,
                                     cur |-> num, state |-> state]]

deletejob(n) ==
  /\ \E i \in DOMAIN jobs : jobs[i] = getjob_jid(n) /\ jobs' = RemoveAt(jobs, i)
  /\ job' = [job EXCEPT ![getjob_jid(n)] = NoJob]

-----------------------------------------------------------------------------
(* Processes and signals, as the kernel provides them.                     *)

Exists(c) == phase[c] \notin {"none", "reaped"}
Alive(c) == Exists(c) /\ phase[c] # "zombie"
Group(g) == {c \in Pid : Alive(c) /\ group[c] = g}

\* kill(-g, s): s is pending for every member; a stopped process ignores a
\* second stop.
Receives(c, g, s) == c \in Group(g) /\ (stopped[c] => s = "INT")
Send(g, s) ==
  signals' = [c \in Pid |-> IF Receives(c, g, s) THEN signals[c] \cup {s}
                            ELSE signals[c]]

\* kill(-g, SIGCONT): pending stops are discarded, who is stopped runs again
\* and the shell may wait for that; rep are the reports before the call.
Continue(g, rep) ==
  /\ signals' = [c \in Pid |-> IF c \in Group(g)
                               THEN signals[c] \ {"STOP", "TSTP"}
                               ELSE signals[c]]
  /\ stopped' = [c \in Pid |-> stopped[c] /\ c \notin Group(g)]
  /\ report' = [c \in Pid |-> IF stopped[c] /\ c \in Group(g)
                              THEN "continued" ELSE rep[c]]
  /\ pending' = IF \E c \in Group(g) : stopped[c]
                THEN pending \cup {"CHLD"} ELSE pending

\* Process c ends.
Die(c) ==
  /\ phase' = [phase EXCEPT ![c] = "zombie"]
  /\ signals' = [signals EXCEPT ![c] = {}]
  /\ report' = [report EXCEPT ![c] = "none"]
  /\ fds' = [fds EXCEPT ![c] = {}]
  /\ copy' = [copy EXCEPT ![c] = NoCopy]
  /\ pending' = pending \cup {"CHLD"}
  /\ UNCHANGED <<stopped, group, spot>>

\* The pipe ends of the job whose first process is l and that has num commands.
Pipes(l, num) == {l} \X (0 .. num - 2) \X {"read", "write"}

close_unused_pipesWrongly(l, num, idx) ==
  {e \in Pipes(l, num) : e[2] \notin {idx, idx - 1}}
    \cup {e \in Pipes(l, num) : e[2] = idx /\ e[3] = "read"}

\* What command idx of num closes of them.
close_unused_pipes(l, num, idx) ==
  {e \in Pipes(l, num) : e[2] \notin {idx, idx - 1}}
    \cup {e \in Pipes(l, num) : /\ idx < num - 2
                                /\ e[2] = idx /\ e[3] = "read"}
    \cup {e \in Pipes(l, num) : e[2] = idx - 1 /\ e[3] = "write"}

-----------------------------------------------------------------------------
(* The main loop.  It goes on only while no handler runs on top of it.     *)

At(p) == pc = p /\ ~sch /\ kbd = NoKey
Goto(p) == pc' = p
IsNext(c) == phase[c] = "none" /\ \A d \in Pid : phase[d] = "none" => c <= d

Undefined == pc' = "undefined" /\ UNCHANGED <<line, pids, ptr, cmd, jid, blocked>>

\* eval, a single built-in without pipe or output file: not forked.
InShell(l) == /\ Len(l) = 1 /\ l[1].num = 1 /\ ~l[1].outfile
              /\ l[1].name \in Builtins

Forks(l) == FoldSeq(LAMBDA j, n : n + j.num, 0, l)

\* main, eval: a line of programs, if processes are left for it.
TypeJobs(l) ==
  /\ At("read") /\ ~InShell(l)
  /\ Forks(l) <= Cardinality({c \in Pid : phase[c] = "none"})
  /\ Goto("begin") /\ line' = l
  /\ UNCHANGED <<tableVars, pids, ptr, cmd, jid, blocked, pending, handlerVars,
                 stopVars, childVars>>

\* main: end of input, or builtin_cmd: quit; at any moment: sigquit_handler.
Quit ==
  /\ Running
  /\ Goto("exited")
  /\ UNCHANGED <<tableVars, line, pids, ptr, cmd, jid, blocked, pending,
                 handlerVars, stopVars, childVars>>

\* builtin_cmd: jobs.  listjobs starts at the head of the list.
TypeList ==
  /\ At("read") /\ \E l \in Lines : InShell(l) /\ l[1].name = "jobs"
  /\ Goto("list") /\ ptr' = IF jobs = <<>> THEN NULL ELSE Head(jobs)
  /\ UNCHANGED <<tableVars, line, pids, cmd, jid, blocked, pending,
                 handlerVars, stopVars, childVars>>

\* listjobs: print a job and follow its next pointer.
ListNext ==
  /\ At("list")
  /\ \/ /\ ptr = NULL
        /\ Goto("read") /\ UNCHANGED <<line, pids, ptr, cmd, jid, blocked>>
     \/ /\ ptr # NULL /\ Dangling(ptr) /\ Undefined
     \/ /\ ptr \in Listed
        /\ ptr' = LET i == CHOOSE i \in DOMAIN jobs : jobs[i] = ptr
                  IN IF i = Len(jobs) THEN NULL ELSE jobs[i + 1]
        /\ UNCHANGED <<pc, line, pids, cmd, jid, blocked>>
  /\ UNCHANGED <<tableVars, pending, handlerVars, stopVars, childVars>>

\* A lookup of job jid walks down the list; SIGCHLD may be handled while it is
\* at an entry (ptr), which is then read although it may be freed.
Walks == pc \in {"find", "show", "wait"}
Passed(p) == {jobs[i] : i \in {i \in DOMAIN jobs : \A k \in 1..(i - 1) : jobs[k] # p}}

Walk ==
  /\ At(pc) /\ Walks /\ ptr = NULL
  /\ ptr' \in Passed(getjob_jid(jid))
  /\ UNCHANGED <<tableVars, pc, line, pids, cmd, jid, blocked, pending,
                 handlerVars, stopVars, childVars>>

\* It ends at the job, then the main loop is at p, or behind the list.
Found(p) ==
  \/ ptr # NULL /\ Dangling(ptr) /\ Undefined
  \/ /\ ptr # NULL => ptr \in Listed
     /\ ptr' = getjob_jid(jid)
     /\ Goto(IF getjob_jid(jid) = NULL THEN "next" ELSE p)
     /\ UNCHANGED <<line, pids, cmd, jid, blocked>>

\* do_bgfg: the job is given by %jid, @pgid or pid.
TypeBgFg(name) ==
  /\ At("read") /\ \E l \in Lines : InShell(l) /\ l[1].name = name
  /\ \E id \in Pid : \E p \in {getjob_jid(id), getjob_pgid(id), getjob_pid(id)} :
       /\ p # NULL /\ jid' = job[p].jid
       /\ Goto("find") /\ cmd' = name /\ ptr' = NULL
  /\ UNCHANGED <<tableVars, line, pids, blocked, pending, handlerVars, stopVars,
                 childVars>>

FindJob ==
  /\ At("find") /\ Found("bgfg")
  /\ UNCHANGED <<tableVars, pending, handlerVars, stopVars, childVars>>

\* do_bgfg: SIGCONT to the group if the job is stopped.
Restart ==
  /\ At("bgfg")
  /\ \/ /\ Dangling(ptr) /\ Undefined
        /\ UNCHANGED <<pending, stopVars>>
     \/ /\ ptr \in Listed /\ Goto("state")
        /\ IF job[ptr].state = "stopped" THEN Continue(ptr, report)
           ELSE UNCHANGED <<pending, stopVars>>
        /\ UNCHANGED <<line, pids, ptr, cmd, jid, blocked>>
  /\ UNCHANGED <<tableVars, handlerVars, childVars>>

\* do_bgfg: the new state of the job.
SetState ==
  /\ At("state")
  /\ \/ Dangling(ptr) /\ Undefined /\ UNCHANGED job
     \/ /\ ptr \in Listed /\ Goto("jid")
        /\ job' = [job EXCEPT ![ptr].state = IF cmd = "bg" THEN "background"
                                             ELSE "foreground"]
        /\ UNCHANGED <<line, pids, ptr, cmd, jid, blocked>>
  /\ UNCHANGED <<jobs, pending, handlerVars, stopVars, childVars>>

\* do_bgfg: job->jid is read once more, for printjob or waitfg.
ReadJid ==
  /\ At("jid")
  /\ \/ Dangling(ptr) /\ Undefined
     \/ /\ ptr \in Listed /\ jid' = job[ptr].jid /\ ptr' = NULL
        /\ Goto(IF cmd = "bg" THEN "show" ELSE "wait")
        /\ UNCHANGED <<line, pids, cmd, blocked>>
  /\ UNCHANGED <<tableVars, pending, handlerVars, stopVars, childVars>>

\* printjob: look the job up, then print it.
FindShown ==
  /\ At("show") /\ Found("print")
  /\ UNCHANGED <<tableVars, pending, handlerVars, stopVars, childVars>>

ShowJob ==
  /\ At("print")
  /\ \/ Dangling(ptr) /\ Undefined
     \/ /\ ptr \in Listed /\ Goto("next")
        /\ UNCHANGED <<line, pids, ptr, cmd, jid, blocked>>
  /\ UNCHANGED <<tableVars, pending, handlerVars, stopVars, childVars>>

\* waitfg: the busy loop looks the job up, then tests its state.
WaitLookup ==
  /\ At("wait") /\ Found("test")
  /\ UNCHANGED <<tableVars, pending, handlerVars, stopVars, childVars>>

WaitTest ==
  /\ At("test")
  /\ \/ Dangling(ptr) /\ Undefined
     \/ /\ ptr \in Listed /\ ptr' = NULL
        /\ Goto(IF job[ptr].state = "foreground" THEN "wait" ELSE "next")
        /\ UNCHANGED <<line, pids, cmd, jid, blocked>>
  /\ UNCHANGED <<tableVars, pending, handlerVars, stopVars, childVars>>

BeginWrongly ==
  /\ At("begin")
  /\ Goto("fork") /\ pids' = <<>>
  /\ \E l \in Pid : /\ IsNext(l)
                    /\ fds' = [fds EXCEPT ![Shell] = Pipes(l, Head(line).num)]
  /\ UNCHANGED <<tableVars, line, ptr, cmd, jid, blocked, pending, handlerVars,
                 stopVars, phase, group, spot, copy>>

\* eval: open the pipes of a job and block SIGCHLD.
Begin ==
  /\ At("begin")
  /\ Goto("fork") /\ blocked' = TRUE /\ pids' = <<>>
  /\ \E l \in Pid : /\ IsNext(l)
                    /\ fds' = [fds EXCEPT ![Shell] = Pipes(l, Head(line).num)]
  /\ UNCHANGED <<tableVars, line, ptr, cmd, jid, pending, handlerVars,
                 stopVars, phase, group, spot, copy>>

ForkWrongly ==
  /\ At("fork") /\ Len(pids) < Head(line).num
  /\ \E c \in Pid :
       /\ IsNext(c)
       /\ pids' = Append(pids, c)
       /\ phase' = [phase EXCEPT ![c] = "forked"]
       /\ fds' = [fds EXCEPT ![c] = fds[Shell]]
       /\ spot' = [spot EXCEPT ![c] =
                     [leader |-> pids'[1], idx |-> Len(pids) - 1,
                      num |-> Head(line).num, name |-> Head(line).name]]
  /\ UNCHANGED <<tableVars, pc, line, ptr, cmd, jid, blocked, pending,
                 handlerVars, stopVars, group, copy>>

\* eval: fork the next command; the child is in the shell's group and holds
\* what the shell holds; its copy of the table matters only to bg and fg.
Fork ==
  /\ At("fork") /\ Len(pids) < Head(line).num
  /\ \E c \in Pid :
       /\ IsNext(c)
       /\ pids' = Append(pids, c)
       /\ phase' = [phase EXCEPT ![c] = "forked"]
       /\ fds' = [fds EXCEPT ![c] = fds[Shell]]
       /\ spot' = [spot EXCEPT ![c] =
                     [leader |-> pids'[1], idx |-> Len(pids),
                      num |-> Head(line).num, name |-> Head(line).name]]
       /\ copy' = IF Head(line).name \in {"bg", "fg"}
                  THEN [copy EXCEPT ![c] = [p \in Pid |-> job[p].state]] ELSE copy
  /\ UNCHANGED <<tableVars, pc, line, ptr, cmd, jid, blocked, pending,
                 handlerVars, stopVars, group>>

\* eval: fork returns -1, which no one tests.
ForkFails ==
  /\ "fork_fails" \in Faults
  /\ At("fork") /\ Len(pids) < Head(line).num
  /\ pids' = Append(pids, NULL)
  /\ UNCHANGED <<tableVars, pc, line, ptr, cmd, jid, blocked, pending,
                 handlerVars, stopVars, childVars>>

AddJobWrongly ==
  /\ At("fork") /\ Len(pids) = Head(line).num
  /\ fds' = [fds EXCEPT ![Shell] = {}]
  /\ IF pids[1] = NULL
     THEN Goto("aborted") /\ UNCHANGED <<tableVars, jid, blocked>>
     ELSE /\ addjob(pids, Head(line).num, Head(line).mode)
          /\ jid' = getmaxid + 1
          /\ blocked' = FALSE
          /\ Goto("show")
  /\ UNCHANGED <<line, pids, ptr, cmd, pending, handlerVars, stopVars,
                 phase, group, spot, copy>>

\* eval: close the pipes, add the job (addjob asserts that there is a group),
\* unblock SIGCHLD, and wait for the job or print it.
AddJob ==
  /\ At("fork") /\ Len(pids) = Head(line).num
  /\ fds' = [fds EXCEPT ![Shell] = {}]
  /\ IF pids[1] = NULL
     THEN Goto("aborted") /\ UNCHANGED <<tableVars, jid, blocked>>
     ELSE /\ addjob(pids, Head(line).num, Head(line).mode)
          /\ jid' = getmaxid + 1
          /\ blocked' = FALSE
          /\ Goto(IF Head(line).mode = "foreground" THEN "wait" ELSE "show")
  /\ UNCHANGED <<line, pids, ptr, cmd, pending, handlerVars, stopVars,
                 phase, group, spot, copy>>

\* eval: on to the next job of the line, or back to the prompt.
NextJob ==
  /\ At("next")
  /\ line' = IF line = <<>> THEN <<>> ELSE Tail(line)
  /\ Goto(IF line' = <<>> THEN "read" ELSE "begin")
  /\ pids' = <<>> /\ ptr' = NULL /\ cmd' = "none" /\ jid' = 0
  /\ UNCHANGED <<tableVars, blocked, pending, handlerVars, stopVars, childVars>>

-----------------------------------------------------------------------------
(* The handlers.                                                           *)

\* SIGCHLD is delivered, on top of the main loop or of another handler.
TakeChild ==
  /\ Running /\ ~sch /\ ~blocked /\ "CHLD" \in pending
  /\ sch' = TRUE /\ pending' = pending \ {"CHLD"}
  /\ UNCHANGED <<tableVars, mainVars, kbd, stopVars, childVars>>

\* sigchld_handler: the children waitpid may return, one per call.
Waitable == {c \in Pid : phase[c] = "zombie" \/ report[c] # "none"}

ReapWrongly(c) ==
  /\ Running /\ sch /\ phase[c] = "zombie"
  /\ phase' = [phase EXCEPT ![c] = "reaped"]
  /\ group' = [group EXCEPT ![c] = Shell]
  /\ LET p == getjob_pid(c)
     IN IF p = NULL THEN UNCHANGED tableVars
        ELSE IF job[p].cur = 0 THEN deletejob(job[p].jid)
        ELSE job' = [job EXCEPT ![p].cur = @ - 1] /\ UNCHANGED jobs
  /\ UNCHANGED <<mainVars, pending, handlerVars, stopVars, spot, fds, copy>>

\* WIFEXITED or killed by a signal: one process less, and with the last one
\* the job goes.
Reap(c) ==
  /\ Running /\ sch /\ phase[c] = "zombie"
  /\ phase' = [phase EXCEPT ![c] = "reaped"]
  /\ group' = [group EXCEPT ![c] = Shell]
  /\ LET p == getjob_pid(c)
     IN IF p = NULL THEN UNCHANGED tableVars
        ELSE IF job[p].cur = 1 THEN deletejob(job[p].jid)
        ELSE job' = [job EXCEPT ![p].cur = @ - 1] /\ UNCHANGED jobs
  /\ UNCHANGED <<mainVars, pending, handlerVars, stopVars, spot, fds, copy>>

StopWrongly(c) ==
  /\ Running /\ sch /\ report[c] = "stopped"
  /\ report' = [report EXCEPT ![c] = "none"]
  /\ LET p == getjob_pid(c)
     IN IF p = NULL
        THEN Undefined /\ UNCHANGED <<tableVars, signals>>
        ELSE Send(p, "STOP") /\ UNCHANGED <<tableVars, mainVars>>
  /\ UNCHANGED <<pending, handlerVars, stopped, childVars>>

\* WIFSTOPPED: the job is stopped, and so is the rest of its group.
Stop(c) ==
  /\ Running /\ sch /\ report[c] = "stopped"
  /\ report' = [report EXCEPT ![c] = "none"]
  /\ LET p == getjob_pid(c)
     IN IF p = NULL
        THEN Undefined /\ UNCHANGED <<tableVars, signals>>
        ELSE /\ job' = [job EXCEPT ![p].state = "stopped"]
             /\ Send(p, "STOP")
             /\ UNCHANGED <<jobs, mainVars>>
  /\ UNCHANGED <<pending, handlerVars, stopped, childVars>>

\* WIFCONTINUED: the rest of the group is continued; the job's state stays.
Resume(c) ==
  /\ Running /\ sch /\ report[c] = "continued"
  /\ LET p == getjob_pid(c)
     IN IF p = NULL
        THEN /\ Undefined /\ report' = [report EXCEPT ![c] = "none"]
             /\ UNCHANGED <<pending, stopped, signals>>
        ELSE /\ Continue(p, [report EXCEPT ![c] = "none"])
             /\ UNCHANGED mainVars
  /\ UNCHANGED <<tableVars, handlerVars, childVars>>

HandlerEndsWrongly ==
  /\ Running /\ sch
  /\ sch' = FALSE
  /\ UNCHANGED <<tableVars, mainVars, pending, kbd, stopVars, childVars>>

\* waitpid returns 0: the handler returns.
HandlerEnds ==
  /\ Running /\ sch /\ Waitable = {}
  /\ sch' = FALSE
  /\ UNCHANGED <<tableVars, mainVars, pending, kbd, stopVars, childVars>>

\* sigint_handler, sigtstp_handler: find the foreground job, if any.  On top
\* of sigchld_handler nothing the shell does comes between that and the kill.
TakeKey(s) ==
  /\ Running /\ s \in pending /\ kbd.sig # s
  /\ sch \/ kbd = NoKey
  /\ pending' = pending \ {s}
  /\ IF sch
     THEN /\ IF getjob_foreground = NULL THEN UNCHANGED signals
             ELSE Send(getjob_foreground, s)
          /\ UNCHANGED kbd
     ELSE /\ kbd' = IF getjob_foreground = NULL THEN NoKey
                    ELSE [sig |-> s, job |-> getjob_foreground]
          /\ UNCHANGED signals
  /\ UNCHANGED <<tableVars, mainVars, sch, stopped, report, childVars>>

\* sigint_handler, sigtstp_handler: kill(-job->pgid).
ForwardKey ==
  /\ Running /\ kbd # NoKey /\ ~sch
  /\ kbd' = NoKey
  /\ \/ Dangling(kbd.job) /\ Undefined /\ UNCHANGED signals
     \/ kbd.job \in Listed /\ Send(kbd.job, kbd.sig) /\ UNCHANGED mainVars
  /\ UNCHANGED <<tableVars, pending, sch, stopped, report, childVars>>

-----------------------------------------------------------------------------
(* The children.                                                           *)

\* A child before exec: redirection and pipes, then its process group.  It
\* joins the group of the first process, if there is one yet, or still.
Place(c) ==
  /\ Running /\ phase[c] = "forked" /\ ~stopped[c]
  /\ phase' = [phase EXCEPT ![c] = "placed"]
  /\ fds' = [fds EXCEPT ![c] =
               @ \ close_unused_pipes(spot[c].leader, spot[c].num, spot[c].idx)]
  /\ group' = [group EXCEPT ![c] =
                 IF \/ spot[c].idx = 0
                    \/ \E d \in Pid : Exists(d) /\ group[d] = spot[c].leader
                 THEN spot[c].leader ELSE Shell]
  /\ UNCHANGED <<tableVars, mainVars, pending, handlerVars, stopVars, spot, copy>>

\* execvp, which may fail and which a built-in never reaches: it exits, unless
\* it is an fg that has found its job.
Exec(c) ==
  /\ Running /\ ~stopped[c]
  /\ \/ /\ phase[c] = "placed" /\ spot[c].name = "program"
        /\ phase' = [phase EXCEPT ![c] = "running"]
        /\ UNCHANGED <<pending, stopVars, group, spot, fds, copy>>
     \/ /\ phase[c] = "placed" \/ (phase[c] = "builtin" /\ spot[c].name = "bg")
        /\ Die(c)
  /\ UNCHANGED <<tableVars, mainVars, handlerVars>>

\* do_bgfg in a child: SIGCONT goes to the group of a job that was stopped when
\* the child was forked; the new state is set in the child's copy of the table.
\* No handler changes that: an fg waits for as long as it lives.
ForkedBgFg(c) ==
  /\ Running /\ phase[c] = "placed" /\ ~stopped[c]
  /\ spot[c].name \in {"bg", "fg"}
  /\ phase' = [phase EXCEPT ![c] = "builtin"]
  /\ \E p \in Pid :
       /\ copy[c][p] # "undefined"
       /\ IF copy[c][p] = "stopped" THEN Continue(p, report)
          ELSE UNCHANGED <<pending, stopVars>>
       /\ copy' = [copy EXCEPT ![c][p] = IF spot[c].name = "bg" THEN "background"
                                         ELSE "foreground"]
  /\ UNCHANGED <<tableVars, mainVars, handlerVars, group, spot, fds>>

\* A program ends.
Exit(c) ==
  /\ Running /\ phase[c] = "running" /\ ~stopped[c]
  /\ Die(c)
  /\ UNCHANGED <<tableVars, mainVars, handlerVars>>

\* tools/mystop.c, tools/myint.c: the first process signals its own group.
Raise(c, s) ==
  /\ Running /\ phase[c] = "running" /\ ~stopped[c] /\ group[c] = c
  /\ Send(c, s)
  /\ UNCHANGED <<tableVars, mainVars, pending, handlerVars, stopped, report,
                 childVars>>

\* A pending signal takes effect.  SIGINT and SIGTSTP find the shell's own
\* handlers in a child that has not called exec: they go to the job that is in
\* the foreground of its copy of the table, which only fg puts there.  SIGSTOP
\* cannot be caught.
Deliver(c, s) ==
  /\ Running /\ Alive(c) /\ ~stopped[c] /\ s \in signals[c]
  /\ \/ /\ s = "INT" /\ phase[c] = "running" /\ Die(c)
     \/ /\ s = "STOP" \/ (s = "TSTP" /\ phase[c] = "running")
        /\ stopped' = [stopped EXCEPT ![c] = TRUE]
        /\ signals' = [signals EXCEPT ![c] = @ \ {"STOP", "TSTP"}]
        /\ report' = [report EXCEPT ![c] = "stopped"]
        /\ pending' = pending \cup {"CHLD"}
        /\ UNCHANGED childVars
     \/ /\ s # "STOP" /\ phase[c] # "running"
        /\ signals' =
             [d \in Pid |->
                IF d = c THEN signals[c] \ {s}
                ELSE IF \E p \in Pid : /\ copy[c][p] = "foreground"
                                       /\ Receives(d, p, s)
                THEN signals[d] \cup {s} ELSE signals[d]]
        /\ UNCHANGED <<pending, stopped, report, childVars>>
  /\ UNCHANGED <<tableVars, mainVars, handlerVars>>

\* The user types Ctrl-C or Ctrl-Z: the terminal signals the shell's group.
Keyboard(s) ==
  /\ Running /\ s \notin pending
  /\ pending' = pending \cup {s}
  /\ Send(Shell, s)
  /\ UNCHANGED <<tableVars, mainVars, handlerVars, stopped, report, childVars>>

-----------------------------------------------------------------------------
MainLoop == \/ TypeList \/ ListNext \/ Walk \/ FindJob \/ Restart \/ SetState
            \/ ReadJid \/ FindShown \/ ShowJob \/ WaitLookup \/ WaitTest
            \/ Begin \/ Fork \/ ForkFails \/ AddJob \/ NextJob
            \/ \E l \in Lines : TypeJobs(l)
            \/ \E name \in {"bg", "fg"} : TypeBgFg(name)

Handlers == \/ TakeChild \/ HandlerEnds \/ ForwardKey
            \/ \E c \in Pid : Reap(c) \/ Stop(c) \/ Resume(c)
            \/ \E s \in Keys : TakeKey(s)

Child(c) == \/ Place(c) \/ Exec(c) \/ ForkedBgFg(c) \/ Exit(c)
            \/ \E s \in Raised : Raise(c, s)
            \/ \E s \in {"INT", "TSTP", "STOP"} : Deliver(c, s)

Next == \/ MainLoop \/ Quit \/ Handlers
        \/ \E c \in Pid : Child(c)
        \/ \E s \in Keys : Keyboard(s)

Spec == Init /\ [][Next]_vars

(***************************************************************************)
(* Fairness.  The processor runs whoever can run: the main loop (strongly, *)
(* since keys may interrupt it again and again), a handler, a child on its *)
(* way to exec; the kernel delivers signals.  Nothing obliges the user to  *)
(* type, or a program to end.                                              *)
(***************************************************************************)
Advance == \/ ListNext \/ FindJob \/ Restart \/ SetState \/ ReadJid
           \/ FindShown \/ ShowJob \/ WaitLookup \/ WaitTest
           \/ Begin \/ Fork \/ AddJob \/ NextJob

Fairness ==
  /\ SF_vars(Advance)
  /\ WF_vars(TakeChild) /\ WF_vars(ForwardKey)
  /\ WF_vars(HandlerEnds \/ \E c \in Pid : Reap(c) \/ Stop(c) \/ Resume(c))
  /\ \A c \in Pid : WF_vars(Place(c) \/ Exec(c) \/ ForkedBgFg(c))
  /\ \A c \in Pid : WF_vars(\E s \in {"INT", "TSTP", "STOP"} : Deliver(c, s))

FairSpec == Spec /\ Fairness

-----------------------------------------------------------------------------
(* Properties.                                                             *)

\* The types of the shell, its jobs and its processes.
TypeOK ==
  /\ jobs \in Seq(Pid)
  /\ job \in [Pid -> [jid : Nat, pid : Seq(Pid \cup {NULL}), cur : Nat,
                      state : JobState \cup {"undefined"}]]
  /\ pc \in {"read", "list", "find", "bgfg", "state", "jid", "show", "print", "wait",
             "test", "begin", "fork", "next", "exited", "aborted", "undefined"}
  /\ line \in Seq(ParsedJob) /\ pids \in Seq(Pid \cup {NULL})
  /\ ptr \in Pid \cup {NULL} /\ cmd \in {"none", "bg", "fg"} /\ jid \in Nat
  /\ blocked \in BOOLEAN /\ pending \subseteq Keys \cup {"CHLD"}
  /\ sch \in BOOLEAN
  /\ kbd \in [sig : Keys \cup {"none"}, job : Pid \cup {NULL}]
  /\ phase \in [Pid -> {"none", "forked", "placed", "running", "builtin",
                        "zombie", "reaped"}]
  /\ stopped \in [Pid -> BOOLEAN] /\ group \in [Pid -> Pid \cup {Shell}]
  /\ signals \in [Pid -> SUBSET {"INT", "TSTP", "STOP"}]
  /\ report \in [Pid -> {"none", "stopped", "continued"}]
  /\ spot \in [Pid -> [leader : Pid \cup {NULL}, idx : Nat, num : Nat,
                       name : {"program"} \cup Builtins]]
  /\ DOMAIN fds = Pid \cup {Shell}
  /\ copy \in [Pid -> [Pid -> JobState \cup {"undefined"}]]

\* A job is in the table as long as one of its processes is not reaped, and
\* nproc_cur counts them (sigchld_handler decrements it, addjob starts it); a
\* process that was never forked is counted for good.
ProcessesAreCounted ==
  \A p \in Listed :
    LET left == {i \in DOMAIN job[p].pid :
                   job[p].pid[i] # NULL => phase[job[p].pid[i]] # "reaped"}
    IN job[p].cur = Cardinality(left) /\ left # {}

\* Whenever SIGCHLD may be handled, every child that waitpid may return is in
\* exactly one job: sigchld_handler uses job without testing it.
HandlerFindsJob ==
  Running /\ ~blocked =>
    \A c \in Pid : Exists(c) =>
      \E p \in Listed : \A q \in Listed : c \in Range(job[q].pid) <=> p = q

\* At most one job is in the foreground, and the shell is waiting for it (or,
\* in fg, about to): Ctrl-C and Ctrl-Z never find a job nobody waits for.
ForegroundIsAwaited ==
  Running => \A p \in Listed : job[p].state = "foreground" =>
    \/ pc \in {"wait", "test"} /\ job[p].jid = jid
    \/ pc = "jid" /\ ptr = p /\ cmd = "fg"

\* Job ids descend along the list, so %n names one job, also after jobs in the
\* middle of the list have ended.
JobIdsDescend ==
  \A i, k \in DOMAIN jobs : i < k => job[jobs[i]].jid > job[jobs[k]].jid

\* Once the processes of a job have set up their pipes, nobody but command i
\* holds the write end of pipe i: the reader sees the end of its input when
\* command i ends.
ReaderSeesEnd ==
  \A l \in Listed :
    (\A c \in Pid : spot[c].leader = l => phase[c] # "forked") =>
      \A q \in Pid \cup {Shell} : \A e \in fds[q] :
        e[1] = l /\ e[3] = "write" => /\ q # Shell /\ spot[q].leader = l
                                      /\ spot[q].idx = e[2]

\* jobcontrol.h:71: all processes of a job are in its process group (at the
\* latest when their programs run).
SameGroup ==
  \A c \in Pid : phase[c] = "running" => group[c] = spot[c].leader

\* Every child that has ended is reaped, whatever signals are merged.
ZombiesAreReaped ==
  \A c \in Pid : phase[c] = "zombie" ~> phase[c] = "reaped" \/ ~Running

\* waitfg is waiting for job p.
Awaits(p) == pc \in {"wait", "test"} /\ p \in Listed /\ job[p].jid = jid
Waits == pc \in {"wait", "test"}

\* When all processes of the job it waits for have ended, the shell stops
\* waiting (if all were forked).
AllEnded(p) == \A c \in Range(job[p].pid) : c # NULL /\ ~Alive(c)
EndedJobIsLeft == \A p \in Pid : (Awaits(p) /\ AllEnded(p)) ~> ~Waits

\* jobcontrol.h:55, foreground -> stopped: when all processes of the job it
\* waits for have stopped, the shell stops waiting, unless they go on.
AllStopped(p) == \A c \in Range(job[p].pid) : Exists(c) => stopped[c]
StoppedJobIsLeft ==
  \A p \in Pid :
    (Awaits(p) /\ AllStopped(p)) ~> (~Waits \/ ~AllStopped(p))
=============================================================================
