------------------------------- MODULE Parser -------------------------------
(***************************************************************************)
(* The command line parser of the shell, src/PA4/src/parser.c: a state     *)
(* machine that fills arrays which grow while it reads.                    *)
(*                                                                         *)
(* A step is one iteration of the loop of parse_cmdline.  The line is      *)
(* chosen while it is read: text holds the tokens read so far, and an      *)
(* argument is known by its position in text.  Arrays are sequences, so    *)
(* index i of the code is i + 1 here.                                      *)
(***************************************************************************)
EXTENDS Integers, Sequences, FiniteSets, SequencesExt, FiniteSetsExt

CONSTANTS GROW,     \* by how much an array grows: 8 in the code
          MaxLen,   \* longest line, in tokens
          Faults    \* {"no_memory"} when realloc may fail, else {}

ASSUME ParserAssumption ==
       GROW \in Nat /\ GROW >= 2 /\ MaxLen \in Nat /\ Faults \subseteq {"no_memory"}

\* "word" is an argument, quoted or not; "quote" one that is not terminated;
\* "nul" ends a line that fgets cut off before its newline.
Token == {"word", "|", "<", ">", "&", "quote", "nul"}
Redirection == {"<", ">"}

VARIABLES
  text,      \* the tokens read so far
  state,     \* 0 command, 1 arguments, 2 file name, 3 after it, 4 after '&'
  inout,     \* which redirection waits for its file name
  jobs,      \* (*cmd, *mode, *infile, *outfile, num_cmds, cmdlines)[0..job_max-1]
  jobIdx, cmdIdx, cmdMax, argIdx, argMax,
  jobBegin,  \* where the current job starts in the line
  status,    \* "parsing", "returned", or where it ended otherwise: "undefined"
             \* in a missing entry, "overrun" behind the line, "endless"
  result,    \* what is returned: the number of jobs, or -1
  error,     \* the code given to parseline_error
  freed      \* the arguments free_cmdstruct has freed

vars == <<text, state, inout, jobs, jobIdx, cmdIdx, cmdMax, argIdx, argMax,
          jobBegin, status, result, error, freed>>
indexVars == <<jobIdx, cmdIdx, cmdMax, argIdx, argMax>>

\* One element of the arrays, as realloc's loops initialize it.  NULL is 0
\* for an argument and an array of capacity 0 for an array.
NULL == 0
NoJob == [argv |-> <<>>, mode |-> "undefined", infile |-> NULL,
          outfile |-> NULL, num |-> 0, begin |-> 0]
NoError == -1

Init ==
  /\ text = <<>> /\ state = 0 /\ inout = "<"
  /\ jobs = <<>> /\ jobIdx = 0
  /\ cmdIdx = 0 /\ cmdMax = 0 /\ argIdx = 0 /\ argMax = 0
  /\ jobBegin = 0 /\ error = NoError /\ freed = {}
  /\ status = "parsing" /\ result = 0

-----------------------------------------------------------------------------
Reads(t) ==
  /\ status = "parsing" /\ Len(text) < MaxLen
  /\ text' = Append(text, t)

\* parseline_error: report and return -1.
parseline_error(code) ==
  /\ error' = code /\ status' = "returned" /\ result' = -1
  /\ UNCHANGED <<state, inout, jobs, indexVars, jobBegin, freed>>

\* An operator whose name ends in Wrongly is what the one after it would be
\* with a plausible slip in the code; only the mutants of PROJECT.json use it.
GrowWrongly(array, idx, max, null) ==
  [i \in 1..max |-> IF i < idx THEN array[i] ELSE null]

\* realloc to max elements, those from idx on set to null.
Grow(array, idx, max, null) ==
  [i \in 1..max |-> IF i <= idx THEN array[i] ELSE null]

\* '|': the next command of the job.
Pipe ==
  /\ Reads("|")
  /\ \/ state # 1 /\ parseline_error(state)
     \/ /\ state = 1
        /\ cmdIdx' = cmdIdx + 1 /\ argIdx' = 0 /\ argMax' = 0 /\ state' = 0
        /\ UNCHANGED <<inout, jobs, jobIdx, cmdMax, jobBegin, status, result,
                       error, freed>>

\* '<' and '>': the entry of the current job is read before the state is
\* tested; the arrays may not have one yet.
NoEntry == jobIdx >= Len(jobs)
File(t) == IF t = "<" THEN jobs[jobIdx + 1].infile ELSE jobs[jobIdx + 1].outfile

RedirectWrongly(t) ==
  /\ Reads(t) /\ ~NoEntry
  /\ \/ File(t) # NULL /\ parseline_error(IF t = "<" THEN 7 ELSE 9)
     \/ /\ File(t) = NULL /\ state \in {1, 3} /\ state' = 2 /\ inout' = t
        /\ UNCHANGED <<jobs, indexVars, jobBegin, status, result, error, freed>>

Redirect(t) ==
  /\ Reads(t)
  /\ \/ /\ NoEntry /\ status' = "undefined"
        /\ UNCHANGED <<state, inout, jobs, indexVars, jobBegin, result, error,
                       freed>>
     \/ /\ ~NoEntry /\ File(t) # NULL
        /\ parseline_error(IF t = "<" THEN 7 ELSE 8)
     \/ /\ ~NoEntry /\ File(t) = NULL /\ state \notin {1, 3}
        /\ parseline_error(state)
     \/ /\ ~NoEntry /\ File(t) = NULL /\ state \in {1, 3}
        /\ state' = 2 /\ inout' = t
        /\ UNCHANGED <<jobs, indexVars, jobBegin, status, result, error, freed>>

BackgroundWrongly ==
  /\ Reads("&") /\ state # 0 /\ ~NoEntry
  /\ jobs' = [jobs EXCEPT ![jobIdx + 1].num = cmdIdx + 1,
                          ![jobIdx + 1].begin = jobBegin,
                          ![jobIdx + 1].mode = "background"]
  /\ jobIdx' = jobIdx + 1
  /\ cmdIdx' = 0 /\ cmdMax' = 0 /\ argIdx' = 0 /\ argMax' = 0
  /\ state' = 4
  /\ UNCHANGED <<inout, jobBegin, status, result, error, freed>>

\* '&': the job is complete and runs in the background.
Background ==
  /\ Reads("&")
  /\ \/ state \notin {1, 3} /\ parseline_error(state)
     \/ /\ state \in {1, 3}
        /\ jobs' = [jobs EXCEPT ![jobIdx + 1].num = cmdIdx + 1,
                                ![jobIdx + 1].begin = jobBegin,
                                ![jobIdx + 1].mode = "background"]
        /\ jobIdx' = jobIdx + 1
        /\ cmdIdx' = 0 /\ cmdMax' = 0 /\ argIdx' = 0 /\ argMax' = 0
        /\ state' = 4
        /\ UNCHANGED <<inout, jobBegin, status, result, error, freed>>

\* The arrays after they have grown for the argument about to be stored.
JobsGrow == jobIdx >= Len(jobs) - 1
CmdsGrowWrongly == cmdIdx >= cmdMax
CmdsGrow == cmdIdx >= cmdMax - 1
ArgsGrow == argIdx >= argMax - 1
GrownJobs == IF JobsGrow THEN Grow(jobs, jobIdx, Len(jobs) + GROW, NoJob)
             ELSE jobs
GrownCmds(argv) == IF CmdsGrow THEN Grow(argv, cmdIdx, cmdMax + GROW, <<>>)
                   ELSE argv
GrownArgs(args) == IF ArgsGrow THEN Grow(args, argIdx, argMax + GROW, NULL)
                   ELSE args

\* cmd[job_idx][cmd_idx][arg_idx] = argument.
StoreIn(args) == [GrownArgs(args) EXCEPT ![argIdx + 1] = Len(text) + 1]
StoreInCmds(argv) == [GrownCmds(argv) EXCEPT ![cmdIdx + 1] = StoreIn(@)]

\* default: a command or an argument of the current job.
Argument ==
  /\ Reads("word") /\ state \notin {2, 3}
  /\ jobBegin' = IF cmdIdx = 0 /\ argIdx = 0 THEN Len(text) + 1 ELSE jobBegin
  /\ jobs' = [GrownJobs EXCEPT
                ![jobIdx + 1].argv = StoreInCmds(@),
                ![jobIdx + 1].mode = IF @ = "undefined" THEN "foreground" ELSE @]
  /\ cmdMax' = IF CmdsGrow THEN cmdMax + GROW ELSE cmdMax
  /\ argMax' = IF ArgsGrow THEN argMax + GROW ELSE argMax
  /\ argIdx' = argIdx + 1
  /\ state' = 1
  /\ UNCHANGED <<inout, jobIdx, cmdIdx, status, result, error, freed>>

\* default: the file name of a redirection.
FileName ==
  /\ Reads("word") /\ state = 2
  /\ jobs' = IF inout = "<"
             THEN [jobs EXCEPT ![jobIdx + 1].infile = Len(text) + 1]
             ELSE [jobs EXCEPT ![jobIdx + 1].outfile = Len(text) + 1]
  /\ state' = 3
  /\ UNCHANGED <<inout, indexVars, jobBegin, status, result, error, freed>>

\* default: what may not follow a file name.
Misplaced == Reads("word") /\ state = 3 /\ parseline_error(3)

\* default: what has no closing quote is an error if the line has its newline;
\* on a line cut off before it, nothing stops the search at the NUL.
Unquoted ==
  /\ Reads("quote")
  /\ \/ state = 3 /\ parseline_error(3)
     \/ state # 3 /\ parseline_error(5)
     \/ /\ state # 3 /\ status' = "overrun"
        /\ UNCHANGED <<state, inout, jobs, indexVars, jobBegin, result, error,
                       freed>>

\* default: realloc fails.
OutOfMemory ==
  /\ "no_memory" \in Faults
  /\ Reads("word") /\ state \notin {2, 3} /\ (JobsGrow \/ CmdsGrow \/ ArgsGrow)
  /\ parseline_error(6)

\* default: the end of a line without newline.  It delimits an empty argument
\* and is not passed: the argument is stored again and again, unless it is a
\* file name, behind which it is an error.
CutOff ==
  /\ Reads("nul")
  /\ \/ state \in {2, 3} /\ parseline_error(3)
     \/ /\ state \notin {2, 3} /\ status' = "endless"
        /\ UNCHANGED <<state, inout, jobs, indexVars, jobBegin, result, error,
                       freed>>

\* '\n': if it follows blanks it is looked at in the loop; else only the loop
\* ends, and a line without a single argument is accepted.  A job without '&'
\* is completed.
Newline ==
  /\ status = "parsing" /\ text' = text
  /\ \/ state \in {0, 2} /\ parseline_error(state)
     \/ /\ state \in {0, 2} => jobs = <<>>
        /\ jobs' = IF state \in {1, 3}
                   THEN [jobs EXCEPT ![jobIdx + 1].num = cmdIdx + 1,
                                     ![jobIdx + 1].begin = jobBegin]
                   ELSE jobs
        /\ status' = "returned"
        /\ result' = IF state = 0 /\ jobIdx = 0 THEN 0
                     ELSE IF state = 4 THEN jobIdx ELSE jobIdx + 1
        /\ UNCHANGED <<state, inout, indexVars, jobBegin, error, freed>>

-----------------------------------------------------------------------------
(* What the callers read.                                                  *)

Accepted == status = "returned" /\ result >= 0

\* The entries of a NULL-terminated array.
Walk(array, null) ==
  LET end == SelectInSeq(array, LAMBDA x : x = null)
  IN IF end = 0 THEN array ELSE SubSeq(array, 1, end - 1)

\* dump_cmdstruct, execvp: the arguments of each command of a job.
Commands(j) == LET argv == Walk(jobs[j].argv, <<>>)
               IN [c \in DOMAIN argv |-> Walk(argv[c], NULL)]

\* free_cmdstruct: eval calls it after a built-in that it does not fork.
Builtin == status = "returned" /\ result = 1 /\ jobs[1].num = 1 /\ jobs[1].outfile = NULL

free_cmdstruct ==
  /\ Builtin /\ freed = {}
  /\ freed' = UNION {LET j == jobs[i]
                     IN (UNION {Range(args) : args \in Range(Commands(i))})
                          \cup ({j.infile, j.outfile} \ {NULL})
                     : i \in DOMAIN Walk(jobs, NoJob)}
  /\ UNCHANGED <<text, state, inout, jobs, indexVars, jobBegin, status, result,
                 error>>

Next == \/ Pipe \/ Background \/ Argument \/ FileName \/ Newline
        \/ \E t \in Redirection : Redirect(t)
        \/ Misplaced \/ Unquoted \/ OutOfMemory \/ CutOff
        \/ free_cmdstruct

Spec == Init /\ [][Next]_vars

-----------------------------------------------------------------------------
(* The grammar of parser.h:54-59: a job per "&", a command per "|", and at *)
(* most one redirection of each kind behind the last command of a job.     *)

Jobs(s) == LET amps == {i \in DOMAIN s : s[i] = "&"}
           IN Cardinality(amps) + IF Len(s) \in amps THEN 0 ELSE 1
JobOf(s, i) == 1 + Cardinality({k \in 1..(i - 1) : s[k] = "&"})
CommandOf(s, i) ==
  1 + Cardinality({k \in 1..(i - 1) : s[k] = "|" /\ JobOf(s, k) = JobOf(s, i)})
\* The token before token i; "&" also stands for the start of the line.
Before(s, i) == IF i = 1 THEN "&" ELSE s[i - 1]
IsFile(s, i) == s[i] = "word" /\ Before(s, i) \in Redirection

\* Token i may follow the tokens before it, whatever the order of the two
\* redirections.
MayFollow(s, i) ==
  LET redirected == \E k \in 1..(i - 1) : /\ s[k] \in Redirection
                                         /\ JobOf(s, k) = JobOf(s, i)
  IN \/ s[i] = "word" /\ (redirected => Before(s, i) \in Redirection)
     \/ s[i] = "|" /\ Before(s, i) = "word" /\ ~redirected
     \/ s[i] = "&" /\ Before(s, i) = "word"
     \/ /\ s[i] \in Redirection /\ Before(s, i) = "word"
        /\ \A k \in 1..(i - 1) : JobOf(s, k) = JobOf(s, i) => s[k] # s[i]

Viable(s) == \A i \in DOMAIN s : MayFollow(s, i)
Complete(s) == s = <<>> \/ s[Len(s)] \in {"word", "&"}
\* The output of a job is redirected before its input.
Reversed(s) == \E i \in DOMAIN s, k \in DOMAIN s :
  i < k /\ s[i] = ">" /\ s[k] = "<" /\ JobOf(s, i) = JobOf(s, k)

\* parser.h:54-59: at least one job, and in a job "<" comes before ">".
InGrammar(s) == s # <<>> /\ Viable(s) /\ Complete(s) /\ ~Reversed(s)

\* Position of the first element of S, or NULL.
FirstOf(S) == IF S = {} THEN NULL ELSE Min(S)
Words(j) == {i \in DOMAIN text : text[i] = "word" /\ JobOf(text, i) = j}
FileOf(j, t) == FirstOf({i \in Words(j) : Before(text, i) = t})
Arguments(j, c) == {i \in Words(j) : ~IsFile(text, i) /\ CommandOf(text, i) = c}
\* The positions S in the order of the line.
InOrder(args, S) ==
  Range(args) = S /\ \A a, b \in DOMAIN args : a < b => args[a] < args[b]

-----------------------------------------------------------------------------
(* Properties.                                                             *)

\* The types; the code given to parseline_error is one that it knows.
TypeOK ==
  /\ text \in Seq(Token) /\ state \in 0..4 /\ inout \in Redirection
  /\ \A j \in Range(jobs) :
       /\ j.argv \in Seq(Seq(Nat))
       /\ j.mode \in {"undefined", "foreground", "background"}
       /\ {j.infile, j.outfile, j.num, j.begin} \subseteq Nat
  /\ {jobIdx, cmdIdx, cmdMax, argIdx, argMax, jobBegin} \subseteq Nat
  /\ status \in {"parsing", "returned", "undefined", "overrun", "endless"}
  /\ result \in -1..MaxLen /\ error \in -1..8 /\ freed \subseteq Nat

\* Every line of the grammar is accepted unless memory runs out; what else is
\* accepted is the blank line and lines whose redirections are reversed.  The
\* others are refused at the first token that may not follow (state against
\* what was read) or, where a command or a file name is missing, at the end.
TakesTheGrammar ==
  /\ status = "parsing" => Viable(text)
  /\ Accepted => \/ InGrammar(text) \/ text = <<>>
                 \/ Viable(text) /\ Complete(text) /\ Reversed(text)
  /\ status = "returned" /\ ~Accepted =>
       \/ error = 6 \/ ~Viable(text)
       \/ error \in {0, 2} /\ (text = <<>> \/ ~Complete(text))

\* parser.h:54-59: a line of which jobs are returned is one of the grammar.
AcceptedIsInGrammar == Accepted /\ result > 0 => InGrammar(text)

\* Every array of an accepted or unfinished line ends in a NULL that the walks
\* of execvp, dump_cmdstruct and free_cmdstruct find, however often it has
\* grown; an entry of infile or outfile is missing only if the line begins
\* with the redirection.
ArraysHold ==
  /\ jobs # <<>> => \E j \in Range(jobs) : j.argv = <<>>
  /\ \A j \in Range(jobs) : j.argv # <<>> =>
       /\ <<>> \in Range(j.argv)
       /\ \A args \in Range(j.argv) : args # <<>> => NULL \in Range(args)
  /\ status = "undefined" => Len(text) = 1

\* What the shell gets is what stands in the line: the jobs in order, the
\* commands of each and their arguments, the redirections, who runs in the
\* background and where its text begins; and free_cmdstruct frees every argument
\* and file name of it.
BuildsTheJobs ==
  Accepted =>
    /\ result = IF text = <<>> THEN 0 ELSE Jobs(text)
    /\ \A j \in 1..result :
         LET amp == \E i \in DOMAIN text : text[i] = "&" /\ JobOf(text, i) = j
         IN /\ jobs[j].num = Max({CommandOf(text, i) : i \in Words(j)})
            /\ jobs[j].mode = IF amp THEN "background" ELSE "foreground"
            /\ jobs[j].infile = FileOf(j, "<")
            /\ jobs[j].outfile = FileOf(j, ">")
            /\ jobs[j].begin = FirstOf(Words(j))
            /\ DOMAIN Commands(j) = 1..jobs[j].num
            /\ \A c \in 1..jobs[j].num : InOrder(Commands(j)[c], Arguments(j, c))
    /\ freed # {} => freed = UNION {Words(j) : j \in 1..result}
=============================================================================
