------------------------------ MODULE MCCsapSh ------------------------------
(* Instances of CsapSh for TLC.                                            *)
EXTENDS CsapSh

Parsed(num, mode, name) ==
  [num |-> num, mode |-> mode, name |-> name, outfile |-> FALSE]

\* Lines with one job: a pipeline of n programs, or a built-in.
Fore(n) == <<Parsed(n, "foreground", "program")>>
Back(n) == <<Parsed(n, "background", "program")>>
Do(name) == <<Parsed(1, "foreground", name)>>
\* bg or fg, forked since the output goes to a file; program & bg %1 > file
Filed(name) == <<[Parsed(1, "foreground", name) EXCEPT !.outfile = TRUE]>>
Both == Back(1) \o Filed("bg")

PipeAndTable == {Back(3), Both, Do("fg"), Do("bg"), Do("jobs")}
PipeAndBack == {Fore(2), Back(1), Filed("fg")}
OnlyPipe == {Fore(2)}
BackThenFg == {Back(1), Do("fg")}

\* After its end the shell's state does not matter.
View == IF Running THEN vars ELSE <<pc>>
=============================================================================
