------------------------------- MODULE DirTree -------------------------------
(***************************************************************************)
(* The directory lister, src/PA2/src/dirtree.c: a recursion over a tree of *)
(* files that prints, counts, and goes on where it may not look.           *)
(*                                                                         *)
(* A path is the sequence of its names, and a name is its rank in the      *)
(* order of strcmp.  A step is one iteration of a loop of the code.  The   *)
(* stack holds the activations of processDir, the innermost last.          *)
(***************************************************************************)
EXTENDS Integers, Sequences, FiniteSets, SequencesExt, FiniteSetsExt, Functions

CONSTANTS Trees,       \* the trees the program may find: path -> metadata
          Arguments,   \* the lists of paths it may be given
          Options,     \* the sets of options: subsets of {"d", "s", "v", "h"}
          CURDIR,      \* the current directory
          MAX_DIR,     \* most paths that are accepted
          CAPACITY,    \* first size of the array of entries: 10 in the code
          WIDTH,       \* columns for a name: 54 in the code
          CHUNK,       \* entries that fit into the buffer of a DIR stream
          MAX_STREAMS, \* streams that may be open at a time
          Faults       \* {"no_memory"} when malloc may fail, else {}

Class == {"dir", "file", "link", "fifo", "sock"}
Metadata == [type : Class \cup {"other"}, size : Nat, len : Nat \ {0},
             readable : BOOLEAN, searchable : BOOLEAN]

ASSUME DirTreeAssumption ==
       /\ \A tree \in Trees :
            /\ IsFiniteSet(DOMAIN tree)
            /\ \A p \in DOMAIN tree : p \in Seq(Nat) /\ tree[p] \in Metadata
       /\ Arguments \subseteq Seq(Seq(Nat)) /\ CURDIR \in Seq(Nat)
       /\ \A opts \in Options : opts \subseteq {"d", "s", "v", "h"}
       /\ {MAX_DIR, CAPACITY, CHUNK, MAX_STREAMS} \subseteq Nat \ {0}
       /\ WIDTH \in Nat /\ Faults \subseteq {"no_memory"}

VARIABLES
  fs,           \* the tree
  args, flags,  \* the command line
  directories,  \* main: the paths accepted
  n,            \* main: the loop's i, from 1
  stack,        \* processDir: its activations
  dstat, tstat, \* the statistics of the directory, and of all
  out,          \* the lines printed for directories and entries
  printed,      \* the summaries printed, and the grand total
  status        \* "start", "main", "walk"; "exited", "failed" or "undefined"

mainVars == <<fs, args, flags, directories>>
statVars == <<dstat, tstat, printed>>
vars == <<mainVars, n, stack, statVars, out, status>>

Zero == [c \in Class \cup {"size"} |-> 0]

Init ==
  /\ fs \in Trees /\ args \in Arguments /\ flags \in Options
  /\ directories = <<>> /\ n = 1 /\ stack = <<>>
  /\ dstat = Zero /\ tstat = Zero /\ out = <<>> /\ printed = <<>>
  /\ status = "start"

-----------------------------------------------------------------------------
(* An operator whose name ends in Wrongly is what the one after it would   *)
(* be with a plausible slip in the code; only the mutants of PROJECT.json  *)
(* use it.                                                                 *)

top == Last(stack)
SetTop(frame) == [stack EXCEPT ![Len(stack)] = frame]
Children(p) == {Last(q) : q \in {q \in DOMAIN fs : q # <<>> /\ Front(q) = p}}

\* printf of a line.
Line(path, kind) == [arg |-> n, path |-> path, kind |-> kind]

\* processDir: opendir, on top of the streams that are open already.  Any
\* failure is reported as "Permission denied".
Opens(p, open) == p \in DOMAIN fs /\ fs[p].type = "dir" /\ fs[p].readable
                  /\ open < MAX_STREAMS

Call(below, p, lines) ==
  IF Opens(p, Len(below))
  THEN /\ stack' = Append(below, [dn |-> p, unread |-> Children(p),
                                  entries |-> <<>>, capacity |-> CAPACITY, i |-> 0])
       /\ out' = out \o lines
  ELSE /\ stack' = below
       /\ out' = out \o lines \o <<Line(p, "error")>>

\* main: the options and the paths.
Parse ==
  /\ status = "start"
  /\ directories' = IF args = <<>> THEN <<CURDIR>>
                    ELSE SubSeq(args, 1, Min({Len(args), MAX_DIR}))
  /\ status' = IF "h" \in flags THEN "failed" ELSE "main"
  /\ UNCHANGED <<fs, args, flags, n, stack, statVars, out>>

DirectoryWrongly ==
  /\ status = "main" /\ n <= Len(directories)
  /\ Call(<<>>, directories[n], <<Line(directories[n], "name")>>)
  /\ status' = "walk"
  /\ UNCHANGED <<mainVars, n, statVars>>

\* main: the next directory, counted from zero.
Directory ==
  /\ status = "main" /\ n <= Len(directories)
  /\ dstat' = Zero
  /\ Call(<<>>, directories[n], <<Line(directories[n], "name")>>)
  /\ status' = "walk"
  /\ UNCHANGED <<mainVars, n, tstat, printed>>

GrowWrongly(frame) == IF Len(frame.entries) > frame.capacity THEN 2 * frame.capacity
                      ELSE frame.capacity

\* readDirEntries: the capacity of the array when one more entry is stored.
Grow(frame) == IF Len(frame.entries) >= frame.capacity THEN 2 * frame.capacity
               ELSE frame.capacity

\* readDirEntries: readdir returns the entries in any order.
ReadEntry ==
  /\ status = "walk" /\ stack # <<>> /\ top.i = 0
  /\ \E name \in top.unread :
       stack' = SetTop([top EXCEPT !.unread = @ \ {name}, !.capacity = Grow(top),
                                   !.entries = Append(@, name)])
  /\ UNCHANGED <<mainVars, n, statVars, out, status>>

\* What entries[k] points to in the end: the buffer of the stream is used
\* again after CHUNK entries.
Contents(names) ==
  [k \in DOMAIN names |->
     names[Max({m \in DOMAIN names : m % CHUNK = k % CHUNK})]]

\* dirent_compare: directories first, then by name.
IsDir(p) == fs[p].type = "dir"
FirstWrongly(a, b) == Last(a) < Last(b)
First(a, b) == IF IsDir(a) # IsDir(b) THEN IsDir(a) ELSE Last(a) < Last(b)

\* processDir: qsort, which leaves equal entries in any order.
Sort ==
  /\ status = "walk" /\ stack # <<>> /\ top.i = 0 /\ top.unread = {}
  /\ LET names == Contents(top.entries)
         path(k) == Append(top.dn, names[k])
     IN \E at \in Bijection(DOMAIN names, DOMAIN names) :
          /\ \A j, k \in DOMAIN names : j < k => ~First(path(at[k]), path(at[j]))
          /\ stack' = SetTop([top EXCEPT !.i = 1,
                                         !.entries = [k \in DOMAIN names |-> names[at[k]]]])
  /\ UNCHANGED <<mainVars, n, statVars, out, status>>

\* abbreviateFileName: the end of the name is cut off; where less than three
\* columns are left for it, strncpy is given a negative length.
Overruns(p, depth) ==
  LET indent == 2 * (depth + 1)
  IN fs[p].len + indent > WIDTH /\ indent > WIDTH - 3

\* processDir: the next entry, whose metadata cannot be had if the directory
\* may not be searched; it passes for a file.
AtEntry == status = "walk" /\ stack # <<>> /\ top.i \in DOMAIN top.entries
entry == Append(top.dn, top.entries[top.i])
depth == Len(stack) - 1
Passed == SetTop([top EXCEPT !.i = @ + 1])

Overrun ==
  /\ AtEntry /\ Overruns(entry, depth) /\ status' = "undefined"
  /\ UNCHANGED <<mainVars, n, stack, statVars, out>>

NoMetadata ==
  /\ AtEntry /\ ~Overruns(entry, depth) /\ ~fs[top.dn].searchable
  /\ dstat' = [dstat EXCEPT !["file"] = @ + 1]
  /\ stack' = Passed
  /\ out' = IF "d" \in flags THEN out
            ELSE Append(out, Line(entry, IF "v" \in flags THEN "denied" ELSE "entry"))
  /\ UNCHANGED <<mainVars, n, tstat, printed, status>>

\* processDir: count the entry, print it, and go down into a directory.
Counted(s, meta) ==
  [c \in DOMAIN s |-> IF c = "size" THEN s[c] + meta.size
                      ELSE IF c = meta.type THEN s[c] + 1 ELSE s[c]]

Entry ==
  /\ AtEntry /\ ~Overruns(entry, depth) /\ fs[top.dn].searchable
  /\ dstat' = Counted(dstat, fs[entry])
  /\ \/ "d" \in flags /\ ~IsDir(entry) /\ stack' = Passed /\ out' = out
     \/ /\ ~IsDir(entry) /\ "d" \notin flags
        /\ stack' = Passed /\ out' = Append(out, Line(entry, "entry"))
     \/ IsDir(entry) /\ Call(Passed, entry, <<Line(entry, "entry")>>)
  /\ UNCHANGED <<mainVars, n, tstat, printed, status>>

\* processDir: closedir and return.
Return ==
  /\ status = "walk" /\ stack # <<>> /\ top.i > Len(top.entries)
  /\ stack' = Front(stack)
  /\ UNCHANGED <<mainVars, n, statVars, out, status>>

\* main: what a summary is about: directories only with -d, and the size with -v.
Wanted == IF "d" \in flags THEN {"dir"} ELSE DOMAIN Zero
Printed(s) == Restrict(s, IF "v" \in flags THEN Wanted ELSE Wanted \ {"size"})

\* main: the summary of a directory, added to the total.
Summary ==
  /\ status = "walk" /\ stack = <<>>
  /\ IF "s" \in flags
     THEN /\ printed' = Append(printed, Printed(dstat))
          /\ tstat' = [c \in DOMAIN tstat |-> IF c \in Wanted THEN tstat[c] + dstat[c]
                                              ELSE tstat[c]]
     ELSE UNCHANGED <<printed, tstat>>
  /\ n' = n + 1 /\ status' = "main"
  /\ UNCHANGED <<mainVars, stack, dstat, out>>

\* main: the grand total.
Total ==
  /\ status = "main" /\ n > Len(directories)
  /\ printed' = IF "s" \in flags /\ Len(directories) > 1
                THEN Append(printed, Printed(tstat)) ELSE printed
  /\ status' = "exited"
  /\ UNCHANGED <<mainVars, n, stack, dstat, tstat, out>>

\* panic: one of the allocations fails: the array, its growth, the path or the
\* name of an entry, or the line of the summary.
Allocates ==
  \/ /\ stack # <<>> /\ top.i = 0
     /\ top.entries = <<>> \/ (top.unread # {} /\ Grow(top) # top.capacity)
  \/ AtEntry
  \/ stack = <<>> /\ "s" \in flags /\ "d" \notin flags

Panic ==
  /\ "no_memory" \in Faults /\ status = "walk" /\ Allocates
  /\ status' = "failed"
  /\ UNCHANGED <<mainVars, n, stack, statVars, out>>

Next == \/ Parse \/ Directory \/ ReadEntry \/ Sort \/ Overrun \/ NoMetadata
        \/ Entry \/ Return \/ Summary \/ Total \/ Panic

Spec == Init /\ [][Next]_vars
FairSpec == Spec /\ WF_vars(Next)

-----------------------------------------------------------------------------
(* What PA2/README.md promises, as a set of lines and an order on them.    *)

dir(k) == directories[k]
Above(k, p) == {SubSeq(p, 1, m) : m \in Len(dir(k)) .. (Len(p) - 1)}
HasMetadata(p) == fs[Front(p)].searchable

\* Path p is an entry of a directory that the traversal of argument k opens.
Reached(k, p) ==
  /\ IsStrictPrefix(dir(k), p)
  /\ \A q \in Above(k, p) : /\ Opens(q, Len(q) - Len(dir(k)))
                            /\ q # dir(k) => HasMetadata(q)

Shown(k, p) == Reached(k, p) /\ ("d" \in flags => HasMetadata(p) /\ IsDir(p))

Lines(k) ==
  LET shown == {p \in DOMAIN fs : Shown(k, p)}
      opened == {dir(k)} \cup {p \in shown : HasMetadata(p) /\ IsDir(p)}
      line(p, kind) == [arg |-> k, path |-> p, kind |-> kind]
  IN {line(dir(k), "name")}
     \cup {line(p, IF HasMetadata(p) \/ "v" \notin flags THEN "entry" ELSE "denied")
           : p \in shown}
     \cup {line(p, "error") : p \in {p \in opened :
                                       ~Opens(p, Len(p) - Len(dir(k)))}}

\* A directory comes before its error, this before its entries, and these in
\* order, each with all that is below it.
Precedes(l, m) ==
  \/ l.arg < m.arg
  \/ /\ l.arg = m.arg
     /\ \/ l.path = m.path /\ l.kind # "error" /\ m.kind = "error"
        \/ IsStrictPrefix(l.path, m.path)
        \/ \E j \in DOMAIN l.path \cap DOMAIN m.path :
             /\ SubSeq(l.path, 1, j - 1) = SubSeq(m.path, 1, j - 1)
             /\ l.path[j] # m.path[j]
             /\ LET p == SubSeq(l.path, 1, j)
                    q == SubSeq(m.path, 1, j)
                IN IF IsDir(p) # IsDir(q) THEN IsDir(p) ELSE p[j] < q[j]

\* The buffers of the streams hold all entries of every directory.
Fits == \A p \in DOMAIN fs : Cardinality(Children(p)) <= CHUNK

ClassOf(p) == IF HasMetadata(p) THEN fs[p].type ELSE "file"
Counts(k) ==
  LET reached == {p \in DOMAIN fs : Reached(k, p)}
  IN [c \in DOMAIN Zero |->
        IF c = "size" THEN SumFunction([p \in {q \in reached : HasMetadata(q)} |-> fs[p].size])
        ELSE Cardinality({p \in reached : ClassOf(p) = c})]

-----------------------------------------------------------------------------
(* Properties.                                                             *)

\* The types; the entries fit into their array however often it has grown, and
\* no more streams are open than may be.
TypeOK ==
  /\ flags \subseteq {"d", "s", "v", "h"} /\ n \in Nat
  /\ status \in {"start", "main", "walk", "exited", "failed", "undefined"}
  /\ Len(directories) <= MAX_DIR /\ Len(stack) <= MAX_STREAMS
  /\ \A f \in Range(stack) : /\ f.dn \in DOMAIN fs /\ f.i \in Nat
                             /\ Len(f.entries) <= f.capacity
  /\ \A l \in Range(out) : l.kind \in {"name", "entry", "denied", "error"}
  /\ \A s \in Range(printed) \cup {dstat, tstat} : Range(s) \subseteq Nat

\* What is printed is at any time an initial part of the promised lines, in
\* their order, whatever order readdir returns and however the program ends;
\* only a directory nested too deep for the columns makes it undefined.
ListsTheTree ==
  LET expected == UNION {Lines(k) : k \in DOMAIN directories}
  IN Fits =>
     /\ Range(out) \subseteq expected
     /\ \A i, j \in DOMAIN out : i < j => Precedes(out[i], out[j])
     /\ out # <<>> => \A l \in expected : Precedes(l, Last(out)) => l \in Range(out)
     /\ status = "exited" => expected = Range(out)
     /\ status = "undefined" => \E k \in DOMAIN directories, p \in DOMAIN fs :
          Reached(k, p) /\ 2 * (Len(p) - Len(dir(k))) > WIDTH - 3

\* Every summary counts the entries reached from its own directory once, in
\* their class, and the grand total is the sum of the summaries.
CountsTheTree ==
  Fits => \A k \in DOMAIN printed :
    printed[k] = Printed(IF k \in DOMAIN directories THEN Counts(k)
                         ELSE [c \in DOMAIN Zero |->
                                 SumFunction([d \in DOMAIN directories |-> Counts(d)[c]])])
=============================================================================
