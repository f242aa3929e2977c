------------------------------ MODULE MCDirTree ------------------------------
(* Trees for DirTree to list.                                              *)
EXTENDS DirTree, TLC

Meta(type, readable, searchable) ==
  [type |-> type, size |-> 1, len |-> 1,
   readable |-> readable, searchable |-> searchable]
Dir == Meta("dir", TRUE, TRUE)
File == Meta("file", TRUE, TRUE)

\* A directory <<1>> that holds a file, a directory with a long name and one
\* more level, a link and a socket, in an order that is not that of the names.
Deep == (<<1>> :> Dir) @@ (<<1, 1>> :> File) @@ (<<1, 2>> :> [Dir EXCEPT !.len = 4])
        @@ (<<1, 2, 1>> :> Dir) @@ (<<1, 2, 1, 3>> :> Dir)
        @@ (<<1, 2, 2>> :> Meta("sock", TRUE, TRUE))
        @@ (<<1, 3>> :> Meta("link", TRUE, TRUE))

\* Directories that may be read but not searched, or the other way round.
Closed == (<<1>> :> Dir) @@ (<<1, 2>> :> Meta("dir", TRUE, FALSE))
          @@ (<<1, 2, 1>> :> Dir) @@ (<<1, 2, 2>> :> File)
          @@ (<<1, 1>> :> Meta("dir", FALSE, TRUE)) @@ (<<1, 1, 1>> :> File)
          @@ (<<1, 3>> :> Meta("fifo", TRUE, TRUE)) @@ (<<1, 4>> :> Meta("other", TRUE, TRUE))

\* More entries than the buffer of a stream holds.
Wide == (<<1>> :> Dir) @@ [p \in {<<1, k>> : k \in 1..5} |-> File]

\* A long name at a depth that leaves less than three columns for it.
Deeper == Deep @@ (<<1, 2, 1, 4>> :> [File EXCEPT !.len = 3])

SomeTrees == {Deep, Deeper, Closed, Wide}
SomeArguments == {<<>>, <<<<1>>>>, <<<<1, 2>>, <<1>>>>, <<<<1, 1>>, <<1, 7>>, <<1>>>>}
SomeOptions == SUBSET {"d", "s", "v"} \cup {{"h"}}
Current == <<1>>
=============================================================================
