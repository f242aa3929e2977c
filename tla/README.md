# A verification project for the system programming labs

The repository holds four C programs, one per lab, that share no code:

| lab | program | what is hard about it |
|-----|---------|-----------------------|
| PA5 | `mcdonalds`, a multi-threaded burger server, and its client | threads, condition variables, shared list, signals, sockets |
| PA3 | `memmgr`, a boundary-tag heap allocator over a simulated data segment | pointer invariants over long call sequences |
| PA4 | `csapsh`, a job-control shell | processes, signals, asynchronous handlers |
| PA2 | `dirtree`, a recursive directory lister | error paths, counting, formatting |

PA5 came first, PA3 second; PA4, the client of PA5 and PA2 followed.

## 1. Inventory

### PA5 server: `src/PA5/src/mcdonalds.c`, `burger.h`, `burger.c`

*State.* `server_ctx` (order list with `head`, `tail`, `count`; `total_customers`,
`total_queueing`, `total_burgers[]`; one `lock`), `keep_running`, and per request
a bundle of heap objects that its nodes share (`remain_count`, `order_str`, `cond`
and three mutexes).

*Actors.* The main thread (`start_server`: accept, admit or refuse, create a
serving thread), one serving thread per customer (`serve_client`, `issue_orders`,
`error_client`), `NUM_KITCHEN` kitchen threads (`kitchen_task`, `get_order`,
`make_burger`, `order_left`), and the handlers of the first and second SIGINT.

*Interaction.* Serving threads append nodes under `lock`; kitchens test `head`
without it and pop with it. Kitchens append to `order_str` under `order_mutex`,
decrement `remain_count` under `remain_mutex`, and the one that reaches zero
signals `cond`, without `cond_mutex`. The serving thread waits on `cond` once,
reads `remain_count` and `order_str` unprotected, and frees everything.

*Correct when* no burger is lost, doubled or cooked for somebody else; the reply
is the request; a finished order wakes its customer; nobody touches what has been
freed; seats and statistics are exact; a SIGINT ends the process.

### PA5 client and network helpers: `client.c`, `net.c`

*State.* Per thread of the client a socket, a line buffer and its length, which may
double; the threads' ids in `main`; the table of open descriptors, which all threads
share. *Operations.* `main` creates and joins threads;
`thread_task` connects, reads the welcome, orders, reads the reply. `put_line` repeats
`send` until all bytes are taken, `get_line` calls `recv` for one byte at a time. Both
programs use them. *Correct when* a line arrives as it was given, however `send` splits
it; a thread that believes to be served has the reply to its own order; the client ends
if the server answers or closes. (It has no timeout: a connection that the server neither
serves nor closes keeps its thread in `recv` for ever.)

### PA3: `memmgr.c`, `dataseg.c`, `blocklist.c`, `nulldriver.c`, `mm_test.c`

State: the heap (headers, footers, explicit free list threaded through free
blocks, sentinels), `heap_start`, `heap_end`, `ds_heap_brk`. Operations: `mm_init`,
`mm_malloc`, `mm_calloc`, `mm_realloc`, `mm_free`, and inside them best fit,
`place`, `coalesce`, `extend_heap` and the shrinking of the heap. Correct when
blocks tile the heap, tags agree, the free list is the set of free blocks, and
live payloads are disjoint and untouched. `blocklist.c` is the test driver's sorted
list of blocks.

### PA4: `csapsh.c`, `jobcontrol.c`, `parser.c`

*State.* The job table (a list of jobs with pids, process group, number of processes
left, and state), the pipes, the mask of SIGCHLD; in the kernel the processes with
their groups, and pending signals. The parser has a state of its own and arrays of jobs,
commands and arguments that grow while it reads.

*Actors.* The main loop (`main`, `eval`, the built-ins `jobs`, `bg`, `fg`, `quit`, and
`waitfg`, a busy loop); the handlers of SIGCHLD, SIGINT and SIGTSTP, which run on top of
it or of each other; the children between `fork` and `exec`; the programs; the user.

*Interaction.* `eval` blocks SIGCHLD, forks the commands of a job, closes the pipes, adds
the job and unblocks. Each child closes the pipe ends it has no use for, and puts itself
into the group of the first. The SIGCHLD handler reaps, counts a job's processes down and
frees the job, or marks it as stopped and stops or continues the rest of its group. The
other two handlers pass a key on to the foreground job's group. The built-ins and `waitfg`
read the table with no signal blocked.

*Correct when* every child is reaped and belongs to a job when it is; a job is in the
table exactly as long as one of its processes is left; at most one job is in the
foreground, and the shell waits for it until it stops or ends; a reader of a pipe sees
the end of its input; the parser accepts the lines of the grammar in `parser.h` and no others
(which the code does not keep, see `RedirectionOrder`), and what it builds is the line.

### PA2: `dirtree.c`

*State.* The activations of `processDir` (an open stream, the pointers `readdir` returned,
the index), the statistics of the directory and of all. *Operations.* `main` (arguments,
summaries, grand total), `readDirEntries`, `qsort`, and per entry `lstat`, count, print,
go down. *Correct when* every entry is listed once, in order, and counted once in its
class, also where something may not be opened or looked at.

## 2. Modules

| module | models | role |
|--------|--------|------|
| `McDonalds` | `mcdonalds.c` | the server: threads, list, mutexes, signals |
| `BurgerShop` | PA5 `README.md` | what the server promises, without threads |
| `McDonaldsShop` | | refinement mapping from `McDonalds` to `BurgerShop` |
| `MCMcDonalds`, `MCMcDonaldsShop` | | instances for TLC |
| `McDonaldsProofs` | | theorems about `McDonalds`, and the refinement of `BurgerShop` |
| `DataSegment` | `dataseg.c` | the segment and its break |
| `MemMgr` | `memmgr.c` | the heap, its routines, and a client that calls them |
| `Allocator` | PA3 `README.md` | what the memory manager promises, without blocks |
| `MemMgrAllocator` | | refinement mapping from `MemMgr` to `Allocator` |
| `MCMemMgr` | | instances for TLC |
| `HeapLemmas` | | lemmas about tiled heaps, the free list, merging, growing and splitting |
| `MemMgrProofs` | | theorems about `MemMgr`, and the refinement of `Allocator` |
| `CsapSh` | `csapsh.c`, `jobcontrol.c` | the shell, its handlers, its children, the keyboard |
| `MCCsapSh` | | instances for TLC |
| `CsapShProofs` | | theorems about `CsapSh` |
| `Parser` | `parser.c` | the line parser, token by token |
| `ParserProofs` | | theorems about `Parser` |
| `McClient` | `client.c`, `net.c` | client threads, byte streams, the server's side of the talk |
| `McClientProofs` | | theorems about `McClient` |
| `DirTree` | `dirtree.c` | the traversal, against a tree given as a constant |
| `MCDirTree` | | the trees |
| `DirTreeProofs` | | theorems about `DirTree` |
| `DataLemmas` | | lemmas about sets of numbers, sequences and sums, for the proofs |

`Parser` and `McClient` need no instance module: their constants are numbers and sets of
strings. The modules of different labs share nothing, as the labs do. `McClient` and
`McDonalds` are two views of one connection: the first has the bytes and of the server only
who talks when; for the second a line arrives or does not.

An operator whose name ends in `Wrongly` is a slip the code might have had; no
specification uses it. It shows that the property it breaks says something.

### McDonalds

Each action is one step of one thread between two points where another thread can
be observed.

| code | actions |
|------|---------|
| `start_server` | `Accept`, `Admit`, `Refuse`, `Spawn`, `DetachUndefined`, `AcceptFails` |
| `sigint_handler`, `sigint_handler2` | `Interrupt`, `ExitAfterSleep`, `SecondInterrupt` |
| `serve_client` to the request | `Visit`, `Welcome`, `Receive`, `ReceiveNothing`, `Reject` |
| `issue_orders` | `StartIssue` (part of the receive), `Issue`, `Issued` |
| `serve_client` after it | `Wait`, `SpuriousWakeup`, `HandOver`, `SkipHandOver`, `CleanUp`, `Leave` |
| any `put_line` to a peer that is gone | `SendKills`: SIGPIPE, which nobody handles, ends the process |
| `kitchen_task`, `get_order`, `order_left` | `KLoop`, `KPeek`, `KSleep`, `KDequeue`, `KDequeueNothing` |
| `make_burger` | `KLockOrder`, `KCookFirst`, `KCookCopy`, `KCookAppend`, `KUnlockOrder` |
| the end of `kitchen_task`'s loop | `KDecrement`, `KSignal`, `KCount` |

A critical section under `server_ctx.lock` is one step, guarded by `~lock`; only the
acceptor keeps the lock over several steps (it sends the refusal with it), and a
SIGINT handled at that moment keeps it until the process exits. `order_mutex` is
modelled (`holder`) because `make_burger` runs several steps under it.

*Data.* A node is its customer and its position in the request; the burger types are
model values; the order string is the sequence of positions whose names are in it,
with `Junk` for bytes read past a missing terminator. `list.count` is unsigned:
`COUNT_MOD` stands for 2^32. The sequence `list` stands for the `next` pointers:
`tail->next` is only written when `tail` is live (`TailDangling` says when not).

*Undefined behaviour.* A step that reads a freed node or object, the first
element of an empty `order_list`, or an uninitialized `tid`, moves `proc` to
`"undefined"`, where everything stops: any further behaviour is possible there and
none is claimed.

*Time.* `sleep(1)` in `make_burger` is a delay and no synchronization: in the model it
orders nothing, and a kitchen may finish the last burger of an order before its serving
thread calls `pthread_cond_wait`. The signal is then lost. `Forgotten` describes a customer
whose signal is past and who will never be woken; nothing assumes that there is none.

*Faults.* The constant `Faults` says which misbehaviour of the environment a run
admits: `spurious_wakeup`, `peer_closes`, `net_error` (a call fails, or SIGPIPE),
`no_memory` (for the welcome message), `no_thread`, `accept_error`,
`stale_heap` (a fresh block is followed by a non-zero byte).

### BurgerShop and the refinement

The shop has customers outside, inside, with an order, served, forgotten, refused or gone;
the set of burgers made of each order; and whether it is open. `McDonaldsShop` maps a
thread's program counter to a phase, a burger in the order string to a made burger, and a
`Forgotten` customer to a forgotten one. `Forget` is a concession to the code: PA5's
README.md (line 147) promises that the last kitchen wakes the thread. It can only happen
when all burgers are made, the seat stays taken, and hand-over is promised (`WF` of
`HandOver`) only to customers who are not forgotten.
A connection is inside from the moment the acceptor has counted its seat.

### MemMgr

The program is sequential: what is hard is the sequence of calls. The heap is the
record `heap`: `mem`, a map from word addresses to words (a tag, a list pointer, or
a value the client stored), the pointers `heap_end` and `ds_heap_brk`, and the policy.
The macros of `memmgr.c` are operators of the same name, and so are its routines:
`place`, `coalesce`, `extend_heap`, `add_free_block`, `remove_free_block` and the API
take a heap and return one (with a pointer where the code returns one). An action is
one call of the API; what a routine does not write stays, so pointers and tags of
former blocks remain in memory as they do in the program.

| code | definitions |
|------|-------------|
| `mm_init` | `mm_init`, in `Init` |
| `mm_malloc`, `mm_calloc`, `mm_free` | `malloc`, `calloc`, `free`; actions `Malloc`, `Calloc`, `Free` |
| `mm_realloc` | `realloc` with `Adjust`, `Shorten`, `Expand`, `Moved`; action `Realloc` |
| `bf_get_free_block_implicit`, `_explicit` | `BestFit` of the walk `Blocks` or `FreeList` (both a `Walk`) |
| the double-free tests (555, 615) | action `FreeAgain` |
| `ds_sbrk` | `SbrkFits`, `ds_sbrk` |
| the client (`mm_test.c`, the driver) | `Slot`, `at`, `len`, `Store`, and `stale`, the pointer freed last |

*Data.* Addresses are bytes, accesses are words; a request size is in bytes, so the
rounding is the code's, and `SIZE_MOD` stands for 2^64: sizes are computed modulo it, and
`Signed` is the conversion of a `size_t` to an `intptr_t`, which `extend_heap` makes when it
calls `ds_sbrk` and the pointer macros make when they add a size to a pointer. So a size of
2^63 or more is a decrement of the break. A word that only partly lies in
the client's bytes is neither stored nor compared. `CHUNKSIZE` and `SHRINKTHLD` are
constants. The client uses what it holds: it stores inside its region, and it frees a
pointer twice only while the memory was not handed out again, since after that the
pointer is somebody else's.

*Allocator* holds a region (address, length, content) per slot. A call may fail and
then changes nothing; a region lies inside the heap and apart from all others; `Calloc`
zeroes; `Realloc` keeps the words both sizes have; no call touches another region.

### CsapSh

A step of the shell ends where a handler, taken between two of its statements, could see
or change what the next statement uses.

| code | actions |
|------|---------|
| `main`, `eval` | `TypeJobs`, `Begin`, `Fork`, `ForkFails`, `AddJob`, `NextJob`, `Quit` |
| `jobs` (`listjobs`) | `TypeList`, `ListNext` |
| `bg`, `fg` (`do_bgfg`) | `TypeBgFg`, `FindJob`, `Restart`, `SetState`, `ReadJid` |
| `getjob_jid` in `do_bgfg`, `printjob`, `waitfg` | `Walk`, and `Found` when it ends |
| `printjob` | `FindShown`, `ShowJob` |
| `waitfg` | `WaitLookup`, `WaitTest` |
| `sigchld_handler` | `TakeChild`, `Reap`, `Stop`, `Resume` (one per result of `waitpid`), `HandlerEnds` |
| `sigint_handler`, `sigtstp_handler` | `TakeKey`, `ForwardKey` |
| a child up to `execvp` | `Place` (pipes and group), `Exec` |
| a child that is a built-in | `Exec`; `ForkedBgFg` for `bg` and `fg` |
| kernel, programs, user (external) | `Deliver`, `Exit`, `Raise`, `Keyboard` |

A `Job*` is the pgid of its job: unique, because a pid is used once here. A pointer
whose job has left the list dangles, and a step that follows it makes the shell
`"undefined"`, where everything stops. A lookup walks down the list: while it is at an entry,
the SIGCHLD handler may free just that one. (The lookups by pid or pgid that `do_bgfg` begins
with are in the step `TypeBgFg`, and the lookup of the foreground job in the key handlers is
one step, although SIGCHLD may interrupt these, too.)

A built-in in a pipeline, in the background or with an output file runs in a child. `bg` and
`fg` then act on the child's `copy` of the table, as it was at the fork: they continue the
real group of a job that was stopped then, and `fg` waits for a change of its copy that no
handler will ever make.

`Lines` are what `parse_cmdline` returns, so the
shell and the parser meet in the type `ParsedJob`. Pending signals are sets, since the
kernel keeps no more than one of each.

### Parser

A step is one iteration of the loop of `parse_cmdline`, with one token: `Pipe`,
`Redirect`, `Background`, `Newline`, and the cases of `default`: `Argument`, `FileName`,
`Misplaced`, `Unquoted`, `OutOfMemory`, `CutOff`. `free_cmdstruct` follows. The line is
chosen while it is read, so all lines are tried. An argument is its position in the line:
the code's strings are only compared with positions, never looked into. `Grow` is the
`realloc` and the loop that clears what is new, used for the three levels of arrays with
the code's own conditions (`JobsGrow`, `CmdsGrow`, `ArgsGrow`). Lexing is left out: which
characters end a word, and that `&` is an operator only where a word would begin. On a line
that was cut off there is no newline to end the last token: the scan stores empty arguments
for ever (`"endless"`), or runs on behind the line if it looks for a quote (`"overrun"`).

### McClient

Every thread has a connection with two ends, and a step of an end is one call of `send`
(`SendSome`, `SendFails`, `SendKills`) or `recv` (`ReceiveByte`, `ReceiveNothing`,
`ReceiveFails`).

| code | actions |
|------|---------|
| `main` | `Create`, `CreatedAll`, `Join`, `JoinedAll` |
| `thread_task` | `Open`, `CannotOpen`, `Connect`, `CannotConnect`, `Close`, `CloseAgain`, `ReadWelcome`, `Choose`, `SendOrder`, `Clear`, `ReadReply`, `Leave` |
| `mcdonalds.c`, its side of the talk | `Greet`, `Refuse`, `Listen`, `Cook`, `Answer` |
| the network (external) | `Reset` |

A burger's name, with what is printed around it, is one byte. `sent` and `read` are
`size_t`, so -1 is not an error for the client, and the model follows that. A broken
connection can end the whole process (SIGPIPE).

The threads share the table of descriptors: `sock` is a thread's `serverfd`, `file` says
which connection a descriptor stands for now, and `socket` returns the lowest that is free.
After a failed `connect` a thread closes its descriptor twice (`Close`, client.c:90, and
`CloseAgain`, client.c:97 with 58-60), and in between another thread may have got the same
number. A thread that is in `recv` on a descriptor somebody else closes may stay there
(`held`). `Intact` says of a thread that its descriptor is still its own.

### DirTree

A path is the sequence of its names, a name is its rank. `stack` holds the activations of
`processDir`; `ReadEntry` and `Sort` are `readDirEntries` and `qsort`, `Overrun`,
`NoMetadata` and `Entry` the three ways of an entry, `Return` is `closedir`; `Parse`,
`Directory`, `Summary`, `Total` are `main`, `Panic` is a failed allocation. `Contents` says
what the pointers in `entries` show after the last `readdir`: the buffer of a stream is
used again after `CHUNK` entries. `out` has a record per printed line.

`readdir` returns the entries in any order, and `qsort` leaves equal ones in any order
(two slots of the array that show the same name are equal).

The promise is stated without recursion: `Lines` is the set of lines a directory should
have, `Precedes` the order of any two of them, `Counts` how many reached entries are in
each class and the sum of their sizes. `Fits` says that no directory is larger than the
buffer of its stream.

## 3. Runs

| run | question | instance | states |
|-----|----------|----------|--------|
| `Faulty` | Do counts, list, order string, statistics and seats survive everything that can fail? | 2 kitchens, 2 connections for 1 seat, 3 burgers, all faults but `stale_heap` | 2.0 M |
| `Live` | Does a woken thread find its order complete and stable, and is freed memory left alone? Is a signal lost only to a thread that does not wait yet? Is every other order served, unless a SIGINT ends the process? Is the shop implemented, its fairness included? | 2 kitchens, 2 connections for 1 seat, 2 burgers, no faults; fair | 214 k |
| `EarlyClose` | (violated) Does a kitchen stop only when no order is left? | 2 kitchens, 2 customers | 42 k |
| `Memory` | Do blocks tile the heap and does the free list match after any calls? Is the abstract allocator implemented? | 3 slots, sizes 0, 16, 49 and one that is a decrement, heaps of 2 to 6 units of 32 bytes, both policies | 71 k |
| `Shell` | Do table, handlers and children agree at every point where a signal may come? | 3 processes: a pipeline of 3 in the background, `program & bg > file`, `fg`, `bg`, `jobs`, Ctrl-Z, failing forks | 1.2 M |
| `Prompt` | Are zombies reaped, and does the shell stop waiting? | 2 processes: a pipeline of 2, a background program, `fg > file`, Ctrl-C, programs that stop themselves; fair | 26 k |
| `StopIsLost` | (violated) Does `fg` stop waiting for a job that stops? | 1 process | small |
| `SameGroup` | (violated) Are all processes of a job in its group? | a pipeline of 2 | small |
| `Parser` | Are the grammar's lines accepted, besides them only those named below, and is what is built the line? | every line of up to 12 tokens, arrays that grow by 2, failing allocations | 93 k |
| `RedirectionOrder` | (violated) Is an accepted line one of the grammar? | every line of up to 5 tokens | small |
| `Client` | Do lines arrive whole, is a reply to the thread's own order, and does the client end? | 2 threads, one of two burgers each, buffers of 2 bytes, all faults, one reset; fair | 567 k |
| `Tree` | Is the listing the tree, in order, and are the counts right? | 4 trees of up to 9 paths, all options, up to 3 arguments, every order of `readdir` | 24 k |

*Why the bounds are enough.* The races are between two kitchens (the last node of
the list, one order string, the last decrement), between a kitchen and a serving
thread (signal and wait, cook and free), between two customers (one's nodes behind
the other's freed tail, one's seat for the other), and between each and the acceptor
or SIGINT. Two of each, with one to three burgers, produce all of them; three burgers
give a first name and two appended ones, hence a copy that another kitchen could
overtake. The theorems below cover every number for the safety properties.

For the memory manager, three regions are two neighbours of a block that is freed
between them, and with two sizes every path is taken: all four cases of `coalesce`, exact
and split best fit, growth into a next block that is too small, exact or too large,
moving, growing the heap with and without a free last block, shrinking it, and a
segment that is full. The sizes 16 and 49 lie on either side of a rounding boundary, and
2100, with a `SIZE_MOD` of 4096, is a decrement that `ds_sbrk` refuses. A decrement that is
carried out is in no run: after it none of the properties holds (see below).
`View` in `MCMemMgr` identifies states that differ only in words nothing reads before
they are written (inside free blocks, behind the break, behind the client's bytes).

For the shell, three processes are a pipeline with a middle command (which reads one
pipe and writes another) or two jobs at a time, one of which may leave the middle of the
list; two of a pipeline can end, stop or be signalled in either order. The second
instance is smaller because of the liveness properties, and has what the first lacks:
Ctrl-C, programs that stop themselves and a forked `fg` that continues one. Pids are not
reused.

For the parser, `GROW` is 2 instead of 8, so that each of the three arrays grows several
times within twelve tokens, at every phase of a job or a command. For the client, the
smallest buffer must be doubled for the first line already, and the second thread is there
because a SIGPIPE of the first ends both, because the two share descriptors, and because a
reply could be to the other's order: with two burgers the orders may differ.
`BURGER_NUM_RAND` is 1 as in `burger.h`, `MAX_BURGERS` is 1 instead of 5, so an order is one
burger. One of the two connections may be reset; the invariants also hold when both may (2.3
M states), which takes too long with the liveness property. In `Tree`, `WIDTH` is 8 instead
of 54 and an array of entries starts with 1 place instead of 10, so that four levels and
three entries reach both limits; two of three arguments are accepted. The tree `Wide` has a
directory that does not fit into the buffer of its stream; `ListsTheTree` and
`CountsTheTree` claim nothing about it (see below).

*Deadlock.* The runs of `McDonalds` and `MemMgr` check it (`Stopped` is the only way to do
nothing; that every thread may wait for ever is not a deadlock there, as a SIGINT can always
come). The others say `CHECK_DEADLOCK FALSE`, because the programs may really stop: a
shell that has exited, a line that has been answered, a client whose `main` has
returned, a listing that is complete.

*Symmetry* is used in safety runs: kitchens and connections are interchangeable
in every definition, and so are slots. The liveness runs use none. `View` of `MCCsapSh`
identifies the states of a shell that has ended.

*Fairness.* Weak fairness of each thread's own steps: the scheduler eventually runs a
thread that can run, `sleep` returns, a mutex is passed on (finitely many
customers and burgers pass through each). `Arrives` is fair: a connected client sends
its line, as `client.c` does. Nothing obliges a client to connect or a user to
press Ctrl-C. In the shell, the main loop's own steps are strongly fair, because keys may
interrupt it again and again and each time disable them for the length of a handler;
handlers, children before `exec` and the delivery of a pending signal are weakly fair.
Neither the user nor a program is obliged to do anything: a program may run for ever. In
the client, each thread and `main` are weakly fair, the server's side is not: `mcdonalds`
leaves connections unserved (488, 277). `ClientEnds` therefore says that the client ends, or
is killed, or that from some time on a thread sits in `recv` on an open connection on which
nothing comes (`Starved`). What it does exclude is that a thread hangs or spins once the
server has answered or closed, or the network has broken.

`EveryOrderIsServed` promises that the burgers of an order are made, and a hand-over to a
thread that waits before the last of them is finished; `ImplementsShop` the same in the terms
of the shop. Nothing is promised to a thread that comes later.

### What the violated runs show

1. `EarlyClose`: `get_order` tests `head` without the lock (mcdonalds.c:174) and decrements
   `count` with it even if the list is empty by then (187).
2. `StopIsLost`: `do_bgfg` assigns `jsForeground` (csapsh.c:392) after it has tested the
   state (381); a stop the handler recorded in between is overwritten, and `waitfg` waits
   for a job that has stopped (jobcontrol.h:55).
3. `SameGroup`: children call `setpgid` on their own (csapsh.c:279-284); the second fails if
   the first has not made its group, and stays in the shell's (jobcontrol.h:71).
4. `RedirectionOrder`: `parse_cmdline` takes `<` after the name of an output file (parser.c:182),
   so `cmd > out < in` is accepted, whereas parser.h:56 puts the input first. The property
   leaves aside the blank line, which is accepted with no jobs (parser.h:61 asks for one).

### What the models show besides

States in which the code leaves its promises are in the models, and no property
excludes them by assumption without saying so here.

*Server.* `pthread_cond_signal` is sent without `cond_mutex` and `pthread_cond_wait` is not
guarded by `remain_count` (277, 384). If the last burger of an order is finished before its
serving thread waits, the signal is lost and the thread waits for ever, on its seat,
although PA5's README.md (147) says that it is woken up. Only the `sleep(1)` of `make_burger`
makes that rare. No property assumes it away: `OnlyEarlySignalsAreLost` says that this is the
only way to lose one, and the liveness properties except such a customer. A
spurious wakeup makes `serve_client` skip the hand-over and free objects in use. A client
that closes leads to `order_list[0]` of no orders (348, 381), or, while the server
sends to it, to a SIGPIPE that ends the server. A failed `asprintf` of the
welcome message keeps its seat for good (`"leaked"`), and so does a failed
`pthread_create`. The first SIGINT exits without `print_statistics` (534); when it comes
while the acceptor sends a refusal, the lock stays taken until the process exits.
`make_burger` copies the first name without terminator (230), which shows when the heap is
dirty (`stale_heap`). If the reply cannot be sent, the request's objects are never freed (393).

*Memory.* The block `mm_realloc` splits off (569-574) is not coalesced with a free one
behind it. The heap can shrink to the very header of a block freed before, whose double
free is then not recognized; `FreedIsRecognized` and `FreeAgain` speak of headers below
`heap_end` only. `nmemb * size` (538) and `size + 47` (514) are not checked for
overflow. A size of 2^63 or more reaches `ds_sbrk` as a decrement (440): most are refused,
but one within the heap's size of 2^64 succeeds, and the break and the end sentinel come
down into the blocks. `extend_heap` does that in the model, and no run gives it such a size.

*Shell.* A forked `fg` waits for ever, and a forked `bg` or `fg` knows only what was stopped when
it was forked. A `Job*` may be freed by the SIGCHLD handler while `waitfg`, `do_bgfg`, `listjobs`,
`printjob` or a key handler holds it: the state `"undefined"` is reachable from each. A
child that gets Ctrl-C or Ctrl-Z before `exec` runs the shell's handler and ignores it. A
job continued from outside stays `jsStopped` in the table. A process whose fork failed
is never counted down, so its job stays for good. The last command but one of a pipeline
keeps the read end of its own output pipe (165 tests `cmd_idx < num_pipes-1`, against the
comment at 156-158), so it never gets SIGPIPE.

*Parser.* A line that begins with a redirection reads `infile[0]` of no array (170); a line
that `fgets` cut off stores arguments for ever (230-243), or is read beyond its end when its last
argument is quoted (232). A rejected line is never freed.

*Client.* A refused client takes the refusal for a welcome; a reset connection passes for
a reply (153); a thread that was not created is joined with an uninitialized id. The second
close after a failed `connect` can close the socket of another thread, which then reads
nothing or from a third one's connection, and may pass for served; `NothingSkipped` and
`ServedHasReply` speak of threads whose descriptor is their own (`Intact`).

*Lister.* In a directory larger than the buffer of its stream, entries are listed twice
and others not at all, because the pointers of `readdir` are kept (120). From the 26th
level on, names overrun their 55 bytes (139). Every failure of `opendir` or `lstat` is
printed as "Permission denied". Paths and names of entries that are skipped are leaked
(204, 214, 265). (A block device is shown as `d`, not as `b`; the letter is not modelled.)

## 4. Proofs

A proof holds for every value of the constants; a run of section 3 checks the same
property on one small instance. The proofs of an invariant have one form: an inductive
invariant that implies it, a lemma for the initial states, one lemma per action or group
of actions (with a step per conjunct the action can disturb), and a temporal step. What
several components need is in `DataLemmas`.

### The server

`McDonaldsProofs` proves, for every number of kitchens, customers, burgers
and seats:

| theorem | property | assumption on `Faults` |
|---------|----------|------------------------|
| `TypeCorrect` | `TypeOK` | none |
| `RemainCorrect` | `RemainIsPending` | none |
| `NodesCorrect` | `NodeIsInOnePlace` | none |
| `SeatsCorrect` | `SeatsAreCounted` | none |
| `CooksExclude` | `OneCookPerOrder` | none |
| `StatisticsCorrect` | `BurgersAreCounted` | none |
| `ReplyCorrect` | `ReplyIsTheRequest` | no `stale_heap` |
| `LossesAreEarly` | `OnlyEarlySignalsAreLost` (action property) | none |
| `FreedIsUntouched` | `NoUseAfterFree` | no `spurious_wakeup` |
| `WokenIsCompleted` | `WokenMeansCompleted` | no `spurious_wakeup` |
| `ReplyIsStable` | `OrderStringIsStable` (action property) | no `spurious_wakeup` |
| `ServerImplementsShop` | the safety part of the refinement, `BurgerShop!ShopSafety` | no `spurious_wakeup`, `peer_closes` |

A fault that an assumption excludes is a behaviour the code can really meet, and the property
need not hold with it. The run `Faulty` has all of them but `stale_heap`, and shows which properties
survive; the run `Live` checks the others without faults.

*The inductive invariant.* `Core` says that a kitchen holds a node exactly while it
works on it, that a connection the acceptor handles has no thread yet, that nothing is
issued before the request, that every node in the list or with a kitchen was issued
and is in one place, and that `remain_count` is the number of pending burgers.
`RemainIsPending` alone is not inductive: a decrement is right only if the decremented
node is nowhere else (`NodesApart`), which in turn needs that no node is issued
twice (`NodesIssued`).

*The hand-over.* `Handed` adds that whoever signals saw zero and is alone, and that
a serving thread past its wait has had that signal. A kitchen that still has to
decrement would make the count positive (`DecrementPositive`), so at the hand-over
no kitchen can be between its dequeue and its signal: `DoneIsUntouched`. With it the
string a serving thread reads does not move under it (`ReplyIsStable`).

*The lost wakeup.* That a signal may be lost is the code's doing; `LossesAreEarly` says when.
A customer becomes forgotten in one of two steps: its count reaches zero, but then the kitchen
that brought it there owes the signal; or that kitchen signals, and then a thread in
`pthread_cond_wait` is woken. So the thread is not there yet (`EarlyLoss`).

*The statistics.* `Tallied` identifies `total_burgers[t]` with the set of issued nodes of
type `t` that are neither in the list nor with a kitchen, a set that grows by one node
exactly when a kitchen counts.

*The reply.* `StringIsCooked` says that the order string is, each position once, the
set of positions no longer to be cooked. With a mutex per order (`CooksHold`) the
copy a kitchen made is still the string (`CopyIsString`), so each cooking step adds one
position. At a count of zero nothing is pending, so the string is a bijection with
the request (`StringIsWhole`).

*The refinement.* `Mapped` is what the mapping reads of a state: `Core`, `CopyIsString`,
`Handed`, `SeatsAreCounted`, that a reply is sent after the hand-over (`RepliedIsServed`),
that the string has the names that are no longer to be cooked (`StringIsMade`), and that
only a customer with a request is owed burgers (`OwedIsOrdered`, `OrderedHasRequest`).
The step that loses a signal is `Forget` of the shop: all burgers are made by then.
`PhaseTable` gives the phase of a customer in `BurgerShop` for each position of its
thread. Then every step of the acceptor, of a serving thread and of a kitchen is a step of
the shop or a stutter (`NextImplements`). The shop's fairness stays with the run `Live`.

### The memory manager

`MemMgrProofs`, on the lemmas of `HeapLemmas`, proves for every segment, chunk size,
shrink threshold, both policies and any number of slots:

| theorem | property |
|---------|----------|
| `MemTypeOK` | `TypeOK` |
| `MemTiled` | `HeapIsTiled` |
| `MemListed` | `FreeListIsFreeBlocks` |
| `MemHeld` | `AllocatedIsHeld` |
| `MemRecognized` | `FreedIsRecognized` |
| `MemImplementsAllocator` | `ImplementsAllocator`, the whole refinement |

All have one hypothesis, `SizesInRange`: every size the client passes, and every product it
passes to `mm_calloc`, is below `SizeLimit - 47`, with `SizeLimit = SIZE_MOD - MaxHeapSize`. The
rounding of memmgr.c:514 and the product (538) do not wrap then, and a size that is a
decrement for `ds_sbrk` (440) is one that leaves the segment and is refused: sizes of 2^63
and more are covered except the last `MaxHeapSize + 47` of `size_t`. Of these the theorems say
nothing, and for them the properties are false. The code does not test for them, so not to
pass them is a duty of the client; they are listed as a hazard.

*The heap as a set of blocks.* A walk from header to header is a recursion, and so is a
walk along the list. The invariant has neither. `Tiled(h, B)` says that the blocks `B`
tile the heap: from `heap_start` each block (`IsBlock`: equal tags, a multiple of 32) ends
at another one or at `heap_end`, and of two blocks the first ends before the second
begins. `Listed(h, X)` says that some bijection of `1..n` with `X` is what the next
and prev pointers follow between the two heads (`Chain`). `Good(h, B, X)` is both, for a
set `X` of free blocks: `free_block` by `free_block`, a routine takes blocks out of the
list, writes tags, and puts a block back, and in between `X` is smaller than the set of
all free blocks. `BlocksAre` and `FreeListIs` connect this with the walks of the code:
the walk visits exactly `B`, and the list, of at most `MaxList` elements, exactly `X`.

*The routines.* Each has a lemma of the form: from `Good`, what tiles the heap afterwards,
what is in the list, and which words are the same (`Kept`: every word of the other
allocated blocks). `CoalesceEffect` merges up to three blocks and may shrink the heap,
`ExtendEffect` grows it, `PlaceEffect` splits; `MallocEffect`, `CallocEffect`,
`FreeEffect` and `ReallocEffect` compose them. `Reallocates` includes that the words of
the old region are in the new one, although mm_realloc copies the whole old payload
(601): the new block is larger then.

*The inductive invariant.* `Sound` (as `MemInv`) is: some `B` with `Good(heap, B, X)` for all the free
blocks `X`; the slots own the allocated blocks, one each and of the size that `BlockSize`
gives (`Owned`); and `SaysFree`. `FreedIsRecognized` alone is not inductive: the header of
a freed pointer is, after merges and splits, often no header any more but a word inside
another block. `SaysFree` therefore says of such a word that it lies in no block
of the client, that no routine writes anything else there than a header that says FREE,
and that it may be where the heap ends. A heap that shrinks below it comes with a new
freed pointer, which takes its place.

*The refinement.* Two regions are apart because their blocks are and a block is at least
16 bytes larger than its region (`RegionsApart`, `BlockSizeIs`); a region's contents stay
because its block is `Kept` (`OthersKeep`); `CallocEffect` and `Reallocates` give the new
contents. A call that fails, and a second `mm_free` or `mm_realloc` of a freed pointer
(`AgainChangesNothing`), are stutters.

### The shell

`CsapShProofs` proves, for any number of processes and all lines, keys and programs:

| theorem | property |
|---------|----------|
| `ShellTypeOK` | `TypeOK` |
| `ShellCountsProcesses` | `ProcessesAreCounted` |
| `ShellIdsDescend` | `JobIdsDescend` |
| `ShellHandlerFindsJob` | `HandlerFindsJob` |
| `ShellAwaitsForeground` | `ForegroundIsAwaited` |
| `ShellReaderSeesEnd` | `ReaderSeesEnd` |

They need `ShellAssumption` only (a finite set of processes, and at most as many commands
in a line as the model forks).

*The inductive invariant.* `Typed` has the types, and what `eval` holds while it starts a
line (`LineHeld`: SIGCHLD is blocked from the first fork until the job is added). `TableInv`
is `JobIdsDescend`, `JobsAreForked`, `PidsAreForked`, `ChildrenAreKnown` and
`ProcessesAreCounted`: each process has one place in one pid array (`spot`, where it was
forked for), and `nproc_cur` is the number of places whose process is not reaped. The
count is right only because of the places: a reaped child is in exactly one job. A child
is unknown to the table only while SIGCHLD is blocked, so the handler never dereferences a
null job. `UnlistedIsFree` (a job not in the list has its initial value) closes the type
invariant, `Awaited` (`ForegroundIsAwaited` and `TestedHasJid`) follows the main loop from
`addjob` or `fg` to `waitfg`, and `Ends` (`EndsAreHeld`, `ShellEnds`, `ChildEnds`) says
which pipe ends each process still has open: after the forks only a pipe's writer has its
write end, so that its reader sees the end of its input.

### The client

`McClientProofs` proves `ClientTypeOK` (`TypeOK`), `ClientNothingSkipped`
(`NothingSkipped`) and `ClientServedHasReply` (`ServedHasReply`), for any number of threads,
any line, any partial read or write, any buffer length, any resets and any double closes.
The last two are about threads whose connection was not reset and whose descriptor no other
thread has closed (`Intact`): the code promises nothing to the others, who do not notice. The
inductive invariant `Talks` gives for each such connection the joint states of its two
ends: at each one, what was read, what is on its way and what is still to be sent are
together one line (`Conveys`), or nothing is there (`Unused`). `get_line` reads byte by
byte, so nothing of the next line is ever in the buffer of this one; that is what
`NothingSkipped` needs. `NotStarted` says that main starts a thread once.

### The parser

`ParserProofs` proves `ParserTypeOK` (`TypeOK`), `ParserArraysHold` (`ArraysHold`),
`ParserTakesTheGrammar` (`TakesTheGrammar`) and `ParserBuildsTheJobs` (`BuildsTheJobs`), for
lines of any length, any growth of two or more and allocations that fail anywhere.

*The arrays.* `ArraysHold` is about arrays that are complete; inductive is only what also
describes the one being filled. `Filled` says of the current command that its capacity is
what the code counts in `argMax`, that the arguments from `argIdx` on are NULL and that
there is at least one of them; `Fill` says the same of the current job's commands, with
`cmdIdx` and `cmdMax`, and that the earlier ones are complete; `OtherJobs` says of the earlier
jobs that they are complete and of the later ones that they are empty. A capacity is
reset at `|` and `&` before the index moves on to an element that is still NULL, which is
why capacity and array never differ (`NextCommandFills`, `NothingFills`). `SpareJob` is the
entry behind the current job that `&` moves on to: it is allocated by the first argument of
the job, so that a redirection after `&` finds its entry. `NoArrays` confines the missing
entry to the beginning of the line, and `Counted` bounds the number of jobs.

*The grammar.* `InGrammar` is the grammar of parser.h:54-59. `TakesTheGrammar` says which lines
`parse_cmdline` accepts: these, the blank line, and those that differ only in a redirection of
the output before one of the input (`Reversed`); no line of the grammar is refused unless
memory runs out. That the last two kinds are not of the grammar is what the run
`RedirectionOrder` is about. The grammar counts the `&` before each token; the code has a state and two
file names. `MayCome` says which token may follow a line, by the last token and by the
redirections of the current job alone, and `ViableAppend` proves that this is what
`MayFollow` says of the longer line. `Reading` is then the relation between the two:
`LastFits` gives the last token for each state, `SeenFits` says that a redirection was seen in
the current job exactly if its file name is set or is the one awaited, and `FilesFit` that no
entry that is to come has a file name. So each error is at a token that may not come, and each
other token may.

*The jobs.* `BuildsTheJobs` is about a line that was accepted; its inductive invariant `Full`
is `Grammar`, the invariant of the two paragraphs above, with `Built`: while the line is read,
`Building`, and when it is accepted, `Finished`. `Building` says where the next token belongs
(`Position`: the job and the command that the operators before it count are `jobIdx` and
`cmdIdx`, from zero), what the entries before the current one hold (`Done`: a job as `JobBuilt`
has it, in the background), the current one (`Current`, a `Progress`: complete commands are
`Listed`, with a NULL behind them, and the first `argIdx` arguments of the next are its
arguments, `Filling`), and that the later ones are still empty (`Coming`). A token changes the
words of one command of one job: `WordsAppend` says which, and `BuiltAppend` that every other job
stays as it is. `Completed` is the end of a job, at `&` and at the newline: its last command
and its list of commands get their NULL, which is there because `Filled` left room for it.
`WalkStops` and `CommandsLemma` say that the walks of the readers end just there. That
`free_cmdstruct` frees the words of the line, no more and no less, also needs that a job has one
file of each kind (`OneFile`), which is the grammar's doing: a second file name would overwrite
the first.

### The lister

`DirTreeProofs` proves, for every finite tree, every list of arguments, all options, any order
of `readdir` and allocations that fail anywhere:

| theorem | property |
|---------|----------|
| `DirTreeTypeOK` | `TypeOK` |
| `DirTreeListsTheTree` | `ListsTheTree` |
| `DirTreeCountsTheTree` | `CountsTheTree` |

The last two claim, as the properties do, nothing about a tree with a directory larger than the
buffer of its stream (`Fits`): the code lists such a directory wrongly.

*Where the traversal is.* An induction over the tree is out of reach, and none is needed: the
invariant `Walked` speaks of all paths at once. `Places` says that the activations are on one
path of the tree, each the entry that the one below has passed last (`ChainOf`, `Through`), and
that the entries of each are its children, each once and sorted before the first is passed
(`EntriesOf`; only here `Fits` is needed). A path is pending (`PendingIn`) if it is at or below an
entry that one of the activations has still before it. `Output` then says what is printed at any
moment: all lines of the earlier arguments, and of the present one those whose path is not
pending, in order. Passing an entry that is not opened takes one path from the pending ones;
opening a directory takes the directory itself and leaves what is below it; a return takes
none. The entry that is next precedes all that is pending and follows all that is printed,
and that is what keeps the lines in order.

*The counts.* `Totalled` adds `Tally`: the statistics of the directory count the reached
paths that are not pending (`Visited`), and the totals are the sums over the arguments that
are done. Each step adds one path to `Visited` and one entry to the count of its class; the
sums are `SumFunctionOnSet` of the community modules, a fold that the lemmas of `DataLemmas`
take apart (`SumEmpty`, `SumAdd`).

### Assumptions

Besides those above, the named assumptions of the modules: `ThreadsAssumption` (finitely
many threads, and `Nobody` is none of them), `RequestsAssumption` (requests have 1 to
`MAX_BURGERS` burgers), `NumbersAssumption`, `SegmentAssumption` and `MemMgrAssumption`
(alignment of the segment and the thresholds, as dataseg.c and memmgr.c have them),
`ShellAssumption`, `ClientAssumption`, `ParserAssumption` (arrays grow by at least two, and lines
have a longest length), `DirTreeAssumption` (finite trees; sizes are natural numbers, names have
a length). TLC evaluates each in a run.

### Only model-checked

Every invariant of every run that passes is a theorem, and so are its action property and the
refinements, that of `BurgerShop` without its fairness, each under the hypotheses named above.
What stays with TLC:

- Liveness. `ENABLED` and fairness are out of the prover's reach, so `EveryOrderIsServed` and the
  fairness in `ImplementsShop` (run `Live`), `ZombiesAreReaped`, `EndedJobIsLeft` and
  `StoppedJobIsLeft` (run `Prompt`) and `ClientEnds` (run `Client`) are checked on small
  instances only.
- What a recursion computes. The induction theorems of the library take an operator as a
  parameter, which the provers cannot instantiate. Where the proofs need an induction over
  numbers it is over a set: `LeastNatural` and `NatSetInduction` of `DataLemmas`. The walks
  of the memory manager are proved that way.
- The four runs that expect a violation.

## 5. Not modelled

- Requests of more than `MAX_BURGERS` burgers: `types[]` has no room for them and
  `client.c` never sends one.
- Failures of `malloc` and of `asprintf` other than the welcome message's.
- The socket set-up, the printed text and the banner.
- Memory protection by `ds_sbrk`, `ds_release`, log levels and the text of `mm_check`.
- In the shell: redirection to files and its failures, the options of `main`, reuse of
  pids, SIGCHLD inside the lookup of a key handler.
- In the network helpers: `getsocklist` (its result is whether one can connect) and
  `dump_sockaddr`, which prints.
- In the lister: the layout of lines, owners and permissions as text, `lstat` failing for
  one entry of a directory only, file systems that do not fill in `d_type`, files that
  change during the traversal.
- `blocklist.c`, `nulldriver.c` and `mm_test.c`: a sorted list of blocks and drivers that
  call the memory manager from one thread and print; `MemMgr` makes these calls in every
  order.

## 6. Plan

1. *Done:* the server, its abstract specification, its safety proofs.
2. *Done:* the memory manager and its abstract specification.
3. *Done:* the shell with job control, the parser, the client with the network helpers,
   the lister.
4. *Done, proofs:* every invariant that a passing run checks, in all six components; the
   action property of the server; both refinements, that of `BurgerShop` without its fairness.
5. *Left:* the liveness properties stay model-checked, since the prover has no rule for them.
   The hazards without a property are in `PROJECT.json`, each with its reason: mostly the code
   breaks there what one would like to state, and nothing in the repository promises it
   (seats of connections without a thread, the pointers that built-ins keep while a job is
   freed, the second close of the client, a directory larger than its buffer). Not modelled at
   all is what section 5 lists.
