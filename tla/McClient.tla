------------------------------ MODULE McClient ------------------------------
(***************************************************************************)
(* The client of the burger server, src/PA5/src/client.c, and the line     *)
(* transfer of src/PA5/src/net.c that both programs talk with.             *)
(*                                                                         *)
(* Every thread of the client opens one socket, whose connection has its   *)
(* number and two ends.  A step of an end is one call of send, which may   *)
(* take only some of the bytes, or of recv, which get_line makes for one   *)
(* byte.  (A call that returns with EINTR is repeated and changes          *)
(* nothing.)  The threads of the client share its descriptors: a number    *)
(* that is closed twice may be another thread's by then.  Of the server    *)
(* only its side of the talk is here; McDonalds is about the rest.         *)
(***************************************************************************)
EXTENDS Integers, Sequences, FiniteSets, SequencesExt

CONSTANTS NumThreads,   \* num_threads
          Burger,       \* the names of the burgers
          MAX_BURGERS,  \* longest order
          BURGER_NUM_RAND, \* whether the length of an order is random
          BUF_SIZE,     \* first size of a line buffer
          Faults,       \* what may go wrong
          MaxResets     \* bound of the model: with so many connections reset,
                        \* the network resets no other

(***************************************************************************)
(*   no_socket:  socket fails                                              *)
(*   no_server:  connect fails                                             *)
(*   full:       the server has no seat left and says so                   *)
(*   reset:      the network breaks a connection                           *)
(*   no_thread:  pthread_create fails                                      *)
(***************************************************************************)
ASSUME ClientAssumption ==
       /\ NumThreads \in Nat /\ MAX_BURGERS \in Nat \ {0}
       /\ BURGER_NUM_RAND \in BOOLEAN /\ BUF_SIZE \in Nat \ {0}
       /\ "\n" \notin Burger /\ MaxResets \in Nat
       /\ Faults \subseteq {"no_socket", "no_server", "full", "reset", "no_thread"}

Thread == 1..NumThreads
Side == {"client", "server"}
End == Thread \X Side
Client(t) == <<t, "client">>
Server(t) == <<t, "server">>
Peer(e) == IF e[2] = "client" THEN Server(e[1]) ELSE Client(e[1])

\* A name, with the text around it, is one byte.
NL == "\n"
Byte == Burger \cup {NL, "hello"}
Welcome == <<"hello", NL>>
Refusal == <<"hello", NL>>
Order == UNION {[1..n -> Burger] :
                  n \in IF BURGER_NUM_RAND THEN 1..MAX_BURGERS ELSE {MAX_BURGERS}}

VARIABLES
  proc,    \* per side: its process
  mpc, i,  \* main: which loop it is in, and the loop's i
  pc,      \* per end: where thread_task, or the server's talk, is
  line,    \* per end: the line last given to put_line
  out,     \* per end: what transfer_data has not sent of it
  wire,    \* per end: the bytes on their way to it
  buf,     \* per end: (*buf)[0..pos-1] of its last get_line
  curLen,  \* per end: *cur_len
  broken,  \* the connections that are reset
  sock,    \* per thread of the client: serverfd, 0 for none
  file,    \* per descriptor of the client: its connection, 0 for none
  held     \* per thread: the connection of a recv that still waits on it
           \* although its descriptor has been closed, 0 for none

mainVars == <<mpc, i>>
lineVars == <<line, out, wire>>
bufVars == <<buf, curLen>>
fileVars == <<sock, file, held>>
vars == <<proc, mainVars, pc, lineVars, bufVars, broken, fileVars>>

Init ==
  /\ proc = [s \in Side |-> "running"]
  /\ mpc = "create" /\ i = 1
  /\ pc = [e \in End |-> "none"]
  /\ line = [e \in End |-> <<>>] /\ out = [e \in End |-> <<>>]
  /\ wire = [e \in End |-> <<>>] /\ buf = [e \in End |-> <<>>]
  /\ curLen = [e \in End |-> BUF_SIZE] /\ broken = {}
  /\ sock = [t \in Thread |-> 0] /\ file = [f \in Thread |-> 0]
  /\ held = [t \in Thread |-> 0]

Ended == {"gone", "closed"}
At(e, p) == pc[e] = p /\ proc[e[2]] = "running"

\* The connection that a call on the descriptor of e is about, and its ends.
On(e) ==
  IF e[2] = "server" THEN e[1]
  ELSE IF held[e[1]] # 0 THEN held[e[1]]
  ELSE IF sock[e[1]] # 0 THEN file[sock[e[1]]] ELSE 0
Near(e) == <<On(e), e[2]>>
Far(e) == Peer(Near(e))
Connected(e) == On(e) # 0 /\ pc[Server(On(e))] # "none"

\* The client's end of a connection is open as long as a descriptor, or a call
\* that was made with one, refers to it.
Closed(e) ==
  \/ proc[e[2]] # "running"
  \/ e[2] = "server" /\ pc[e] \in Ended
  \/ e[2] = "client" /\ \A t \in Thread : file[t] # e[1] /\ held[t] # e[1]

-----------------------------------------------------------------------------
(* net.c.  An operator whose name ends in Wrongly is what the one after it *)
(* would be with a plausible slip in the code; only the mutants of         *)
(* PROJECT.json use it.                                                    *)

\* put_line: what it sends of a string, its newline included.
Terminated(s) == IF Last(s) = NL THEN s ELSE Append(s, NL)
PutLine(e, s) ==
  line' = [line EXCEPT ![e] = Terminated(s)] /\ out' = [out EXCEPT ![e] = Terminated(s)]

\* buf += r, len -= r.
RemainingWrongly(e, r) == SubSeq(out[e], 1, Len(out[e]) - r)
Remaining(e, r) == SubSeq(out[e], r + 1, Len(out[e]))

\* transfer_data: send takes r bytes.  If the peer is gone they are lost, and
\* the answer resets the connection.
SendSome(e, r, next) ==
  /\ Connected(e) /\ On(e) \notin broken
  /\ out' = [out EXCEPT ![e] = Remaining(e, r)]
  /\ IF Closed(Far(e))
     THEN broken' = broken \cup {On(e)} /\ wire' = wire
     ELSE /\ wire' = [wire EXCEPT ![Far(e)] = @ \o SubSeq(out[e], 1, r)]
          /\ broken' = broken
  /\ pc' = IF r = Len(out[e]) THEN [pc EXCEPT ![e] = next] ELSE pc
  /\ UNCHANGED <<proc, line>>

\* transfer_data: send fails; put_line returns -1.
SendFails(e, next) ==
  /\ On(e) = 0 \/ On(e) \in broken
  /\ out' = [out EXCEPT ![e] = <<>>] /\ pc' = [pc EXCEPT ![e] = next]
  /\ UNCHANGED <<proc, line, wire, broken>>

\* send raises SIGPIPE, which neither program handles: its process ends.
SendKills(e) ==
  /\ On(e) # 0 /\ (On(e) \in broken \/ ~Connected(e))
  /\ proc' = [proc EXCEPT ![e[2]] = "killed"]
  /\ UNCHANGED <<pc, lineVars, broken>>

Put(e, done, failed) ==
  /\ \/ \E r \in 1..Len(out[e]) : SendSome(e, r, done)
     \/ SendFails(e, failed)
     \/ SendKills(e)
  /\ UNCHANGED <<mainVars, bufVars, fileVars>>

\* get_line: one byte has come; the buffer grows when it is full.
FullWrongly(e) == Len(buf[e]) + 1 > curLen[e]
Full(e) == Len(buf[e]) + 1 = curLen[e]

ReceiveByte(e, next) ==
  /\ Connected(e) /\ wire[Near(e)] # <<>>
  /\ buf' = [buf EXCEPT ![e] = Append(@, Head(wire[Near(e)]))]
  /\ wire' = [wire EXCEPT ![Near(e)] = Tail(@)]
  /\ curLen' = IF Full(e) THEN [curLen EXCEPT ![e] = 2 * @] ELSE curLen
  /\ pc' = IF Head(wire[Near(e)]) = NL THEN [pc EXCEPT ![e] = next] ELSE pc

\* get_line: recv returns 0, behind the last byte of a connection that the
\* peer has closed or that was reset; get_line returns 0.
AtEnd(e) ==
  /\ Connected(e) /\ wire[Near(e)] = <<>>
  /\ Closed(Far(e)) \/ On(e) \in broken

ReceiveNothingWrongly(e, next) == AtEnd(e) /\ UNCHANGED <<pc, buf, wire, curLen>>

ReceiveNothing(e, next) ==
  /\ AtEnd(e)
  /\ pc' = [pc EXCEPT ![e] = next]
  /\ UNCHANGED <<buf, wire, curLen>>

\* get_line: recv fails.  c is not initialized before the first byte: if it
\* happens to be a newline the result is not -1 but pos, which is 0.
ReceiveFails(e, zero, negative) ==
  /\ ~Connected(e) \/ On(e) \in broken
  /\ \E next \in {negative} \cup (IF buf[e] = <<>> THEN {zero} ELSE {}) :
       pc' = [pc EXCEPT ![e] = next]
  /\ UNCHANGED <<buf, wire, curLen>>

\* A call that has returned refers to nothing any more.
Get(e, positive, zero, negative) ==
  /\ \/ ReceiveByte(e, positive)
     \/ ReceiveNothing(e, zero)
     \/ ReceiveFails(e, zero, negative)
  /\ held' = IF e[2] = "client" THEN [held EXCEPT ![e[1]] = 0] ELSE held
  /\ UNCHANGED <<proc, mainVars, line, out, broken, sock, file>>

-----------------------------------------------------------------------------
(* client.c.                                                               *)

\* main: create the threads, then join them.
Create ==
  /\ proc["client"] = "running" /\ mpc = "create" /\ i <= NumThreads
  /\ \/ pc' = [pc EXCEPT ![Client(i)] = "socket"]
     \/ "no_thread" \in Faults /\ pc' = pc
  /\ i' = i + 1
  /\ UNCHANGED <<proc, mpc, lineVars, bufVars, broken, fileVars>>

CreatedAll ==
  /\ proc["client"] = "running" /\ mpc = "create" /\ i > NumThreads
  /\ mpc' = "join" /\ i' = 1
  /\ UNCHANGED <<proc, pc, lineVars, bufVars, broken, fileVars>>

\* pthread_join; of a thread that was not created tids[i] is undefined.
Join ==
  /\ proc["client"] = "running" /\ mpc = "join" /\ i <= NumThreads
  /\ \/ pc[Client(i)] \in Ended /\ i' = i + 1 /\ proc' = proc
     \/ /\ pc[Client(i)] = "none" /\ i' = i
        /\ proc' = [proc EXCEPT !["client"] = "undefined"]
  /\ UNCHANGED <<mpc, pc, lineVars, bufVars, broken, fileVars>>

JoinedAll ==
  /\ proc["client"] = "running" /\ mpc = "join" /\ i > NumThreads
  /\ proc' = [proc EXCEPT !["client"] = "exited"]
  /\ UNCHANGED <<mainVars, pc, lineVars, bufVars, broken, fileVars>>

\* thread_task: socket takes the lowest free descriptor.
Open(t) ==
  /\ At(Client(t), "socket")
  /\ \E f \in Thread :
       /\ file[f] = 0 /\ \A g \in Thread : file[g] = 0 => f <= g
       /\ sock' = [sock EXCEPT ![t] = f] /\ file' = [file EXCEPT ![f] = t]
  /\ pc' = [pc EXCEPT ![Client(t)] = "connect"]
  /\ UNCHANGED <<proc, mainVars, lineVars, bufVars, broken, held>>

\* thread_task: without a socket there is nothing to connect or to close.
CannotOpen(t) ==
  /\ "no_socket" \in Faults
  /\ At(Client(t), "socket")
  /\ pc' = [pc EXCEPT ![Client(t)] = "gone"]
  /\ UNCHANGED <<proc, mainVars, lineVars, bufVars, broken, fileVars>>

\* thread_task: connect.  The server greets, or refuses, who is connected.
Connect(t) ==
  LET u == On(Client(t)) IN
  /\ At(Client(t), "connect") /\ proc["server"] = "running"
  /\ u # 0 /\ ~Connected(Client(t))
  /\ \/ /\ pc' = [pc EXCEPT ![Client(t)] = "welcome", ![Server(u)] = "greet"]
        /\ PutLine(Server(u), Welcome)
     \/ /\ "full" \in Faults
        /\ pc' = [pc EXCEPT ![Client(t)] = "welcome", ![Server(u)] = "refuse"]
        /\ PutLine(Server(u), Refusal)
  /\ UNCHANGED <<proc, mainVars, wire, bufVars, broken, fileVars>>

\* thread_task: connect fails.
CannotConnect(t) ==
  /\ At(Client(t), "connect")
  /\ \/ "no_server" \in Faults \/ proc["server"] # "running"
     \/ On(Client(t)) = 0 \/ Connected(Client(t))
  /\ pc' = [pc EXCEPT ![Client(t)] = "close"]
  /\ UNCHANGED <<proc, mainVars, lineVars, bufVars, broken, fileVars>>

\* close(serverfd), whatever that is by now.  A thread in recv on it may stay there.
Reading(t) == pc[Client(t)] \in {"welcome", "reply"} /\ held[t] = 0
CloseFd(t, next) ==
  /\ \E stay \in SUBSET {u \in Thread : Reading(u) /\ sock[u] = sock[t]} :
       held' = [u \in Thread |-> IF u \in stay THEN file[sock[t]] ELSE held[u]]
  /\ file' = [file EXCEPT ![sock[t]] = 0]
  /\ pc' = [pc EXCEPT ![Client(t)] = next]
  /\ UNCHANGED <<proc, mainVars, lineVars, bufVars, broken, sock>>

\* thread_task: the loop over the addresses closes the descriptor ...
Close(t) == At(Client(t), "close") /\ CloseFd(t, "again")

\* ... and error_client closes the same number again.
CloseAgain(t) == At(Client(t), "again") /\ CloseFd(t, "gone")

\* thread_task: read the welcome.  read is a size_t: -1 is not "read <= 0".
ReadWelcome(t) ==
  At(Client(t), "welcome") /\ Get(Client(t), "order", "failed", "order")

\* thread_task: choose the burgers.
Choose(t) ==
  /\ At(Client(t), "order")
  /\ \E o \in Order : PutLine(Client(t), Append(o, NL))
  /\ pc' = [pc EXCEPT ![Client(t)] = "send"]
  /\ UNCHANGED <<proc, mainVars, wire, bufVars, broken, fileVars>>

\* thread_task: send the order.  sent is a size_t, never below 0.
SendOrder(t) == At(Client(t), "send") /\ Put(Client(t), "clear", "clear")

\* thread_task: memset(buffer, 0, ...).
Clear(t) ==
  /\ At(Client(t), "clear")
  /\ buf' = [buf EXCEPT ![Client(t)] = <<>>]
  /\ pc' = [pc EXCEPT ![Client(t)] = "reply"]
  /\ UNCHANGED <<proc, mainVars, lineVars, curLen, broken, fileVars>>

ReadReplyWrongly(t) ==
  At(Client(t), "reply") /\ Get(Client(t), "served", "served", "served")

\* thread_task: read the reply.
ReadReply(t) ==
  At(Client(t), "reply") /\ Get(Client(t), "served", "failed", "served")

\* thread_task, or error_client: close, and the thread ends.
Leave(t) ==
  /\ At(Client(t), "served") \/ At(Client(t), "failed")
  /\ CloseFd(t, "gone")

-----------------------------------------------------------------------------
(* The server's side of the talk, mcdonalds.c.                             *)

Greet(t) == At(Server(t), "greet") /\ Put(Server(t), "listen", "closed")
Refuse(t) == At(Server(t), "refuse") /\ Put(Server(t), "closed", "closed")

\* What the server does when it reads 0 bytes is McDonalds's; here it closes.
Listen(t) ==
  At(Server(t), "listen") /\ Get(Server(t), "cook", "closed", "closed")

\* The reply names the burgers ordered.
Cook(t) ==
  /\ At(Server(t), "cook") /\ PutLine(Server(t), buf[Server(t)])
  /\ pc' = [pc EXCEPT ![Server(t)] = "answer"]
  /\ UNCHANGED <<proc, mainVars, wire, bufVars, broken, fileVars>>

Answer(t) == At(Server(t), "answer") /\ Put(Server(t), "closed", "closed")

\* The network breaks the connection.
Reset(t) ==
  /\ "reset" \in Faults /\ t \notin broken /\ Cardinality(broken) < MaxResets
  /\ pc[Server(t)] # "none" /\ ~Closed(Client(t)) /\ ~Closed(Server(t))
  /\ broken' = broken \cup {t}
  /\ UNCHANGED <<proc, mainVars, pc, lineVars, bufVars, fileVars>>

-----------------------------------------------------------------------------
Main == Create \/ CreatedAll \/ Join \/ JoinedAll

thread_task(t) ==
  \/ Open(t) \/ CannotOpen(t) \/ Connect(t) \/ CannotConnect(t) \/ Close(t)
  \/ CloseAgain(t) \/ ReadWelcome(t) \/ Choose(t) \/ SendOrder(t) \/ Clear(t)
  \/ ReadReply(t) \/ Leave(t)

serve_client(t) == Greet(t) \/ Refuse(t) \/ Listen(t) \/ Cook(t) \/ Answer(t)

Next == \/ Main
        \/ \E t \in Thread : thread_task(t) \/ serve_client(t) \/ Reset(t)

\* The threads of the client run.  Nothing obliges the server to say or to read
\* anything (McDonalds tells when it does), nor the network to break.
Spec == Init /\ [][Next]_vars
FairSpec == Spec /\ WF_vars(Main) /\ \A t \in Thread : WF_vars(thread_task(t))

-----------------------------------------------------------------------------
(* Properties.                                                             *)

\* The types, and that get_line's buffer, however often it is doubled, has room
\* for what has come and for the '\0' behind it.
TypeOK ==
  /\ proc \in [Side -> {"running", "killed", "undefined", "exited"}]
  /\ mpc \in {"create", "join"} /\ i \in 1..(NumThreads + 1)
  /\ pc \in [End -> Ended \cup {"none", "socket", "connect", "close", "again",
                                "welcome", "order", "send", "clear", "reply",
                                "served", "failed", "greet", "refuse", "listen",
                                "cook", "answer"}]
  /\ \A e \in End : /\ line[e] \in Seq(Byte) /\ out[e] \in Seq(Byte)
                    /\ wire[e] \in Seq(Byte) /\ buf[e] \in Seq(Byte)
                    /\ Len(buf[e]) < curLen[e]
  /\ broken \subseteq Thread
  /\ sock \in [Thread -> 0..NumThreads] /\ file \in [Thread -> 0..NumThreads]
  /\ held \in [Thread -> 0..NumThreads]

\* The descriptor of t still means the socket that t opened, and no thread that
\* lost its own has the same number.
Active == {"connect", "close", "welcome", "order", "send", "clear", "reply",
           "served", "failed"}
Intact(t) ==
  /\ sock[t] # 0 /\ file[sock[t]] = t
  /\ \A u \in Thread \ {t} : sock[u] = sock[t] => pc[Client(u)] \notin Active

\* The peer of e is in the get_line for the line that e last sent.
Reads(e) ==
  LET reader == pc[Peer(e)]
  IN \/ reader = "listen" /\ pc[e] \in {"send", "clear", "reply"}
     \/ reader = "welcome"
     \/ reader = "reply" /\ pc[e] = "answer"

\* However send splits a line, what get_line has of it, what is under way and
\* what is still to be sent are the line: no byte twice, none skipped, as long as
\* the network holds and nobody else closes the descriptor.
NothingSkipped ==
  \A e \in End : Reads(e) /\ e[1] \notin broken /\ Intact(e[1]) =>
    buf[Peer(e)] \o wire[Peer(e)] \o out[e] = line[e]

\* Who believes to be served has the whole reply, and it is to its own order,
\* unless its connection was reset or its descriptor closed by another thread,
\* neither of which the client notices.
ServedHasReply ==
  \A t \in Thread : pc[Client(t)] = "served" /\ t \notin broken /\ Intact(t) =>
    buf[Client(t)] = line[Client(t)]

\* In recv, on an open connection, with nothing to come.
Starved(t) ==
  LET e == Client(t) IN
  /\ pc[e] \in {"welcome", "reply"} /\ Connected(e)
  /\ wire[Near(e)] = <<>> /\ ~AtEnd(e)

\* However the network breaks and the server closes, every thread of the client
\* ends and main returns, unless the process is killed or a thread waits for ever
\* for a server that neither speaks nor closes: the client has no timeout.
ClientEnds ==
  <>(proc["client"] # "running") \/ <>[](\E t \in Thread : Starved(t))
=============================================================================
