--------------------------- MODULE McClientProofs ---------------------------
(***************************************************************************)
(* Proofs about McClient: that its types hold, that nothing of a line is   *)
(* lost or read twice on its way through send and recv, and that a client  *)
(* which believes to be served holds the reply to its own order.           *)
(*                                                                         *)
(* Two invariants are behind the last two.  Files says how the threads     *)
(* share the descriptors: a descriptor that another thread closed is never *)
(* again its thread's, and only such a thread can touch the connection of  *)
(* another.  Talks says of every connection that is neither reset nor has  *)
(* lost its descriptor how far client and server can be in their talk      *)
(* relative to each other, and where the bytes of the last line are.       *)
(***************************************************************************)
EXTENDS McClient, DataLemmas

Pc == Ended \cup {"none", "socket", "connect", "close", "again", "welcome",
                  "order", "send", "clear", "reply", "served", "failed",
                  "greet", "refuse", "listen", "cook", "answer"}

Typed ==
  /\ proc \in [Side -> {"running", "killed", "undefined", "exited"}]
  /\ mpc \in {"create", "join"} /\ i \in 1..(NumThreads + 1)
  /\ pc \in [End -> Pc]
  /\ line \in [End -> Seq(Byte)] /\ out \in [End -> Seq(Byte)]
  /\ wire \in [End -> Seq(Byte)] /\ buf \in [End -> Seq(Byte)]
  /\ curLen \in [End -> Nat] /\ \A e \in End : Len(buf[e]) < curLen[e]
  /\ broken \subseteq Thread
  /\ sock \in [Thread -> 0..NumThreads] /\ file \in [Thread -> 0..NumThreads]
  /\ held \in [Thread -> 0..NumThreads]

\* A thread whose descriptor was closed, by itself or by another.
Lost(t) == sock[t] # 0 /\ file[sock[t]] # t

Files ==
  /\ \A f \in Thread : file[f] # 0 => sock[file[f]] = f
  /\ \A t, u \in Thread : held[t] = u => Lost(t) /\ Lost(u)
  /\ \A t \in Thread : pc[Client(t)] \in {"none", "socket"} => sock[t] = 0
  /\ \A t \in Thread : pc[Client(t)] \in Active \cup {"again"} => sock[t] # 0

\* No newline has come; a line has one, at its end.
Plain(s) == \A k \in 1..Len(s) : s[k] # NL
IsLine(s) == s # <<>> /\ s[Len(s)] = NL /\ \A k \in 1..(Len(s) - 1) : s[k] # NL

\* Of line l, b has been read, w is on its way and o is still to be sent.
Conveys(b, w, o, l) == IsLine(l) /\ b \o w \o o = l

\* The talk of the ends C and S of a connection, the client at c, the server
\* at s.  A server that closes without an answer leaves the client nothing.
Unused(e) == out[e] = <<>> /\ wire[Peer(e)] = <<>> /\ buf[Peer(e)] = <<>>
Sent(e) == out[e] = <<>> /\ wire[Peer(e)] = <<>>

Welcoming(c, s, C, S) ==
  /\ c = "welcome" /\ Unused(C) /\ Plain(buf[C])
  /\ Conveys(buf[C], wire[C], out[S], line[S])
  /\ \/ s \in {"greet", "refuse"} /\ out[S] # <<>>
     \/ s \in {"listen", "closed"} /\ out[S] = <<>>

Ordering(c, s, C, S) ==
  /\ c = "send" /\ s \in {"listen", "closed"} /\ Sent(S) /\ Plain(buf[S])
  /\ Conveys(buf[S], wire[S], out[C], line[C]) /\ out[C] # <<>>

\* Before memset the buffer still has the welcome.
Got(c, C) == IF c = "clear" THEN <<>> ELSE buf[C]

Answering(c, s, C, S) ==
  /\ c \in {"clear", "reply"} /\ out[C] = <<>> /\ IsLine(line[C])
  /\ Plain(Got(c, C))
  /\ \/ /\ s = "listen" /\ Plain(buf[S]) /\ Sent(S) /\ Got(c, C) = <<>>
        /\ Conveys(buf[S], wire[S], <<>>, line[C])
     \/ s = "cook" /\ buf[S] = line[C] /\ Sent(S) /\ Got(c, C) = <<>>
     \/ /\ s = "answer" /\ line[S] = line[C] /\ out[S] # <<>>
        /\ Conveys(Got(c, C), wire[C], out[S], line[S])
     \/ /\ s = "closed" /\ out[S] = <<>>
        /\ \/ Conveys(Got(c, C), wire[C], <<>>, line[C])
           \/ Got(c, C) = <<>> /\ wire[C] = <<>>

ServerSide(s) == s \notin {"welcome", "reply"}

Talk(c, s, C, S) ==
  \/ c = "connect" /\ s = "none" /\ Unused(C) /\ Unused(S)
  \/ Welcoming(c, s, C, S)
  \/ c = "order" /\ s \in {"listen", "closed"} /\ Sent(S) /\ Unused(C)
  \/ Ordering(c, s, C, S)
  \/ Answering(c, s, C, S)
  \/ c = "served" /\ buf[C] = line[C] /\ ServerSide(s)
  \/ c \in {"close", "failed"} /\ ServerSide(s)

TalkOf(t) == Talk(pc[Client(t)], pc[Server(t)], Client(t), Server(t))
Talks == \A t \in Thread : Intact(t) /\ t \notin broken => TalkOf(t)

\* Before its thread has a socket, nobody has used a connection.
Fresh(t) == /\ pc[Server(t)] = "none"
            /\ Unused(Client(t)) /\ Unused(Server(t))
AllFresh ==
  \A t \in Thread : pc[Client(t)] \in {"none", "socket"} => Fresh(t)

\* main starts every thread once.
NotStarted == mpc = "create" => \A t \in i..NumThreads : pc[Client(t)] = "none"

-----------------------------------------------------------------------------
LEMMA EndsOf ==
  ASSUME NEW t \in Thread
  PROVE  /\ Client(t) \in End /\ Server(t) \in End /\ Client(t) # Server(t)
         /\ Peer(Client(t)) = Server(t) /\ Peer(Server(t)) = Client(t)
         /\ Client(t)[1] = t /\ Server(t)[1] = t
         /\ Client(t)[2] = "client" /\ Server(t)[2] = "server"
BY DEF Client, Server, Peer, End, Side

LEMMA EndsDiffer ==
  ASSUME NEW t \in Thread, NEW u \in Thread, u # t
  PROVE  {Client(t), Server(t)} \cap {Client(u), Server(u)} = {}
BY DEF Client, Server

LEMMA EndIsOf ==
  ASSUME NEW e \in End
  PROVE  /\ e[1] \in Thread /\ e[2] \in Side /\ Peer(e) \in End /\ Peer(e) # e
         /\ e = Client(e[1]) \/ e = Server(e[1])
BY DEF Client, Server, Peer, End, Side

LEMMA Bytes ==
  /\ NL \in Byte /\ Welcome \in Seq(Byte) /\ Refusal \in Seq(Byte)
  /\ \A o \in Order : o \in Seq(Byte) /\ o \in Seq(Burger)
  /\ \A s \in Seq(Byte) : Terminated(s) \in Seq(Byte)
<1>1. NL \in Byte /\ "hello" \in Byte BY DEF Byte
<1>2. Welcome \in Seq(Byte) /\ Refusal \in Seq(Byte)
  BY <1>1 DEF Welcome, Refusal
<1>3. ASSUME NEW o \in Order PROVE o \in Seq(Byte) /\ o \in Seq(Burger)
  <2>1. PICK n \in 1..MAX_BURGERS : o \in [1..n -> Burger]
    BY ClientAssumption DEF Order
  <2>2. n \in Nat /\ Burger \subseteq Byte BY ClientAssumption DEF Byte
  <2>3. o \in [1..n -> Byte] BY <2>1, <2>2
  <2> QED BY <2>1, <2>2, <2>3
<1>4. ASSUME NEW s \in Seq(Byte) PROVE Terminated(s) \in Seq(Byte)
  BY <1>1 DEF Terminated
<1> QED BY <1>1, <1>2, <1>3, <1>4

\* What the two programs send are lines.
LEMMA Lines ==
  /\ IsLine(Terminated(Welcome)) /\ IsLine(Terminated(Refusal))
  /\ \A o \in Order : IsLine(Terminated(Append(o, NL)))
  /\ \A s \in Seq(Byte) : IsLine(s) => Terminated(s) = s
<1>1. IsLine(Terminated(Welcome)) /\ IsLine(Terminated(Refusal))
  BY DEF IsLine, Terminated, Welcome, Refusal, Last, NL
<1>2. ASSUME NEW o \in Order PROVE IsLine(Terminated(Append(o, NL)))
  <2>1. o \in Seq(Byte) /\ o \in Seq(Burger) /\ NL \in Byte BY Bytes
  <2>2. PICK s \in Seq(Byte) : s = Append(o, NL)
    BY <2>1, AppendProperties
  <2>3. Len(s) = Len(o) + 1 /\ s[Len(s)] = NL /\ Len(o) \in Nat BY <2>1, <2>2
  <2>4. \A k \in 1..Len(o) : s[k] # NL
    <3> TAKE k \in 1..Len(o)
    <3>1. s[k] = o[k] /\ o[k] \in Burger BY <2>1, <2>2
    <3> QED BY <3>1, ClientAssumption DEF NL
  <2>5. Terminated(s) = s BY <2>3 DEF Terminated, Last
  <2> QED BY <2>2, <2>3, <2>4, <2>5 DEF IsLine
<1>3. \A s \in Seq(Byte) : IsLine(s) => Terminated(s) = s
  BY DEF IsLine, Terminated, Last
<1> QED BY <1>1, <1>2, <1>3

\* The numbers of descriptors and connections.
LEMMA Numbers ==
  ASSUME Typed
  PROVE  /\ 0 \notin Thread
         /\ \A u \in Thread : /\ sock[u] \in Thread \cup {0}
                              /\ file[u] \in Thread \cup {0}
                              /\ held[u] \in Thread \cup {0}
<1>1. 0 \notin Thread /\ 0..NumThreads = Thread \cup {0}
  BY ClientAssumption DEF Thread
<1>2. /\ sock \in [Thread -> 0..NumThreads] /\ file \in [Thread -> 0..NumThreads]
      /\ held \in [Thread -> 0..NumThreads]
  BY DEF Typed
<1>3. ASSUME NEW f \in [Thread -> 0..NumThreads], NEW u \in Thread
      PROVE  f[u] \in Thread \cup {0}
  BY <1>1
<1> QED BY <1>1, <1>2, <1>3

\* Whose connection a call is about, and its ends.
LEMMA OnType ==
  ASSUME Typed, NEW e \in End
  PROVE  /\ On(e) \in 0..NumThreads
         /\ On(e) # 0 => /\ On(e) \in Thread /\ Near(e) \in End /\ Far(e) \in End
                         /\ Near(e) # Far(e)
<1>1. e[1] \in Thread /\ e[2] \in Side BY EndIsOf
<1>2. NumThreads \in Nat BY ClientAssumption
<1>3. On(e) \in 0..NumThreads
  <2>1. e[1] \in 0..NumThreads BY <1>1, <1>2 DEF Thread
  <2>2. held[e[1]] \in Thread \cup {0} /\ sock[e[1]] \in Thread \cup {0}
    BY <1>1, Numbers
  <2>3. sock[e[1]] # 0 => file[sock[e[1]]] \in Thread \cup {0}
    BY <2>2, Numbers
  <2>4. 0..NumThreads = Thread \cup {0} BY <1>2 DEF Thread
  <2> QED BY <2>1, <2>2, <2>3, <2>4 DEF On
<1>4. ASSUME On(e) # 0
      PROVE  On(e) \in Thread /\ Near(e) \in End /\ Far(e) \in End /\ Near(e) # Far(e)
  <2>1. On(e) \in Thread BY <1>2, <1>3, <1>4 DEF Thread
  <2>2. Near(e) \in End BY <1>1, <2>1 DEF Near, End
  <2> QED BY <2>1, <2>2, EndIsOf DEF Far
<1> QED BY <1>3, <1>4

\* A call on a connection that t has nothing to do with is about other ends.
LEMMA OtherEnds ==
  ASSUME NEW t \in Thread, NEW e \in End, t # e[1], t # On(e),
         NEW d \in {Client(t), Server(t)}
  PROVE  d \in End /\ d # e /\ d # Near(e) /\ d # Far(e)
<1>1. d \in End /\ d[1] = t BY EndsOf
<1>2. Near(e)[1] = On(e) BY DEF Near
<1>3. Far(e)[1] = On(e) BY <1>2 DEF Far, Peer, Client, Server
<1> QED BY <1>1, <1>2, <1>3

-----------------------------------------------------------------------------
(* The bytes of a line.                                                    *)

LEMMA Associative ==
  ASSUME NEW S, NEW s \in Seq(S), NEW t \in Seq(S), NEW u \in Seq(S)
  PROVE  (s \o t) \o u = s \o (t \o u)
BY SMT

LEMMA EmptyIffNoLength ==
  ASSUME NEW S, NEW s \in Seq(S)
  PROVE  s = <<>> <=> Len(s) = 0
BY EmptySeq

LEMMA HeadAndTail ==
  ASSUME NEW S, NEW w \in Seq(S), w # <<>>
  PROVE  /\ Head(w) \in S /\ Tail(w) \in Seq(S)
         /\ \A b \in Seq(S) : b \o w = Append(b, Head(w)) \o Tail(w)
<1>1. 1 \in 1..Len(w) /\ Len(w) \in 1..Len(w)
  BY EmptySeq, LenProperties
<1>2. w = <<w[1]>> \o SubSeq(w, 2, Len(w))
  BY <1>1, SubSeqRecursiveFirst, SubSeqFull
<1>3. Tail(w) = SubSeq(w, 2, Len(w)) BY TailIsSubSeq, Zenon
<1>4. Head(w) = w[1] OBVIOUS
<1>5. w = <<Head(w)>> \o Tail(w) BY <1>2, <1>3, <1>4
<1>6. Head(w) \in S /\ Tail(w) \in Seq(S) BY HeadTailProperties
<1>7. ASSUME NEW b \in Seq(S), NEW h \in S, NEW v \in Seq(S)
      PROVE  b \o (<<h>> \o v) = Append(b, h) \o v
  <2>1. <<h>> \in Seq(S) OBVIOUS
  <2>2. b \o (<<h>> \o v) = (b \o <<h>>) \o v
    BY <2>1, Associative, SMTT(30)
  <2> QED BY <2>2, AppendIsConcat
<1> QED BY <1>5, <1>6, <1>7

LEMMA StartConveys ==
  ASSUME NEW l \in Seq(Byte), IsLine(l)
  PROVE  Conveys(<<>>, <<>>, l, l) /\ l # <<>> /\ Plain(<<>>)
BY DEF Conveys, IsLine, Plain

\* send takes r bytes.
LEMMA SendConveys ==
  ASSUME NEW b \in Seq(Byte), NEW w \in Seq(Byte), NEW o \in Seq(Byte),
         NEW l \in Seq(Byte), Conveys(b, w, o, l), NEW r \in 1..Len(o)
  PROVE  /\ Conveys(b, w \o SubSeq(o, 1, r), SubSeq(o, r + 1, Len(o)), l)
         /\ SubSeq(o, r + 1, Len(o)) = <<>> <=> r = Len(o)
<1>1. /\ SubSeq(o, 1, r) \in Seq(Byte) /\ SubSeq(o, r + 1, Len(o)) \in Seq(Byte)
      /\ Len(SubSeq(o, 1, r)) = r /\ Len(SubSeq(o, r + 1, Len(o))) = Len(o) - r
  OBVIOUS
<1>2. SubSeq(o, 1, r) \o SubSeq(o, r + 1, Len(o)) = o
  <2>1. /\ 1 \in 1..(Len(o) + 1) /\ r \in (1 - 1)..Len(o)
        /\ Len(o) \in r..Len(o)
    BY LenProperties
  <2> QED BY <2>1, ConcatAdjacentSubSeq, SubSeqFull
<1>3. ASSUME NEW p \in Seq(Byte), NEW q \in Seq(Byte), p \o q = o
      PROVE  (b \o (w \o p)) \o q = (b \o w) \o o
  <2>1. b \o (w \o p) = (b \o w) \o p BY SMTT(30)
  <2>2. PICK v \in Seq(Byte) : v = b \o w BY ConcatProperties
  <2>3. (v \o p) \o q = v \o (p \o q) BY SMTT(30)
  <2> QED BY <2>1, <2>2, <2>3, <1>3
<1>4. SubSeq(o, r + 1, Len(o)) = <<>> <=> r = Len(o)
  <2>1. Len(o) - r = 0 <=> r = Len(o) BY LenProperties
  <2> QED BY <1>1, <2>1, EmptyIffNoLength
<1> QED BY <1>1, <1>2, <1>3, <1>4 DEF Conveys

\* recv takes the first byte under way.
LEMMA ReceiveConveys ==
  ASSUME NEW b \in Seq(Byte), NEW w \in Seq(Byte), NEW o \in Seq(Byte),
         NEW l \in Seq(Byte), Conveys(b, w, o, l), w # <<>>
  PROVE  /\ Conveys(Append(b, Head(w)), Tail(w), o, l)
         /\ Plain(b) /\ Head(w) # NL => Plain(Append(b, Head(w)))
         /\ Head(w) = NL => /\ Tail(w) = <<>> /\ o = <<>>
                            /\ Append(b, Head(w)) = l
<1>1. PICK h \in Byte : h = Head(w) BY HeadAndTail
<1>2. PICK v \in Seq(Byte) : v = Tail(w) BY HeadAndTail
<1>3. Conveys(Append(b, h), v, o, l)
  BY <1>1, <1>2, HeadAndTail DEF Conveys
<1>4. Plain(b) /\ h # NL => Plain(Append(b, h))
  <2> SUFFICES ASSUME Plain(b), h # NL, NEW k \in 1..Len(Append(b, h))
               PROVE  Append(b, h)[k] # NL
    BY DEF Plain
  <2> QED BY DEF Plain
<1>5. ASSUME h = NL PROVE v = <<>> /\ o = <<>> /\ Append(b, h) = l
  <2>1. PICK a \in Seq(Byte) : a = Append(b, h) BY AppendProperties
  <2>2. Len(a) \in Nat \ {0} /\ a[Len(a)] = NL BY <2>1, <1>5
  <2>3. a \o v \o o = l BY <2>1, <1>3 DEF Conveys
  <2>4. l[Len(a)] = NL /\ Len(l) = Len(a) + Len(v) + Len(o) BY <2>2, <2>3
  <2>5. Len(a) = Len(l) BY <2>2, <2>4, <1>3 DEF Conveys, IsLine
  <2>6. v = <<>> /\ o = <<>> BY <2>4, <2>5
  <2> QED BY <2>1, <2>3, <2>6
<1> QED BY <1>1, <1>2, <1>3, <1>4, <1>5

\* As long as the newline has not come, something is to come.
LEMMA MoreConveys ==
  ASSUME NEW b \in Seq(Byte), NEW w \in Seq(Byte), NEW l \in Seq(Byte),
         Conveys(b, w, <<>>, l), Plain(b)
  PROVE  w # <<>>
BY DEF Conveys, Plain, IsLine
-----------------------------------------------------------------------------
(* The types.                                                              *)

LEMMA InitTyped == Init => Typed
<1>1. <<>> \in Seq(Byte) /\ Len(<<>>) = 0 OBVIOUS
<1>2. BUF_SIZE \in Nat /\ 0 < BUF_SIZE BY ClientAssumption
<1>3. 1 \in 1..(NumThreads + 1) /\ 0 \in 0..NumThreads BY ClientAssumption
<1> QED BY <1>1, <1>2, <1>3 DEF Init, Typed, Pc

LEMMA SendTyped ==
  ASSUME Typed, NEW e \in End, NEW done \in Pc, NEW failed \in Pc,
         Put(e, done, failed)
  PROVE  Typed'
<1>1. e[1] \in Thread /\ e[2] \in Side BY EndIsOf
<1>2. out[e] \in Seq(Byte) BY DEF Typed
<1>3. UNCHANGED <<mpc, i, buf, curLen, sock, file, held>>
  BY DEF Put, mainVars, bufVars, fileVars
<1>4. ASSUME NEW r \in 1..Len(out[e]), SendSome(e, r, done) PROVE Typed'
  <2>1. On(e) \in Thread /\ Far(e) \in End
    BY <1>4, OnType DEF SendSome, Connected
  <2>2. SubSeq(out[e], 1, r) \in Seq(Byte) /\ Remaining(e, r) \in Seq(Byte)
    BY <1>2 DEF Remaining
  <2>3. wire[Far(e)] \o SubSeq(out[e], 1, r) \in Seq(Byte)
    BY <2>1, <2>2, ConcatProperties DEF Typed
  <2>4. out' \in [End -> Seq(Byte)] BY <1>4, <2>2 DEF SendSome, Typed
  <2>5. wire' \in [End -> Seq(Byte)] BY <1>4, <2>1, <2>3 DEF SendSome, Typed
  <2>6. pc' \in [End -> Pc] BY <1>4 DEF SendSome, Typed
  <2>7. broken' \subseteq Thread BY <1>4, <2>1 DEF SendSome, Typed
  <2> QED BY <1>3, <1>4, <2>4, <2>5, <2>6, <2>7 DEF SendSome, Typed
<1>5. CASE SendFails(e, failed)
  BY <1>3, <1>5 DEF SendFails, Typed
<1>6. CASE SendKills(e)
  BY <1>1, <1>3, <1>6 DEF SendKills, lineVars, Typed
<1> QED BY <1>4, <1>5, <1>6 DEF Put

LEMMA ReceiveTyped ==
  ASSUME Typed, NEW e \in End, NEW positive \in Pc, NEW zero \in Pc,
         NEW negative \in Pc, Get(e, positive, zero, negative)
  PROVE  Typed'
<1>1. UNCHANGED <<proc, mpc, i, line, out, broken, sock, file>>
  BY DEF Get, mainVars
<1>2. held' \in [Thread -> 0..NumThreads]
  <2>1. 0 \in 0..NumThreads BY ClientAssumption
  <2> QED BY <2>1 DEF Get, Typed
<1>3. CASE ReceiveByte(e, positive)
  <2> DEFINE n == Near(e)
  <2>1. n \in End BY <1>3, OnType DEF ReceiveByte, Connected
  <2>2. /\ wire[n] \in Seq(Byte) /\ buf[e] \in Seq(Byte) /\ wire[n] # <<>>
        /\ curLen[e] \in Nat /\ Len(buf[e]) < curLen[e]
    BY <1>3, <2>1 DEF ReceiveByte, Typed
  <2>3. Head(wire[n]) \in Byte /\ Tail(wire[n]) \in Seq(Byte)
    BY <2>2, HeadTailProperties
  <2>4. PICK b \in Seq(Byte) :
          b = Append(buf[e], Head(wire[n])) /\ Len(b) = Len(buf[e]) + 1
    <3>1. \A s \in Seq(Byte), h \in Byte :
            Append(s, h) \in Seq(Byte) /\ Len(Append(s, h)) = Len(s) + 1
      BY AppendProperties
    <3> QED BY <2>2, <2>3, <3>1
  <2>5. buf' = [buf EXCEPT ![e] = b] BY <1>3, <2>4 DEF ReceiveByte
  <2>6. buf' \in [End -> Seq(Byte)] BY <2>5 DEF Typed
  <2>7. wire' \in [End -> Seq(Byte)]
    BY <1>3, <2>1, <2>3 DEF ReceiveByte, Typed
  <2>8. pc' \in [End -> Pc] BY <1>3 DEF ReceiveByte, Typed
  <2>9. PICK m \in Nat : curLen' = [curLen EXCEPT ![e] = m] /\ Len(b) < m
    <3>1. Len(buf[e]) \in Nat BY <2>2
    <3>2. CASE Full(e)
      <4>1. curLen[e] = Len(buf[e]) + 1 BY <3>2 DEF Full
      <4>2. 2 * curLen[e] \in Nat /\ Len(b) < 2 * curLen[e]
        BY <2>2, <2>4, <3>1, <4>1
      <4>3. curLen' = [curLen EXCEPT ![e] = 2 * curLen[e]]
        BY <1>3, <3>2 DEF ReceiveByte
      <4> QED BY <4>2, <4>3
    <3>3. CASE ~Full(e)
      <4>1. Len(b) < curLen[e] BY <2>2, <2>4, <3>1, <3>3 DEF Full
      <4>2. curLen' = [curLen EXCEPT ![e] = curLen[e]]
        BY <1>3, <3>3 DEF ReceiveByte, Typed
      <4> QED BY <2>2, <4>1, <4>2
    <3> QED BY <3>2, <3>3
  <2>10. curLen' \in [End -> Nat] /\ \A d \in End : Len(buf'[d]) < curLen'[d]
    BY <2>5, <2>9 DEF Typed
  <2> QED BY <1>1, <1>2, <2>6, <2>7, <2>8, <2>10 DEF Typed
<1>4. CASE ReceiveNothing(e, zero)
  BY <1>1, <1>2, <1>4 DEF ReceiveNothing, Typed
<1>5. CASE ReceiveFails(e, zero, negative)
  <2>1. PICK next \in Pc : pc' = [pc EXCEPT ![e] = next]
    BY <1>5 DEF ReceiveFails
  <2> QED BY <1>1, <1>2, <1>5, <2>1 DEF ReceiveFails, Typed
<1> QED BY <1>3, <1>4, <1>5 DEF Get

LEMMA CloseTyped ==
  ASSUME Typed, Files, NEW t \in Thread, NEW next \in Pc,
         pc[Client(t)] \in Active \cup {"again"}, CloseFd(t, next)
  PROVE  Typed'
<1>1. Client(t) \in End BY EndsOf
<1>2. sock[t] \in Thread
  <2>1. sock[t] # 0 BY DEF Files
  <2> QED BY <2>1, ClientAssumption DEF Typed, Thread
<1>3. file[sock[t]] \in 0..NumThreads /\ 0 \in 0..NumThreads
  BY <1>2, ClientAssumption DEF Typed
<1>4. held' \in [Thread -> 0..NumThreads] BY <1>3 DEF CloseFd, Typed
<1>5. file' \in [Thread -> 0..NumThreads] BY <1>3 DEF CloseFd, Typed
<1>6. pc' \in [End -> Pc] BY <1>1 DEF CloseFd, Typed
<1> QED BY <1>4, <1>5, <1>6 DEF CloseFd, mainVars, lineVars, bufVars, Typed

LEMMA PutLineTyped ==
  ASSUME Typed, NEW e \in End, NEW s \in Seq(Byte),
         PutLine(e, s)
  PROVE  line' \in [End -> Seq(Byte)] /\ out' \in [End -> Seq(Byte)]
<1>1. Terminated(s) \in Seq(Byte) BY Bytes
<1> QED BY <1>1 DEF PutLine, Typed

LEMMA MainTyped == ASSUME Typed, Main PROVE Typed'
<1>1. "client" \in Side /\ NumThreads \in Nat BY ClientAssumption DEF Side
<1>2. CASE Create
  <2>1. i \in Thread BY <1>1, <1>2 DEF Create, Typed, Thread
  <2>2. Client(i) \in End BY <2>1, EndsOf
  <2>3. i + 1 \in 1..(NumThreads + 1) BY <1>1, <2>1 DEF Thread
  <2>4. pc' \in [End -> Pc] BY <1>2, <2>2 DEF Create, Typed, Pc
  <2> QED BY <1>2, <2>3, <2>4 DEF Create, lineVars, bufVars, fileVars, Typed
<1>3. CASE CreatedAll
  <2>1. 1 \in 1..(NumThreads + 1) BY <1>1
  <2> QED BY <1>3, <2>1 DEF CreatedAll, lineVars, bufVars, fileVars, Typed
<1>4. CASE Join
  <2>1. i' \in 1..(NumThreads + 1) BY <1>1, <1>4 DEF Join, Typed
  <2>2. proc' \in [Side -> {"running", "killed", "undefined", "exited"}]
    BY <1>1, <1>4 DEF Join, Typed
  <2> QED BY <1>4, <2>1, <2>2 DEF Join, lineVars, bufVars, fileVars, Typed
<1>5. CASE JoinedAll
  BY <1>1, <1>5 DEF JoinedAll, mainVars, lineVars, bufVars, fileVars, Typed
<1> QED BY <1>2, <1>3, <1>4, <1>5 DEF Main

LEMMA ThreadTyped ==
  ASSUME Typed, Files, NEW t \in Thread, thread_task(t)
  PROVE  Typed'
<1>1. Client(t) \in End /\ Server(t) \in End BY EndsOf
<1>2. CASE Open(t)
  <2>1. PICK f \in Thread : sock' = [sock EXCEPT ![t] = f]
                             /\ file' = [file EXCEPT ![f] = t]
    BY <1>2 DEF Open
  <2>2. f \in 0..NumThreads /\ t \in 0..NumThreads
    BY ClientAssumption DEF Thread
  <2>3. /\ sock' \in [Thread -> 0..NumThreads]
        /\ file' \in [Thread -> 0..NumThreads]
    BY <2>1, <2>2 DEF Typed
  <2>4. pc' \in [End -> Pc] BY <1>1, <1>2 DEF Open, Typed, Pc
  <2> QED BY <1>2, <2>3, <2>4 DEF Open, mainVars, lineVars, bufVars, Typed
<1>3. CASE CannotOpen(t)
  <2>1. pc' \in [End -> Pc] BY <1>1, <1>3 DEF CannotOpen, Typed, Pc, Ended
  <2> QED BY <1>3, <2>1
          DEF CannotOpen, mainVars, lineVars, bufVars, fileVars, Typed
<1>4. CASE Connect(t)
  <2>1. PICK u \in Thread : u = On(Client(t))
    BY <1>1, <1>4, OnType DEF Connect
  <2>2. Server(u) \in End BY EndsOf
  <2>3. pc' \in [End -> Pc] BY <1>1, <1>4, <2>1, <2>2 DEF Connect, Typed, Pc
  <2>4. line' \in [End -> Seq(Byte)] /\ out' \in [End -> Seq(Byte)]
    BY <1>4, <2>1, <2>2, Bytes, PutLineTyped DEF Connect
  <2> QED BY <1>4, <2>3, <2>4 DEF Connect, mainVars, bufVars, fileVars, Typed
<1>5. CASE CannotConnect(t)
  <2>1. pc' \in [End -> Pc] BY <1>1, <1>5 DEF CannotConnect, Typed, Pc
  <2> QED BY <1>5, <2>1
          DEF CannotConnect, mainVars, lineVars, bufVars, fileVars, Typed
<1>6. CASE Close(t) \/ CloseAgain(t) \/ Leave(t)
  <2>1. PICK next \in Pc : CloseFd(t, next)
    BY <1>6 DEF Close, CloseAgain, Leave, Pc, Ended
  <2>2. pc[Client(t)] \in Active \cup {"again"}
    BY <1>6 DEF Close, CloseAgain, Leave, At, Active
  <2> QED BY <2>1, <2>2, CloseTyped
<1>7. CASE ReadWelcome(t)
  <2>1. "order" \in Pc /\ "failed" \in Pc BY DEF Pc
  <2> QED BY <1>1, <1>7, <2>1, ReceiveTyped DEF ReadWelcome
<1>8. CASE Choose(t)
  <2>1. PICK o \in Order : PutLine(Client(t), Append(o, NL)) BY <1>8 DEF Choose
  <2>2. Append(o, NL) \in Seq(Byte) BY Bytes, AppendProperties
  <2>3. line' \in [End -> Seq(Byte)] /\ out' \in [End -> Seq(Byte)]
    BY <1>1, <2>1, <2>2, PutLineTyped
  <2>4. pc' \in [End -> Pc] BY <1>1, <1>8 DEF Choose, Typed, Pc
  <2> QED BY <1>8, <2>3, <2>4 DEF Choose, mainVars, bufVars, fileVars, Typed
<1>9. CASE SendOrder(t)
  <2>1. "clear" \in Pc BY DEF Pc
  <2> QED BY <1>1, <1>9, <2>1, SendTyped DEF SendOrder
<1>10. CASE Clear(t)
  <2>1. pc' \in [End -> Pc] BY <1>1, <1>10 DEF Clear, Typed, Pc
  <2>2. <<>> \in Seq(Byte) /\ Len(<<>>) = 0 OBVIOUS
  <2>3. buf' \in [End -> Seq(Byte)] BY <1>10, <2>2 DEF Clear, Typed
  <2>4. \A e \in End : Len(buf'[e]) < curLen[e]
    <3>1. buf' = [buf EXCEPT ![Client(t)] = <<>>] BY <1>10 DEF Clear
    <3>2. 0 < curLen[Client(t)]
      <4>1. /\ Len(buf[Client(t)]) \in Nat /\ curLen[Client(t)] \in Nat
            /\ Len(buf[Client(t)]) < curLen[Client(t)]
        BY <1>1 DEF Typed
      <4> QED BY <4>1
    <3> QED BY <1>1, <2>2, <3>1, <3>2 DEF Typed
  <2> QED BY <1>10, <2>1, <2>3, <2>4
          DEF Clear, mainVars, lineVars, fileVars, Typed
<1>11. CASE ReadReply(t)
  <2>1. "served" \in Pc /\ "failed" \in Pc BY DEF Pc
  <2> QED BY <1>1, <1>11, <2>1, ReceiveTyped DEF ReadReply
<1> QED BY <1>2, <1>3, <1>4, <1>5, <1>6, <1>7, <1>8, <1>9, <1>10, <1>11
        DEF thread_task

LEMMA ServerTyped ==
  ASSUME Typed, NEW t \in Thread, serve_client(t)
  PROVE  Typed'
<1>1. Server(t) \in End BY EndsOf
<1>2. "listen" \in Pc /\ "closed" \in Pc /\ "cook" \in Pc BY DEF Pc, Ended
<1>3. CASE Greet(t) BY <1>1, <1>2, <1>3, SendTyped DEF Greet
<1>4. CASE Refuse(t) BY <1>1, <1>2, <1>4, SendTyped DEF Refuse
<1>5. CASE Listen(t) BY <1>1, <1>2, <1>5, ReceiveTyped DEF Listen
<1>6. CASE Cook(t)
  <2>1. buf[Server(t)] \in Seq(Byte) BY <1>1 DEF Typed
  <2>2. line' \in [End -> Seq(Byte)] /\ out' \in [End -> Seq(Byte)]
    BY <1>1, <1>6, <2>1, PutLineTyped DEF Cook
  <2>3. pc' \in [End -> Pc] BY <1>1, <1>6 DEF Cook, Typed, Pc
  <2> QED BY <1>6, <2>2, <2>3 DEF Cook, mainVars, bufVars, fileVars, Typed
<1>7. CASE Answer(t) BY <1>1, <1>2, <1>7, SendTyped DEF Answer
<1> QED BY <1>3, <1>4, <1>5, <1>6, <1>7 DEF serve_client

LEMMA NextTyped ==
  ASSUME Typed, Files, [Next]_vars PROVE Typed'
<1>1. CASE Main BY <1>1, MainTyped
<1>2. ASSUME NEW t \in Thread, thread_task(t) PROVE Typed' BY <1>2, ThreadTyped
<1>3. ASSUME NEW t \in Thread, serve_client(t) PROVE Typed' BY <1>3, ServerTyped
<1>4. ASSUME NEW t \in Thread, Reset(t) PROVE Typed'
  BY <1>4 DEF Reset, mainVars, lineVars, bufVars, fileVars, Typed
<1>5. CASE UNCHANGED vars
  BY <1>5 DEF vars, mainVars, lineVars, bufVars, fileVars, Typed
<1> QED BY <1>1, <1>2, <1>3, <1>4, <1>5 DEF Next

-----------------------------------------------------------------------------
(* The descriptors.                                                        *)

LEMMA InitFiles == Init => Files
<1> SUFFICES ASSUME Init PROVE Files
  OBVIOUS
<1>1. ASSUME NEW t \in Thread PROVE pc[Client(t)] = "none"
  BY EndsOf DEF Init
<1>2. 0 \notin Thread BY ClientAssumption DEF Thread
<1> QED BY <1>1, <1>2 DEF Init, Files, Active

\* Who has lost its descriptor, or shares its number with a thread that uses it,
\* never has it for itself again.
KeepsIntact(t) == Intact(t)' => Intact(t)

\* A step that opens and closes nothing.
LEMMA StillFiles ==
  ASSUME Typed, Files, sock' = sock, file' = file,
         \A u \in Thread : held'[u] \in {held[u], 0},
         \A u \in Thread :
           \/ pc'[Client(u)] = pc[Client(u)]
           \/ pc[Client(u)] \in Active /\ pc'[Client(u)] \in Active
           \/ pc[Client(u)] = "none" /\ pc'[Client(u)] = "socket"
           \/ pc[Client(u)] = "socket" /\ pc'[Client(u)] = "gone"
  PROVE  Files' /\ \A t \in Thread : KeepsIntact(t)
<1>1. \A t \in Thread : Lost(t)' <=> Lost(t) BY DEF Lost
<1>2. ASSUME NEW t \in Thread, NEW w \in Thread, held'[t] = w
      PROVE  Lost(t)' /\ Lost(w)'
  <2>1. held[t] = w BY <1>2, ClientAssumption DEF Thread
  <2> QED BY <1>1, <2>1 DEF Files
<1>3. Files'
  <2>1. \A u \in Thread :
          /\ pc'[Client(u)] \in {"none", "socket"} => sock'[u] = 0
          /\ pc'[Client(u)] \in Active \cup {"again"} => sock'[u] # 0
    BY DEF Files, Active
  <2> QED BY <1>2, <2>1 DEF Files
<1>4. ASSUME NEW t \in Thread, Intact(t)' PROVE Intact(t)
  BY <1>4 DEF Intact, Active
<1> QED BY <1>3, <1>4 DEF KeepsIntact

LEMMA OpenFiles ==
  ASSUME Typed, Files, NEW t \in Thread, Open(t)
  PROVE  Files' /\ \A u \in Thread \ {t} : KeepsIntact(u)
<1>1. /\ Client(t) \in End
      /\ \A u \in Thread \ {t} : Client(u) \in End /\ Client(u) # Client(t)
  BY EndsOf, EndsDiffer
<1>2. PICK f \in Thread : /\ sock' = [sock EXCEPT ![t] = f] /\ file[f] = 0
                          /\ file' = [file EXCEPT ![f] = t]
  BY DEF Open
<1>3. /\ pc[Client(t)] = "socket" /\ pc'[Client(t)] = "connect" /\ held' = held
      /\ \A u \in Thread \ {t} : pc'[Client(u)] = pc[Client(u)]
  BY <1>1 DEF Open, At, Typed
<1>4. sock[t] = 0 BY <1>3 DEF Files
<1>5. /\ sock'[t] = f /\ file'[f] = t /\ f # 0 /\ t # 0
      /\ \A u \in Thread \ {t} : sock'[u] = sock[u]
      /\ \A g \in Thread \ {f} : file'[g] = file[g]
  BY <1>2, ClientAssumption DEF Typed, Thread
<1>6. \A u \in Thread : sock[u] \in Thread \cup {0} /\ file[u] \in Thread \cup {0}
  BY Numbers
<1>7. ASSUME NEW g \in Thread, file'[g] # 0 PROVE sock'[file'[g]] = g
  <2>1. CASE g = f BY <1>5, <2>1
  <2>2. CASE g # f
    <3>1. file'[g] = file[g] /\ sock[file[g]] = g /\ file[g] \in Thread
      BY <1>5, <1>6, <1>7, <2>2 DEF Files
    <3>2. g # 0 BY ClientAssumption DEF Thread
    <3>3. file[g] # t BY <1>4, <3>1, <3>2
    <3> QED BY <1>5, <3>1, <3>3
  <2> QED BY <2>1, <2>2
<1>8. ASSUME NEW u \in Thread, Lost(u) PROVE Lost(u)'
  <2>1. u # t /\ sock[u] \in Thread BY <1>4, <1>6, <1>8 DEF Lost
  <2>2. file'[sock[u]] \in {file[sock[u]], t} BY <1>5, <2>1
  <2> QED BY <1>5, <1>8, <2>1, <2>2 DEF Lost
<1>9. ASSUME NEW u \in Thread, NEW w \in Thread, held'[u] = w
      PROVE  Lost(u)' /\ Lost(w)'
  <2>1. Lost(u) /\ Lost(w) BY <1>3, <1>9 DEF Files
  <2> QED BY <1>8, <2>1
<1>10. ASSUME NEW u \in Thread
       PROVE  /\ pc'[Client(u)] \in {"none", "socket"} => sock'[u] = 0
              /\ pc'[Client(u)] \in Active \cup {"again"} => sock'[u] # 0
  BY <1>3, <1>5 DEF Files
<1>11. Files' BY <1>7, <1>9, <1>10 DEF Files
<1>12. ASSUME NEW u \in Thread \ {t}, Intact(u)' PROVE Intact(u)
  <2>1. sock[u] \in Thread /\ file'[sock[u]] = u
    BY <1>5, <1>6, <1>12 DEF Intact
  <2>2. file[sock[u]] = u BY <1>5, <2>1
  <2>3. ASSUME NEW w \in Thread \ {u}, sock[w] = sock[u]
        PROVE  pc[Client(w)] \notin Active
    <3>1. w # t BY <1>4, <2>1, <2>3, ClientAssumption DEF Thread
    <3> QED BY <1>3, <1>5, <1>12, <2>3, <3>1 DEF Intact
  <2> QED BY <2>1, <2>2, <2>3, ClientAssumption DEF Intact, Thread
<1> QED BY <1>11, <1>12 DEF KeepsIntact

\* close, whoever's descriptor it is by now: its thread has lost it.
LEMMA CloseFiles ==
  ASSUME Typed, Files, NEW t \in Thread, NEW next \in {"again", "gone"},
         pc[Client(t)] \in Active \cup {"again"}, CloseFd(t, next)
  PROVE  /\ Files' /\ ~Intact(t)'
         /\ \A u \in Thread \ {t} : KeepsIntact(u)
<1>1. /\ Client(t) \in End
      /\ \A u \in Thread \ {t} : Client(u) \in End /\ Client(u) # Client(t)
  BY EndsOf, EndsDiffer
<1>2. PICK f \in Thread : f = sock[t]
  <2>1. sock[t] # 0 BY DEF Files
  <2> QED BY <2>1, ClientAssumption DEF Typed, Thread
<1>3. PICK stay \in SUBSET {u \in Thread : Reading(u) /\ sock[u] = f} :
        held' = [u \in Thread |-> IF u \in stay THEN file[f] ELSE held[u]]
  BY <1>2 DEF CloseFd
<1>4. /\ file' = [file EXCEPT ![f] = 0] /\ sock' = sock
      /\ pc'[Client(t)] = next
      /\ \A u \in Thread \ {t} : pc'[Client(u)] = pc[Client(u)]
  BY <1>1, <1>2 DEF CloseFd, Typed
<1>5. file'[f] = 0 /\ \A g \in Thread \ {f} : file'[g] = file[g]
  BY <1>4 DEF Typed
<1>6. /\ 0 \notin Thread
      /\ \A u \in Thread : /\ sock[u] \in Thread \cup {0}
                           /\ file[u] \in Thread \cup {0}
                           /\ held[u] \in Thread \cup {0}
  BY Numbers
<1>7. \A w \in Thread : Lost(w) => Lost(w)'
  <2> SUFFICES ASSUME NEW w \in Thread, Lost(w) PROVE Lost(w)'
    OBVIOUS
  <2>1. sock[w] \in Thread BY <1>6 DEF Lost
  <2>2. file'[sock[w]] \in {file[sock[w]], 0} BY <1>5, <2>1
  <2> QED BY <1>4, <1>6, <2>2 DEF Lost
<1>8. \A w \in Thread : sock[w] = f => Lost(w)'
  BY <1>4, <1>5, <1>6 DEF Lost
<1>9. ASSUME NEW u \in Thread, NEW w \in Thread, held'[u] = w
      PROVE  Lost(u)' /\ Lost(w)'
  <2>1. CASE u \in stay
    <3>1. w = file[f] /\ sock[u] = f BY <1>3, <1>9, <2>1
    <3>2. sock[w] = f BY <1>6, <3>1 DEF Files
    <3> QED BY <1>8, <3>1, <3>2
  <2>2. CASE u \notin stay
    <3>1. held[u] = w BY <1>3, <1>9, <2>2
    <3>2. Lost(u) /\ Lost(w) BY <3>1 DEF Files
    <3> QED BY <1>7, <3>2
  <2> QED BY <2>1, <2>2
<1>10. \A g \in Thread : file'[g] # 0 => sock'[file'[g]] = g
  BY <1>4, <1>5 DEF Files
<1>11. ASSUME NEW u \in Thread
       PROVE  /\ pc'[Client(u)] \in {"none", "socket"} => sock'[u] = 0
              /\ pc'[Client(u)] \in Active \cup {"again"} => sock'[u] # 0
  BY <1>2, <1>4, <1>6 DEF Files
<1>12. Files' BY <1>9, <1>10, <1>11 DEF Files
<1>13. ~Intact(t)' BY <1>2, <1>4, <1>5, <1>6 DEF Intact
<1>14. ASSUME NEW u \in Thread \ {t}, Intact(u)' PROVE Intact(u)
  <2>1. sock[u] \in Thread /\ file'[sock[u]] = u
    BY <1>4, <1>6, <1>14 DEF Intact
  <2>2. sock[u] # f /\ file[sock[u]] = u BY <1>5, <1>6, <2>1
  <2>3. ASSUME NEW w \in Thread \ {u}, sock[w] = sock[u]
        PROVE  pc[Client(w)] \notin Active
    <3>1. w # t BY <1>2, <2>2, <2>3
    <3> QED BY <1>4, <1>14, <2>3, <3>1 DEF Intact
  <2> QED BY <1>6, <2>1, <2>2, <2>3 DEF Intact
<1> QED BY <1>12, <1>13, <1>14 DEF KeepsIntact

-----------------------------------------------------------------------------
(* What a call of put_line or get_line does to the connection it is on.    *)

\* A step leaves the connection of t alone, and does not mend it.
Leaves(t) ==
  /\ t \in broken' <=> t \in broken
  /\ \A e \in {Client(t), Server(t)} :
       /\ pc'[e] = pc[e] /\ line'[e] = line[e] /\ out'[e] = out[e]
       /\ wire'[e] = wire[e] /\ buf'[e] = buf[e]

LEMMA LeftTalks ==
  ASSUME NEW t \in Thread, Leaves(t)
  PROVE  (TalkOf(t) => TalkOf(t)') /\ (Fresh(t) => Fresh(t)')
<1>1. /\ pc'[Client(t)] = pc[Client(t)] /\ pc'[Server(t)] = pc[Server(t)]
      /\ line'[Client(t)] = line[Client(t)] /\ line'[Server(t)] = line[Server(t)]
      /\ out'[Client(t)] = out[Client(t)] /\ out'[Server(t)] = out[Server(t)]
      /\ wire'[Client(t)] = wire[Client(t)] /\ wire'[Server(t)] = wire[Server(t)]
      /\ buf'[Client(t)] = buf[Client(t)] /\ buf'[Server(t)] = buf[Server(t)]
  BY DEF Leaves
<1>2. Peer(Client(t)) = Server(t) /\ Peer(Server(t)) = Client(t) BY EndsOf
<1> QED BY <1>1, <1>2
        DEF TalkOf, Talk, Unused, Sent, Welcoming, Ordering, Answering, Got, Fresh

\* An end of the connection of t.
LEMMA ThisEnd ==
  ASSUME NEW t \in Thread, NEW e \in {Client(t), Server(t)}
  PROVE  /\ e \in End /\ Peer(e) \in End /\ e[1] = t /\ Peer(e) # e
         /\ Peer(e) \in {Client(t), Server(t)}
         /\ On(e) = t => Near(e) = e /\ Far(e) = Peer(e)
<1>1. /\ e \in End /\ Peer(e) \in End /\ e[1] = t /\ Peer(e) # e
      /\ Peer(e) \in {Client(t), Server(t)}
  BY EndsOf
<1>2. ASSUME On(e) = t PROVE Near(e) = e
  BY <1>2 DEF Near, Client, Server
<1> QED BY <1>1, <1>2 DEF Far

LEMMA SendLeaves ==
  ASSUME Typed, NEW e \in End, NEW done, NEW failed, Put(e, done, failed),
         NEW t \in Thread, t # e[1], t # On(e)
  PROVE  Leaves(t)
<1>1. \A d \in {Client(t), Server(t)} : d \in End /\ d # e /\ d # Far(e)
  BY OtherEnds
<1>2. buf' = buf BY DEF Put, bufVars
<1>3. ASSUME NEW r \in 1..Len(out[e]), SendSome(e, r, done) PROVE Leaves(t)
  <2>1. /\ out' = [out EXCEPT ![e] = Remaining(e, r)] /\ line' = line
        /\ pc' = pc \/ pc' = [pc EXCEPT ![e] = done]
    BY <1>3 DEF SendSome
  <2>2. \/ wire' = wire
        \/ wire' = [wire EXCEPT ![Far(e)] = @ \o SubSeq(out[e], 1, r)]
    BY <1>3 DEF SendSome
  <2>3. broken' = broken \/ broken' = broken \cup {On(e)}
    BY <1>3 DEF SendSome
  <2>4. \A d \in End : d # e /\ d # Far(e) =>
          pc'[d] = pc[d] /\ out'[d] = out[d] /\ wire'[d] = wire[d]
    BY <2>1, <2>2 DEF Typed
  <2> QED BY <1>1, <1>2, <2>1, <2>3, <2>4 DEF Leaves
<1>4. CASE SendFails(e, failed)
  BY <1>1, <1>2, <1>4 DEF SendFails, Leaves, Typed
<1>5. CASE SendKills(e)
  BY <1>1, <1>2, <1>5 DEF SendKills, lineVars, Leaves, Typed
<1> QED BY <1>3, <1>4, <1>5 DEF Put

LEMMA SendEffect ==
  ASSUME Typed, NEW t \in Thread, NEW e \in {Client(t), Server(t)},
         On(e) = t, pc[Server(t)] # "none",
         NEW done, NEW failed, Put(e, done, failed), t \notin broken',
         NEW b \in Seq(Byte), NEW l \in Seq(Byte),
         Conveys(b, wire[Peer(e)], out[e], l)
  PROVE  /\ ~Closed(Peer(e)) /\ Conveys(b, wire'[Peer(e)], out'[e], l)
         /\ \/ out'[e] # <<>> /\ pc'[e] = pc[e]
            \/ out'[e] = <<>> /\ pc'[e] = done
         /\ pc'[Peer(e)] = pc[Peer(e)] /\ out'[Peer(e)] = out[Peer(e)]
         /\ wire'[e] = wire[e] /\ buf' = buf /\ line' = line
<1>1. e \in End /\ Peer(e) \in End /\ Peer(e) # e /\ Far(e) = Peer(e)
  BY ThisEnd
<1>2. t \notin broken
  BY DEF Put, SendSome, SendFails, SendKills
<1>3. PICK r \in 1..Len(out[e]) : SendSome(e, r, done)
  <2>1. Connected(e) /\ On(e) # 0 BY ClientAssumption DEF Connected, Thread
  <2> QED BY <1>2, <2>1 DEF Put, SendFails, SendKills
<1>4. ~Closed(Peer(e)) BY <1>1, <1>3 DEF SendSome
<1>5. out[e] \in Seq(Byte) /\ wire[Peer(e)] \in Seq(Byte) BY <1>1 DEF Typed
<1>6. /\ out'[e] = SubSeq(out[e], r + 1, Len(out[e]))
      /\ wire'[Peer(e)] = wire[Peer(e)] \o SubSeq(out[e], 1, r)
  BY <1>1, <1>3, <1>4 DEF SendSome, Remaining, Typed
<1>7. /\ Conveys(b, wire'[Peer(e)], out'[e], l)
      /\ out'[e] = <<>> <=> r = Len(out[e])
  BY <1>5, <1>6, SendConveys
<1>8. pc'[e] = IF r = Len(out[e]) THEN done ELSE pc[e]
  BY <1>1, <1>3 DEF SendSome, Typed
<1>9. /\ pc'[Peer(e)] = pc[Peer(e)] /\ out'[Peer(e)] = out[Peer(e)]
      /\ wire'[e] = wire[e] /\ line' = line
  BY <1>1, <1>3 DEF SendSome, Typed
<1>10. buf' = buf BY DEF Put, bufVars
<1> QED BY <1>4, <1>7, <1>8, <1>9, <1>10

LEMMA ReceiveLeaves ==
  ASSUME Typed, NEW e \in End, NEW positive, NEW zero, NEW negative,
         Get(e, positive, zero, negative),
         NEW t \in Thread, t # e[1], t # On(e)
  PROVE  Leaves(t)
<1>1. \A d \in {Client(t), Server(t)} : d \in End /\ d # e /\ d # Near(e)
  BY OtherEnds
<1>2. broken' = broken /\ line' = line /\ out' = out BY DEF Get
<1>3. CASE ReceiveByte(e, positive)
  BY <1>1, <1>2, <1>3 DEF ReceiveByte, Leaves, Typed
<1>4. CASE ReceiveNothing(e, zero)
  BY <1>1, <1>2, <1>4 DEF ReceiveNothing, Leaves, Typed
<1>5. CASE ReceiveFails(e, zero, negative)
  BY <1>1, <1>2, <1>5 DEF ReceiveFails, Leaves, Typed
<1> QED BY <1>3, <1>4, <1>5 DEF Get

\* What get_line does at the end of a connection that is not reset: nothing
\* more comes, a byte of the line comes, or its newline does.
LEMMA ReceiveEffect ==
  ASSUME Typed, NEW t \in Thread, NEW e \in {Client(t), Server(t)},
         On(e) = t, pc[Server(t)] # "none",
         NEW positive, NEW zero, NEW negative,
         Get(e, positive, zero, negative), t \notin broken'
  PROVE  /\ pc'[Peer(e)] = pc[Peer(e)] /\ buf'[Peer(e)] = buf[Peer(e)]
         /\ wire'[Peer(e)] = wire[Peer(e)] /\ out' = out /\ line' = line
         /\ \/ /\ wire[e] = <<>> /\ Closed(Peer(e)) /\ pc'[e] = zero
               /\ wire'[e] = wire[e] /\ buf'[e] = buf[e]
            \/ /\ wire[e] # <<>>
               /\ buf'[e] = Append(buf[e], Head(wire[e]))
               /\ wire'[e] = Tail(wire[e])
               /\ pc'[e] = IF Head(wire[e]) = NL THEN positive ELSE pc[e]
<1>1. /\ e \in End /\ Peer(e) \in End /\ Peer(e) # e
      /\ Near(e) = e /\ Far(e) = Peer(e)
  BY ThisEnd
<1>2. broken' = broken /\ line' = line /\ out' = out BY DEF Get
<1>3. CASE ReceiveByte(e, positive)
  BY <1>1, <1>2, <1>3 DEF ReceiveByte, Typed
<1>4. CASE ReceiveNothing(e, zero)
  BY <1>1, <1>2, <1>4 DEF ReceiveNothing, AtEnd, Typed
<1>5. ~ReceiveFails(e, zero, negative)
  <2>1. Connected(e) BY ClientAssumption DEF Connected, Thread
  <2> QED BY <1>2, <2>1 DEF ReceiveFails
<1> QED BY <1>2, <1>3, <1>4, <1>5 DEF Get

LEMMA ReceiveLine ==
  ASSUME Typed, NEW t \in Thread, NEW e \in {Client(t), Server(t)},
         On(e) = t, pc[Server(t)] # "none",
         NEW positive, NEW zero, NEW negative,
         Get(e, positive, zero, negative), t \notin broken',
         NEW o \in Seq(Byte), NEW l \in Seq(Byte), Plain(buf[e]),
         Conveys(buf[e], wire[e], o, l)
  PROVE  \/ /\ wire[e] = <<>> /\ Closed(Peer(e)) /\ pc'[e] = zero
            /\ wire'[e] = wire[e] /\ buf'[e] = buf[e]
         \/ /\ pc'[e] = pc[e] /\ Plain(buf'[e])
            /\ Conveys(buf'[e], wire'[e], o, l)
         \/ /\ pc'[e] = positive /\ buf'[e] = l /\ wire'[e] = <<>> /\ o = <<>>
<1>1. e \in End BY ThisEnd
<1>2. buf[e] \in Seq(Byte) /\ wire[e] \in Seq(Byte) BY <1>1 DEF Typed
<1>3. wire[e] # <<>> =>
        /\ Conveys(Append(buf[e], Head(wire[e])), Tail(wire[e]), o, l)
        /\ Head(wire[e]) # NL => Plain(Append(buf[e], Head(wire[e])))
        /\ Head(wire[e]) = NL => /\ Tail(wire[e]) = <<>> /\ o = <<>>
                                 /\ Append(buf[e], Head(wire[e])) = l
  BY <1>2, ReceiveConveys
<1>4. \/ /\ wire[e] = <<>> /\ Closed(Peer(e)) /\ pc'[e] = zero
         /\ wire'[e] = wire[e] /\ buf'[e] = buf[e]
      \/ /\ wire[e] # <<>>
         /\ buf'[e] = Append(buf[e], Head(wire[e]))
         /\ wire'[e] = Tail(wire[e])
         /\ pc'[e] = IF Head(wire[e]) = NL THEN positive ELSE pc[e]
  BY ReceiveEffect
<1> QED BY <1>3, <1>4
-----------------------------------------------------------------------------
(* Whose connection a step is about.                                       *)

\* An intact thread is on its own connection ...
LEMMA OwnConnection ==
  ASSUME Typed, Files, NEW t \in Thread, Intact(t)
  PROVE  On(Client(t)) = t /\ On(Server(t)) = t
<1>1. ~Lost(t) BY DEF Intact, Lost
<1>2. held[t] \in Thread \cup {0} BY ClientAssumption DEF Typed, Thread
<1>3. held[t] = 0 BY <1>1, <1>2 DEF Files
<1> QED BY <1>3, EndsOf DEF Intact, On

\* ... and no other thread that uses a descriptor is.
LEMMA NotMine ==
  ASSUME Typed, Files, NEW t \in Thread, Intact(t) \/ sock[t] = 0,
         NEW v \in Thread, v # t, pc[Client(v)] \in Active
  PROVE  On(Client(v)) # t
<1>1. t # 0 /\ ~Lost(t) BY ClientAssumption DEF Intact, Lost, Thread
<1>2. held[v] # t BY <1>1 DEF Files
<1>3. sock[v] \in Thread BY ClientAssumption DEF Files, Typed, Thread
<1>4. file[sock[v]] # t
  <2> SUFFICES ASSUME file[sock[v]] = t PROVE FALSE
    OBVIOUS
  <2>1. sock[t] = sock[v] BY <1>1, <1>3 DEF Files
  <2> QED BY <1>3, <2>1, ClientAssumption DEF Intact, Thread
<1> QED BY <1>1, <1>2, <1>4, EndsOf DEF On

LEMMA SendMoves ==
  ASSUME Typed, NEW e \in End, NEW done, NEW failed, Put(e, done, failed)
  PROVE  /\ sock' = sock /\ file' = file /\ held' = held /\ mpc' = mpc /\ i' = i
         /\ broken \subseteq broken'
         /\ \A d \in End \ {e} : pc'[d] = pc[d]
         /\ pc'[e] \in {pc[e], done, failed}
BY DEF Put, SendSome, SendFails, SendKills, mainVars, fileVars, Typed

LEMMA ReceiveMoves ==
  ASSUME Typed, NEW e \in End, NEW positive, NEW zero, NEW negative,
         Get(e, positive, zero, negative)
  PROVE  /\ sock' = sock /\ file' = file /\ mpc' = mpc /\ i' = i
         /\ broken' = broken
         /\ \A u \in Thread : held'[u] \in {held[u], 0}
         /\ \A d \in End \ {e} : pc'[d] = pc[d]
         /\ pc'[e] \in {pc[e], positive, zero, negative}
<1>1. /\ sock' = sock /\ file' = file /\ mpc' = mpc /\ i' = i
      /\ broken' = broken
  BY DEF Get, mainVars
<1>2. \A u \in Thread : held'[u] \in {held[u], 0} BY DEF Get, Typed
<1>3. CASE ReceiveByte(e, positive)
  BY <1>1, <1>2, <1>3 DEF ReceiveByte, Typed
<1>4. CASE ReceiveNothing(e, zero)
  BY <1>1, <1>2, <1>4 DEF ReceiveNothing, Typed
<1>5. CASE ReceiveFails(e, zero, negative)
  BY <1>1, <1>2, <1>5 DEF ReceiveFails, Typed
<1> QED BY <1>3, <1>4, <1>5 DEF Get

\* The steps of a thread between socket and close.
Uses(t) ==
  \/ Connect(t) \/ CannotConnect(t) \/ ReadWelcome(t) \/ Choose(t)
  \/ SendOrder(t) \/ Clear(t) \/ ReadReply(t)

LEMMA UseMoves ==
  ASSUME Typed, Files, NEW t \in Thread, Uses(t)
  PROVE  /\ pc[Client(t)] \in Active /\ pc'[Client(t)] \in Active
         /\ mpc' = mpc /\ i' = i /\ broken \subseteq broken'
         /\ Files' /\ \A u \in Thread : KeepsIntact(u)
         /\ \A u \in Thread \ {t} : pc'[Client(u)] = pc[Client(u)]
         /\ \A u \in Thread \ {t} : u # On(Client(t)) => Leaves(u)
<1> DEFINE C == Client(t)
<1>1. /\ C \in End /\ C[1] = t
      /\ \A u \in Thread \ {t} : Client(u) \in End \ {C} /\ Server(u) \in End \ {C}
      /\ \A u \in Thread : Server(u) \in End \ {C}
  BY EndsOf, EndsDiffer
<1>2. /\ pc[C] \in Active /\ pc'[C] \in Active
      /\ mpc' = mpc /\ i' = i /\ sock' = sock /\ file' = file
      /\ broken \subseteq broken'
      /\ \A u \in Thread : held'[u] \in {held[u], 0}
      /\ \A u \in Thread \ {t} :
           pc'[Client(u)] = pc[Client(u)] /\ (u # On(C) => Leaves(u))
  <2>1. CASE Connect(t)
    <3>1. PICK v \in Thread : v = On(C) BY <1>1, <2>1, OnType DEF Connect
    <3>2. PICK w \in {Welcome, Refusal} : PutLine(Server(v), w)
      BY <2>1, <3>1 DEF Connect
    <3>3. PICK l : /\ line' = [line EXCEPT ![Server(v)] = l]
                   /\ out' = [out EXCEPT ![Server(v)] = l]
      BY <3>2 DEF PutLine
    <3>4. PICK q : pc' = [pc EXCEPT ![C] = "welcome", ![Server(v)] = q]
      BY <2>1, <3>1 DEF Connect
    <3>5. /\ wire' = wire /\ buf' = buf /\ broken' = broken
          /\ mpc' = mpc /\ i' = i /\ sock' = sock /\ file' = file /\ held' = held
          /\ pc[C] = "connect"
      BY <2>1 DEF Connect, At, mainVars, bufVars, fileVars
    <3>6. /\ DOMAIN pc = End /\ DOMAIN line = End /\ DOMAIN out = End
      BY DEF Typed
    <3>7. \A e \in End : e # C /\ e # Server(v) =>
            pc'[e] = pc[e] /\ line'[e] = line[e] /\ out'[e] = out[e]
      BY <3>3, <3>4, <3>6
    <3>8. pc'[C] = "welcome" BY <1>1, <3>4, <3>6
    <3>9. \A u \in Thread \ {t} : Client(u) # C /\ Client(u) # Server(v)
      BY <1>1 DEF Client, Server
    <3>10. \A u \in Thread \ {t} : u # v =>
             \A e \in {Client(u), Server(u)} : e # C /\ e # Server(v)
      BY <1>1, <3>9 DEF Server
    <3> QED BY <1>1, <3>1, <3>5, <3>7, <3>8, <3>9, <3>10 DEF Leaves, Active
  <2>2. CASE CannotConnect(t)
    BY <1>1, <2>2 DEF CannotConnect, At, Leaves, Active, mainVars, lineVars,
                      bufVars, fileVars, Typed
  <2>3. CASE ReadWelcome(t)
    <3>1. pc[C] = "welcome" /\ Get(C, "order", "failed", "order")
      BY <2>3 DEF ReadWelcome, At
    <3> QED BY <1>1, <3>1, ReceiveMoves, ReceiveLeaves DEF Active
  <2>4. CASE Choose(t)
    <3>1. PICK l : line' = [line EXCEPT ![C] = l] /\ out' = [out EXCEPT ![C] = l]
      BY <2>4 DEF Choose, PutLine
    <3>2. \A e \in End \ {C} :
            pc'[e] = pc[e] /\ line'[e] = line[e] /\ out'[e] = out[e]
      BY <2>4, <3>1 DEF Choose, Typed
    <3>3. /\ pc[C] = "order" /\ pc'[C] = "send" /\ mpc' = mpc /\ i' = i
          /\ sock' = sock /\ file' = file /\ held' = held
          /\ wire' = wire /\ buf' = buf /\ broken' = broken
      BY <1>1, <2>4 DEF Choose, At, mainVars, bufVars, fileVars, Typed
    <3> QED BY <1>1, <3>2, <3>3 DEF Leaves, Active
  <2>5. CASE SendOrder(t)
    <3>1. pc[C] = "send" /\ Put(C, "clear", "clear") BY <2>5 DEF SendOrder, At
    <3> QED BY <1>1, <3>1, SendMoves, SendLeaves DEF Active
  <2>6. CASE Clear(t)
    BY <1>1, <2>6 DEF Clear, At, Leaves, Active, mainVars, lineVars, fileVars, Typed
  <2>7. CASE ReadReply(t)
    <3>1. pc[C] = "reply" /\ Get(C, "served", "failed", "served")
      BY <2>7 DEF ReadReply, At
    <3> QED BY <1>1, <3>1, ReceiveMoves, ReceiveLeaves DEF Active
  <2> QED BY <2>1, <2>2, <2>3, <2>4, <2>5, <2>6, <2>7 DEF Uses
<1>3. Files' /\ \A u \in Thread : KeepsIntact(u) BY <1>2, StillFiles
<1> QED BY <1>2, <1>3

\* The other steps of a thread touch no connection.
LEMMA FileMoves ==
  ASSUME Typed, Files, NEW t \in Thread, thread_task(t), ~Uses(t)
  PROVE  /\ mpc' = mpc /\ i' = i /\ pc[Client(t)] # "none"
         /\ pc'[Client(t)] \notin {"none", "socket"}
         /\ Files' /\ (Intact(t)' => Open(t))
         /\ \A u \in Thread \ {t} : KeepsIntact(u) /\ Leaves(u)
<1> DEFINE C == Client(t)
<1>1. /\ C \in End
      /\ \A u \in Thread \ {t} : Client(u) \in End \ {C} /\ Server(u) \in End \ {C}
  BY EndsOf, EndsDiffer
<1>2. CASE Open(t)
  <2>1. Files' /\ \A u \in Thread \ {t} : KeepsIntact(u) BY <1>2, OpenFiles
  <2>2. /\ pc[C] = "socket" /\ pc'[C] = "connect"
        /\ \A e \in End \ {C} : pc'[e] = pc[e]
    BY <1>1, <1>2 DEF Open, At, Typed
  <2>3. /\ mpc' = mpc /\ i' = i /\ line' = line /\ out' = out /\ wire' = wire
        /\ buf' = buf /\ broken' = broken
    BY <1>2 DEF Open, mainVars, lineVars, bufVars
  <2>4. \A u \in Thread \ {t} : Leaves(u) BY <1>1, <2>2, <2>3 DEF Leaves
  <2> QED BY <1>2, <2>1, <2>2, <2>3, <2>4
<1>3. CASE CannotOpen(t)
  <2>1. /\ mpc' = mpc /\ i' = i /\ pc[C] = "socket" /\ pc'[C] = "gone"
        /\ sock' = sock /\ file' = file /\ held' = held
        /\ \A u \in Thread \ {t} : Leaves(u) /\ pc'[Client(u)] = pc[Client(u)]
    BY <1>1, <1>3 DEF CannotOpen, At, Leaves, mainVars, lineVars, bufVars,
                      fileVars, Typed
  <2>2. Files' /\ \A u \in Thread : KeepsIntact(u) BY <2>1, StillFiles
  <2>3. ~Intact(t)' BY <2>1 DEF Files, Intact
  <2> QED BY <2>1, <2>2, <2>3
<1>4. CASE Close(t) \/ CloseAgain(t) \/ Leave(t)
  <2>1. PICK next \in {"again", "gone"} : CloseFd(t, next)
    BY <1>4 DEF Close, CloseAgain, Leave
  <2>2. pc[C] \in Active \cup {"again"}
    BY <1>4 DEF Close, CloseAgain, Leave, At, Active
  <2>3. Files' /\ ~Intact(t)' /\ \A u \in Thread \ {t} : KeepsIntact(u)
    BY <2>1, <2>2, CloseFiles
  <2>4. /\ mpc' = mpc /\ i' = i /\ pc'[C] = next
        /\ \A u \in Thread \ {t} : Leaves(u)
    BY <1>1, <2>1 DEF CloseFd, Leaves, mainVars, lineVars, bufVars, Typed
  <2>5. pc[C] # "none" BY <2>2 DEF Active
  <2> QED BY <2>3, <2>4, <2>5
<1> QED BY <1>2, <1>3, <1>4 DEF thread_task, Uses

-----------------------------------------------------------------------------
(* The talk, step by step.                                                 *)

LEMMA InitTalks == Init => Talks /\ AllFresh /\ NotStarted
<1> SUFFICES ASSUME Init PROVE Talks /\ AllFresh /\ NotStarted
  OBVIOUS
<1>1. ASSUME NEW t \in Thread PROVE ~Intact(t) /\ Fresh(t)
  BY <1>1, EndsOf DEF Init, Intact, Fresh, Unused
<1>2. ASSUME NEW t \in i..NumThreads PROVE pc[Client(t)] = "none"
  <2>1. t \in Thread BY <1>2 DEF Init, Thread
  <2> QED BY <2>1, EndsOf DEF Init
<1> QED BY <1>1, <1>2 DEF Talks, AllFresh, NotStarted

LEMMA ConnectTalks ==
  ASSUME Typed, NEW t \in Thread, On(Client(t)) = t, TalkOf(t), Connect(t)
  PROVE  TalkOf(t)'
<1> DEFINE C == Client(t)  S == Server(t)
<1>1. /\ C \in End /\ S \in End /\ C # S /\ Peer(C) = S /\ Peer(S) = C
  BY EndsOf
<1>2. /\ pc[C] = "connect" /\ Unused(C) /\ Unused(S)
  BY DEF Connect, At, TalkOf, Talk, Welcoming, Ordering, Answering
<1>3. /\ pc'[C] = "welcome" /\ pc'[S] \in {"greet", "refuse"}
      /\ wire' = wire /\ buf' = buf
  BY <1>1 DEF Connect, bufVars, Typed
<1>4. PICK w \in {Welcome, Refusal} : PutLine(S, w) BY DEF Connect
<1>5. /\ line'[S] = Terminated(w) /\ out'[S] = Terminated(w)
      /\ line'[C] = line[C] /\ out'[C] = out[C]
  BY <1>1, <1>4 DEF PutLine, Typed
<1>6. Terminated(w) \in Seq(Byte) /\ IsLine(Terminated(w)) BY Bytes, Lines
<1>7. /\ Conveys(<<>>, <<>>, Terminated(w), Terminated(w))
      /\ Terminated(w) # <<>> /\ Plain(<<>>)
  BY <1>6, StartConveys
<1>8. Welcoming("welcome", pc[S], C, S)'
  BY <1>1, <1>2, <1>3, <1>5, <1>7 DEF Welcoming, Unused
<1> QED BY <1>3, <1>8 DEF TalkOf, Talk

LEMMA CannotConnectTalks ==
  ASSUME Typed, NEW t \in Thread, TalkOf(t), CannotConnect(t)
  PROVE  TalkOf(t)'
<1>1. pc'[Client(t)] = "close" /\ pc'[Server(t)] = pc[Server(t)]
  BY EndsOf DEF CannotConnect, Typed
<1>2. pc[Server(t)] = "none"
  BY DEF CannotConnect, At, TalkOf, Talk, Welcoming, Ordering, Answering
<1> QED BY <1>1, <1>2 DEF TalkOf, Talk, ServerSide

LEMMA ReadWelcomeTalks ==
  ASSUME Typed, NEW t \in Thread, On(Client(t)) = t, TalkOf(t),
         ReadWelcome(t), t \notin broken'
  PROVE  TalkOf(t)'
<1> DEFINE C == Client(t)  S == Server(t)
<1>1. /\ C \in End /\ S \in End /\ C # S /\ Peer(C) = S /\ Peer(S) = C
  BY EndsOf
<1>2. pc[C] = "welcome" /\ Get(C, "order", "failed", "order")
  BY DEF ReadWelcome, At
<1>3. Welcoming("welcome", pc[S], C, S) /\ pc[S] # "none"
  BY <1>2 DEF TalkOf, Talk, Welcoming, Ordering, Answering
<1>4. out[S] \in Seq(Byte) /\ line[S] \in Seq(Byte) BY <1>1 DEF Typed
<1>5. /\ pc'[S] = pc[S] /\ out' = out /\ line' = line
      /\ wire'[S] = wire[S] /\ buf'[S] = buf[S]
  BY <1>1, <1>2, <1>3, ReceiveEffect
<1>6. \/ pc'[C] = "failed"
      \/ /\ pc'[C] = pc[C] /\ Plain(buf'[C])
         /\ Conveys(buf'[C], wire'[C], out[S], line[S])
      \/ /\ pc'[C] = "order" /\ buf'[C] = line[S] /\ wire'[C] = <<>>
         /\ out[S] = <<>>
  BY <1>1, <1>2, <1>3, <1>4, ReceiveLine DEF Welcoming
<1>7. CASE pc'[C] = "failed"
  BY <1>3, <1>5, <1>7 DEF TalkOf, Talk, Welcoming, ServerSide
<1>8. CASE /\ pc'[C] = pc[C] /\ Plain(buf'[C])
           /\ Conveys(buf'[C], wire'[C], out[S], line[S])
  <2>1. Welcoming("welcome", pc[S], C, S)'
    BY <1>1, <1>3, <1>5, <1>8 DEF Welcoming, Unused
  <2> QED BY <1>2, <1>8, <2>1 DEF TalkOf, Talk
<1>9. CASE /\ pc'[C] = "order" /\ buf'[C] = line[S] /\ wire'[C] = <<>>
           /\ out[S] = <<>>
  <2>1. Sent(S)' /\ Unused(C)' /\ pc'[S] \in {"listen", "closed"}
    BY <1>1, <1>3, <1>5, <1>9 DEF Welcoming, Unused, Sent
  <2> QED BY <1>9, <2>1 DEF TalkOf, Talk
<1> QED BY <1>6, <1>7, <1>8, <1>9

LEMMA ChooseTalks ==
  ASSUME Typed, NEW t \in Thread, On(Client(t)) = t, TalkOf(t), Choose(t)
  PROVE  TalkOf(t)'
<1> DEFINE C == Client(t)  S == Server(t)
<1>1. /\ C \in End /\ S \in End /\ C # S /\ Peer(C) = S /\ Peer(S) = C
  BY EndsOf
<1>2. /\ pc[C] = "order" /\ pc[S] \in {"listen", "closed"}
      /\ Sent(S) /\ Unused(C)
  BY DEF Choose, At, TalkOf, Talk, Welcoming, Ordering, Answering
<1>3. PICK o \in Order : PutLine(C, Append(o, NL)) BY DEF Choose
<1>4. PICK l : l = Terminated(Append(o, NL)) OBVIOUS
<1>5. l \in Seq(Byte) /\ IsLine(l)
  <2>1. Append(o, NL) \in Seq(Byte) BY Bytes, AppendProperties
  <2> QED BY <1>4, <2>1, Bytes, Lines
<1>6. Conveys(<<>>, <<>>, l, l) /\ l # <<>> /\ Plain(<<>>)
  BY <1>5, StartConveys
<1>7. /\ line'[C] = l /\ out'[C] = l /\ out'[S] = out[S]
      /\ wire' = wire /\ buf' = buf /\ pc'[C] = "send" /\ pc'[S] = pc[S]
  BY <1>1, <1>3, <1>4 DEF PutLine, Choose, bufVars, Typed
<1>8. Ordering("send", pc[S], C, S)'
  BY <1>1, <1>2, <1>6, <1>7 DEF Ordering, Sent, Unused
<1> QED BY <1>7, <1>8 DEF TalkOf, Talk

LEMMA SendOrderTalks ==
  ASSUME Typed, NEW t \in Thread, On(Client(t)) = t, TalkOf(t),
         SendOrder(t), t \notin broken'
  PROVE  TalkOf(t)'
<1> DEFINE C == Client(t)  S == Server(t)
<1>1. /\ C \in End /\ S \in End /\ C # S /\ Peer(C) = S /\ Peer(S) = C
  BY EndsOf
<1>2. pc[C] = "send" /\ Put(C, "clear", "clear") BY DEF SendOrder, At
<1>3. Ordering("send", pc[S], C, S) /\ pc[S] # "none"
  BY <1>2 DEF TalkOf, Talk, Welcoming, Ordering, Answering
<1>4. buf[S] \in Seq(Byte) /\ line[C] \in Seq(Byte) BY <1>1 DEF Typed
<1>5. /\ ~Closed(S) /\ Conveys(buf[S], wire'[S], out'[C], line[C])
      /\ \/ out'[C] # <<>> /\ pc'[C] = pc[C]
         \/ out'[C] = <<>> /\ pc'[C] = "clear"
      /\ pc'[S] = pc[S] /\ out'[S] = out[S] /\ wire'[C] = wire[C]
      /\ buf' = buf /\ line' = line
  BY <1>1, <1>2, <1>3, <1>4, SendEffect DEF Ordering
<1>6. pc[S] = "listen" BY <1>3, <1>5, EndsOf DEF Ordering, Closed, Ended
<1>7. CASE out'[C] # <<>> /\ pc'[C] = pc[C]
  <2>1. Ordering("send", pc[S], C, S)'
    BY <1>1, <1>3, <1>5, <1>7 DEF Ordering, Sent
  <2> QED BY <1>2, <1>7, <2>1 DEF TalkOf, Talk
<1>8. CASE out'[C] = <<>> /\ pc'[C] = "clear"
  <2>1. Plain(<<>>) /\ IsLine(line[C]) BY <1>3 DEF Plain, Ordering, Conveys
  <2>2. Answering("clear", pc[S], C, S)'
    BY <1>1, <1>3, <1>5, <1>6, <1>8, <2>1 DEF Answering, Ordering, Sent, Got
  <2> QED BY <1>8, <2>2 DEF TalkOf, Talk
<1> QED BY <1>5, <1>7, <1>8

LEMMA ClearTalks ==
  ASSUME Typed, NEW t \in Thread, On(Client(t)) = t, TalkOf(t), Clear(t)
  PROVE  TalkOf(t)'
<1> DEFINE C == Client(t)  S == Server(t)
<1>1. /\ C \in End /\ S \in End /\ C # S /\ Peer(C) = S /\ Peer(S) = C
  BY EndsOf
<1>2. /\ pc[C] = "clear" /\ Answering("clear", pc[S], C, S)
  BY DEF Clear, At, TalkOf, Talk, Welcoming, Ordering
<1>3. /\ line' = line /\ out' = out /\ wire' = wire /\ pc'[C] = "reply"
      /\ pc'[S] = pc[S] /\ buf'[C] = <<>> /\ buf'[S] = buf[S]
  BY <1>1 DEF Clear, lineVars, Typed
<1>4. Answering("reply", pc[S], C, S)'
  BY <1>1, <1>2, <1>3 DEF Answering, Got, Sent
<1> QED BY <1>3, <1>4 DEF TalkOf, Talk

LEMMA ReadReplyTalks ==
  ASSUME Typed, NEW t \in Thread, On(Client(t)) = t, TalkOf(t),
         ReadReply(t), t \notin broken'
  PROVE  TalkOf(t)'
<1> DEFINE C == Client(t)  S == Server(t)
<1>1. /\ C \in End /\ S \in End /\ C # S /\ Peer(C) = S /\ Peer(S) = C
  BY EndsOf
<1>2. pc[C] = "reply" /\ Get(C, "served", "failed", "served")
  BY DEF ReadReply, At
<1>3. Answering("reply", pc[S], C, S) /\ Plain(buf[C]) /\ pc[S] # "none"
  BY <1>2 DEF TalkOf, Talk, Welcoming, Ordering, Answering, Got
<1>4. /\ out[S] \in Seq(Byte) /\ line[S] \in Seq(Byte) /\ line[C] \in Seq(Byte)
      /\ <<>> \in Seq(Byte)
  BY <1>1 DEF Typed
<1>5. /\ pc'[S] = pc[S] /\ buf'[S] = buf[S] /\ wire'[S] = wire[S]
      /\ out' = out /\ line' = line
      /\ \/ /\ wire[C] = <<>> /\ pc'[C] = "failed"
         \/ wire[C] # <<>>
  BY <1>1, <1>2, <1>3, ReceiveEffect
<1>6. CASE wire[C] = <<>>
  <2>1. pc'[C] = "failed" BY <1>5, <1>6
  <2> QED BY <1>3, <1>5, <2>1 DEF TalkOf, Talk, Answering, ServerSide
<1>7. ASSUME wire[C] # <<>>, NEW o \in Seq(Byte), o = out[S],
             Conveys(buf[C], wire[C], o, line[C]),
             \/ pc[S] = "answer" /\ line[S] = line[C] /\ o # <<>>
             \/ pc[S] = "closed" /\ o = <<>>
      PROVE  TalkOf(t)'
  <2>1. \/ /\ pc'[C] = pc[C] /\ Plain(buf'[C])
           /\ Conveys(buf'[C], wire'[C], o, line[C])
        \/ pc'[C] = "served" /\ buf'[C] = line[C]
        \/ wire[C] = <<>>
    BY <1>1, <1>2, <1>3, <1>4, <1>7, ReceiveLine
  <2>2. CASE /\ pc'[C] = pc[C] /\ Plain(buf'[C])
             /\ Conveys(buf'[C], wire'[C], o, line[C])
    <3>1. out'[C] = <<>> /\ IsLine(line'[C]) BY <1>3, <1>5 DEF Answering
    <3>2. Answering("reply", pc[S], C, S)'
      BY <1>5, <1>7, <2>2, <3>1 DEF Answering, Got
    <3> QED BY <1>2, <2>2, <3>2 DEF TalkOf, Talk
  <2>3. CASE pc'[C] = "served" /\ buf'[C] = line[C]
    BY <1>5, <1>7, <2>3 DEF TalkOf, Talk, ServerSide
  <2> QED BY <1>7, <2>1, <2>2, <2>3
<1>8. CASE wire[C] # <<>>
  <2>1. \/ pc[S] = "answer" /\ line[S] = line[C] /\ out[S] # <<>>
        \/ pc[S] = "closed" /\ out[S] = <<>>
    BY <1>1, <1>3, <1>8 DEF Answering, Sent
  <2>2. Conveys(buf[C], wire[C], out[S], line[C])
    BY <1>1, <1>3, <1>8, <2>1 DEF Answering, Got
  <2> QED BY <1>4, <1>7, <1>8, <2>1, <2>2
<1> QED BY <1>6, <1>8

\* A step of the server's side after which the client has gone on.
LEMMA ClientDone ==
  ASSUME NEW t \in Thread, pc[Client(t)] \in {"served", "close", "failed"}, TalkOf(t),
         pc'[Client(t)] = pc[Client(t)], buf'[Client(t)] = buf[Client(t)],
         line'[Client(t)] = line[Client(t)], ServerSide(pc'[Server(t)])
  PROVE  TalkOf(t)'
BY DEF TalkOf, Talk, Welcoming, Ordering, Answering

LEMMA GreetTalks ==
  ASSUME Typed, NEW t \in Thread, TalkOf(t), Greet(t) \/ Refuse(t),
         t \notin broken'
  PROVE  TalkOf(t)'
<1> DEFINE C == Client(t)  S == Server(t)
<1>1. /\ C \in End /\ S \in End /\ C # S /\ Peer(C) = S /\ Peer(S) = C
      /\ On(S) = t
  BY EndsOf DEF On
<1>2. PICK done \in {"listen", "closed"} : Put(S, done, "closed")
  BY DEF Greet, Refuse
<1>3. pc[S] \in {"greet", "refuse"} BY DEF Greet, Refuse, At
<1>4. Welcoming(pc[C], pc[S], C, S) \/ pc[C] \in {"served", "close", "failed"}
  BY <1>3 DEF TalkOf, Talk, Ordering, Answering
<1>5. CASE Welcoming(pc[C], pc[S], C, S)
  <2>1. buf[C] \in Seq(Byte) /\ line[S] \in Seq(Byte) BY <1>1 DEF Typed
  <2>2. /\ Conveys(buf[C], wire'[C], out'[S], line[S])
        /\ \/ out'[S] # <<>> /\ pc'[S] = pc[S]
           \/ out'[S] = <<>> /\ pc'[S] = done
        /\ pc'[C] = pc[C] /\ out'[C] = out[C] /\ wire'[S] = wire[S]
        /\ buf' = buf /\ line' = line
    BY <1>1, <1>2, <1>5, <2>1, SendEffect DEF Welcoming
  <2>3. Welcoming(pc[C], pc[S], C, S)'
    BY <1>1, <1>3, <1>5, <2>2 DEF Welcoming, Unused
  <2> QED BY <2>3 DEF TalkOf, Talk
<1>6. CASE pc[C] \in {"served", "close", "failed"}
  <2>1. /\ pc'[C] = pc[C] /\ buf'[C] = buf[C] /\ line'[C] = line[C]
        /\ ServerSide(pc'[S])
    BY <1>1, <1>2, <1>3 DEF ServerSide, Put, SendSome, SendFails, SendKills,
                      lineVars, bufVars, Typed
  <2> QED BY <1>6, <2>1, ClientDone
<1> QED BY <1>4, <1>5, <1>6

LEMMA ListenTalks ==
  ASSUME Typed, NEW t \in Thread, TalkOf(t), Listen(t), t \notin broken'
  PROVE  TalkOf(t)'
<1> DEFINE C == Client(t)  S == Server(t)
<1>1. /\ C \in End /\ S \in End /\ C # S /\ Peer(C) = S /\ Peer(S) = C
      /\ On(S) = t
  BY EndsOf DEF On
<1>2. pc[S] = "listen" /\ Get(S, "cook", "closed", "closed")
  BY DEF Listen, At
<1>3. /\ pc'[C] = pc[C] /\ buf'[C] = buf[C] /\ wire'[C] = wire[C]
      /\ out' = out /\ line' = line
      /\ \/ /\ wire[S] = <<>> /\ pc'[S] = "closed"
            /\ wire'[S] = wire[S] /\ buf'[S] = buf[S]
         \/ wire[S] # <<>>
  BY <1>1, <1>2, ReceiveEffect
<1>4. out[C] \in Seq(Byte) /\ line[C] \in Seq(Byte) /\ <<>> \in Seq(Byte)
  BY <1>1 DEF Typed
<1>5. CASE pc[C] \in {"served", "close", "failed"}
  <2>1. pc'[S] \in {"listen", "cook", "closed"}
    BY <1>1, <1>2 DEF Get, ReceiveByte, ReceiveNothing, ReceiveFails, Typed
  <2> QED BY <1>3, <1>5, <2>1, ClientDone DEF ServerSide
<1>6. CASE Welcoming(pc[C], pc[S], C, S)
  <2>1. wire[S] = <<>> BY <1>1, <1>6 DEF Welcoming, Unused
  <2>2. Welcoming(pc[C], pc[S], C, S)'
    BY <1>1, <1>2, <1>3, <1>6, <2>1 DEF Welcoming, Unused
  <2> QED BY <2>2 DEF TalkOf, Talk
<1>7. CASE /\ pc[C] = "order" /\ pc[S] \in {"listen", "closed"}
           /\ Sent(S) /\ Unused(C)
  <2>1. wire[S] = <<>> BY <1>1, <1>7 DEF Unused
  <2>2. pc'[S] = "closed" /\ Sent(S)' /\ Unused(C)'
    BY <1>1, <1>3, <1>7, <2>1 DEF Unused, Sent
  <2> QED BY <1>3, <1>7, <2>2 DEF TalkOf, Talk
<1>8. CASE Ordering(pc[C], pc[S], C, S)
  <2>1. \/ /\ pc'[S] \in {"listen", "closed"} /\ Plain(buf'[S])
           /\ Conveys(buf'[S], wire'[S], out[C], line[C])
        \/ out[C] = <<>>
    BY <1>1, <1>2, <1>4, <1>8, ReceiveLine DEF Ordering
  <2>2. Ordering(pc[C], pc[S], C, S)'
    BY <1>1, <1>3, <1>8, <2>1 DEF Ordering, Sent
  <2> QED BY <2>2 DEF TalkOf, Talk
<1>9. CASE Answering(pc[C], pc[S], C, S)
  <2>1. /\ Plain(buf[S]) /\ Sent(S) /\ Got(pc[C], C) = <<>>
        /\ Conveys(buf[S], wire[S], <<>>, line[C])
    BY <1>2, <1>9 DEF Answering
  <2>2. wire[S] # <<>>
    <3>1. buf[S] \in Seq(Byte) /\ wire[S] \in Seq(Byte) BY <1>1 DEF Typed
    <3> QED BY <1>4, <2>1, <3>1, MoreConveys
  <2>3. \/ /\ pc'[S] = pc[S] /\ Plain(buf'[S])
           /\ Conveys(buf'[S], wire'[S], <<>>, line[C])
        \/ pc'[S] = "cook" /\ buf'[S] = line[C] /\ wire'[S] = <<>>
    BY <1>1, <1>2, <1>4, <2>1, <2>2, ReceiveLine
  <2>4. Sent(S)' /\ Got(pc[C], C)' = <<>>
    BY <1>1, <1>3, <2>1 DEF Sent, Got
  <2>5. Answering(pc[C], pc[S], C, S)'
    BY <1>1, <1>2, <1>3, <1>9, <2>3, <2>4 DEF Answering, Got
  <2> QED BY <2>5 DEF TalkOf, Talk
<1> QED BY <1>2, <1>5, <1>6, <1>7, <1>8, <1>9 DEF TalkOf, Talk

LEMMA CookTalks ==
  ASSUME Typed, NEW t \in Thread, TalkOf(t), Cook(t)
  PROVE  TalkOf(t)'
<1> DEFINE C == Client(t)  S == Server(t)
<1>1. /\ C \in End /\ S \in End /\ C # S /\ Peer(C) = S /\ Peer(S) = C
      /\ On(S) = t
  BY EndsOf DEF On
<1>2. pc[S] = "cook" /\ PutLine(S, buf[S]) BY DEF Cook, At
<1>3. /\ pc'[C] = pc[C] /\ pc'[S] = "answer" /\ wire' = wire /\ buf' = buf
      /\ line'[C] = line[C] /\ out'[C] = out[C]
      /\ line'[S] = Terminated(buf[S]) /\ out'[S] = Terminated(buf[S])
  BY <1>1, <1>2 DEF Cook, PutLine, bufVars, Typed
<1>4. CASE pc[C] \in {"served", "close", "failed"}
  BY <1>3, <1>4, ClientDone DEF ServerSide
<1>5. CASE Answering(pc[C], pc[S], C, S)
  <2>1. /\ buf[S] = line[C] /\ IsLine(line[C]) /\ out[C] = <<>>
        /\ Got(pc[C], C) = <<>> /\ wire[C] = <<>> /\ pc[C] \in {"clear", "reply"}
    BY <1>1, <1>2, <1>5 DEF Answering, Sent
  <2>2. line[C] \in Seq(Byte) BY <1>1 DEF Typed
  <2>3. Terminated(buf[S]) = line[C] BY <2>1, <2>2, Lines
  <2>4. /\ Conveys(<<>>, <<>>, line[C], line[C]) /\ line[C] # <<>>
        /\ Plain(<<>>)
    BY <2>1, <2>2, StartConveys
  <2>5. Got(pc[C], C)' = <<>> BY <1>3, <2>1 DEF Got
  <2>6. Answering(pc[C], pc[S], C, S)'
    BY <1>3, <2>1, <2>3, <2>4, <2>5 DEF Answering, Got
  <2> QED BY <2>6 DEF TalkOf, Talk
<1> QED BY <1>2, <1>4, <1>5 DEF TalkOf, Talk, Welcoming, Ordering

LEMMA AnswerTalks ==
  ASSUME Typed, NEW t \in Thread, TalkOf(t), Answer(t), t \notin broken'
  PROVE  TalkOf(t)'
<1> DEFINE C == Client(t)  S == Server(t)
<1>1. /\ C \in End /\ S \in End /\ C # S /\ Peer(C) = S /\ Peer(S) = C
      /\ On(S) = t
  BY EndsOf DEF On
<1>2. pc[S] = "answer" /\ Put(S, "closed", "closed") BY DEF Answer, At
<1>3. CASE pc[C] \in {"served", "close", "failed"}
  <2>1. /\ pc'[C] = pc[C] /\ buf'[C] = buf[C] /\ line'[C] = line[C]
        /\ ServerSide(pc'[S])
    BY <1>1, <1>2 DEF ServerSide, Put, SendSome, SendFails, SendKills,
                      lineVars, bufVars, Typed
  <2> QED BY <1>3, <2>1, ClientDone
<1>4. CASE Answering(pc[C], pc[S], C, S)
  <2>1. PICK got \in Seq(Byte) : got = Got(pc[C], C)
    <3>1. <<>> \in Seq(Byte) /\ buf[C] \in Seq(Byte) BY <1>1 DEF Typed
    <3> QED BY <3>1 DEF Got
  <2>2. line[S] \in Seq(Byte) BY <1>1 DEF Typed
  <2>3. /\ line[S] = line[C] /\ Conveys(got, wire[C], out[S], line[S])
        /\ out[C] = <<>> /\ IsLine(line[C]) /\ Plain(got)
        /\ pc[C] \in {"clear", "reply"}
    BY <1>2, <1>4, <2>1 DEF Answering
  <2>4. /\ Conveys(got, wire'[C], out'[S], line[S])
        /\ \/ out'[S] # <<>> /\ pc'[S] = pc[S]
           \/ out'[S] = <<>> /\ pc'[S] = "closed"
        /\ pc'[C] = pc[C] /\ out'[C] = out[C]
        /\ buf' = buf /\ line' = line
    BY <1>1, <1>2, <2>1, <2>2, <2>3, SendEffect
  <2>5. got = Got(pc[C], C)' BY <2>1, <2>4 DEF Got
  <2>6. Answering(pc[C], pc[S], C, S)'
    BY <1>2, <2>3, <2>4, <2>5 DEF Answering, Got
  <2> QED BY <2>6 DEF TalkOf, Talk
<1> QED BY <1>2, <1>3, <1>4 DEF TalkOf, Talk, Welcoming, Ordering

LEMMA OpenTalks ==
  ASSUME Typed, NEW t \in Thread, Fresh(t), Open(t)
  PROVE  TalkOf(t)'
<1>1. /\ pc'[Client(t)] = "connect" /\ pc'[Server(t)] = "none"
      /\ out' = out /\ wire' = wire /\ buf' = buf
  BY EndsOf DEF Open, Fresh, lineVars, bufVars, Typed
<1> QED BY <1>1 DEF Fresh, Unused, TalkOf, Talk

-----------------------------------------------------------------------------
(* The invariant.                                                          *)

Inv == Typed /\ Files /\ Talks /\ AllFresh /\ NotStarted

\* A step that leaves most connections alone.
LEMMA OthersTalk ==
  ASSUME Typed, Talks, AllFresh, NEW t \in Thread,
         \A u \in Thread \ {t} : KeepsIntact(u),
         \A u \in Thread \ {t} :
           Intact(u) \/ pc[Client(u)] \in {"none", "socket"} => Leaves(u),
         \A u \in Thread \ {t} :
           pc'[Client(u)] \in {"none", "socket"} => pc'[Client(u)] = pc[Client(u)],
         Intact(t)' /\ t \notin broken' => TalkOf(t)',
         pc'[Client(t)] \in {"none", "socket"} => Fresh(t)'
  PROVE  Talks' /\ AllFresh'
<1>1. ASSUME NEW u \in Thread \ {t}, Intact(u)', u \notin broken' PROVE TalkOf(u)'
  <2>1. Intact(u) /\ Leaves(u) BY <1>1 DEF KeepsIntact
  <2>2. u \notin broken BY <1>1, <2>1 DEF Leaves
  <2> QED BY <2>1, <2>2, LeftTalks DEF Talks
<1>2. ASSUME NEW u \in Thread \ {t}, pc'[Client(u)] \in {"none", "socket"}
      PROVE  Fresh(u)'
  <2>1. Leaves(u) /\ Fresh(u) BY <1>2 DEF AllFresh
  <2> QED BY <2>1, LeftTalks
<1> QED BY <1>1, <1>2 DEF Talks, AllFresh

LEMMA ThreadTalks ==
  ASSUME Inv, NEW t \in Thread, thread_task(t)
  PROVE  Files' /\ Talks' /\ AllFresh' /\ NotStarted'
<1> DEFINE C == Client(t)
<1> USE DEF Inv
<1>1. /\ mpc' = mpc /\ i' = i /\ Files' /\ pc[C] # "none"
      /\ pc'[C] \notin {"none", "socket"}
      /\ \A u \in Thread \ {t} : KeepsIntact(u)
  <2>1. CASE Uses(t)
    <3>1. pc[C] \in Active /\ pc'[C] \in Active BY <2>1, UseMoves
    <3> QED BY <2>1, <3>1, UseMoves DEF Active
  <2>2. CASE ~Uses(t) BY <2>2, FileMoves
  <2> QED BY <2>1, <2>2
<1>2. ASSUME NEW u \in Thread \ {t},
             Intact(u) \/ pc[Client(u)] \in {"none", "socket"}
      PROVE  Leaves(u)
  <2>1. Intact(u) \/ sock[u] = 0 BY <1>2 DEF Files
  <2>2. CASE Uses(t)
    <3>1. pc[C] \in Active BY <2>2, UseMoves
    <3>2. On(C) # u BY <2>1, <3>1, NotMine
    <3> QED BY <2>2, <3>2, UseMoves
  <2>3. CASE ~Uses(t) BY <2>3, FileMoves
  <2> QED BY <2>2, <2>3
<1>3. ASSUME NEW u \in Thread \ {t}, pc'[Client(u)] \in {"none", "socket"}
      PROVE  pc'[Client(u)] = pc[Client(u)]
  BY <1>3, UseMoves, FileMoves DEF Leaves
<1>4. ASSUME Intact(t)', t \notin broken' PROVE TalkOf(t)'
  <2>1. CASE Uses(t)
    <3>1. Intact(t) /\ t \notin broken BY <1>4, <2>1, UseMoves DEF KeepsIntact
    <3>2. TalkOf(t) /\ On(C) = t BY <3>1, OwnConnection DEF Talks
    <3> QED BY <1>4, <2>1, <3>2, ConnectTalks, CannotConnectTalks,
               ReadWelcomeTalks, ChooseTalks, SendOrderTalks, ClearTalks,
               ReadReplyTalks
            DEF Uses
  <2>2. CASE ~Uses(t)
    <3>1. Open(t) BY <1>4, <2>2, FileMoves
    <3>2. Fresh(t) BY <3>1 DEF Open, At, AllFresh
    <3> QED BY <3>1, <3>2, OpenTalks
  <2> QED BY <2>1, <2>2
<1>5. Talks' /\ AllFresh' BY <1>1, <1>2, <1>3, <1>4, OthersTalk
<1>6. ASSUME mpc' = "create", NEW u \in i'..NumThreads
      PROVE  pc'[Client(u)] = "none"
  <2>1. u \in Thread /\ u \in i..NumThreads
    BY <1>1, <1>6, ClientAssumption DEF Thread, Typed
  <2>2. pc[Client(u)] = "none" BY <1>1, <1>6, <2>1 DEF NotStarted
  <2>3. u # t /\ Leaves(u) BY <1>1, <1>2, <2>1, <2>2
  <2> QED BY <2>2, <2>3 DEF Leaves
<1> QED BY <1>1, <1>5, <1>6 DEF NotStarted

LEMMA ServerTalks ==
  ASSUME Inv, NEW t \in Thread, serve_client(t) \/ Reset(t)
  PROVE  Files' /\ Talks' /\ AllFresh' /\ NotStarted'
<1> DEFINE C == Client(t)  S == Server(t)
<1> USE DEF Inv
<1>1. /\ S \in End /\ S[1] = t /\ On(S) = t /\ S[2] = "server"
      /\ \A u \in Thread : Client(u) \in End \ {S}
      /\ \A u \in Thread \ {t} : Server(u) \in End \ {S}
  BY EndsOf, EndsDiffer DEF Client, Server, On
<1>2. /\ mpc' = mpc /\ i' = i /\ sock' = sock /\ file' = file
      /\ broken \subseteq broken' /\ pc[S] # "none"
      /\ \A u \in Thread : held'[u] \in {held[u], 0}
      /\ \A u \in Thread : pc'[Client(u)] = pc[Client(u)]
      /\ \A u \in Thread \ {t} : Leaves(u)
  <2>1. CASE Greet(t) \/ Refuse(t) \/ Answer(t)
    <3>1. PICK done \in {"listen", "closed"} : Put(S, done, "closed")
      BY <2>1 DEF Greet, Refuse, Answer
    <3>2. pc[S] # "none" BY <2>1 DEF Greet, Refuse, Answer, At
    <3> QED BY <1>1, <3>1, <3>2, SendMoves, SendLeaves
  <2>2. CASE Listen(t)
    <3>1. pc[S] = "listen" /\ Get(S, "cook", "closed", "closed")
      BY <2>2 DEF Listen, At
    <3> QED BY <1>1, <3>1, ReceiveMoves, ReceiveLeaves
  <2>3. CASE Cook(t)
    <3>1. PICK l : line' = [line EXCEPT ![S] = l] /\ out' = [out EXCEPT ![S] = l]
      BY <2>3 DEF Cook, PutLine
    <3>2. \A e \in End \ {S} :
            pc'[e] = pc[e] /\ line'[e] = line[e] /\ out'[e] = out[e]
      BY <2>3, <3>1 DEF Cook, Typed
    <3>3. /\ pc[S] = "cook" /\ mpc' = mpc /\ i' = i
          /\ sock' = sock /\ file' = file /\ held' = held
          /\ wire' = wire /\ buf' = buf /\ broken' = broken
      BY <2>3 DEF Cook, At, mainVars, bufVars, fileVars
    <3> QED BY <1>1, <3>2, <3>3 DEF Leaves
  <2>4. CASE Reset(t)
    BY <1>1, <2>4 DEF Reset, Leaves, mainVars, lineVars, bufVars, fileVars
  <2> QED BY <2>1, <2>2, <2>3, <2>4 DEF serve_client
<1>3. Files' /\ \A u \in Thread : KeepsIntact(u) BY <1>2, StillFiles
<1>4. ASSUME Intact(t)', t \notin broken' PROVE TalkOf(t)'
  <2>1. TalkOf(t) BY <1>2, <1>3, <1>4 DEF KeepsIntact, Talks
  <2>2. ~Reset(t) BY <1>4 DEF Reset
  <2> QED BY <1>4, <2>1, <2>2, GreetTalks, ListenTalks, CookTalks, AnswerTalks
          DEF serve_client
<1>5. pc'[C] \notin {"none", "socket"} BY <1>2 DEF AllFresh, Fresh
<1>6. Talks' /\ AllFresh' BY <1>2, <1>3, <1>4, <1>5, OthersTalk
<1>7. NotStarted'
  <2> SUFFICES ASSUME mpc' = "create", NEW u \in i'..NumThreads
               PROVE  pc'[Client(u)] = "none"
    BY DEF NotStarted
  <2>1. u \in Thread /\ u \in i..NumThreads
    BY <1>2, ClientAssumption DEF Thread, Typed
  <2> QED BY <1>2, <2>1 DEF NotStarted
<1> QED BY <1>3, <1>6, <1>7

\* A step of main that touches no thread.
LEMMA SameTalks ==
  ASSUME Inv, UNCHANGED <<pc, lineVars, bufVars, broken, fileVars>>
  PROVE  Files' /\ Talks' /\ AllFresh'
<1>1. /\ pc' = pc /\ line' = line /\ out' = out /\ wire' = wire /\ buf' = buf
      /\ broken' = broken /\ sock' = sock /\ file' = file /\ held' = held
  BY DEF lineVars, bufVars, fileVars
<1>2. \A u \in Thread : Leaves(u) BY <1>1 DEF Leaves
<1>3. Files' /\ \A u \in Thread : KeepsIntact(u)
  <2>1. Typed /\ Files BY DEF Inv
  <2> QED BY <1>1, <2>1, StillFiles
<1>4. ASSUME NEW u \in Thread, Intact(u)', u \notin broken' PROVE TalkOf(u)'
  BY <1>1, <1>2, <1>3, <1>4, LeftTalks DEF KeepsIntact, Inv, Talks
<1>5. ASSUME NEW u \in Thread, pc'[Client(u)] \in {"none", "socket"}
      PROVE  Fresh(u)'
  BY <1>1, <1>2, <1>5, LeftTalks DEF Inv, AllFresh
<1> QED BY <1>3, <1>4, <1>5 DEF Talks, AllFresh

LEMMA MainTalks ==
  ASSUME Inv, Main
  PROVE  Files' /\ Talks' /\ AllFresh' /\ NotStarted'
<1> USE DEF Inv
<1>1. NumThreads \in Nat /\ i \in Nat /\ 1 <= i
  BY ClientAssumption DEF Typed
<1>2. CASE Create
  <2>1. /\ mpc = "create" /\ mpc' = mpc /\ i' = i + 1
        /\ line' = line /\ out' = out /\ wire' = wire /\ buf' = buf
        /\ broken' = broken /\ sock' = sock /\ file' = file /\ held' = held
    BY <1>2 DEF Create, lineVars, bufVars, fileVars
  <2>2. PICK t \in Thread : t = i /\ t \in i..NumThreads
    BY <1>1, <1>2 DEF Create, Thread
  <2>3. pc[Client(t)] = "none" BY <2>1, <2>2 DEF NotStarted
  <2>4. /\ pc'[Client(t)] \in {"none", "socket"}
        /\ \A e \in End \ {Client(t)} : pc'[e] = pc[e]
    BY <1>2, <2>2, <2>3, EndsOf DEF Create, Typed
  <2>5. /\ Client(t) \in End /\ Server(t) \in End \ {Client(t)}
        /\ \A u \in Thread \ {t} : /\ Client(u) \in End \ {Client(t)}
                                    /\ Server(u) \in End \ {Client(t)}
    BY EndsOf, EndsDiffer
  <2>6. \A u \in Thread \ {t} :
          Leaves(u) /\ pc'[Client(u)] = pc[Client(u)]
    BY <2>1, <2>4, <2>5 DEF Leaves
  <2>7. Files' /\ \A u \in Thread : KeepsIntact(u)
    <3>1. \A u \in Thread : held'[u] \in {held[u], 0} BY <2>1
    <3>2. \A u \in Thread :
           \/ pc'[Client(u)] = pc[Client(u)]
           \/ pc[Client(u)] = "none" /\ pc'[Client(u)] = "socket"
      BY <2>3, <2>4, <2>6
    <3> QED BY <2>1, <3>1, <3>2, StillFiles
  <2>8. ~Intact(t)' BY <2>1, <2>3 DEF Files, Intact
  <2>9. Fresh(t)'
    <3>1. Fresh(t) /\ pc'[Server(t)] = pc[Server(t)]
      BY <2>3, <2>4, <2>5 DEF AllFresh
    <3> QED BY <2>1, <3>1 DEF Fresh, Unused
  <2>10. Talks' /\ AllFresh' BY <2>6, <2>7, <2>8, <2>9, OthersTalk
  <2>11. NotStarted'
    <3> SUFFICES ASSUME NEW u \in (i + 1)..NumThreads
                 PROVE  pc'[Client(u)] = "none"
      BY <2>1 DEF NotStarted
    <3>1. u \in Thread \ {t} /\ u \in i..NumThreads BY <1>1, <2>2 DEF Thread
    <3> QED BY <2>1, <2>6, <3>1 DEF NotStarted
  <2> QED BY <2>7, <2>10, <2>11
<1>3. CASE CreatedAll \/ Join \/ JoinedAll
  <2>1. UNCHANGED <<pc, lineVars, bufVars, broken, fileVars>>
    BY <1>3 DEF CreatedAll, Join, JoinedAll
  <2>2. mpc' # "create" BY <1>3 DEF CreatedAll, Join, JoinedAll, mainVars
  <2> QED BY <2>1, <2>2, SameTalks DEF NotStarted
<1> QED BY <1>2, <1>3 DEF Main

LEMMA NextTalks ==
  ASSUME Inv, [Next]_vars
  PROVE  Inv'
<1>1. Typed' BY NextTyped DEF Inv
<1>2. CASE UNCHANGED vars
  <2>1. UNCHANGED <<pc, lineVars, bufVars, broken, fileVars>> /\ UNCHANGED mainVars
    BY <1>2 DEF vars
  <2>2. NotStarted' BY <2>1 DEF Inv, NotStarted, mainVars
  <2> QED BY <1>1, <2>1, <2>2, SameTalks DEF Inv
<1> QED BY <1>1, <1>2, MainTalks, ThreadTalks, ServerTalks DEF Next, Inv

LEMMA AlwaysInv == Spec => []Inv
<1>1. Init => Inv BY InitTyped, InitFiles, InitTalks DEF Inv
<1> QED BY <1>1, NextTalks, PTL DEF Spec

-----------------------------------------------------------------------------
(* The results.                                                            *)

\* The buffer of get_line always has room for what has come and the '\0'
\* behind it, however often it was doubled, and every variable has its type.
THEOREM ClientTypeOK == Spec => []TypeOK
<1>1. Inv => TypeOK BY DEF Inv, Typed, TypeOK, Pc
<1> QED BY <1>1, AlwaysInv, PTL

\* The types, with the domain of every function that TypeOK leaves open.
THEOREM ClientTyped == Spec => []Typed
<1>1. Inv => Typed BY DEF Inv
<1> QED BY <1>1, AlwaysInv, PTL

\* However send splits a line and however the two ends take turns, what
\* get_line has of the line, what is under way and what put_line has still to
\* send are the line, until the connection is reset or another thread of the
\* client closes the descriptor.
THEOREM ClientNothingSkipped == Spec => []NothingSkipped
<1>1. Inv => NothingSkipped
  <2> SUFFICES ASSUME Inv, NEW e \in End, Reads(e), e[1] \notin broken,
                      Intact(e[1])
               PROVE  buf[Peer(e)] \o wire[Peer(e)] \o out[e] = line[e]
    BY DEF NothingSkipped
  <2>1. PICK t \in Thread : t = e[1] /\ e \in {Client(t), Server(t)}
    BY EndIsOf
  <2>2. TalkOf(t) BY <2>1 DEF Inv, Talks
  <2>3. Peer(Client(t)) = Server(t) /\ Peer(Server(t)) = Client(t) BY EndsOf
  <2>4. CASE e = Client(t)
    <3>1. \/ pc[Server(t)] = "listen" /\ pc[Client(t)] \in {"send", "clear", "reply"}
          \/ pc[Server(t)] \in {"welcome", "reply"}
      BY <2>3, <2>4 DEF Reads
    <3>2. pc[Server(t)] = "listen" /\ pc[Client(t)] \in {"send", "clear", "reply"}
      BY <2>2, <3>1
         DEF TalkOf, Talk, Welcoming, Ordering, Answering, ServerSide
    <3>3. Conveys(buf[Server(t)], wire[Server(t)], out[Client(t)], line[Client(t)])
      BY <2>2, <3>2 DEF TalkOf, Talk, Welcoming, Ordering, Answering
    <3> QED BY <2>3, <2>4, <3>3 DEF Conveys
  <2>5. CASE e = Server(t)
    <3>1. \/ pc[Client(t)] \in {"welcome"}
          \/ pc[Client(t)] = "reply" /\ pc[Server(t)] = "answer"
          \/ pc[Client(t)] = "listen"
      BY <2>3, <2>5 DEF Reads
    <3>2. Conveys(buf[Client(t)], wire[Client(t)], out[Server(t)], line[Server(t)])
      BY <2>2, <3>1 DEF TalkOf, Talk, Welcoming, Ordering, Answering, Got
    <3> QED BY <2>3, <2>5, <3>2 DEF Conveys
  <2> QED BY <2>1, <2>4, <2>5
<1> QED BY <1>1, AlwaysInv, PTL

\* A thread of the client that ends as served holds, newline and all, the
\* reply to its own order, unless its connection was reset or another thread
\* of the client closed its descriptor, which the client does twice when connect
\* fails.
THEOREM ClientServedHasReply == Spec => []ServedHasReply
<1>1. Inv => ServedHasReply
  BY DEF Inv, Talks, ServedHasReply, TalkOf, Talk, Welcoming, Ordering, Answering
<1> QED BY <1>1, AlwaysInv, PTL
=============================================================================
