------------------------------ MODULE McDonalds ------------------------------
(***************************************************************************)
(* The burger server of src/PA5/src/mcdonalds.c.                           *)
(*                                                                         *)
(* One acceptor (the main thread) admits connections, one detached thread  *)
(* serves each admitted customer, and a fixed set of kitchen threads cooks *)
(* the orders of a shared list.  Each action is one step of one thread     *)
(* between two points where another thread can be observed.  A critical    *)
(* section under server_ctx.lock is a single step, except for the          *)
(* acceptor's, which performs network I/O with the lock held.              *)
(***************************************************************************)
EXTENDS Integers, Sequences, FiniteSets

CONSTANTS Kitchen,       \* the kitchen threads (NUM_KITCHEN of them)
          Customer,      \* the connections that clients may open
          Type,          \* the burger types on sale
          Requests,      \* the legal requests: sequences of burger types
          CUSTOMER_MAX,  \* seats in the restaurant
          MAX_BURGERS,   \* longest legal request
          COUNT_MOD,     \* list.count is unsigned: arithmetic modulo this
          Faults,        \* the environment's misbehaviour that may happen
          Nobody         \* the owner of a free mutex, the customer of no node

(***************************************************************************)
(* What the environment may do to the server beyond the normal case.       *)
(*   spurious_wakeup: pthread_cond_wait returns without a signal           *)
(*   peer_closes:     the client closes instead of sending its request     *)
(*   net_error:       send or recv fails, or send raises SIGPIPE           *)
(*   no_memory:       asprintf of the welcome message fails                *)
(*   no_thread:       pthread_create fails                                 *)
(*   accept_error:    accept fails                                         *)
(*   stale_heap:      the byte behind a fresh malloc block is not zero     *)
(***************************************************************************)
FaultKind == {"spurious_wakeup", "peer_closes", "net_error", "no_memory",
              "no_thread", "accept_error", "stale_heap"}

ASSUME ThreadsAssumption ==
       /\ IsFiniteSet(Kitchen)
       /\ IsFiniteSet(Customer)
       /\ Nobody \notin Kitchen \cup Customer

ASSUME RequestsAssumption ==
       /\ MAX_BURGERS \in Nat \ {0}
       /\ \A r \in Requests : r \in Seq(Type) /\ Len(r) \in 1..MAX_BURGERS

ASSUME NumbersAssumption ==
       /\ CUSTOMER_MAX \in Nat
       /\ COUNT_MOD \in Nat \ {0}
       /\ Faults \subseteq FaultKind

(***************************************************************************)
(* A node of the order list names the customer it belongs to and the       *)
(* position of the burger in that customer's request.  (Every further      *)
(* field of struct __node is a pointer to an object of the customer.)      *)
(***************************************************************************)
Node(c, i) == [cust |-> c, idx |-> i]
NoNode == Node(Nobody, 0)
NodeSet == [cust : Customer, idx : 1..MAX_BURGERS]

Junk == 0                \* what follows a string that was not terminated

VARIABLES
  list,            \* server_ctx.list: the queued nodes, head first
  count,           \* server_ctx.list.count
  totalCustomers,  \* server_ctx.total_customers
  totalBurgers,    \* server_ctx.total_burgers
  totalQueueing,   \* server_ctx.total_queueing
  lock,            \* TRUE while the acceptor holds server_ctx.lock
  keepRunning,     \* keep_running; FALSE: the main thread is in sigint_handler
  proc,            \* the process: running, exited, or in undefined behaviour
  stats,           \* whether print_statistics has run
  apc, aconn,      \* acceptor: program counter and accepted connection
  kpc,             \* kitchen: program counter
  korder,          \* kitchen: its local variable order
  temp,            \* kitchen: make_burger's copy of the order string
  spc,             \* serving thread: program counter
  customerID,      \* serving thread: its customer number
  request,         \* serving thread: types[0..burger_count-1]
  issued,          \* serving thread: nodes enqueued so far by issue_orders
  reply,           \* serving thread: the order string it sent
  remain,          \* the request's *remain_count
  orderStr,        \* the request's *order_str: request positions, in order
  holder,          \* the request's order_mutex
  objects          \* the request's heap objects: none, live or freed

listVars == <<list, count>>
seatVars == <<totalCustomers, totalQueueing>>
procVars == <<keepRunning, proc, stats>>
mainVars == <<lock, apc, aconn>>
kitchenVars == <<kpc, korder, temp>>
serveVars == <<spc, customerID, request, issued, reply>>
orderVars == <<remain, orderStr, holder, objects>>
vars == <<listVars, seatVars, totalBurgers, procVars, mainVars, kitchenVars,
          serveVars, orderVars>>

Init ==
  /\ list = <<>> /\ count = 0
  /\ totalCustomers = 0 /\ totalQueueing = 0
  /\ totalBurgers = [t \in Type |-> 0]
  /\ keepRunning = TRUE /\ proc = "running" /\ stats = FALSE
  /\ lock = FALSE /\ apc = "accept" /\ aconn = Nobody
  /\ kpc = [k \in Kitchen |-> "loop"]
  /\ korder = [k \in Kitchen |-> NoNode]
  /\ temp = [k \in Kitchen |-> <<>>]
  /\ spc = [c \in Customer |-> "outside"]
  /\ customerID = [c \in Customer |-> 0]
  /\ request = [c \in Customer |-> <<>>]
  /\ issued = [c \in Customer |-> 0]
  /\ reply = [c \in Customer |-> <<>>]
  /\ remain = [c \in Customer |-> 0]
  /\ orderStr = [c \in Customer |-> <<>>]
  /\ holder = [c \in Customer |-> Nobody]
  /\ objects = [c \in Customer |-> "none"]

-----------------------------------------------------------------------------
(* Conditions and computations the steps below share.  An operator whose   *)
(* name ends in Wrongly is what the operator after it would be with a      *)
(* plausible slip in the code; only the mutants of PROJECT.json use it.    *)

\* list.count++ and list.count--, unsigned
Increment(n) == (n + 1) % COUNT_MOD
DecrementWrongly(n) == n - 1
Decrement(n) == (n - 1) % COUNT_MOD

\* order_left() != 0
OrderLeft == count # 0

\* get_order's new list: head and tail become NULL together.
RestWrongly(l) == IF Len(l) = 1 THEN l ELSE Tail(l)
Rest(l) == Tail(l)

\* *remain_count = burger_count
BurgerCountWrongly(r) == Len(r) - 1
BurgerCount(r) == Len(r)

\* order->type
TypeOfWrongly(n) == request[n.cust][1]
TypeOf(n) == request[n.cust][n.idx]

\* The check after total_queueing++ in start_server.
ExceedsWrongly(n) == n - 1 > CUSTOMER_MAX
Exceeds(n) == n > CUSTOMER_MAX

\* order_mutex can be taken.
MutexFreeWrongly(c) == TRUE
MutexFree(c) == holder[c] = Nobody

\* kitchen_task's test of the count it has just decremented.
LastBurgerWrongly(left) == left = 1
LastBurger(left) == left = 0

\* serve_client's test after it has been woken.
Completed(c) == remain[c] = 0

\* make_burger on an empty string: a fresh block of exactly strlen bytes, so
\* whether a terminator follows is up to the heap.
FirstName(i) ==
  {<<i>>} \cup (IF "stale_heap" \in Faults THEN {<<i, Junk>>} ELSE {})

\* The loop of issue_orders is over.
AllIssued(c) == issued[c] = Len(request[c])

\* The kitchen's program counters at which its next step dereferences order.
UsesOrder == {"lock_order", "cook", "append", "rest", "decrement", "signal"}

\* The next step of k reads a node, or an object a node points to, that the
\* serving thread has freed.
Dangling(k) ==
  \/ kpc[k] \in UsesOrder /\ objects[korder[k].cust] = "freed"
  \/ kpc[k] = "dequeue" /\ list # <<>> /\ objects[Head(list).cust] = "freed"

\* list.tail is a node that its serving thread has freed.
TailDangling == list # <<>> /\ objects[list[Len(list)].cust] = "freed"

Undefined == proc' = "undefined" /\ UNCHANGED <<keepRunning, stats>>

-----------------------------------------------------------------------------
(* The acceptor: start_server.  It runs while keep_running is set; the     *)
(* SIGINT handler, which clears it, never returns to the loop.             *)

Goto(pc) == apc' = pc

\* accept returns a connection.
Accept(c) ==
  /\ apc = "accept" /\ spc[c] = "outside"
  /\ Goto("admit") /\ aconn' = c
  /\ spc' = [spc EXCEPT ![c] = "accepted"]
  /\ UNCHANGED <<listVars, seatVars, totalBurgers, procVars, lock, kitchenVars,
                 customerID, request, issued, reply, orderVars>>

\* total_queueing++ under the lock, which is kept to send the refusal.
Admit ==
  /\ apc = "admit" /\ ~lock
  /\ totalQueueing' = totalQueueing + 1
  /\ IF Exceeds(totalQueueing')
       THEN Goto("refuse") /\ lock' = TRUE
       ELSE Goto("spawn") /\ lock' = lock
  /\ UNCHANGED <<listVars, totalCustomers, totalBurgers, procVars, aconn,
                 kitchenVars, serveVars, orderVars>>

\* The connection over the limit is told so and closed.
Refuse ==
  /\ apc = "refuse"
  /\ totalQueueing' = totalQueueing - 1
  /\ spc' = [spc EXCEPT ![aconn] = "refused"]
  /\ lock' = FALSE /\ Goto("accept") /\ aconn' = Nobody
  /\ UNCHANGED <<listVars, totalCustomers, totalBurgers, procVars, kitchenVars,
                 customerID, request, issued, reply, orderVars>>

\* pthread_create of serve_client; its result is not looked at.  Without a
\* thread, tid stays uninitialized and pthread_detach may get away with it ...
Spawn ==
  /\ apc = "spawn"
  /\ \/ spc' = [spc EXCEPT ![aconn] = "visit"]
     \/ /\ "no_thread" \in Faults
        /\ spc' = [spc EXCEPT ![aconn] = "abandoned"]
  /\ Goto("accept") /\ aconn' = Nobody
  /\ UNCHANGED <<listVars, seatVars, totalBurgers, procVars, lock, kitchenVars,
                 customerID, request, issued, reply, orderVars>>

\* ... or not.
DetachUndefined ==
  /\ "no_thread" \in Faults
  /\ apc = "spawn"
  /\ Undefined
  /\ UNCHANGED <<listVars, seatVars, totalBurgers, mainVars, kitchenVars,
                 serveVars, orderVars>>

\* accept fails: main leaves the loop, runs exit_mcdonalds and returns.
AcceptFails ==
  /\ "accept_error" \in Faults
  /\ apc = "accept"
  /\ stats' = TRUE /\ proc' = "exited"
  /\ UNCHANGED <<listVars, seatVars, totalBurgers, keepRunning, mainVars,
                 kitchenVars, serveVars, orderVars>>

\* The steps the acceptor takes by itself once a connection is there.
Handle == Admit \/ Refuse \/ Spawn

Acceptor ==
  /\ proc = "running" /\ keepRunning
  /\ \/ \E c \in Customer : Accept(c)
     \/ Handle \/ DetachUndefined \/ AcceptFails

-----------------------------------------------------------------------------
(* The signal handlers.  The first SIGINT is handled by the main thread    *)
(* wherever it is, with the lock if it holds it; the handler sleeps and    *)
(* exits.  SIGINT stays blocked in the main thread meanwhile, so a second  *)
(* one is handled by some other thread that still runs.                    *)

Interrupt ==
  /\ proc = "running" /\ keepRunning
  /\ keepRunning' = FALSE
  /\ UNCHANGED <<listVars, seatVars, totalBurgers, proc, stats, mainVars,
                 kitchenVars, serveVars, orderVars>>

\* sigint_handler: sleep(3) is over.
ExitAfterSleep ==
  /\ proc = "running" /\ ~keepRunning
  /\ proc' = "exited"
  /\ UNCHANGED <<listVars, seatVars, totalBurgers, keepRunning, stats, mainVars,
                 kitchenVars, serveVars, orderVars>>

\* The pcs at which no serving thread exists for the connection.
NoThread == {"outside", "accepted", "refused", "abandoned", "gone", "leaked"}

\* sigint_handler2: exit_mcdonalds and exit.
SecondInterrupt ==
  /\ proc = "running" /\ ~keepRunning
  /\ \/ \E k \in Kitchen : kpc[k] # "done"
     \/ \E c \in Customer : spc[c] \notin NoThread
  /\ stats' = TRUE /\ proc' = "exited"
  /\ UNCHANGED <<listVars, seatVars, totalBurgers, keepRunning, mainVars,
                 kitchenVars, serveVars, orderVars>>

-----------------------------------------------------------------------------
(* A serving thread: serve_client.                                         *)

\* customerID = total_customers++ under the lock.
Visit(c) ==
  /\ spc[c] = "visit" /\ ~lock
  /\ customerID' = [customerID EXCEPT ![c] = totalCustomers]
  /\ totalCustomers' = totalCustomers + 1
  /\ spc' = [spc EXCEPT ![c] = "welcome"]
  /\ UNCHANGED <<listVars, totalQueueing, totalBurgers, procVars, mainVars,
                 kitchenVars, request, issued, reply, orderVars>>

\* The welcome message: formatted and sent, not sent, or not even formatted.
Welcome(c) ==
  /\ spc[c] = "welcome"
  /\ \/ spc' = [spc EXCEPT ![c] = "receive"]
     \/ "net_error" \in Faults /\ spc' = [spc EXCEPT ![c] = "error"]
     \/ "no_memory" \in Faults /\ spc' = [spc EXCEPT ![c] = "leaked"]
  /\ UNCHANGED <<listVars, seatVars, totalBurgers, procVars, mainVars,
                 kitchenVars, customerID, request, issued, reply, orderVars>>

\* The request r is read and split into orders; issue_orders makes the objects
\* they share.
StartIssue(c, r) ==
  /\ request' = [request EXCEPT ![c] = r]
  /\ remain' = [remain EXCEPT ![c] = BurgerCount(r)]
  /\ objects' = [objects EXCEPT ![c] = "live"]
  /\ spc' = [spc EXCEPT ![c] = "issue"]

\* A line arrives that names burgers on sale only.
Receive(c) ==
  /\ spc[c] = "receive"
  /\ \E r \in Requests : StartIssue(c, r)
  /\ UNCHANGED <<listVars, seatVars, totalBurgers, procVars, mainVars,
                 kitchenVars, customerID, issued, reply, orderStr, holder>>

\* get_line returns 0 at end of file, which is not an error to the caller:
\* the empty line splits into no orders.
ReceiveNothing(c) ==
  /\ "peer_closes" \in Faults
  /\ spc[c] = "receive"
  /\ StartIssue(c, <<>>)
  /\ UNCHANGED <<listVars, seatVars, totalBurgers, procVars, mainVars,
                 kitchenVars, customerID, issued, reply, orderStr, holder>>

\* The line names a burger that is not on sale, or recv fails.
Reject(c) ==
  /\ spc[c] = "receive"
  /\ spc' = [spc EXCEPT ![c] = "error"]
  /\ UNCHANGED <<listVars, seatVars, totalBurgers, procVars, mainVars,
                 kitchenVars, customerID, request, issued, reply, orderVars>>

\* One iteration of issue_orders: a node is appended under the lock.
Issue(c) ==
  /\ spc[c] = "issue" /\ ~AllIssued(c)
  /\ ~lock /\ ~TailDangling
  /\ list' = Append(list, Node(c, issued[c] + 1))
  /\ count' = Increment(count)
  /\ issued' = [issued EXCEPT ![c] = @ + 1]
  /\ UNCHANGED <<seatVars, totalBurgers, procVars, mainVars, kitchenVars, spc,
                 customerID, request, reply, orderVars>>

\* issue_orders returns.
Issued(c) ==
  /\ spc[c] = "issue" /\ AllIssued(c)
  /\ spc' = [spc EXCEPT ![c] = "wait"]
  /\ UNCHANGED <<listVars, seatVars, totalBurgers, procVars, mainVars,
                 kitchenVars, customerID, request, issued, reply, orderVars>>

\* pthread_cond_wait, once and unconditionally.
Wait(c) ==
  /\ spc[c] = "wait" /\ request[c] # <<>>
  /\ spc' = [spc EXCEPT ![c] = "waiting"]
  /\ UNCHANGED <<listVars, seatVars, totalBurgers, procVars, mainVars,
                 kitchenVars, customerID, request, issued, reply, orderVars>>

SpuriousWakeup(c) ==
  /\ "spurious_wakeup" \in Faults
  /\ spc[c] = "waiting"
  /\ spc' = [spc EXCEPT ![c] = "woken"]
  /\ UNCHANGED <<listVars, seatVars, totalBurgers, procVars, mainVars,
                 kitchenVars, customerID, request, issued, reply, orderVars>>

\* The completed order is handed over.  If send fails the thread leaves by
\* error_client and the objects of the request stay allocated.
HandOver(c) ==
  /\ spc[c] = "woken" /\ Completed(c)
  /\ reply' = [reply EXCEPT ![c] = orderStr[c]]
  /\ \/ spc' = [spc EXCEPT ![c] = "cleanup"]
     \/ "net_error" \in Faults /\ spc' = [spc EXCEPT ![c] = "error"]
  /\ UNCHANGED <<listVars, seatVars, totalBurgers, procVars, mainVars,
                 kitchenVars, customerID, request, issued, orderVars>>

\* Woken although burgers remain: straight to the clean-up, without a reply.
SkipHandOver(c) ==
  /\ spc[c] = "woken" /\ ~Completed(c)
  /\ spc' = [spc EXCEPT ![c] = "cleanup"]
  /\ UNCHANGED <<listVars, seatVars, totalBurgers, procVars, mainVars,
                 kitchenVars, customerID, request, issued, reply, orderVars>>

\* Everything the nodes of the request point to is freed, then the nodes.
CleanUp(c) ==
  /\ spc[c] = "cleanup"
  /\ objects' = [objects EXCEPT ![c] = "freed"]
  /\ spc' = [spc EXCEPT ![c] = "leave"]
  /\ UNCHANGED <<listVars, seatVars, totalBurgers, procVars, mainVars,
                 kitchenVars, customerID, request, issued, reply, remain,
                 orderStr, holder>>

\* The seat is given back under the lock, by serve_client or error_client.
Leave(c) ==
  /\ spc[c] \in {"leave", "error"} /\ ~lock
  /\ totalQueueing' = totalQueueing - 1
  /\ spc' = [spc EXCEPT ![c] = "gone"]
  /\ UNCHANGED <<listVars, totalCustomers, totalBurgers, procVars, mainVars,
                 kitchenVars, customerID, request, issued, reply, orderVars>>

\* first_order = order_list[0] of an empty order_list, or list.tail->next of a
\* freed node.
ServeUndefined(c) ==
  /\ \/ spc[c] = "wait" /\ request[c] = <<>>
     \/ /\ spc[c] = "issue" /\ ~AllIssued(c)
        /\ ~lock /\ TailDangling
  /\ Undefined
  /\ UNCHANGED <<listVars, seatVars, totalBurgers, mainVars, kitchenVars,
                 serveVars, orderVars>>

\* The steps serve_client takes by itself.
Proceed(c) ==
  \/ Visit(c) \/ Welcome(c) \/ Issue(c) \/ Issued(c) \/ Wait(c)
  \/ HandOver(c) \/ SkipHandOver(c) \/ CleanUp(c) \/ Leave(c)
  \/ ServeUndefined(c)

\* The steps that the client or the scheduler decides.
Arrives(c) == Receive(c) \/ ReceiveNothing(c) \/ Reject(c)

Serve(c) ==
  /\ proc = "running"
  /\ Proceed(c) \/ Arrives(c) \/ SpuriousWakeup(c)

-----------------------------------------------------------------------------
(* A kitchen thread: kitchen_task, with get_order and make_burger.         *)

KGoto(k, pc) == kpc' = [kpc EXCEPT ![k] = pc]

\* while (keep_running || order_left()): order_left takes the lock.
KLoop(k) ==
  /\ kpc[k] = "loop"
  /\ \/ keepRunning /\ KGoto(k, "peek")
     \/ ~keepRunning /\ ~lock /\ OrderLeft /\ KGoto(k, "peek")
     \/ ~keepRunning /\ ~lock /\ ~OrderLeft /\ KGoto(k, "done")
  /\ UNCHANGED <<listVars, seatVars, totalBurgers, procVars, mainVars, korder,
                 temp, serveVars, orderVars>>

\* get_order looks at the head before it takes the lock.
KPeek(k) ==
  /\ kpc[k] = "peek"
  /\ KGoto(k, IF list = <<>> THEN "sleep" ELSE "dequeue")
  /\ UNCHANGED <<listVars, seatVars, totalBurgers, procVars, mainVars, korder,
                 temp, serveVars, orderVars>>

KSleep(k) ==
  /\ kpc[k] = "sleep"
  /\ KGoto(k, "loop")
  /\ UNCHANGED <<listVars, seatVars, totalBurgers, procVars, mainVars, korder,
                 temp, serveVars, orderVars>>

\* ... and takes the head, which may be gone by now, under the lock.
KDequeue(k) ==
  /\ kpc[k] = "dequeue" /\ ~lock /\ list # <<>>
  /\ list' = Rest(list)
  /\ count' = Decrement(count)
  /\ korder' = [korder EXCEPT ![k] = Head(list)]
  /\ KGoto(k, "lock_order")
  /\ UNCHANGED <<seatVars, totalBurgers, procVars, mainVars, temp, serveVars,
                 orderVars>>

KDequeueNothing(k) ==
  /\ kpc[k] = "dequeue" /\ ~lock /\ list = <<>>
  /\ count' = Decrement(count)
  /\ KGoto(k, "sleep")
  /\ UNCHANGED <<list, seatVars, totalBurgers, procVars, mainVars, korder, temp,
                 serveVars, orderVars>>

KLockOrder(k) ==
  /\ kpc[k] = "lock_order" /\ MutexFree(korder[k].cust)
  /\ holder' = [holder EXCEPT ![korder[k].cust] = k]
  /\ KGoto(k, "cook")
  /\ UNCHANGED <<listVars, seatVars, totalBurgers, procVars, mainVars, korder,
                 temp, serveVars, remain, orderStr, objects>>

\* make_burger, the first burger of the request.
KCookFirst(k) ==
  /\ kpc[k] = "cook" /\ orderStr[korder[k].cust] = <<>>
  /\ \E s \in FirstName(korder[k].idx) :
       orderStr' = [orderStr EXCEPT ![korder[k].cust] = s]
  /\ KGoto(k, "rest")
  /\ UNCHANGED <<listVars, seatVars, totalBurgers, procVars, mainVars, korder,
                 temp, serveVars, remain, holder, objects>>

\* make_burger, a later burger: copy the string and free it ...
KCookCopy(k) ==
  /\ kpc[k] = "cook" /\ orderStr[korder[k].cust] # <<>>
  /\ temp' = [temp EXCEPT ![k] = orderStr[korder[k].cust]]
  /\ KGoto(k, "append")
  /\ UNCHANGED <<listVars, seatVars, totalBurgers, procVars, mainVars, korder,
                 serveVars, orderVars>>

\* ... then format the copy and the name into a new string.
KCookAppend(k) ==
  /\ kpc[k] = "append"
  /\ orderStr' = [orderStr EXCEPT
                    ![korder[k].cust] = Append(temp[k], korder[k].idx)]
  /\ temp' = [temp EXCEPT ![k] = <<>>]
  /\ KGoto(k, "rest")
  /\ UNCHANGED <<listVars, seatVars, totalBurgers, procVars, mainVars, korder,
                 serveVars, remain, holder, objects>>

\* sleep(1), which is a delay and orders nothing, ends; order_mutex is released.
KUnlockOrder(k) ==
  /\ kpc[k] = "rest"
  /\ holder' = [holder EXCEPT ![korder[k].cust] = Nobody]
  /\ KGoto(k, "decrement")
  /\ UNCHANGED <<listVars, seatVars, totalBurgers, procVars, mainVars, korder,
                 temp, serveVars, remain, orderStr, objects>>

\* The count is read, decremented and written under remain_mutex.
KDecrement(k) ==
  LET left == remain[korder[k].cust] - 1 IN
  /\ kpc[k] = "decrement"
  /\ remain' = [remain EXCEPT ![korder[k].cust] = left]
  /\ KGoto(k, IF LastBurger(left) THEN "signal" ELSE "count")
  /\ UNCHANGED <<listVars, seatVars, totalBurgers, procVars, mainVars, korder,
                 temp, serveVars, orderStr, holder, objects>>

\* pthread_cond_signal, without cond_mutex: lost if nobody waits yet.
KSignal(k) ==
  LET c == korder[k].cust IN
  /\ kpc[k] = "signal"
  /\ spc' = IF spc[c] = "waiting" THEN [spc EXCEPT ![c] = "woken"] ELSE spc
  /\ KGoto(k, "count")
  /\ UNCHANGED <<listVars, seatVars, totalBurgers, procVars, mainVars, korder,
                 temp, customerID, request, issued, reply, orderVars>>

\* total_burgers[type]++ under the lock; type is a local variable.
KCount(k) ==
  /\ kpc[k] = "count" /\ ~lock
  /\ totalBurgers' = [totalBurgers EXCEPT ![TypeOf(korder[k])] = @ + 1]
  /\ korder' = [korder EXCEPT ![k] = NoNode]
  /\ KGoto(k, "loop")
  /\ UNCHANGED <<listVars, seatVars, procVars, mainVars, temp, serveVars,
                 orderVars>>

KUseAfterFree(k) ==
  /\ Dangling(k)
  /\ kpc[k] = "dequeue" => ~lock
  /\ Undefined
  /\ UNCHANGED <<listVars, seatVars, totalBurgers, mainVars, kitchenVars,
                 serveVars, orderVars>>

Cook(k) ==
  \/ KLockOrder(k) \/ KCookFirst(k) \/ KCookCopy(k) \/ KCookAppend(k)
  \/ KUnlockOrder(k) \/ KDecrement(k) \/ KSignal(k)

Kitchens(k) ==
  /\ proc = "running"
  /\ \/ KUseAfterFree(k)
     \/ /\ ~Dangling(k)
        /\ \/ KLoop(k) \/ KPeek(k) \/ KSleep(k) \/ KDequeue(k)
           \/ KDequeueNothing(k) \/ Cook(k) \/ KCount(k)

-----------------------------------------------------------------------------
\* A line sent to a peer that is gone raises SIGPIPE, which nobody handles.
SendKills ==
  /\ "net_error" \in Faults /\ proc = "running"
  /\ \/ apc = "refuse" /\ keepRunning
     \/ \E c \in Customer :
          \/ spc[c] \in {"welcome", "receive"}
          \/ spc[c] = "woken" /\ Completed(c)
  /\ proc' = "exited"
  /\ UNCHANGED <<listVars, seatVars, totalBurgers, keepRunning, stats, mainVars,
                 kitchenVars, serveVars, orderVars>>

\* The process is over, or nothing can be said of it any more.
Stopped == proc # "running" /\ UNCHANGED vars

Next ==
  \/ Acceptor
  \/ Interrupt \/ ExitAfterSleep \/ SecondInterrupt
  \/ \E c \in Customer : Serve(c)
  \/ \E k \in Kitchen : Kitchens(k)
  \/ SendKills \/ Stopped

Spec == Init /\ [][Next]_vars

-----------------------------------------------------------------------------
(* Type correctness: one invariant over every variable of the server.      *)

ServePC == NoThread \cup {"visit", "welcome", "receive", "issue", "wait",
                          "waiting", "woken", "cleanup", "leave", "error"}
KitchenPC == UsesOrder \cup {"loop", "peek", "sleep", "dequeue", "count", "done"}

\* Every variable stays in its type; in particular list.count stays unsigned
\* and *remain_count never drops below zero.
TypeOK ==
  /\ list \in Seq(NodeSet) /\ count \in 0..(COUNT_MOD - 1)
  /\ totalCustomers \in Nat /\ totalQueueing \in Nat
  /\ totalBurgers \in [Type -> Nat]
  /\ lock \in BOOLEAN /\ keepRunning \in BOOLEAN /\ stats \in BOOLEAN
  /\ proc \in {"running", "exited", "undefined"}
  /\ apc \in {"accept", "admit", "refuse", "spawn"}
  /\ aconn \in Customer \cup {Nobody}
  /\ kpc \in [Kitchen -> KitchenPC]
  /\ korder \in [Kitchen -> NodeSet \cup {NoNode}]
  /\ temp \in [Kitchen -> Seq(0..MAX_BURGERS)]
  /\ spc \in [Customer -> ServePC]
  /\ customerID \in [Customer -> Nat]
  /\ request \in [Customer -> {<<>>} \cup Requests]
  /\ issued \in [Customer -> 0..MAX_BURGERS]
  /\ reply \in [Customer -> Seq(0..MAX_BURGERS)]
  /\ remain \in [Customer -> 0..MAX_BURGERS]
  /\ orderStr \in [Customer -> Seq(0..MAX_BURGERS)]
  /\ holder \in [Customer -> Kitchen \cup {Nobody}]
  /\ objects \in [Customer -> {"none", "live", "freed"}]

-----------------------------------------------------------------------------
(* Safety.                                                                 *)

Positions(c) == 1..Len(request[c])
Queued(c) == {i \in Positions(c) : \E j \in 1..Len(list) : list[j] = Node(c, i)}
Held(c, pcs) ==
  {i \in Positions(c) : \E k \in Kitchen : korder[k] = Node(c, i) /\ kpc[k] \in pcs}
Unissued(c) == {i \in Positions(c) : i > issued[c]}

\* The burgers of c that no kitchen has subtracted from *remain_count yet.
BeforeDecrement == UsesOrder \ {"signal"}
Pending(c) == Unissued(c) \cup Queued(c) \cup Held(c, BeforeDecrement)

\* *remain_count is exactly the number of burgers not yet finished, whichever
\* way enqueuing, dequeuing and decrementing interleave: nothing is counted
\* twice, and no finished burger keeps a customer waiting.
RemainIsPending == \A c \in Customer : remain[c] = Cardinality(Pending(c))

\* A node is in one place only: once in the list, or with one kitchen.
Places(c, i) ==
  Cardinality({j \in 1..Len(list) : list[j] = Node(c, i)})
    + Cardinality({k \in Kitchen : korder[k] = Node(c, i)})
NodeIsInOnePlace ==
  \A c \in Customer : \A i \in 1..MAX_BURGERS :
    Places(c, i) <= (IF i <= issued[c] THEN 1 ELSE 0)

\* order_mutex does its job: between the copy and the reallocation no other
\* kitchen touches the order string of the same request.
OneCookPerOrder ==
  \A k1, k2 \in Kitchen :
    /\ kpc[k1] \in {"cook", "append", "rest"}
    /\ kpc[k2] \in {"cook", "append", "rest"}
    /\ korder[k1].cust = korder[k2].cust
    => k1 = k2

\* The reply names every burger of the request exactly once, in any order,
\* and nothing else (README.md "Server Operations on a Request").
ReplyIsTheRequest ==
  \A c \in Customer : reply[c] # <<>> =>
    /\ Len(reply[c]) = Len(request[c])
    /\ {reply[c][j] : j \in 1..Len(reply[c])} = Positions(c)

\* A serving thread frees the shared objects only when no kitchen will touch
\* them any more and no node that points to them is queued.
NoUseAfterFree ==
  \A c \in Customer : objects[c] = "freed" =>
    /\ \A k \in Kitchen : kpc[k] \in UsesOrder => korder[k].cust # c
    /\ Queued(c) = {}

\* Seats: total_queueing counts the connections that hold one, the acceptor's
\* attempt included while it holds the lock, and a refused connection never
\* takes a seat for good.
Seated ==
  {c \in Customer : spc[c] \notin {"outside", "accepted", "refused", "gone"}}
SeatsAreCounted ==
  /\ totalQueueing = Cardinality(Seated)
                     + (IF apc \in {"refuse", "spawn"} THEN 1 ELSE 0)
  /\ Cardinality(Seated) + (IF apc = "spawn" THEN 1 ELSE 0) <= CUSTOMER_MAX

\* The statistics are exact: a type's counter is the number of its burgers
\* that went through a kitchen, although no kitchen counts atomically with
\* cooking and a burger may be counted after its customer has left.
Counted(t) ==
  {n \in NodeSet : /\ n.idx <= issued[n.cust] /\ request[n.cust][n.idx] = t
                   /\ Places(n.cust, n.idx) = 0}
BurgersAreCounted == \A t \in Type : totalBurgers[t] = Cardinality(Counted(t))

\* The order of c is finished, its thread has not been woken, and no kitchen owes
\* it the signal any more: nothing but a spurious wakeup brings it back.  The code
\* allows it (the signal is lost to a thread that does not wait yet), although
\* README.md:147 says that the kitchen of the last burger wakes the thread up.
Forgotten(c) ==
  /\ spc[c] \in {"issue", "wait", "waiting"} /\ request[c] # <<>> /\ remain[c] = 0
  /\ ~\E k \in Kitchen : kpc[k] = "signal" /\ korder[k].cust = c

\* A woken serving thread finds its order completed, as the comment over its
\* unprotected reads of remain_count and order_str says.
WokenMeansCompleted == \A c \in Customer : spc[c] = "woken" => remain[c] = 0

-----------------------------------------------------------------------------
(* Action properties.                                                      *)

\* A kitchen thread terminates only when no order is left for it.
TerminatesOnEmptyList ==
  [][\A k \in Kitchen : kpc[k] # "done" /\ kpc'[k] = "done" => list = <<>>]_vars

\* A signal can be lost only before its serving thread waits: one that is in
\* pthread_cond_wait when its last burger is finished is not forgotten.
OnlyEarlySignalsAreLost ==
  [][\A c \in Customer : ~Forgotten(c) /\ Forgotten(c)' =>
       spc[c] \in {"issue", "wait"}]_vars

\* Nobody writes to the order string of a request once its serving thread has
\* been woken: what the reply is formatted from is stable.
OrderStringIsStable ==
  [][\A c \in Customer : spc[c] \in {"woken", "cleanup", "leave"} =>
       orderStr'[c] = orderStr[c] /\ remain'[c] = remain[c]]_vars

-----------------------------------------------------------------------------
(* Fairness and liveness.                                                  *)

\* Every thread that can take a step is scheduled some time; a mutex is passed
\* on only finitely often, since customers and burgers are finitely many.  A
\* connected client sends a line; nobody has to connect or to press Ctrl-C.
Fairness ==
  /\ WF_vars(proc = "running" /\ keepRunning /\ Handle)
  /\ WF_vars(ExitAfterSleep)
  /\ \A c \in Customer : WF_vars(proc = "running" /\ Proceed(c))
                         /\ WF_vars(proc = "running" /\ Arrives(c))
  /\ \A k \in Kitchen : WF_vars(Kitchens(k))

FairSpec == Spec /\ Fairness

\* Unless the process ends, every burger of an order is made, and the customer is
\* served whose thread waits before the last of them is finished.  (A thread that
\* comes later may wait for ever.)
EveryOrderIsServed ==
  \A c \in Customer :
    /\ (spc[c] = "issue") ~> (remain[c] = 0 \/ proc # "running")
    /\ (spc[c] = "waiting" /\ remain[c] > 0)
         ~> (spc[c] \in {"leave", "gone"} \/ proc # "running")
=============================================================================
