--------------------------- MODULE McDonaldsProofs ---------------------------
(***************************************************************************)
(* Theorems about McDonalds, for every number of kitchens, customers and   *)
(* burgers: its types and bounds, the hand-over of orders, when a signal   *)
(* can be lost, what a woken thread reads, the statistics, and the         *)
(* refinement of BurgerShop.                                               *)
(***************************************************************************)
EXTENDS McDonaldsShop, FiniteSetTheorems, TLAPS

(***************************************************************************)
(* Typing without the lower bounds of *remain_count and total_queueing,    *)
(* which take the counting arguments below.                                *)
(***************************************************************************)
TypedList == list \in Seq(NodeSet) /\ count \in 0..(COUNT_MOD - 1)

TypedTotals ==
  totalCustomers \in Nat /\ totalQueueing \in Int /\ totalBurgers \in [Type -> Nat]

TypedProc ==
  /\ keepRunning \in BOOLEAN /\ stats \in BOOLEAN
  /\ proc \in {"running", "exited", "undefined"}

TypedMain ==
  /\ lock \in BOOLEAN
  /\ apc \in {"accept", "admit", "refuse", "spawn"}
  /\ aconn \in Customer \cup {Nobody}

TypedKitchens ==
  /\ kpc \in [Kitchen -> KitchenPC]
  /\ korder \in [Kitchen -> NodeSet \cup {NoNode}]
  /\ temp \in [Kitchen -> Seq(0..MAX_BURGERS)]

TypedServe ==
  /\ spc \in [Customer -> ServePC]
  /\ customerID \in [Customer -> Nat]
  /\ request \in [Customer -> {<<>>} \cup Requests]
  /\ issued \in [Customer -> 0..MAX_BURGERS]
  /\ \A c \in Customer : issued[c] <= Len(request[c])
  /\ reply \in [Customer -> Seq(0..MAX_BURGERS)]

TypedOrders ==
  /\ remain \in [Customer -> Int]
  /\ orderStr \in [Customer -> Seq(0..MAX_BURGERS)]
  /\ holder \in [Customer -> Kitchen \cup {Nobody}]
  /\ objects \in [Customer -> {"none", "live", "freed"}]

Typed == /\ TypedList /\ TypedTotals /\ TypedProc /\ TypedMain
         /\ TypedKitchens /\ TypedServe /\ TypedOrders

\* The steps that touch nothing but keep_running, the statistics and the process.
Halting == Interrupt \/ ExitAfterSleep \/ SecondInterrupt \/ SendKills \/ Stopped

LEMMA CountTyped ==
  \A n \in 0..(COUNT_MOD - 1) :
    Increment(n) \in 0..(COUNT_MOD - 1) /\ Decrement(n) \in 0..(COUNT_MOD - 1)
BY NumbersAssumption DEF Increment, Decrement

LEMMA UnchangedTyped ==
  /\ TypedList /\ UNCHANGED listVars => TypedList'
  /\ TypedTotals /\ UNCHANGED <<seatVars, totalBurgers>> => TypedTotals'
  /\ TypedProc /\ UNCHANGED procVars => TypedProc'
  /\ TypedMain /\ UNCHANGED mainVars => TypedMain'
  /\ TypedKitchens /\ UNCHANGED kitchenVars => TypedKitchens'
  /\ TypedServe /\ UNCHANGED serveVars => TypedServe'
  /\ TypedOrders /\ UNCHANGED orderVars => TypedOrders'
BY DEF TypedList, TypedTotals, TypedProc, TypedMain, TypedKitchens, TypedServe,
       TypedOrders, listVars, seatVars, procVars, mainVars, kitchenVars,
       serveVars, orderVars

\* A program counter of a serving thread, and nothing else of it, changes.
LEMMA SpcTyped ==
  ASSUME TypedServe, NEW x, NEW pc \in ServePC,
         spc' = [spc EXCEPT ![x] = pc],
         UNCHANGED <<customerID, request, issued, reply>>
  PROVE  TypedServe'
BY DEF TypedServe

\* A program counter of a kitchen, and nothing else of it, changes.
LEMMA KpcTyped ==
  ASSUME TypedKitchens, NEW x, NEW pc \in KitchenPC,
         kpc' = [kpc EXCEPT ![x] = pc],
         UNCHANGED <<korder, temp>>
  PROVE  TypedKitchens'
BY DEF TypedKitchens

LEMMA InitTyped == Init => Typed
<1> SUFFICES ASSUME Init PROVE Typed
  OBVIOUS
<1> USE DEF Init
<1>1. TypedList BY NumbersAssumption DEF TypedList
<1>2. TypedTotals BY DEF TypedTotals
<1>3. TypedProc /\ TypedMain BY DEF TypedProc, TypedMain
<1>4. TypedKitchens BY DEF TypedKitchens, KitchenPC
<1>5. TypedServe BY RequestsAssumption DEF TypedServe, ServePC, NoThread
<1>6. TypedOrders BY DEF TypedOrders
<1> QED BY <1>1, <1>2, <1>3, <1>4, <1>5, <1>6 DEF Typed

LEMMA AcceptorTyped == Typed /\ Acceptor => Typed'
<1> SUFFICES ASSUME Typed, Acceptor PROVE Typed'
  OBVIOUS
<1>1. ASSUME NEW c \in Customer, Accept(c) PROVE Typed'
  <2>1. TypedMain' BY <1>1 DEF Typed, TypedMain, Accept, Goto
  <2>2. TypedServe' BY <1>1, SpcTyped DEF Typed, Accept, ServePC, NoThread
  <2> QED BY <1>1, <2>1, <2>2, UnchangedTyped DEF Typed, Accept
<1>2. CASE Admit
  <2>1. TypedMain' BY <1>2 DEF Typed, TypedMain, Admit, Goto, Exceeds
  <2>2. TypedTotals' BY <1>2 DEF Typed, TypedTotals, Admit
  <2> QED BY <1>2, <2>1, <2>2, UnchangedTyped DEF Typed, Admit
<1>3. CASE Refuse
  <2>1. TypedMain' BY <1>3 DEF Typed, TypedMain, Refuse, Goto
  <2>2. TypedServe' BY <1>3, SpcTyped DEF Typed, Refuse, ServePC, NoThread
  <2>3. TypedTotals' BY <1>3 DEF Typed, TypedTotals, Refuse
  <2> QED BY <1>3, <2>1, <2>2, <2>3, UnchangedTyped DEF Typed, Refuse
<1>4. CASE Spawn
  <2>1. TypedMain' BY <1>4 DEF Typed, TypedMain, Spawn, Goto
  <2>2. TypedServe' BY <1>4, SpcTyped DEF Typed, Spawn, ServePC, NoThread
  <2> QED BY <1>4, <2>1, <2>2, UnchangedTyped DEF Typed, Spawn
<1>5. CASE AcceptFails
  <2>1. TypedProc' BY <1>5 DEF Typed, TypedProc, AcceptFails
  <2> QED BY <1>5, <2>1, UnchangedTyped DEF Typed, AcceptFails
<1>6. CASE DetachUndefined
  <2>1. TypedProc' BY <1>6 DEF Typed, TypedProc, DetachUndefined, Undefined
  <2> QED BY <1>6, <2>1, UnchangedTyped DEF Typed, DetachUndefined
<1> QED BY <1>1, <1>2, <1>3, <1>4, <1>5, <1>6 DEF Acceptor, Handle

LEMMA HaltingTyped == Typed /\ Halting => Typed'
<1> SUFFICES ASSUME Typed, Halting PROVE Typed'
  OBVIOUS
<1>1. TypedProc'
  BY DEF Typed, TypedProc, Halting, Interrupt, ExitAfterSleep, SecondInterrupt, SendKills,
         Stopped, vars, procVars
<1> QED
  BY <1>1, UnchangedTyped
  DEF Typed, Halting, Interrupt, ExitAfterSleep, SecondInterrupt, SendKills, Stopped, vars

\* The request has a length within its bound.
LEMMA RequestLen ==
  ASSUME TypedServe, NEW c \in Customer
  PROVE  Len(request[c]) \in 0..MAX_BURGERS
BY RequestsAssumption DEF TypedServe

LEMMA ReceiveTyped ==
  ASSUME Typed, NEW c \in Customer, NEW r \in {<<>>} \cup Requests,
         spc[c] = "receive", issued[c] = 0, StartIssue(c, r),
         UNCHANGED <<listVars, seatVars, totalBurgers, procVars, mainVars,
                     kitchenVars, customerID, issued, reply, orderStr, holder>>
  PROVE  Typed'
<1>1. Len(r) \in Int /\ 0 <= Len(r)
  BY RequestsAssumption
<1>2. TypedServe'
  <2>1. spc' \in [Customer -> ServePC] /\ request' \in [Customer -> {<<>>} \cup Requests]
    BY DEF Typed, TypedServe, StartIssue, ServePC
  <2>2. \A d \in Customer : issued'[d] <= Len(request'[d])
    BY <1>1 DEF Typed, TypedServe, StartIssue
  <2> QED BY <2>1, <2>2 DEF Typed, TypedServe
<1>3. TypedOrders' BY <1>1 DEF Typed, TypedOrders, StartIssue, BurgerCount
<1> QED BY <1>2, <1>3, UnchangedTyped DEF Typed

\* Before its request a serving thread has issued nothing.
IssuedAfterReceive ==
  \A c \in Customer :
    spc[c] \in {"outside", "accepted", "refused", "abandoned", "visit", "welcome",
               "receive"}
      => request[c] = <<>> /\ issued[c] = 0

LEMMA ServeTyped ==
  ASSUME Typed, IssuedAfterReceive, NEW c \in Customer, Serve(c)
  PROVE  Typed'
<1> USE DEF Typed
<1>1. CASE Visit(c)
  <2>1. TypedServe'
    <3>1. customerID' \in [Customer -> Nat]
      BY <1>1 DEF TypedServe, TypedTotals, Visit
    <3>2. spc' \in [Customer -> ServePC] BY <1>1 DEF TypedServe, Visit, ServePC
    <3> QED BY <1>1, <3>1, <3>2 DEF TypedServe, Visit
  <2>2. TypedTotals' BY <1>1 DEF TypedTotals, Visit
  <2> QED BY <1>1, <2>1, <2>2, UnchangedTyped DEF Visit
<1>2. CASE Welcome(c)
  BY <1>2, SpcTyped, UnchangedTyped DEF Welcome, ServePC, NoThread
<1>3. CASE Receive(c)
  <2>1. PICK r \in Requests : StartIssue(c, r) BY <1>3 DEF Receive
  <2>2. spc[c] = "receive" /\ issued[c] = 0 BY <1>3 DEF Receive, IssuedAfterReceive
  <2> QED BY <1>3, <2>1, <2>2, ReceiveTyped DEF Receive
<1>4. CASE ReceiveNothing(c)
  <2>1. issued[c] = 0 BY <1>4 DEF ReceiveNothing, IssuedAfterReceive
  <2> QED BY <1>4, <2>1, ReceiveTyped DEF ReceiveNothing
<1>5. CASE Reject(c)
  BY <1>5, SpcTyped, UnchangedTyped DEF Reject, ServePC
<1>6. CASE Issue(c)
  <2>1. issued[c] \in 0..MAX_BURGERS /\ issued[c] < Len(request[c])
        /\ Len(request[c]) \in 0..MAX_BURGERS
    BY <1>6, RequestLen DEF Issue, AllIssued, TypedServe
  <2>2. TypedServe'
    <3>1. issued' \in [Customer -> 0..MAX_BURGERS]
      BY <1>6, <2>1, RequestsAssumption DEF TypedServe, Issue
    <3>2. \A d \in Customer : issued'[d] <= Len(request'[d])
      BY <1>6, <2>1 DEF TypedServe, Issue
    <3> QED BY <1>6, <3>1, <3>2 DEF TypedServe, Issue
  <2>3. Node(c, issued[c] + 1) \in NodeSet
    BY <2>1, RequestsAssumption DEF Node, NodeSet
  <2>4. TypedList' BY <1>6, <2>3, CountTyped DEF TypedList, Issue
  <2> QED BY <1>6, <2>2, <2>4, UnchangedTyped DEF Issue
<1>7. CASE Issued(c)
  BY <1>7, SpcTyped, UnchangedTyped DEF Issued, ServePC
<1>8. CASE Wait(c)
  BY <1>8, SpcTyped, UnchangedTyped DEF Wait, ServePC
<1>9. CASE SpuriousWakeup(c)
  BY <1>9, SpcTyped, UnchangedTyped DEF SpuriousWakeup, ServePC
<1>10. CASE HandOver(c)
  <2>1. reply' \in [Customer -> Seq(0..MAX_BURGERS)]
    BY <1>10 DEF TypedServe, TypedOrders, HandOver
  <2>2. spc' \in [Customer -> ServePC] BY <1>10 DEF TypedServe, HandOver, ServePC
  <2>3. TypedServe' BY <1>10, <2>1, <2>2 DEF TypedServe, HandOver
  <2> QED BY <1>10, <2>3, UnchangedTyped DEF HandOver
<1>11. CASE SkipHandOver(c)
  BY <1>11, SpcTyped, UnchangedTyped DEF SkipHandOver, ServePC
<1>12. CASE CleanUp(c)
  <2>1. TypedServe' BY <1>12, SpcTyped DEF CleanUp, ServePC
  <2>2. TypedOrders' BY <1>12 DEF TypedOrders, CleanUp
  <2> QED BY <1>12, <2>1, <2>2, UnchangedTyped DEF CleanUp
<1>13. CASE Leave(c)
  <2>1. TypedServe' BY <1>13, SpcTyped DEF Leave, ServePC, NoThread
  <2>2. TypedTotals' BY <1>13 DEF TypedTotals, Leave
  <2> QED BY <1>13, <2>1, <2>2, UnchangedTyped DEF Leave
<1>14. CASE ServeUndefined(c)
  <2>1. TypedProc' BY <1>14 DEF TypedProc, ServeUndefined, Undefined
  <2> QED BY <1>14, <2>1, UnchangedTyped DEF ServeUndefined
<1> QED
  BY <1>1, <1>2, <1>3, <1>4, <1>5, <1>6, <1>7, <1>8, <1>9, <1>10, <1>11, <1>12,
     <1>13, <1>14
  DEF Serve, Proceed, Arrives

\* A kitchen has an order from the moment it dequeues it until it has counted
\* its burger.
KitchenHasOrder ==
  \A k \in Kitchen : kpc[k] \in UsesOrder \cup {"count"} <=> korder[k] # NoNode

LEMMA OrderOfKitchen ==
  ASSUME TypedKitchens, KitchenHasOrder, NEW k \in Kitchen,
         kpc[k] \in UsesOrder \cup {"count"}
  PROVE  /\ korder[k] \in NodeSet
         /\ korder[k].cust \in Customer /\ korder[k].idx \in 1..MAX_BURGERS
BY DEF TypedKitchens, KitchenHasOrder, NodeSet

LEMMA KitchensTyped ==
  ASSUME Typed, KitchenHasOrder, NEW k \in Kitchen, Kitchens(k)
  PROVE  Typed'
<1> USE DEF Typed
<1>1. CASE KLoop(k)
  BY <1>1, KpcTyped, UnchangedTyped DEF KLoop, KGoto, KitchenPC
<1>2. CASE KPeek(k)
  BY <1>2, KpcTyped, UnchangedTyped DEF KPeek, KGoto, KitchenPC
<1>3. CASE KSleep(k)
  BY <1>3, KpcTyped, UnchangedTyped DEF KSleep, KGoto, KitchenPC
<1>4. CASE KDequeue(k)
  <2>1. Head(list) \in NodeSet /\ Tail(list) \in Seq(NodeSet)
    BY <1>4 DEF KDequeue, TypedList
  <2>2. TypedList' BY <1>4, <2>1, CountTyped DEF TypedList, KDequeue, Rest
  <2>3. TypedKitchens'
    BY <1>4, <2>1 DEF TypedKitchens, KDequeue, KGoto, KitchenPC, UsesOrder
  <2> QED BY <1>4, <2>2, <2>3, UnchangedTyped DEF KDequeue
<1>5. CASE KDequeueNothing(k)
  <2>1. TypedList' BY <1>5, CountTyped DEF TypedList, KDequeueNothing
  <2>2. TypedKitchens' BY <1>5, KpcTyped DEF KDequeueNothing, KGoto, KitchenPC
  <2> QED BY <1>5, <2>1, <2>2, UnchangedTyped DEF KDequeueNothing
<1>6. CASE KLockOrder(k)
  <2>1. TypedKitchens' BY <1>6, KpcTyped DEF KLockOrder, KGoto, KitchenPC, UsesOrder
  <2>2. TypedOrders' BY <1>6 DEF TypedOrders, KLockOrder
  <2> QED BY <1>6, <2>1, <2>2, UnchangedTyped DEF KLockOrder
<1>7. korder[k].idx \in 0..MAX_BURGERS
  BY RequestsAssumption DEF TypedKitchens, NodeSet, NoNode, Node
<1>8. CASE KCookFirst(k)
  <2>1. TypedKitchens' BY <1>8, KpcTyped DEF KCookFirst, KGoto, KitchenPC, UsesOrder
  <2>2. FirstName(korder[k].idx) \subseteq Seq(0..MAX_BURGERS)
    <3>1. <<korder[k].idx>> \in Seq(0..MAX_BURGERS) BY <1>7
    <3>2. <<korder[k].idx, 0>> \in Seq(0..MAX_BURGERS) BY <1>7, RequestsAssumption
    <3> QED BY <3>1, <3>2 DEF FirstName, Junk
  <2>3. TypedOrders' BY <1>8, <2>2 DEF TypedOrders, KCookFirst
  <2> QED BY <1>8, <2>1, <2>3, UnchangedTyped DEF KCookFirst
<1>9. CASE KCookCopy(k)
  <2>1. orderStr[korder[k].cust] \in Seq(0..MAX_BURGERS)
    BY <1>9, OrderOfKitchen DEF KCookCopy, UsesOrder, TypedOrders
  <2>2. TypedKitchens'
    BY <1>9, <2>1 DEF TypedKitchens, KCookCopy, KGoto, KitchenPC, UsesOrder
  <2> QED BY <1>9, <2>2, UnchangedTyped DEF KCookCopy
<1>10. CASE KCookAppend(k)
  <2>1. Append(temp[k], korder[k].idx) \in Seq(0..MAX_BURGERS)
    BY <1>7 DEF TypedKitchens
  <2>2. TypedOrders' BY <1>10, <2>1 DEF TypedOrders, KCookAppend
  <2>3. TypedKitchens'
    BY <1>10 DEF TypedKitchens, KCookAppend, KGoto, KitchenPC, UsesOrder
  <2> QED BY <1>10, <2>2, <2>3, UnchangedTyped DEF KCookAppend
<1>11. CASE KUnlockOrder(k)
  <2>1. TypedKitchens' BY <1>11, KpcTyped DEF KUnlockOrder, KGoto, KitchenPC, UsesOrder
  <2>2. TypedOrders' BY <1>11 DEF TypedOrders, KUnlockOrder
  <2> QED BY <1>11, <2>1, <2>2, UnchangedTyped DEF KUnlockOrder
<1>12. CASE KDecrement(k)
  <2>1. TypedKitchens' BY <1>12, KpcTyped DEF KDecrement, KGoto, KitchenPC, UsesOrder
  <2>2. remain[korder[k].cust] \in Int
    BY <1>12, OrderOfKitchen DEF KDecrement, UsesOrder, TypedOrders
  <2>3. TypedOrders'
    <3>1. remain' \in [Customer -> Int]
      <4> DEFINE left == remain[korder[k].cust] - 1
      <4>1. left \in Int BY <2>2
      <4>2. remain' = [remain EXCEPT ![korder[k].cust] = left]
        BY <1>12 DEF KDecrement
      <4> QED BY <4>1, <4>2 DEF TypedOrders
    <3> QED BY <1>12, <3>1 DEF TypedOrders, KDecrement
  <2> QED BY <1>12, <2>1, <2>3, UnchangedTyped DEF KDecrement
<1>13. CASE KSignal(k)
  <2>1. TypedKitchens' BY <1>13, KpcTyped DEF KSignal, KGoto, KitchenPC
  <2>2. TypedServe' BY <1>13 DEF TypedServe, KSignal, ServePC
  <2> QED BY <1>13, <2>1, <2>2, UnchangedTyped DEF KSignal
<1>14. CASE KCount(k)
  <2>1. TypedKitchens' BY <1>14 DEF TypedKitchens, KCount, KGoto, KitchenPC
  <2>2. TypedTotals'
    <3>1. totalBurgers' = [totalBurgers EXCEPT ![TypeOf(korder[k])] = @ + 1]
      BY <1>14 DEF KCount
    <3>2. totalBurgers' \in [Type -> Nat]
      <4>1. totalBurgers' = [t \in Type |-> IF t = TypeOf(korder[k])
                                             THEN totalBurgers[t] + 1
                                             ELSE totalBurgers[t]]
        BY <3>1 DEF TypedTotals
      <4>2. \A t \in Type : totalBurgers[t] + 1 \in Nat
        BY DEF TypedTotals
      <4> QED BY <4>1, <4>2 DEF TypedTotals
    <3> QED BY <1>14, <3>2 DEF TypedTotals, KCount, seatVars
  <2> QED BY <1>14, <2>1, <2>2, UnchangedTyped DEF KCount
<1>15. CASE KUseAfterFree(k)
  <2>1. TypedProc' BY <1>15 DEF TypedProc, KUseAfterFree, Undefined
  <2> QED BY <1>15, <2>1, UnchangedTyped DEF KUseAfterFree
<1> QED
  BY <1>1, <1>2, <1>3, <1>4, <1>5, <1>6, <1>8, <1>9, <1>10, <1>11, <1>12, <1>13,
     <1>14, <1>15
  DEF Kitchens, Cook

-----------------------------------------------------------------------------
(***************************************************************************)
(* Where the nodes are.  Only three steps move a node, and only three more *)
(* change what is pending; every other step is quiet.                      *)
(***************************************************************************)
Quiet ==
  /\ UNCHANGED <<list, korder, request, issued, remain>>
  /\ \A k \in Kitchen : /\ kpc'[k] \in BeforeDecrement <=> kpc[k] \in BeforeDecrement
                        /\ kpc'[k] \in UsesOrder \cup {"count"}
                             <=> kpc[k] \in UsesOrder \cup {"count"}

MovesNodes ==
  \/ \E c \in Customer : proc = "running" /\ (Receive(c) \/ ReceiveNothing(c) \/ Issue(c))
  \/ \E k \in Kitchen : proc = "running" /\ (KDequeue(k) \/ KDecrement(k) \/ KCount(k))

LEMMA SameKitchens ==
  ASSUME UNCHANGED <<list, korder, request, issued, remain, kpc>>
  PROVE  Quiet
BY DEF Quiet

LEMMA KitchenMove ==
  ASSUME TypedKitchens, NEW k \in Kitchen, NEW pc,
         UNCHANGED <<list, korder, request, issued, remain>>,
         kpc' = [kpc EXCEPT ![k] = pc],
         \/ {pc, kpc[k]} \subseteq BeforeDecrement
         \/ {pc, kpc[k]} \subseteq {"loop", "peek", "sleep", "dequeue", "done"}
         \/ {pc, kpc[k]} \subseteq {"signal", "count"}
  PROVE  Quiet
BY DEF TypedKitchens, Quiet, BeforeDecrement, UsesOrder

LEMMA QuietOrMoves == Typed /\ [Next]_vars => Quiet \/ MovesNodes
<1> SUFFICES ASSUME Typed, [Next]_vars, ~MovesNodes PROVE Quiet
  OBVIOUS
<1> USE DEF listVars, seatVars, procVars, mainVars, kitchenVars, serveVars, orderVars
<1>1. CASE Acceptor
  BY <1>1, SameKitchens
  DEF Acceptor, Accept, Handle, Admit, Refuse, Spawn, DetachUndefined, AcceptFails
<1>2. CASE Halting \/ UNCHANGED vars
  BY <1>2, SameKitchens
  DEF Halting, Interrupt, ExitAfterSleep, SecondInterrupt, SendKills, Stopped, vars
<1>3. ASSUME NEW c \in Customer, Serve(c) PROVE Quiet
  <2>1. ~(Receive(c) \/ ReceiveNothing(c) \/ Issue(c))
    BY <1>3 DEF MovesNodes, Serve
  <2> QED
    BY <1>3, <2>1, SameKitchens
    DEF Serve, Proceed, Arrives, Visit, Welcome, Reject, Issued, Wait,
        SpuriousWakeup, HandOver, SkipHandOver, CleanUp, Leave, ServeUndefined
<1>4. ASSUME NEW k \in Kitchen, Kitchens(k) PROVE Quiet
  <2> USE DEF KGoto, BeforeDecrement, UsesOrder
  <2>1. ~(KDequeue(k) \/ KDecrement(k) \/ KCount(k))
    BY <1>4 DEF MovesNodes, Kitchens
  <2>2. TypedKitchens BY DEF Typed
  <2>3. CASE KLoop(k) \/ KPeek(k) \/ KSleep(k) \/ KDequeueNothing(k)
    BY <2>2, <2>3, KitchenMove DEF KLoop, KPeek, KSleep, KDequeueNothing
  <2>4. CASE KLockOrder(k) \/ KCookFirst(k) \/ KCookCopy(k) \/ KCookAppend(k) \/ KUnlockOrder(k)
    BY <2>2, <2>4, KitchenMove
    DEF KLockOrder, KCookFirst, KCookCopy, KCookAppend, KUnlockOrder
  <2>5. CASE KSignal(k)
    BY <2>2, <2>5, KitchenMove DEF KSignal
  <2>6. CASE KUseAfterFree(k)
    BY <2>6, SameKitchens DEF KUseAfterFree
  <2> QED BY <1>4, <2>1, <2>3, <2>4, <2>5, <2>6 DEF Kitchens, Cook
<1> QED BY <1>1, <1>2, <1>3, <1>4 DEF Next, Halting

LEMMA HasOrderStep == Typed /\ KitchenHasOrder /\ [Next]_vars => KitchenHasOrder'
<1> SUFFICES ASSUME Typed, KitchenHasOrder, [Next]_vars PROVE KitchenHasOrder'
  OBVIOUS
<1> USE DEF listVars, serveVars, kitchenVars, KGoto, UsesOrder
<1>1. CASE Quiet BY <1>1 DEF Quiet, KitchenHasOrder
<1>2. ASSUME NEW c \in Customer, Receive(c) \/ ReceiveNothing(c) \/ Issue(c)
      PROVE  KitchenHasOrder'
  BY <1>2 DEF Receive, ReceiveNothing, Issue, KitchenHasOrder
<1>3. ASSUME NEW k \in Kitchen, KDequeue(k) PROVE KitchenHasOrder'
  <2>1. Head(list) \in NodeSet BY <1>3 DEF KDequeue, Typed, TypedList
  <2>2. Head(list) # NoNode
    BY <2>1, ThreadsAssumption DEF NodeSet, NoNode, Node
  <2> QED BY <1>3, <2>2 DEF KDequeue, KitchenHasOrder, Typed, TypedKitchens
<1>4. ASSUME NEW k \in Kitchen, KDecrement(k) \/ KCount(k) PROVE KitchenHasOrder'
  BY <1>4 DEF KDecrement, KCount, KitchenHasOrder, Typed, TypedKitchens
<1> QED BY <1>1, <1>2, <1>3, <1>4, QuietOrMoves DEF MovesNodes

\* The connection the acceptor works on has no thread yet.
ConnectionAccepted ==
  apc # "accept" => aconn \in Customer /\ spc[aconn] = "accepted"

LEMMA ConnectionStep ==
  Typed /\ ConnectionAccepted /\ [Next]_vars => ConnectionAccepted'
<1> SUFFICES ASSUME Typed, ConnectionAccepted, [Next]_vars PROVE ConnectionAccepted'
  OBVIOUS
<1> USE DEF ConnectionAccepted, Typed, TypedServe, TypedMain, listVars, seatVars,
            procVars, mainVars, kitchenVars, serveVars, orderVars
<1>1. CASE Acceptor
  BY <1>1 DEF Acceptor, Accept, Handle, Admit, Refuse, Spawn, DetachUndefined, AcceptFails, Goto
<1>2. CASE Halting \/ UNCHANGED vars
  BY <1>2 DEF Halting, Interrupt, ExitAfterSleep, SecondInterrupt, SendKills, Stopped, vars
<1>3. ASSUME NEW c \in Customer, Serve(c) PROVE ConnectionAccepted'
  BY <1>3
  DEF Serve, Proceed, Arrives, Visit, Welcome, Receive, ReceiveNothing, StartIssue,
      Reject, Issue, Issued, Wait, SpuriousWakeup, HandOver, SkipHandOver, CleanUp,
      Leave, ServeUndefined
<1>4. ASSUME NEW k \in Kitchen, Kitchens(k) PROVE ConnectionAccepted'
  BY <1>4
  DEF Kitchens, Cook, KLoop, KPeek, KSleep, KDequeue, KDequeueNothing, KLockOrder,
      KCookFirst, KCookCopy, KCookAppend, KUnlockOrder, KDecrement, KSignal, KCount,
      KUseAfterFree
<1> QED BY <1>1, <1>2, <1>3, <1>4 DEF Next, Halting

LEMMA AfterReceiveStep ==
  Typed /\ ConnectionAccepted /\ IssuedAfterReceive /\ [Next]_vars => IssuedAfterReceive'
<1> SUFFICES ASSUME Typed, ConnectionAccepted, IssuedAfterReceive, [Next]_vars
             PROVE  IssuedAfterReceive'
  OBVIOUS
<1> USE DEF IssuedAfterReceive, Typed, TypedServe, listVars, seatVars, procVars,
            mainVars, kitchenVars, serveVars, orderVars
<1>1. CASE Acceptor
  BY <1>1
  DEF Acceptor, Accept, Handle, Admit, Refuse, Spawn, DetachUndefined, AcceptFails, ConnectionAccepted
<1>2. CASE Halting \/ UNCHANGED vars
  BY <1>2 DEF Halting, Interrupt, ExitAfterSleep, SecondInterrupt, SendKills, Stopped, vars
<1>3. ASSUME NEW c \in Customer, Serve(c) PROVE IssuedAfterReceive'
  BY <1>3
  DEF Serve, Proceed, Arrives, Visit, Welcome, Receive, ReceiveNothing, StartIssue,
      Reject, Issue, Issued, Wait, SpuriousWakeup, HandOver, SkipHandOver, CleanUp,
      Leave, ServeUndefined
<1>4. ASSUME NEW k \in Kitchen, Kitchens(k) PROVE IssuedAfterReceive'
  BY <1>4
  DEF Kitchens, Cook, KLoop, KPeek, KSleep, KDequeue, KDequeueNothing, KLockOrder,
      KCookFirst, KCookCopy, KCookAppend, KUnlockOrder, KDecrement, KSignal, KCount,
      KUseAfterFree
<1> QED BY <1>1, <1>2, <1>3, <1>4 DEF Next, Halting

-----------------------------------------------------------------------------
(***************************************************************************)
(* A node is in one place only.                                            *)
(***************************************************************************)
NodesIssued ==
  /\ \A j \in 1..Len(list) : list[j].idx <= issued[list[j].cust]
  /\ \A k \in Kitchen : korder[k] # NoNode => korder[k].idx <= issued[korder[k].cust]

NodesApart ==
  /\ \A i, j \in 1..Len(list) : list[i] = list[j] => i = j
  /\ \A j \in 1..Len(list) : \A k \in Kitchen : list[j] # korder[k]
  /\ \A k1, k2 \in Kitchen : korder[k1] = korder[k2] /\ korder[k1] # NoNode => k1 = k2

LEMMA NodesStep ==
  Typed /\ KitchenHasOrder /\ NodesIssued /\ NodesApart /\ [Next]_vars
    => NodesIssued' /\ NodesApart'
<1> SUFFICES ASSUME Typed, KitchenHasOrder, NodesIssued, NodesApart, [Next]_vars
             PROVE  NodesIssued' /\ NodesApart'
  OBVIOUS
<1>0. /\ list \in Seq(NodeSet)
      /\ korder \in [Kitchen -> NodeSet \cup {NoNode}]
      /\ issued \in [Customer -> Nat]
  BY RequestsAssumption DEF Typed, TypedList, TypedKitchens, TypedServe
<1>1. CASE Quiet
  BY <1>1 DEF Quiet, NodesIssued, NodesApart
<1>2. ASSUME NEW c \in Customer, Receive(c) \/ ReceiveNothing(c)
      PROVE  NodesIssued' /\ NodesApart'
  BY <1>2 DEF Receive, ReceiveNothing, NodesIssued, NodesApart, listVars, kitchenVars
<1>3. ASSUME NEW c \in Customer, Issue(c) PROVE NodesIssued' /\ NodesApart'
  <2> DEFINE n == Node(c, issued[c] + 1)
  <2>1. /\ list' = Append(list, n) /\ UNCHANGED korder
        /\ issued' = [issued EXCEPT ![c] = issued[c] + 1]
    BY <1>3 DEF Issue, kitchenVars
  <2>2. n.cust = c /\ n.idx = issued[c] + 1 /\ n # NoNode
    BY <1>0, ThreadsAssumption DEF Node, NoNode
  <2>3. /\ Len(list') = Len(list) + 1
        /\ \A j \in 1..Len(list) : list'[j] = list[j]
        /\ list'[Len(list) + 1] = n
    BY <1>0, <2>1
  <2>4. /\ \A j \in 1..Len(list) : list[j] # n
        /\ \A k \in Kitchen : korder[k] # n
    BY <1>0, <2>2 DEF NodesIssued
  <2>5. \A d \in Customer : issued[d] <= issued'[d]
    BY <1>0, <2>1
  <2>6. NodesIssued'
    <3>1. \A j \in 1..Len(list) : list[j] \in NodeSet BY <1>0
    <3>2. ASSUME NEW j \in 1..Len(list) PROVE list[j].idx <= issued'[list[j].cust]
      <4>1. list[j].cust \in Customer /\ list[j].idx \in Int
        BY <3>1, RequestsAssumption DEF NodeSet
      <4>2. list[j].idx <= issued[list[j].cust] BY DEF NodesIssued
      <4>3. issued[list[j].cust] \in Int /\ issued'[list[j].cust] \in Int
        BY <1>0, <2>1, <4>1
      <4> QED BY <2>5, <4>1, <4>2, <4>3
    <3>3. n.idx <= issued'[n.cust] BY <1>0, <2>1, <2>2
    <3>4. ASSUME NEW k \in Kitchen, korder[k] # NoNode
          PROVE  korder[k].idx <= issued'[korder[k].cust]
      BY <1>0, <2>1, <2>5, <3>4 DEF NodesIssued, NodeSet
    <3>5. \A j \in 1..Len(list') : j \in 1..Len(list) \/ j = Len(list) + 1
      BY <1>0, <2>3
    <3> QED BY <2>1, <2>3, <3>2, <3>3, <3>4, <3>5 DEF NodesIssued
  <2>7. NodesApart'
    BY <1>0, <2>1, <2>3, <2>4 DEF NodesApart
  <2> QED BY <2>6, <2>7
<1>4. ASSUME NEW k \in Kitchen, KDequeue(k) PROVE NodesIssued' /\ NodesApart'
  <2>1. /\ list # <<>> /\ list' = Tail(list) /\ UNCHANGED issued
        /\ korder' = [korder EXCEPT ![k] = list[1]] /\ korder[k] = NoNode
    BY <1>4, <1>0, SMTT(30) DEF KDequeue, Rest, serveVars, KitchenHasOrder, UsesOrder
  <2>2. /\ Len(list) >= 1 /\ Len(list') = Len(list) - 1
        /\ \A j \in 1..Len(list') : list'[j] = list[j + 1]
    BY <1>0, <2>1
  <2>3. \A j \in 1..Len(list') : j + 1 \in 1..Len(list) /\ j + 1 # 1
    BY <1>0, <2>2
  <2>4. NodesIssued'
    BY <1>0, <2>1, <2>2, <2>3 DEF NodesIssued
  <2>5. NodesApart'
    BY <1>0, <2>1, <2>2, <2>3 DEF NodesApart
  <2> QED BY <2>4, <2>5
<1>5. ASSUME NEW k \in Kitchen, KDecrement(k) PROVE NodesIssued' /\ NodesApart'
  BY <1>5 DEF KDecrement, NodesIssued, NodesApart, listVars, serveVars
<1>6. ASSUME NEW k \in Kitchen, KCount(k) PROVE NodesIssued' /\ NodesApart'
  <2>1. \A j \in 1..Len(list) : list[j] # NoNode
    BY <1>0, ThreadsAssumption DEF NodeSet, NoNode, Node
  <2> QED
    BY <1>0, <1>6, <2>1 DEF KCount, NodesIssued, NodesApart, listVars, serveVars
<1> QED BY <1>1, <1>2, <1>3, <1>4, <1>5, <1>6, QuietOrMoves DEF MovesNodes

-----------------------------------------------------------------------------
(***************************************************************************)
(* *remain_count is the number of pending burgers.  What is not issued, is *)
(* queued, or is with a kitchen at one of the program counters pcs changes *)
(* in the same way for every pcs that a dequeued node enters at            *)
(* "lock_order": the pending burgers are one case, those not yet cooked    *)
(* another.                                                                *)
(***************************************************************************)
Left(c, pcs) == Unissued(c) \cup Queued(c) \cup Held(c, pcs)

LEMMA PendingIsFinite ==
  ASSUME TypedServe, NEW c \in Customer
  PROVE  IsFiniteSet(Pending(c)) /\ Cardinality(Pending(c)) \in Nat
<1>1. Len(request[c]) \in Int BY RequestLen, RequestsAssumption
<1>2. IsFiniteSet(Positions(c)) BY <1>1, FS_Interval DEF Positions
<1>3. Pending(c) \subseteq Positions(c) BY DEF Pending, Unissued, Queued, Held
<1> QED BY <1>2, <1>3, FS_Subset, FS_CardinalityType

LEMMA QuietPending ==
  ASSUME Quiet, NEW c \in Customer
  PROVE  Pending(c)' = Pending(c)
BY DEF Quiet, Pending, Unissued, Queued, Held, Positions

\* The new request is left as a whole.
LEMMA ReceiveLeft ==
  ASSUME Typed, KitchenHasOrder, NodesIssued, IssuedAfterReceive,
         NEW c \in Customer, NEW pcs, Receive(c) \/ ReceiveNothing(c)
  PROVE  /\ Left(c, pcs)' = 1..Len(request'[c])
         /\ remain' = [remain EXCEPT ![c] = Len(request'[c])]
         /\ Len(request'[c]) \in Nat
         /\ \A d \in Customer \ {c} : Left(d, pcs)' = Left(d, pcs)
<1>1. PICK r \in {<<>>} \cup Requests : StartIssue(c, r)
  BY DEF Receive, ReceiveNothing
<1>2. /\ request' = [request EXCEPT ![c] = r] /\ request'[c] = r
      /\ remain' = [remain EXCEPT ![c] = Len(r)]
  BY <1>1 DEF StartIssue, BurgerCount, Typed, TypedServe
<1>3. issued[c] = 0 /\ UNCHANGED <<list, issued, korder, kpc>>
  BY DEF Receive, ReceiveNothing, IssuedAfterReceive, listVars, kitchenVars
<1>4. Unissued(c)' = Positions(c)'
  BY <1>3 DEF Unissued, Positions
<1>5. Left(c, pcs)' = Positions(c)'
  BY <1>4 DEF Left, Queued, Held
<1>6. \A d \in Customer \ {c} : request'[d] = request[d]
  BY <1>2 DEF Typed, TypedServe
<1>7. \A d \in Customer \ {c} : Left(d, pcs)' = Left(d, pcs)
  BY <1>3, <1>6 DEF Left, Unissued, Queued, Held, Positions
<1>8. Len(r) \in Nat BY RequestsAssumption
<1> QED BY <1>2, <1>5, <1>7, <1>8 DEF Positions

\* Enqueuing moves a burger from the unissued to the queued ones.
LEMMA IssueLeft ==
  ASSUME Typed, NEW c \in Customer, NEW pcs, Issue(c), NEW d \in Customer
  PROVE  Left(d, pcs)' = Left(d, pcs)
<1> DEFINE n == Node(c, issued[c] + 1)
<1>1. /\ list \in Seq(NodeSet) /\ list' = Append(list, n)
      /\ issued' = [issued EXCEPT ![c] = issued[c] + 1]
      /\ UNCHANGED <<korder, kpc, request>>
  BY DEF Issue, kitchenVars, Typed, TypedList
<1>2. /\ Len(list') = Len(list) + 1 /\ Len(list) \in Nat
      /\ \A j \in 1..Len(list) : list'[j] = list[j]
      /\ list'[Len(list) + 1] = n
  BY <1>1
<1>3. Held(d, pcs)' = Held(d, pcs)
  BY <1>1 DEF Held, Positions
<1>4. Queued(d)' = Queued(d) \cup {i \in Positions(d) : Node(d, i) = n}
  <2>1. ASSUME NEW i
        PROVE  (\E j \in 1..Len(list') : list'[j] = Node(d, i))
                 <=> (\E j \in 1..Len(list) : list[j] = Node(d, i)) \/ n = Node(d, i)
    <3>1. 1..Len(list') = 1..Len(list) \cup {Len(list) + 1}
      BY <1>2
    <3> QED BY <1>2, <3>1
  <2> QED BY <1>1, <2>1 DEF Queued, Positions
<1>5. \A i \in Positions(d) : Node(d, i) = n <=> d = c /\ i = issued[c] + 1
  BY DEF Node
<1>6. issued[c] \in Int /\ issued[d] \in Int
  BY RequestsAssumption DEF Typed, TypedServe
<1>7. Unissued(d) = Unissued(d)' \cup {i \in Positions(d) : d = c /\ i = issued[c] + 1}
  <2>1. Positions(d)' = Positions(d) BY <1>1 DEF Positions
  <2>2. Len(request[d]) \in Int BY RequestLen, RequestsAssumption DEF Typed
  <2>3. CASE d = c
    <3>1. issued'[d] = issued[c] + 1 BY <1>1, <2>3 DEF Typed, TypedServe
    <3> QED BY <1>6, <2>1, <2>2, <2>3, <3>1 DEF Unissued, Positions
  <2>4. CASE d # c
    <3>1. issued'[d] = issued[d] BY <1>1, <2>4 DEF Typed, TypedServe
    <3> QED BY <2>1, <2>4, <3>1 DEF Unissued
  <2> QED BY <2>3, <2>4
<1> QED BY <1>3, <1>4, <1>5, <1>7 DEF Left

\* Dequeuing moves it from the queued to the held ones.
LEMMA DequeueLeft ==
  ASSUME Typed, KitchenHasOrder, NEW k \in Kitchen, KDequeue(k), NEW d \in Customer,
         NEW pcs \in SUBSET UsesOrder, "lock_order" \in pcs
  PROVE  Left(d, pcs)' = Left(d, pcs)
<1>1. /\ list \in Seq(NodeSet) /\ list # <<>> /\ list' = Tail(list)
      /\ korder' = [korder EXCEPT ![k] = list[1]]
      /\ kpc' = [kpc EXCEPT ![k] = "lock_order"] /\ kpc[k] = "dequeue"
      /\ korder[k] = NoNode
      /\ UNCHANGED <<issued, request>>
  BY DEF KDequeue, Rest, KGoto, serveVars, Typed, TypedList, KitchenHasOrder, UsesOrder
<1>2. /\ Len(list) \in Nat /\ Len(list) >= 1 /\ Len(list') = Len(list) - 1
      /\ \A j \in 1..Len(list') : list'[j] = list[j + 1]
  BY <1>1
<1>3. ASSUME NEW i
      PROVE  (\E j \in 1..Len(list) : list[j] = Node(d, i))
               <=> (\E j \in 1..Len(list') : list'[j] = Node(d, i)) \/ list[1] = Node(d, i)
  <2>1. ASSUME NEW j \in 1..Len(list), j # 1, list[j] = Node(d, i)
        PROVE  j - 1 \in 1..Len(list') /\ list'[j - 1] = Node(d, i)
    BY <1>2, <2>1
  <2>2. ASSUME NEW j \in 1..Len(list'), list'[j] = Node(d, i)
        PROVE  j + 1 \in 1..Len(list) /\ list[j + 1] = Node(d, i)
    BY <1>2, <2>2
  <2>3. 1 \in 1..Len(list) BY <1>2
  <2> QED BY <2>1, <2>2, <2>3
<1>4. ASSUME NEW i
      PROVE  (\E h \in Kitchen : korder'[h] = Node(d, i) /\ kpc'[h] \in pcs)
               <=> \/ \E h \in Kitchen : korder[h] = Node(d, i) /\ kpc[h] \in pcs
                   \/ list[1] = Node(d, i)
  BY <1>1 DEF Typed, TypedKitchens, UsesOrder
<1>5. Positions(d)' = Positions(d) /\ Unissued(d)' = Unissued(d)
  BY <1>1 DEF Positions, Unissued
<1> QED BY <1>3, <1>4, <1>5 DEF Left, Queued, Held

\* A kitchen that gets past pcs takes exactly its own burger out.
LEMMA DoneLeft ==
  ASSUME Typed, KitchenHasOrder, NodesIssued, NodesApart,
         NEW k \in Kitchen, NEW pcs \in SUBSET UsesOrder, NEW pc,
         kpc[k] \in pcs, pc \notin pcs, kpc' = [kpc EXCEPT ![k] = pc],
         UNCHANGED <<list, korder, issued, request>>
  PROVE  /\ korder[k].idx \in Left(korder[k].cust, pcs)
         /\ \A d \in Customer :
              Left(d, pcs)' = IF d = korder[k].cust THEN Left(d, pcs) \ {korder[k].idx}
                                                  ELSE Left(d, pcs)
<1> DEFINE n == korder[k]
<1>1. kpc[k] \in UsesOrder /\ UNCHANGED <<list, korder, issued, request>>
  OBVIOUS
<1>2. n \in NodeSet /\ n.cust \in Customer /\ n.idx \in 1..MAX_BURGERS /\ n # NoNode
  BY <1>1, OrderOfKitchen DEF Typed, KitchenHasOrder
<1>3. n = Node(n.cust, n.idx) BY <1>2 DEF Node, NodeSet
<1>4. n.idx \in Positions(n.cust) /\ n.idx \notin Unissued(n.cust)
  <2>1. n.idx <= issued[n.cust] BY <1>2 DEF NodesIssued
  <2>2. issued[n.cust] <= Len(request[n.cust]) /\ issued[n.cust] \in Int
    BY <1>2, RequestsAssumption DEF Typed, TypedServe
  <2>3. Len(request[n.cust]) \in Int
    BY <1>2, RequestLen, RequestsAssumption DEF Typed
  <2> QED BY <1>2, <2>1, <2>2, <2>3, RequestsAssumption DEF Positions, Unissued
<1>5. n.idx \notin Queued(n.cust)
  BY <1>3 DEF Queued, NodesApart
<1>6. \A h \in Kitchen : h # k => korder[h] # n
  BY <1>2 DEF NodesApart
<1>7. n.idx \in Held(n.cust, pcs)
  BY <1>1, <1>3, <1>4 DEF Held
<1>8. \A h \in Kitchen : kpc'[h] \in pcs <=> h # k /\ kpc[h] \in pcs
  BY <1>1 DEF Typed, TypedKitchens
<1>9. ASSUME NEW d \in Customer, NEW i \in Positions(d)
      PROVE  i \in Held(d, pcs)'
               <=> i \in Held(d, pcs) /\ ~(d = n.cust /\ i = n.idx)
  <2>1. Positions(d)' = Positions(d) BY <1>1 DEF Positions
  <2>2. Node(d, i) = n <=> d = n.cust /\ i = n.idx
    BY <1>3 DEF Node
  <2> QED BY <1>1, <1>6, <1>8, <2>1, <2>2 DEF Held
<1>10. ASSUME NEW d \in Customer
       PROVE  Positions(d)' = Positions(d) /\ Unissued(d)' = Unissued(d)
              /\ Queued(d)' = Queued(d)
  BY <1>1 DEF Positions, Unissued, Queued
<1>11. ASSUME NEW d \in Customer
       PROVE  Held(d, pcs)' =
                IF d = n.cust THEN Held(d, pcs) \ {n.idx}
                              ELSE Held(d, pcs)
  BY <1>9, <1>10 DEF Held
<1> QED BY <1>4, <1>5, <1>7, <1>10, <1>11 DEF Left

LEMMA CountLeft ==
  ASSUME Typed, NEW k \in Kitchen, KCount(k), NEW d \in Customer,
         NEW pcs \in SUBSET UsesOrder
  PROVE  Left(d, pcs)' = Left(d, pcs)
<1>1. /\ kpc[k] = "count" /\ kpc' = [kpc EXCEPT ![k] = "loop"]
      /\ korder' = [korder EXCEPT ![k] = NoNode]
      /\ UNCHANGED <<list, issued, request>>
  BY DEF KCount, KGoto, listVars, serveVars
<1>2. \A h \in Kitchen : /\ kpc'[h] \in pcs <=> kpc[h] \in pcs
                         /\ kpc[h] \in pcs => korder'[h] = korder[h]
  BY <1>1 DEF Typed, TypedKitchens, UsesOrder
<1> QED BY <1>1, <1>2 DEF Left, Unissued, Queued, Held, Positions

\* The three steps, for the pending burgers.
LEMMA ReceivePending ==
  ASSUME Typed, KitchenHasOrder, NodesIssued, IssuedAfterReceive,
         NEW c \in Customer, Receive(c) \/ ReceiveNothing(c)
  PROVE  /\ Pending(c)' = 1..Len(request'[c])
         /\ remain' = [remain EXCEPT ![c] = Len(request'[c])]
         /\ Len(request'[c]) \in Nat
         /\ \A d \in Customer \ {c} : Pending(d)' = Pending(d)
BY ReceiveLeft DEF Pending, Left

LEMMA MovePending ==
  ASSUME Typed, KitchenHasOrder, NEW d \in Customer,
         \/ \E c \in Customer : Issue(c)
         \/ \E k \in Kitchen : KDequeue(k) \/ KCount(k)
  PROVE  Pending(d)' = Pending(d)
<1>1. BeforeDecrement \in SUBSET UsesOrder /\ "lock_order" \in BeforeDecrement
  BY DEF BeforeDecrement, UsesOrder
<1>2. Left(d, BeforeDecrement)' = Left(d, BeforeDecrement)
  BY <1>1, IssueLeft, DequeueLeft, CountLeft
<1> QED BY <1>2 DEF Pending, Left

LEMMA DecrementPending ==
  ASSUME Typed, KitchenHasOrder, NodesIssued, NodesApart,
         NEW k \in Kitchen, KDecrement(k)
  PROVE  /\ korder[k].idx \in Pending(korder[k].cust)
         /\ \A d \in Customer :
              Pending(d)' = IF d = korder[k].cust THEN Pending(d) \ {korder[k].idx}
                                                  ELSE Pending(d)
<1>1. /\ kpc[k] \in BeforeDecrement /\ UNCHANGED <<list, korder, issued, request>>
      /\ \E pc \in {"signal", "count"} : kpc' = [kpc EXCEPT ![k] = pc]
  BY DEF KDecrement, KGoto, listVars, serveVars, BeforeDecrement, UsesOrder
<1>2. /\ BeforeDecrement \in SUBSET UsesOrder
      /\ "signal" \notin BeforeDecrement /\ "count" \notin BeforeDecrement
  BY DEF BeforeDecrement, UsesOrder
<1>3. /\ korder[k].idx \in Left(korder[k].cust, BeforeDecrement)
      /\ \A d \in Customer :
           Left(d, BeforeDecrement)' =
             IF d = korder[k].cust THEN Left(d, BeforeDecrement) \ {korder[k].idx}
                                   ELSE Left(d, BeforeDecrement)
  BY <1>1, <1>2, DoneLeft
<1> QED BY <1>3 DEF Pending, Left

LEMMA RemainStep ==
  ASSUME Typed, KitchenHasOrder, IssuedAfterReceive, NodesIssued, NodesApart,
         RemainIsPending, [Next]_vars
  PROVE  RemainIsPending'
<1>0. remain \in [Customer -> Int] BY DEF Typed, TypedOrders
<1>1. CASE Quiet
  BY <1>1, QuietPending DEF Quiet, RemainIsPending
<1>2. ASSUME NEW c \in Customer, Receive(c) \/ ReceiveNothing(c) PROVE RemainIsPending'
  <2>1. /\ Pending(c)' = 1..Len(request'[c]) /\ Len(request'[c]) \in Nat
        /\ remain' = [remain EXCEPT ![c] = Len(request'[c])]
        /\ \A d \in Customer \ {c} : Pending(d)' = Pending(d)
    BY <1>2, ReceivePending
  <2>2. Cardinality(1..Len(request'[c])) = Len(request'[c])
    BY <2>1, FS_Interval
  <2> QED BY <1>0, <2>1, <2>2 DEF RemainIsPending
<1>3. ASSUME NEW c \in Customer, Issue(c) PROVE RemainIsPending'
  BY <1>3, MovePending DEF Issue, orderVars, RemainIsPending
<1>4. ASSUME NEW k \in Kitchen, KDequeue(k) PROVE RemainIsPending'
  BY <1>4, MovePending DEF KDequeue, orderVars, RemainIsPending
<1>5. ASSUME NEW k \in Kitchen, KDecrement(k) PROVE RemainIsPending'
  <2>1. PICK c \in Customer, i \in 1..MAX_BURGERS : korder[k].cust = c /\ korder[k].idx = i
    BY <1>5, OrderOfKitchen DEF Typed, KDecrement, UsesOrder
  <2>2. remain' = [remain EXCEPT ![c] = remain[c] - 1]
    BY <1>5, <2>1 DEF KDecrement
  <2>3. /\ i \in Pending(c) /\ Pending(c)' = Pending(c) \ {i}
        /\ \A d \in Customer \ {c} : Pending(d)' = Pending(d)
    BY <1>5, <2>1, DecrementPending
  <2>4. IsFiniteSet(Pending(c)) BY PendingIsFinite DEF Typed
  <2>5. Cardinality(Pending(c) \ {i}) = Cardinality(Pending(c)) - 1
    BY <2>3, <2>4, FS_RemoveElement
  <2> QED BY <1>0, <2>2, <2>3, <2>5 DEF RemainIsPending
<1>6. ASSUME NEW k \in Kitchen, KCount(k) PROVE RemainIsPending'
  BY <1>6, MovePending DEF KCount, orderVars, RemainIsPending
<1> QED BY <1>1, <1>2, <1>3, <1>4, <1>5, <1>6, QuietOrMoves DEF MovesNodes

(***************************************************************************)
(* The inductive core: typing, the threads' local facts, the nodes, and    *)
(* the count of pending burgers.                                           *)
(***************************************************************************)
Core == /\ Typed /\ KitchenHasOrder /\ ConnectionAccepted /\ IssuedAfterReceive
        /\ NodesIssued /\ NodesApart /\ RemainIsPending

LEMMA CoreInit == Init => Core
<1> SUFFICES ASSUME Init PROVE Core
  OBVIOUS
<1>1. Typed BY InitTyped
<1>2. KitchenHasOrder /\ ConnectionAccepted /\ IssuedAfterReceive
  BY DEF Init, KitchenHasOrder, ConnectionAccepted, IssuedAfterReceive, UsesOrder
<1>3. NodesIssued /\ NodesApart
  BY DEF Init, NodesIssued, NodesApart
<1>4. RemainIsPending
  <2> SUFFICES ASSUME NEW c \in Customer PROVE remain[c] = Cardinality(Pending(c))
    BY DEF RemainIsPending
  <2>1. Pending(c) = {} BY DEF Init, Pending, Unissued, Queued, Held, Positions
  <2> QED BY <2>1, FS_EmptySet DEF Init
<1> QED BY <1>1, <1>2, <1>3, <1>4 DEF Core

LEMMA TypedStep ==
  Typed /\ KitchenHasOrder /\ IssuedAfterReceive /\ [Next]_vars => Typed'
<1> SUFFICES ASSUME Typed, KitchenHasOrder, IssuedAfterReceive, [Next]_vars
             PROVE  Typed'
  OBVIOUS
<1>1. CASE UNCHANGED vars \/ Stopped
  BY <1>1, UnchangedTyped DEF vars, Stopped, Typed
<1> QED
  BY <1>1, AcceptorTyped, HaltingTyped, ServeTyped, KitchensTyped DEF Next, Halting

LEMMA CoreStep == Core /\ [Next]_vars => Core'
BY TypedStep, HasOrderStep, ConnectionStep, AfterReceiveStep, NodesStep, RemainStep
DEF Core

LEMMA CoreHolds == Spec => []Core
BY CoreInit, CoreStep, PTL DEF Spec

\* In every reachable state *remain_count is the number of burgers that no
\* kitchen has finished, whatever the faults and the interleaving.
THEOREM RemainCorrect == Spec => []RemainIsPending
<1>1. Core => RemainIsPending BY DEF Core
<1> QED BY <1>1, CoreHolds, PTL

-----------------------------------------------------------------------------
(***************************************************************************)
(* Seats.  Only four steps change total_queueing, the acceptor's two tests *)
(* of it, or the set of customers that have a seat.                        *)
(***************************************************************************)
SeatQuiet == /\ totalQueueing' = totalQueueing /\ Seated' = Seated
             /\ apc' \in {"refuse", "spawn"} \/ apc \in {"refuse", "spawn"} => apc' = apc

MovesSeats == /\ proc = "running"
              /\ \/ Admit \/ Refuse \/ Spawn
                 \/ \E c \in Customer : Leave(c)

LEMMA SeatQuietOrMoves ==
  Typed /\ ConnectionAccepted /\ [Next]_vars => SeatQuiet \/ MovesSeats
<1> SUFFICES ASSUME Typed, ConnectionAccepted, [Next]_vars, ~MovesSeats
             PROVE  SeatQuiet
  OBVIOUS
<1> USE DEF SeatQuiet, Seated, Typed, TypedServe, listVars, seatVars, procVars,
            mainVars, kitchenVars, serveVars, orderVars
<1>1. CASE Acceptor
  BY <1>1 DEF Acceptor, MovesSeats, Accept, Handle, DetachUndefined, AcceptFails, Goto
<1>2. CASE Halting \/ UNCHANGED vars
  BY <1>2 DEF Halting, Interrupt, ExitAfterSleep, SecondInterrupt, SendKills, Stopped, vars
<1>3. ASSUME NEW c \in Customer, Serve(c) PROVE SeatQuiet
  <2>1. ~Leave(c) BY <1>3 DEF MovesSeats, Serve
  <2> QED
    BY <1>3, <2>1
    DEF Serve, Proceed, Arrives, Visit, Welcome, Receive, ReceiveNothing, StartIssue,
        Reject, Issue, Issued, Wait, SpuriousWakeup, HandOver, SkipHandOver, CleanUp,
        ServeUndefined
<1>4. ASSUME NEW k \in Kitchen, Kitchens(k) PROVE SeatQuiet
  BY <1>4
  DEF Kitchens, Cook, KLoop, KPeek, KSleep, KDequeue, KDequeueNothing, KLockOrder,
      KCookFirst, KCookCopy, KCookAppend, KUnlockOrder, KDecrement, KSignal, KCount,
      KUseAfterFree
<1> QED BY <1>1, <1>2, <1>3, <1>4 DEF Next, Halting

LEMMA SeatedIsFinite == IsFiniteSet(Seated) /\ Cardinality(Seated) \in Nat
<1>1. Seated \subseteq Customer BY DEF Seated
<1> QED BY <1>1, ThreadsAssumption, FS_Subset, FS_CardinalityType

LEMMA SeatsInit == Init => SeatsAreCounted
<1> SUFFICES ASSUME Init PROVE SeatsAreCounted
  OBVIOUS
<1>1. Seated = {} BY DEF Init, Seated
<1>2. Cardinality(Seated) = 0 BY <1>1, FS_EmptySet
<1>3. apc = "accept" /\ totalQueueing = 0 BY DEF Init
<1> QED BY <1>2, <1>3, NumbersAssumption DEF SeatsAreCounted

LEMMA SeatsStep ==
  Typed /\ ConnectionAccepted /\ SeatsAreCounted /\ [Next]_vars => SeatsAreCounted'
<1> SUFFICES ASSUME Typed, ConnectionAccepted, SeatsAreCounted, [Next]_vars
             PROVE  SeatsAreCounted'
  OBVIOUS
<1>0. /\ spc \in [Customer -> ServePC] /\ CUSTOMER_MAX \in Int /\ totalQueueing \in Int
      /\ IsFiniteSet(Seated) /\ Cardinality(Seated) \in Nat
  BY SeatedIsFinite, NumbersAssumption DEF Typed, TypedServe, TypedTotals
<1>1. CASE SeatQuiet
  BY <1>0, <1>1 DEF SeatQuiet, SeatsAreCounted
<1>2. CASE Admit
  <2>1. Seated' = Seated BY <1>2 DEF Admit, serveVars, Seated
  <2> QED BY <1>0, <1>2, <2>1 DEF Admit, Goto, Exceeds, SeatsAreCounted
<1>3. CASE Refuse
  <2>1. aconn \in Customer /\ spc[aconn] = "accepted"
    BY <1>3 DEF Refuse, ConnectionAccepted
  <2>2. Seated' = Seated BY <1>0, <1>3, <2>1 DEF Refuse, Seated
  <2> QED BY <1>0, <1>3, <2>2 DEF Refuse, Goto, SeatsAreCounted
<1>4. CASE Spawn
  <2>1. PICK c \in Customer : aconn = c /\ spc[c] = "accepted"
    BY <1>4 DEF Spawn, ConnectionAccepted
  <2>2. Seated' = Seated \cup {c} /\ c \notin Seated
    BY <1>0, <1>4, <2>1 DEF Spawn, Seated
  <2>3. Cardinality(Seated \cup {c}) = Cardinality(Seated) + 1
    BY <1>0, <2>2, FS_AddElement
  <2> QED BY <1>0, <1>4, <2>2, <2>3 DEF Spawn, Goto, seatVars, SeatsAreCounted
<1>5. ASSUME NEW c \in Customer, Leave(c) PROVE SeatsAreCounted'
  <2>1. Seated' = Seated \ {c} /\ c \in Seated
    BY <1>0, <1>5 DEF Leave, Seated
  <2>2. Cardinality(Seated \ {c}) = Cardinality(Seated) - 1
    BY <1>0, <2>1, FS_RemoveElement
  <2> QED BY <1>0, <1>5, <2>1, <2>2 DEF Leave, mainVars, SeatsAreCounted
<1> QED BY <1>1, <1>2, <1>3, <1>4, <1>5, SeatQuietOrMoves DEF MovesSeats

\* total_queueing is the number of taken seats, with the acceptor's own
\* attempt, and never do more than CUSTOMER_MAX customers have a seat.
THEOREM SeatsCorrect == Spec => []SeatsAreCounted
<1>1. Core => Typed /\ ConnectionAccepted BY DEF Core
<1> QED BY <1>1, CoreHolds, SeatsInit, SeatsStep, PTL DEF Spec

\* Every variable has its type: the bounds of *remain_count and of
\* total_queueing follow from what they count.
THEOREM TypeCorrect == Spec => []TypeOK
<1>1. Core /\ SeatsAreCounted => TypeOK
  <2> SUFFICES ASSUME Core, SeatsAreCounted PROVE TypeOK
    OBVIOUS
  <2>1. totalQueueing \in Nat
    BY SeatedIsFinite DEF SeatsAreCounted
  <2>2. ASSUME NEW c \in Customer PROVE remain[c] \in 0..MAX_BURGERS
    <3>1. Len(request[c]) \in 0..MAX_BURGERS /\ Len(request[c]) \in Nat
      BY RequestLen, RequestsAssumption DEF Core, Typed
    <3>2. IsFiniteSet(Positions(c)) /\ Cardinality(Positions(c)) = Len(request[c])
      BY <3>1, FS_Interval DEF Positions
    <3>3. Pending(c) \subseteq Positions(c)
      BY DEF Pending, Unissued, Queued, Held
    <3>4. Cardinality(Pending(c)) <= Cardinality(Positions(c))
      BY <3>2, <3>3, FS_Subset
    <3>5. remain[c] = Cardinality(Pending(c)) /\ Cardinality(Pending(c)) \in Nat
      BY PendingIsFinite DEF Core, Typed, RemainIsPending
    <3> QED BY <3>1, <3>2, <3>4, <3>5, RequestsAssumption
  <2> QED
    BY <2>1, <2>2
    DEF TypeOK, Core, Typed, TypedList, TypedTotals, TypedProc, TypedMain,
        TypedKitchens, TypedServe, TypedOrders
<1> QED BY <1>1, CoreHolds, SeatsCorrect, PTL

-----------------------------------------------------------------------------
(***************************************************************************)
(* order_mutex.                                                            *)
(***************************************************************************)
CooksHold ==
  \A k \in Kitchen :
    kpc[k] \in {"cook", "append", "rest"} => holder[korder[k].cust] = k

LEMMA CooksHoldStep == Core /\ CooksHold /\ [Next]_vars => CooksHold'
<1> SUFFICES ASSUME Core, CooksHold, [Next]_vars PROVE CooksHold'
  OBVIOUS
<1> USE DEF CooksHold, KGoto, listVars, seatVars, procVars, mainVars, kitchenVars,
            serveVars, orderVars
<1>0. /\ kpc \in [Kitchen -> KitchenPC] /\ korder \in [Kitchen -> NodeSet \cup {NoNode}]
      /\ holder \in [Customer -> Kitchen \cup {Nobody}]
  BY DEF Core, Typed, TypedKitchens, TypedOrders
<1>1. CASE Acceptor
  BY <1>1 DEF Acceptor, Accept, Handle, Admit, Refuse, Spawn, DetachUndefined, AcceptFails
<1>2. CASE Halting \/ UNCHANGED vars
  BY <1>2 DEF Halting, Interrupt, ExitAfterSleep, SecondInterrupt, SendKills, Stopped, vars
<1>3. ASSUME NEW c \in Customer, Serve(c) PROVE CooksHold'
  BY <1>3
  DEF Serve, Proceed, Arrives, Visit, Welcome, Receive, ReceiveNothing, Reject, Issue,
      Issued, Wait, SpuriousWakeup, HandOver, SkipHandOver, CleanUp, Leave,
      ServeUndefined
<1>4. ASSUME NEW k \in Kitchen, Kitchens(k) PROVE CooksHold'
  <2>1. CASE KLockOrder(k)
    <3>1. korder[k].cust \in Customer
      BY <2>1, OrderOfKitchen DEF KLockOrder, UsesOrder, Core, Typed
    <3>2. holder[korder[k].cust] = Nobody
      BY <2>1 DEF KLockOrder, MutexFree
    <3>3. \A h \in Kitchen \ {k} : kpc[h] \in {"cook", "append", "rest"}
                                  => korder[h].cust # korder[k].cust
      BY <3>2, ThreadsAssumption
    <3> QED BY <1>0, <2>1, <3>1, <3>3 DEF KLockOrder
  <2>2. CASE KUnlockOrder(k)
    <3>1. \A h \in Kitchen \ {k} : kpc[h] \in {"cook", "append", "rest"}
                                  => korder[h].cust # korder[k].cust
      BY <2>2 DEF KUnlockOrder
    <3> QED BY <1>0, <2>2, <3>1 DEF KUnlockOrder
  <2>3. CASE KCookFirst(k) \/ KCookCopy(k) \/ KCookAppend(k)
    BY <1>0, <2>3 DEF KCookFirst, KCookCopy, KCookAppend
  <2>4. CASE KLoop(k) \/ KPeek(k) \/ KSleep(k) \/ KDequeueNothing(k)
    BY <1>0, <2>4 DEF KLoop, KPeek, KSleep, KDequeueNothing
  <2>5. CASE KDequeue(k) \/ KDecrement(k) \/ KSignal(k) \/ KCount(k)
    BY <1>0, <2>5 DEF KDequeue, KDecrement, KSignal, KCount
  <2>6. CASE KUseAfterFree(k)
    BY <2>6 DEF KUseAfterFree
  <2> QED BY <1>4, <2>1, <2>2, <2>3, <2>4, <2>5, <2>6 DEF Kitchens, Cook
<1> QED BY <1>1, <1>2, <1>3, <1>4 DEF Next, Halting

\* At most one kitchen at a time works on the order string of a request.
THEOREM CooksExclude == Spec => []OneCookPerOrder
<1>1. Init => CooksHold BY DEF Init, CooksHold
<1>2. CooksHold => OneCookPerOrder BY DEF CooksHold, OneCookPerOrder
<1> QED BY <1>1, <1>2, CooksHoldStep, CoreHolds, PTL DEF Spec

-----------------------------------------------------------------------------
(***************************************************************************)
(* Who may still touch a request.  One kitchen signals, when nothing is    *)
(* pending; a serving thread past its wait has had that signal.            *)
(***************************************************************************)
Signals ==
  /\ \A k \in Kitchen : kpc[k] = "signal" => remain[korder[k].cust] = 0
  /\ \A k1, k2 \in Kitchen :
       kpc[k1] = "signal" /\ kpc[k2] = "signal" /\ korder[k1].cust = korder[k2].cust
         => k1 = k2

Released(c) == spc[c] \in {"woken", "cleanup", "leave"} \/ objects[c] = "freed"

ReleasedIsDone ==
  \A c \in Customer : Released(c) =>
    remain[c] = 0 /\ \A k \in Kitchen : kpc[k] = "signal" => korder[k].cust # c

FreedIsLast == \A c \in Customer : objects[c] = "freed" => spc[c] \in {"leave", "gone"}

Handed == Signals /\ ReleasedIsDone /\ FreedIsLast

\* Nothing of a customer who has not ordered yet is in a kitchen.
LEMMA NothingHeld ==
  ASSUME Core, NEW c \in Customer, spc[c] = "receive", NEW k \in Kitchen,
         kpc[k] = "signal"
  PROVE  korder[k].cust # c
<1>1. korder[k] # NoNode /\ korder[k].idx \in 1..MAX_BURGERS
  BY OrderOfKitchen DEF Core, Typed, KitchenHasOrder, UsesOrder
<1>2. korder[k].idx <= issued[korder[k].cust]
  BY <1>1 DEF Core, NodesIssued
<1>3. issued[c] = 0 BY DEF Core, IssuedAfterReceive
<1> QED BY <1>1, <1>2, <1>3, RequestsAssumption

\* A kitchen that is about to decrement finds a positive count.
LEMMA DecrementPositive ==
  ASSUME Core, NEW k \in Kitchen, KDecrement(k)
  PROVE  korder[k].cust \in Customer /\ remain[korder[k].cust] # 0
<1>1. korder[k].cust \in Customer
  BY OrderOfKitchen DEF KDecrement, UsesOrder, Core, Typed
<1>2. korder[k].idx \in Pending(korder[k].cust)
  BY DecrementPending DEF Core
<1>3. IsFiniteSet(Pending(korder[k].cust))
  BY <1>1, PendingIsFinite DEF Core, Typed
<1>4. Cardinality(Pending(korder[k].cust)) # 0
  BY <1>2, <1>3, FS_EmptySet
<1> QED BY <1>1, <1>4 DEF Core, RemainIsPending

LEMMA HandedStep ==
  ASSUME "spurious_wakeup" \notin Faults, Core, Handed, [Next]_vars
  PROVE  Handed'
<1> USE DEF KGoto, listVars, seatVars, procVars, mainVars, kitchenVars, serveVars,
            orderVars
<1>0. /\ kpc \in [Kitchen -> KitchenPC] /\ spc \in [Customer -> ServePC]
      /\ korder \in [Kitchen -> NodeSet \cup {NoNode}]
      /\ remain \in [Customer -> Int]
      /\ objects \in [Customer -> {"none", "live", "freed"}]
  BY DEF Core, Typed, TypedKitchens, TypedServe, TypedOrders
<1>1. CASE Acceptor
  <2>1. UNCHANGED <<kpc, korder, remain, objects>>
    BY <1>1 DEF Acceptor, Accept, Handle, Admit, Refuse, Spawn, DetachUndefined, AcceptFails
  <2>2. \/ spc' = spc
        \/ \E c \in Customer, pc \in {"accepted", "refused", "visit", "abandoned"} :
             spc[c] \in {"outside", "accepted"} /\ spc' = [spc EXCEPT ![c] = pc]
    BY <1>1
    DEF Acceptor, Accept, Handle, Admit, Refuse, Spawn, DetachUndefined, AcceptFails, Goto, Core,
        ConnectionAccepted
  <2> QED
    BY <1>0, <2>1, <2>2 DEF Handed, Signals, ReleasedIsDone, FreedIsLast, Released
<1>2. CASE Halting \/ UNCHANGED vars
  BY <1>2
  DEF Halting, Interrupt, ExitAfterSleep, SecondInterrupt, SendKills, Stopped, vars,
      Handed, Signals,
      ReleasedIsDone, FreedIsLast, Released
<1>3. ASSUME NEW c \in Customer, Serve(c) PROVE Handed'
  <2> USE DEF Handed, Signals, ReleasedIsDone, FreedIsLast, Released
  <2>1. CASE Receive(c) \/ ReceiveNothing(c)
    <3>1. PICK r : StartIssue(c, r) /\ spc[c] = "receive" /\ UNCHANGED <<kpc, korder>>
      BY <2>1 DEF Receive, ReceiveNothing
    <3>2. \A k \in Kitchen : kpc[k] = "signal" => korder[k].cust # c
      BY <3>1, NothingHeld
    <3>3. Signals'
      <4>1. \A k \in Kitchen : kpc[k] = "signal"
                              => remain'[korder[k].cust] = remain[korder[k].cust]
        BY <1>0, <3>1, <3>2 DEF StartIssue
      <4> QED BY <3>1, <4>1
    <3>4. \A d \in Customer \ {c} : remain'[d] = remain[d] /\ spc'[d] = spc[d]
                                   /\ objects'[d] = objects[d]
      BY <1>0, <3>1 DEF StartIssue
    <3>5. spc'[c] = "issue" /\ objects'[c] = "live"
      BY <1>0, <3>1 DEF StartIssue
    <3> QED BY <3>1, <3>3, <3>4, <3>5
  <2>2. CASE Visit(c) \/ Welcome(c) \/ Reject(c) \/ Issue(c) \/ Issued(c) \/ Wait(c)
    BY <1>0, <2>2 DEF Visit, Welcome, Reject, Issue, Issued, Wait
  <2>3. CASE HandOver(c) \/ SkipHandOver(c) \/ CleanUp(c) \/ Leave(c)
    BY <1>0, <2>3 DEF HandOver, SkipHandOver, CleanUp, Leave
  <2>4. CASE ServeUndefined(c)
    BY <2>4 DEF ServeUndefined
  <2>5. ~SpuriousWakeup(c) BY DEF SpuriousWakeup
  <2> QED
    BY <1>3, <2>1, <2>2, <2>3, <2>4, <2>5 DEF Serve, Proceed, Arrives
<1>4. ASSUME NEW k \in Kitchen, Kitchens(k) PROVE Handed'
  <2> USE DEF Handed, Signals, ReleasedIsDone, FreedIsLast, Released
  <2>1. CASE KDecrement(k)
    <3>1. PICK c \in Customer : korder[k].cust = c /\ remain[c] # 0
      BY <2>1, DecrementPositive
    <3>2. /\ remain' = [remain EXCEPT ![c] = remain[c] - 1]
          /\ UNCHANGED <<korder, spc, objects>>
          /\ kpc' = [kpc EXCEPT ![k] = IF LastBurger(remain[c] - 1) THEN "signal"
                                                                    ELSE "count"]
      BY <2>1, <3>1 DEF KDecrement
    <3>3. \A h \in Kitchen : kpc[h] = "signal" => korder[h].cust # c
      BY <3>1
    <3>4. ~Released(c) BY <3>1
    <3>5. Signals' BY <1>0, <3>1, <3>2, <3>3 DEF LastBurger
    <3>6. ReleasedIsDone' BY <1>0, <3>1, <3>2, <3>3, <3>4
    <3>7. FreedIsLast' BY <3>2
    <3> QED BY <3>5, <3>6, <3>7
  <2>2. CASE KSignal(k)
    <3>1. PICK c \in Customer : korder[k].cust = c
      BY <2>2, OrderOfKitchen DEF KSignal, UsesOrder, Core, Typed
    <3>2. /\ kpc[k] = "signal" /\ kpc' = [kpc EXCEPT ![k] = "count"]
          /\ spc' = IF spc[c] = "waiting" THEN [spc EXCEPT ![c] = "woken"] ELSE spc
          /\ UNCHANGED <<korder, remain, objects>>
      BY <2>2, <3>1 DEF KSignal
    <3>3. remain[c] = 0 /\ \A h \in Kitchen \ {k} : kpc[h] = "signal" => korder[h].cust # c
      BY <3>1, <3>2
    <3>4. Signals' BY <1>0, <3>2
    <3>5. ReleasedIsDone' BY <1>0, <3>1, <3>2, <3>3
    <3>6. FreedIsLast' BY <1>0, <3>2
    <3> QED BY <3>4, <3>5, <3>6
  <2>3. CASE KDequeue(k) \/ KCount(k)
    BY <1>0, <2>3 DEF KDequeue, KCount
  <2>4. CASE KLoop(k) \/ KPeek(k) \/ KSleep(k) \/ KDequeueNothing(k)
    BY <1>0, <2>4 DEF KLoop, KPeek, KSleep, KDequeueNothing
  <2>5. CASE KLockOrder(k) \/ KCookFirst(k) \/ KCookCopy(k) \/ KCookAppend(k) \/ KUnlockOrder(k)
    <3>1. /\ \E pc \in {"cook", "append", "rest", "decrement"} : kpc' = [kpc EXCEPT ![k] = pc]
          /\ UNCHANGED <<korder, spc, remain, objects>>
      BY <2>5 DEF KLockOrder, KCookFirst, KCookCopy, KCookAppend, KUnlockOrder
    <3> QED BY <1>0, <3>1
  <2>6. CASE KUseAfterFree(k)
    BY <2>6 DEF KUseAfterFree
  <2> QED BY <1>4, <2>1, <2>2, <2>3, <2>4, <2>5, <2>6 DEF Kitchens, Cook
<1> QED BY <1>1, <1>2, <1>3, <1>4 DEF Next, Halting

\* When nothing is pending and nobody is about to signal, nobody touches the
\* request any more.
LEMMA DoneIsUntouched ==
  ASSUME Core, NEW c \in Customer, remain[c] = 0,
         \A k \in Kitchen : kpc[k] = "signal" => korder[k].cust # c
  PROVE  /\ \A k \in Kitchen : kpc[k] \in UsesOrder => korder[k].cust # c
         /\ Queued(c) = {}
         /\ \A j \in 1..Len(list) : list[j].cust # c
<1>1. Pending(c) = {}
  BY PendingIsFinite, FS_EmptySet DEF Core, Typed, RemainIsPending
<1>2. issued[c] <= Len(request[c]) /\ issued[c] \in Int /\ Len(request[c]) \in Int
  BY RequestLen, RequestsAssumption DEF Core, Typed, TypedServe
<1>3. ASSUME NEW k \in Kitchen, kpc[k] \in UsesOrder, korder[k].cust = c PROVE FALSE
  <2>1. kpc[k] \in BeforeDecrement BY <1>3 DEF BeforeDecrement
  <2>2. korder[k] \in NodeSet /\ korder[k].idx \in 1..MAX_BURGERS /\ korder[k] # NoNode
    BY <1>3, OrderOfKitchen DEF Core, Typed, KitchenHasOrder
  <2>3. korder[k].idx <= issued[c] BY <1>3, <2>2 DEF Core, NodesIssued
  <2>4. korder[k].idx \in Positions(c)
    BY <1>2, <2>2, <2>3, RequestsAssumption DEF Positions
  <2>5. korder[k] = Node(c, korder[k].idx) BY <1>3, <2>2 DEF Node, NodeSet
  <2> QED BY <1>1, <2>1, <2>4, <2>5 DEF Pending, Held
<1>4. ASSUME NEW j \in 1..Len(list), list[j].cust = c PROVE FALSE
  <2>1. list[j] \in NodeSet BY DEF Core, Typed, TypedList
  <2>2. list[j].idx <= issued[c] BY <1>4 DEF Core, NodesIssued
  <2>3. list[j].idx \in Positions(c)
    BY <1>2, <2>1, <2>2, RequestsAssumption DEF Positions, NodeSet
  <2>4. list[j] = Node(c, list[j].idx) BY <1>4, <2>1 DEF Node, NodeSet
  <2> QED BY <1>1, <2>3, <2>4 DEF Pending, Queued
<1> QED BY <1>1, <1>3, <1>4 DEF Pending

LEMMA HandedHolds == "spurious_wakeup" \notin Faults => (Spec => []Handed)
<1> SUFFICES ASSUME "spurious_wakeup" \notin Faults PROVE Spec => []Handed
  OBVIOUS
<1>1. Init => Handed
  BY DEF Init, Handed, Signals, ReleasedIsDone, FreedIsLast, Released
<1>2. Core /\ Handed /\ [Next]_vars => Handed'
  BY HandedStep
<1> QED BY <1>1, <1>2, CoreHolds, PTL DEF Spec

\* If pthread_cond_wait never returns without a signal, the objects of a
\* request are freed only when no kitchen and no queued node refers to them.
THEOREM FreedIsUntouched ==
  "spurious_wakeup" \notin Faults => (Spec => []NoUseAfterFree)
<1> SUFFICES ASSUME "spurious_wakeup" \notin Faults PROVE Spec => []NoUseAfterFree
  OBVIOUS
<1>1. Core /\ Handed => NoUseAfterFree
  BY DoneIsUntouched DEF Handed, ReleasedIsDone, Released, NoUseAfterFree
<1> QED BY <1>1, HandedHolds, CoreHolds, PTL

\* Nor does a serving thread wake up before its order is complete.
THEOREM WokenIsCompleted ==
  "spurious_wakeup" \notin Faults => (Spec => []WokenMeansCompleted)
<1> SUFFICES ASSUME "spurious_wakeup" \notin Faults PROVE Spec => []WokenMeansCompleted
  OBVIOUS
<1>1. Handed => WokenMeansCompleted
  BY DEF Handed, ReleasedIsDone, Released, WokenMeansCompleted
<1> QED BY <1>1, HandedHolds, PTL

-----------------------------------------------------------------------------
(***************************************************************************)
(* A node is in one place, stated with cardinalities.                      *)
(***************************************************************************)
LEMMA AtMostOne ==
  ASSUME NEW S, \A x, y \in S : x = y
  PROVE  /\ S # {} => Cardinality(S) = 1
         /\ S = {} => Cardinality(S) = 0
<1>1. S # {} => \E x : S = {x} OBVIOUS
<1> QED BY <1>1, FS_Singleton, FS_EmptySet

THEOREM NodesCorrect == Spec => []NodeIsInOnePlace
<1>1. Core => NodeIsInOnePlace
  <2> SUFFICES ASSUME Core, NEW c \in Customer, NEW i \in 1..MAX_BURGERS
               PROVE  Places(c, i) <= (IF i <= issued[c] THEN 1 ELSE 0)
    BY DEF NodeIsInOnePlace
  <2> DEFINE J == {j \in 1..Len(list) : list[j] = Node(c, i)}
             K == {k \in Kitchen : korder[k] = Node(c, i)}
  <2>1. Node(c, i) # NoNode /\ Node(c, i).cust = c /\ Node(c, i).idx = i
    BY ThreadsAssumption DEF Node, NoNode
  <2>2. \A x, y \in J : x = y BY DEF Core, NodesApart
  <2>3. \A x, y \in K : x = y BY <2>1 DEF Core, NodesApart
  <2>4. J = {} \/ K = {} BY DEF Core, NodesApart
  <2>5. J # {} \/ K # {} => i <= issued[c]
    BY <2>1 DEF Core, NodesIssued
  <2>6. /\ J # {} => Cardinality(J) = 1
        /\ J = {} => Cardinality(J) = 0
    BY <2>2, AtMostOne
  <2>7. /\ K # {} => Cardinality(K) = 1
        /\ K = {} => Cardinality(K) = 0
    BY <2>3, AtMostOne
  <2>8. Places(c, i) = Cardinality(J) + Cardinality(K) BY DEF Places
  <2> HIDE DEF J, K
  <2> QED BY <2>4, <2>5, <2>6, <2>7, <2>8
<1> QED BY <1>1, CoreHolds, PTL

-----------------------------------------------------------------------------
(***************************************************************************)
(* The order string.  Without a dirty heap it holds, each once, exactly    *)
(* the burgers that are no longer to be cooked.                            *)
(***************************************************************************)
ToCook == {"lock_order", "cook", "append"}
Uncooked(c) == Left(c, ToCook)

StringIsCooked ==
  \A c \in Customer :
    /\ \A j \in 1..Len(orderStr[c]) : orderStr[c][j] \in Positions(c) \ Uncooked(c)
    /\ \A i \in Positions(c) \ Uncooked(c) :
         \E j \in 1..Len(orderStr[c]) : orderStr[c][j] = i
    /\ \A j1, j2 \in 1..Len(orderStr[c]) : orderStr[c][j1] = orderStr[c][j2] => j1 = j2

CopyIsString ==
  \A k \in Kitchen : kpc[k] = "append" => temp[k] = orderStr[korder[k].cust]

\* What a step may do to the string and the uncooked burgers of customer d.
SameString(d) ==
  /\ Uncooked(d)' = Uncooked(d) /\ Positions(d)' = Positions(d)
  /\ orderStr'[d] = orderStr[d]

NewString(d) ==
  /\ Uncooked(d)' = Positions(d)' /\ Positions(d) = {}
  /\ orderStr'[d] = orderStr[d]

LongerString(d) ==
  /\ Positions(d)' = Positions(d)
  /\ \E i \in Uncooked(d) : /\ Uncooked(d)' = Uncooked(d) \ {i}
                            /\ orderStr'[d] = Append(orderStr[d], i)

LEMMA StringStep ==
  ASSUME Typed, StringIsCooked,
         \A d \in Customer : SameString(d) \/ NewString(d) \/ LongerString(d)
  PROVE  StringIsCooked'
<1> SUFFICES ASSUME NEW c \in Customer
             PROVE
    /\ \A j \in 1..Len(orderStr'[c]) : orderStr'[c][j] \in Positions(c)' \ Uncooked(c)'
    /\ \A i \in Positions(c)' \ Uncooked(c)' :
         \E j \in 1..Len(orderStr'[c]) : orderStr'[c][j] = i
    /\ \A j1, j2 \in 1..Len(orderStr'[c]) : orderStr'[c][j1] = orderStr'[c][j2] => j1 = j2
  BY DEF StringIsCooked
<1>0. orderStr[c] \in Seq(0..MAX_BURGERS) BY DEF Typed, TypedOrders
<1>1. CASE SameString(c) BY <1>1 DEF SameString, StringIsCooked
<1>2. CASE NewString(c)
  <2>1. Len(orderStr[c]) = 0
    <3>1. \A j \in 1..Len(orderStr[c]) : FALSE
      BY <1>2 DEF NewString, StringIsCooked
    <3>2. Len(orderStr[c]) \in Nat BY <1>0
    <3>3. 1 \notin 1..Len(orderStr[c]) BY <3>1
    <3> QED BY <3>2, <3>3
  <2> QED BY <1>2, <2>1 DEF NewString
<1>3. CASE LongerString(c)
  <2>1. PICK i \in Uncooked(c) : /\ Uncooked(c)' = Uncooked(c) \ {i}
                                /\ orderStr'[c] = Append(orderStr[c], i)
                                /\ Positions(c)' = Positions(c)
    BY <1>3 DEF LongerString
  <2>2. /\ Len(orderStr'[c]) = Len(orderStr[c]) + 1 /\ Len(orderStr[c]) \in Nat
        /\ \A j \in 1..Len(orderStr[c]) : orderStr'[c][j] = orderStr[c][j]
        /\ orderStr'[c][Len(orderStr[c]) + 1] = i
    BY <1>0, <2>1
  <2>3. 1..Len(orderStr'[c]) = 1..Len(orderStr[c]) \cup {Len(orderStr[c]) + 1}
    BY <2>2
  <2>4. i \in Positions(c)
    BY <2>1 DEF Uncooked, Left, Unissued, Queued, Held
  <2>5. \A j \in 1..Len(orderStr[c]) : orderStr[c][j] # i
    BY <2>1 DEF StringIsCooked
  <2>6. \A j \in 1..Len(orderStr'[c]) : orderStr'[c][j] \in Positions(c)' \ Uncooked(c)'
    BY <2>1, <2>2, <2>3, <2>4 DEF StringIsCooked
  <2>7. \A x \in Positions(c)' \ Uncooked(c)' :
          \E j \in 1..Len(orderStr'[c]) : orderStr'[c][j] = x
    BY <2>1, <2>2, <2>3 DEF StringIsCooked
  <2>8. \A j1, j2 \in 1..Len(orderStr'[c]) : orderStr'[c][j1] = orderStr'[c][j2] => j1 = j2
    BY <2>2, <2>3, <2>5, SMTT(30) DEF StringIsCooked
  <2> QED BY <2>6, <2>7, <2>8
<1> QED BY <1>1, <1>2, <1>3

\* The kitchen k puts the name of its burger into the string.
LEMMA CookedLeft ==
  ASSUME Core, NEW k \in Kitchen, kpc[k] \in {"cook", "append"},
         kpc' = [kpc EXCEPT ![k] = "rest"],
         UNCHANGED <<list, korder, issued, request>>,
         orderStr' = [orderStr EXCEPT
                        ![korder[k].cust] = Append(orderStr[korder[k].cust], korder[k].idx)],
         NEW d \in Customer
  PROVE  SameString(d) \/ LongerString(d)
<1>1. /\ korder[k].idx \in Uncooked(korder[k].cust)
      /\ \A e \in Customer :
           Uncooked(e)' = IF e = korder[k].cust THEN Uncooked(e) \ {korder[k].idx}
                                                ELSE Uncooked(e)
  <2>1. /\ ToCook \in SUBSET UsesOrder /\ "rest" \notin ToCook /\ kpc[k] \in ToCook
    BY DEF ToCook, UsesOrder
  <2>2. /\ korder[k].idx \in Left(korder[k].cust, ToCook)
        /\ \A e \in Customer :
             Left(e, ToCook)' = IF e = korder[k].cust THEN Left(e, ToCook) \ {korder[k].idx}
                                                      ELSE Left(e, ToCook)
    BY <2>1, DoneLeft DEF Core
  <2> QED BY <2>2 DEF Uncooked, Left, ToCook
<1>2. Positions(d)' = Positions(d) BY DEF Positions
<1>3. DOMAIN orderStr = Customer BY DEF Core, Typed, TypedOrders
<1>4. CASE d = korder[k].cust
  <2>1. orderStr'[d] = Append(orderStr[d], korder[k].idx) BY <1>3, <1>4
  <2> QED BY <1>1, <1>2, <1>4, <2>1 DEF LongerString
<1>5. CASE d # korder[k].cust
  <2>1. orderStr'[d] = orderStr[d] BY <1>3, <1>5
  <2> QED BY <1>1, <1>2, <1>5, <2>1 DEF SameString
<1> QED BY <1>4, <1>5

\* A step that puts no name into a string leaves all of them alone.
LEMMA StringIsKept ==
  ASSUME Core, [Next]_vars, \A k \in Kitchen : ~KCookFirst(k) /\ ~KCookAppend(k),
         NEW d \in Customer
  PROVE  SameString(d) \/ NewString(d)
<1> USE DEF KGoto, listVars, seatVars, procVars, mainVars, kitchenVars, serveVars,
            orderVars
<1>0. /\ Typed /\ KitchenHasOrder /\ ToCook \in SUBSET UsesOrder /\ "lock_order" \in ToCook
      /\ kpc \in [Kitchen -> KitchenPC]
  BY DEF Core, Typed, TypedKitchens, ToCook, UsesOrder
<1>1. ASSUME UNCHANGED <<list, korder, issued, request, orderStr>>,
             \A k \in Kitchen : kpc'[k] \in ToCook <=> kpc[k] \in ToCook
      PROVE  SameString(d)
  BY <1>1 DEF SameString, Uncooked, Left, Unissued, Queued, Held, Positions
<1>2. CASE Acceptor
  BY <1>1, <1>2 DEF Acceptor, Accept, Handle, Admit, Refuse, Spawn, DetachUndefined, AcceptFails
<1>3. CASE Halting \/ UNCHANGED vars
  BY <1>1, <1>3
  DEF Halting, Interrupt, ExitAfterSleep, SecondInterrupt, SendKills, Stopped, vars
<1>4. ASSUME NEW c \in Customer, Serve(c)
      PROVE  SameString(d) \/ NewString(d)
  <2>1. CASE Receive(c) \/ ReceiveNothing(c)
    <3>1. /\ Uncooked(c)' = Positions(c)'
          /\ \A e \in Customer \ {c} : Uncooked(e)' = Uncooked(e)
      BY <2>1, ReceiveLeft DEF Core, Uncooked, Positions, Left, ToCook
    <3>2. PICK r : /\ request' = [request EXCEPT ![c] = r]
                   /\ orderStr' = orderStr /\ spc[c] = "receive"
      BY <2>1 DEF Receive, ReceiveNothing, StartIssue
    <3>3. request[c] = <<>> BY <3>2 DEF Core, IssuedAfterReceive
    <3>4. Positions(c) = {} BY <3>3 DEF Positions
    <3>5. d # c => Positions(d)' = Positions(d)
      BY <3>2 DEF Positions, Core, Typed, TypedServe
    <3> QED BY <3>1, <3>2, <3>4, <3>5 DEF SameString, NewString
  <2>2. CASE Issue(c)
    <3>1. Left(d, ToCook)' = Left(d, ToCook)
      BY <1>0, <2>2, IssueLeft
    <3> QED BY <2>2, <3>1 DEF Issue, SameString, Uncooked, Left, ToCook, Positions
  <2>3. CASE ~(Receive(c) \/ ReceiveNothing(c) \/ Issue(c))
    BY <1>1, <1>4, <2>3
    DEF Serve, Proceed, Arrives, Visit, Welcome, Reject, Issued, Wait,
        SpuriousWakeup, HandOver, SkipHandOver, CleanUp, Leave, ServeUndefined
  <2> QED BY <2>1, <2>2, <2>3
<1>5. ASSUME NEW k \in Kitchen, Kitchens(k)
      PROVE  SameString(d)
  <2>1. CASE KDequeue(k)
    <3>1. Left(d, ToCook)' = Left(d, ToCook)
      BY <1>0, <2>1, DequeueLeft
    <3> QED BY <2>1, <3>1 DEF KDequeue, SameString, Uncooked, Left, ToCook, Positions
  <2>2. CASE KCount(k)
    <3>1. Left(d, ToCook)' = Left(d, ToCook)
      BY <1>0, <2>2, CountLeft
    <3> QED BY <2>2, <3>1 DEF KCount, SameString, Uncooked, Left, ToCook, Positions
  <2>3. CASE KLoop(k) \/ KPeek(k) \/ KSleep(k) \/ KDequeueNothing(k)
    BY <1>0, <1>1, <2>3 DEF KLoop, KPeek, KSleep, KDequeueNothing, ToCook
  <2>4. CASE KLockOrder(k) \/ KCookCopy(k)
    BY <1>0, <1>1, <2>4 DEF KLockOrder, KCookCopy, ToCook
  <2>5. CASE KUnlockOrder(k) \/ KDecrement(k) \/ KSignal(k)
    BY <1>0, <1>1, <2>5 DEF KUnlockOrder, KDecrement, KSignal, ToCook
  <2>6. CASE KUseAfterFree(k)
    BY <1>1, <2>6 DEF KUseAfterFree
  <2> QED
    BY <1>5, <2>1, <2>2, <2>3, <2>4, <2>5, <2>6 DEF Kitchens, Cook
<1> QED BY <1>2, <1>3, <1>4, <1>5 DEF Next, Halting

\* Every step does one of the three to every string.
LEMMA StringMoves ==
  ASSUME "stale_heap" \notin Faults, Core, CopyIsString, [Next]_vars,
         NEW d \in Customer
  PROVE  SameString(d) \/ NewString(d) \/ LongerString(d)
<1> USE DEF KGoto, listVars, serveVars
<1>1. ASSUME NEW k \in Kitchen, KCookFirst(k) PROVE SameString(d) \/ LongerString(d)
  <2>1. korder[k].cust \in Customer /\ korder[k].idx \in 1..MAX_BURGERS
    BY <1>1, OrderOfKitchen DEF Core, Typed, KCookFirst, UsesOrder
  <2>2. orderStr' = [orderStr EXCEPT ![korder[k].cust] = <<korder[k].idx>>]
    BY <1>1 DEF KCookFirst, FirstName
  <2>3. <<korder[k].idx>> = Append(orderStr[korder[k].cust], korder[k].idx)
    BY <1>1 DEF KCookFirst
  <2> QED BY <1>1, <2>2, <2>3, CookedLeft DEF KCookFirst
<1>2. ASSUME NEW k \in Kitchen, KCookAppend(k) PROVE SameString(d) \/ LongerString(d)
  <2>1. temp[k] = orderStr[korder[k].cust]
    BY <1>2 DEF KCookAppend, CopyIsString
  <2> QED BY <1>2, <2>1, CookedLeft DEF KCookAppend
<1> QED BY <1>1, <1>2, StringIsKept

\* What a kitchen has copied stays the string: nobody else has the mutex.
LEMMA CopyStep ==
  ASSUME Core, CooksHold, CopyIsString, [Next]_vars
  PROVE  CopyIsString'
<1> USE DEF CopyIsString, KGoto, listVars, seatVars, procVars, mainVars, kitchenVars,
            serveVars, orderVars
<1>0. /\ kpc \in [Kitchen -> KitchenPC] /\ korder \in [Kitchen -> NodeSet \cup {NoNode}]
      /\ temp \in [Kitchen -> Seq(0..MAX_BURGERS)]
      /\ orderStr \in [Customer -> Seq(0..MAX_BURGERS)]
  BY DEF Core, Typed, TypedKitchens, TypedOrders
<1>1. CASE Acceptor
  BY <1>1 DEF Acceptor, Accept, Handle, Admit, Refuse, Spawn, DetachUndefined, AcceptFails
<1>2. CASE Halting \/ UNCHANGED vars
  BY <1>2 DEF Halting, Interrupt, ExitAfterSleep, SecondInterrupt, SendKills, Stopped, vars
<1>3. ASSUME NEW c \in Customer, Serve(c) PROVE CopyIsString'
  BY <1>3
  DEF Serve, Proceed, Arrives, Visit, Welcome, Receive, ReceiveNothing, StartIssue,
      Reject, Issue, Issued, Wait, SpuriousWakeup, HandOver, SkipHandOver, CleanUp,
      Leave, ServeUndefined
<1>4. ASSUME NEW k \in Kitchen, Kitchens(k) PROVE CopyIsString'
  <2>1. CASE KCookFirst(k) \/ KCookAppend(k)
    <3>1. \A h \in Kitchen \ {k} : kpc[h] = "append" => korder[h].cust # korder[k].cust
      BY <2>1 DEF KCookFirst, KCookAppend, CooksHold
    <3>2. /\ UNCHANGED korder /\ kpc' = [kpc EXCEPT ![k] = "rest"]
          /\ \A h \in Kitchen \ {k} : temp'[h] = temp[h]
          /\ \E s : orderStr' = [orderStr EXCEPT ![korder[k].cust] = s]
      BY <1>0, <2>1 DEF KCookFirst, KCookAppend
    <3>3. \A h \in Kitchen : kpc[h] = "append" => korder[h].cust \in Customer
      BY OrderOfKitchen DEF UsesOrder, Core, Typed
    <3> QED BY <1>0, <3>1, <3>2, <3>3
  <2>2. CASE KCookCopy(k)
    BY <1>0, <2>2 DEF KCookCopy
  <2>3. CASE KLoop(k) \/ KPeek(k) \/ KSleep(k) \/ KDequeueNothing(k)
    BY <1>0, <2>3 DEF KLoop, KPeek, KSleep, KDequeueNothing
  <2>4. CASE KDequeue(k) \/ KLockOrder(k) \/ KUnlockOrder(k)
    BY <1>0, <2>4 DEF KDequeue, KLockOrder, KUnlockOrder
  <2>5. CASE KDecrement(k) \/ KSignal(k) \/ KCount(k)
    BY <1>0, <2>5 DEF KDecrement, KSignal, KCount
  <2>6. CASE KUseAfterFree(k)
    BY <2>6 DEF KUseAfterFree
  <2> QED BY <1>4, <2>1, <2>2, <2>3, <2>4, <2>5, <2>6 DEF Kitchens, Cook
<1> QED BY <1>1, <1>2, <1>3, <1>4 DEF Next, Halting

\* A string with every position once is as long as the request.
LEMMA StringIsWhole ==
  ASSUME Core, StringIsCooked, NEW c \in Customer, remain[c] = 0
  PROVE  /\ Len(orderStr[c]) = Len(request[c])
         /\ {orderStr[c][j] : j \in 1..Len(orderStr[c])} = Positions(c)
<1>1. Pending(c) = {}
  <2>1. Cardinality(Pending(c)) = 0 BY DEF Core, RemainIsPending
  <2> QED BY <2>1, PendingIsFinite, FS_EmptySet DEF Core, Typed
<1>2. Uncooked(c) \subseteq Pending(c)
  BY DEF Uncooked, Left, Pending, Held, ToCook, BeforeDecrement, UsesOrder
<1>3. Uncooked(c) = {} BY <1>1, <1>2
<1>4. {orderStr[c][j] : j \in 1..Len(orderStr[c])} = Positions(c)
  BY <1>3 DEF StringIsCooked
<1>5. PICK n \in Nat : n = Len(orderStr[c])
  BY DEF Core, Typed, TypedOrders
<1>6. PICK m \in Nat : m = Len(request[c])
  BY RequestLen, RequestsAssumption DEF Core, Typed
<1>7. /\ IsFiniteSet(1..n) /\ Cardinality(1..n) = n
      /\ IsFiniteSet(1..m) /\ Cardinality(1..m) = m
  BY FS_Interval, SMTT(30)
<1>8. PICK f : f = [j \in 1..n |-> orderStr[c][j]]
  OBVIOUS
<1>9. f \in Bijection(1..n, 1..m)
  <2>1. f \in [1..n -> 1..m]
    BY <1>4, <1>5, <1>6, <1>8 DEF Positions
  <2>2. \A i, j \in 1..n : f[i] = f[j] => i = j
    BY <1>5, <1>8 DEF StringIsCooked
  <2>3. \A x \in 1..m : \E j \in 1..n : f[j] = x
    BY <1>4, <1>5, <1>6, <1>8 DEF Positions
  <2> QED BY <2>1, <2>2, <2>3 DEF Bijection, Injection, Surjection, IsInjective
<1>10. n = m
  BY <1>7, <1>9, FS_Bijection DEF ExistsBijection
<1> QED BY <1>4, <1>5, <1>6, <1>10

\* A serving thread has a reply only after it has handed it over.
RepliedIsServed ==
  \A c \in Customer :
    reply[c] # <<>> => spc[c] \in {"cleanup", "leave", "error", "gone"}

LEMMA RepliedStep ==
  ASSUME Core, RepliedIsServed, [Next]_vars
  PROVE  RepliedIsServed'
<1> USE DEF RepliedIsServed, KGoto, listVars, seatVars, procVars, mainVars,
            kitchenVars, serveVars, orderVars
<1>0. spc \in [Customer -> ServePC] /\ reply \in [Customer -> Seq(0..MAX_BURGERS)]
  BY DEF Core, Typed, TypedServe
<1>1. CASE Acceptor
  BY <1>0, <1>1
  DEF Acceptor, Accept, Handle, Admit, Refuse, Spawn, DetachUndefined, AcceptFails, Core,
      ConnectionAccepted
<1>2. CASE Halting \/ UNCHANGED vars
  BY <1>2 DEF Halting, Interrupt, ExitAfterSleep, SecondInterrupt, SendKills, Stopped, vars
<1>3. ASSUME NEW c \in Customer, Serve(c) PROVE RepliedIsServed'
  BY <1>0, <1>3
  DEF Serve, Proceed, Arrives, Visit, Welcome, Receive, ReceiveNothing, StartIssue,
      Reject, Issue, Issued, Wait, SpuriousWakeup, HandOver, SkipHandOver, CleanUp,
      Leave, ServeUndefined
<1>4. ASSUME NEW k \in Kitchen, Kitchens(k) PROVE RepliedIsServed'
  BY <1>0, <1>4
  DEF Kitchens, Cook, KLoop, KPeek, KSleep, KDequeue, KDequeueNothing, KLockOrder,
      KCookFirst, KCookCopy, KCookAppend, KUnlockOrder, KDecrement, KSignal, KCount,
      KUseAfterFree
<1> QED BY <1>1, <1>2, <1>3, <1>4 DEF Next, Halting

\* Only HandOver writes a reply, and no request that has one changes.
LEMMA ReplyStep ==
  ASSUME Core, StringIsCooked, RepliedIsServed, ReplyIsTheRequest, [Next]_vars
  PROVE  ReplyIsTheRequest'
<1> USE DEF ReplyIsTheRequest, Positions, KGoto, listVars, seatVars, procVars,
            mainVars, kitchenVars, serveVars, orderVars
<1>0. /\ reply \in [Customer -> Seq(0..MAX_BURGERS)]
      /\ request \in [Customer -> {<<>>} \cup Requests]
  BY DEF Core, Typed, TypedServe
<1>1. CASE UNCHANGED <<reply, request>>
  BY <1>1
<1>2. ASSUME NEW c \in Customer, Receive(c) \/ ReceiveNothing(c)
      PROVE  ReplyIsTheRequest'
  <2>1. PICK r : /\ request' = [request EXCEPT ![c] = r] /\ reply' = reply
                 /\ spc[c] = "receive"
    BY <1>2 DEF Receive, ReceiveNothing, StartIssue
  <2>2. reply[c] = <<>> BY <2>1 DEF RepliedIsServed
  <2> QED BY <1>0, <2>1, <2>2
<1>3. ASSUME NEW c \in Customer, HandOver(c)
      PROVE  ReplyIsTheRequest'
  <2>1. /\ remain[c] = 0 /\ request' = request
        /\ reply' = [reply EXCEPT ![c] = orderStr[c]]
    BY <1>3 DEF HandOver, Completed
  <2>2. /\ Len(orderStr[c]) = Len(request[c])
        /\ {orderStr[c][j] : j \in 1..Len(orderStr[c])} = Positions(c)
    BY <2>1, StringIsWhole
  <2>3. ASSUME NEW d \in Customer, reply'[d] # <<>>
        PROVE  /\ Len(reply'[d]) = Len(request'[d])
               /\ {reply'[d][j] : j \in 1..Len(reply'[d])} = Positions(d)'
    <3>1. CASE d = c
      <4>1. reply'[d] = orderStr[c] /\ request'[d] = request[c]
        BY <1>0, <2>1, <3>1
      <4>2. Positions(d)' = Positions(c) BY <4>1
      <4> QED BY <2>2, <4>1, <4>2
    <3>2. CASE d # c
      <4>1. reply'[d] = reply[d] /\ request'[d] = request[d]
        BY <1>0, <2>1, <3>2
      <4> QED BY <2>3, <4>1
    <3> QED BY <3>1, <3>2
  <2> QED BY <2>3
<1>4. UNCHANGED <<reply, request>>
      \/ \E c \in Customer : Receive(c) \/ ReceiveNothing(c) \/ HandOver(c)
  <2>1. CASE Acceptor
    BY <2>1 DEF Acceptor, Accept, Handle, Admit, Refuse, Spawn, DetachUndefined, AcceptFails
  <2>2. CASE Halting \/ UNCHANGED vars
    BY <2>2
    DEF Halting, Interrupt, ExitAfterSleep, SecondInterrupt, SendKills, Stopped, vars
  <2>3. CASE \E c \in Customer : Serve(c)
    BY <2>3
    DEF Serve, Proceed, Arrives, Visit, Welcome, Reject, Issue, Issued, Wait,
        SpuriousWakeup, SkipHandOver, CleanUp, Leave, ServeUndefined
  <2>4. CASE \E k \in Kitchen : Kitchens(k)
    BY <2>4
    DEF Kitchens, Cook, KLoop, KPeek, KSleep, KDequeue, KDequeueNothing, KLockOrder,
        KCookFirst, KCookCopy, KCookAppend, KUnlockOrder, KDecrement, KSignal, KCount,
        KUseAfterFree
  <2> QED BY <2>1, <2>2, <2>3, <2>4 DEF Next, Halting
<1> QED BY <1>1, <1>2, <1>3, <1>4

\* Unless a fresh heap block is followed by garbage, the reply is a permutation
\* of the request: with spurious wakeups, errors and any interleaving of the
\* kitchens, every burger is named once and nothing else is.
THEOREM ReplyCorrect ==
  "stale_heap" \notin Faults => (Spec => []ReplyIsTheRequest)
<1> SUFFICES ASSUME "stale_heap" \notin Faults
             PROVE  Spec => []ReplyIsTheRequest
  OBVIOUS
<1> DEFINE IInv == /\ CooksHold /\ CopyIsString /\ StringIsCooked
                   /\ RepliedIsServed /\ ReplyIsTheRequest
<1>1. Init => IInv
  BY DEF Init, CooksHold, CopyIsString, StringIsCooked, RepliedIsServed,
         ReplyIsTheRequest, Positions
<1>2. Core /\ IInv /\ [Next]_vars => IInv'
  <2> SUFFICES ASSUME Core, IInv, [Next]_vars PROVE IInv'
    OBVIOUS
  <2>1. CooksHold' BY CooksHoldStep
  <2>2. CopyIsString' BY CopyStep
  <2>3. StringIsCooked'
    <3>1. \A d \in Customer : SameString(d) \/ NewString(d) \/ LongerString(d)
      BY StringMoves
    <3> QED BY <3>1, StringStep DEF Core
  <2>4. RepliedIsServed' BY RepliedStep
  <2>5. ReplyIsTheRequest' BY ReplyStep
  <2> QED BY <2>1, <2>2, <2>3, <2>4, <2>5
<1>3. IInv => ReplyIsTheRequest OBVIOUS
<1> HIDE DEF IInv
<1> QED BY <1>1, <1>2, <1>3, CoreHolds, PTL DEF Spec

-----------------------------------------------------------------------------

(***************************************************************************)
(* The signal.  Nothing orders it after pthread_cond_wait; but a thread    *)
(* that does wait is owed the signal from the last decrement on.           *)
(***************************************************************************)
LEMMA EarlyLoss ==
  ASSUME Core, [Next]_vars, NEW c \in Customer, ~Forgotten(c), Forgotten(c)'
  PROVE  spc[c] \in {"issue", "wait"}
<1> SUFFICES ASSUME spc[c] \notin {"issue", "wait"} PROVE FALSE
  OBVIOUS
<1> USE DEF Forgotten, KGoto, listVars, seatVars, procVars, mainVars, kitchenVars,
            serveVars, orderVars
<1>0. /\ kpc \in [Kitchen -> KitchenPC] /\ spc \in [Customer -> ServePC]
      /\ korder \in [Kitchen -> NodeSet \cup {NoNode}]
      /\ remain \in [Customer -> Int] /\ request \in [Customer -> {<<>>} \cup Requests]
  BY DEF Core, Typed, TypedKitchens, TypedServe, TypedOrders
<1>1. /\ spc'[c] \in {"issue", "wait", "waiting"} /\ request'[c] # <<>> /\ remain'[c] = 0
      /\ ~\E k \in Kitchen : kpc'[k] = "signal" /\ korder'[k].cust = c
  OBVIOUS
<1>2. ASSUME UNCHANGED <<kpc, korder, remain, request>>, spc'[c] = spc[c] PROVE FALSE
  BY <1>1, <1>2
<1>3. CASE Acceptor
  <2>1. UNCHANGED <<kpc, korder, remain, request>>
    BY <1>3 DEF Acceptor, Accept, Handle, Admit, Refuse, Spawn, DetachUndefined, AcceptFails
  <2>2. \/ spc' = spc
        \/ \E d \in Customer, pc \in {"accepted", "refused", "visit", "abandoned"} :
             spc' = [spc EXCEPT ![d] = pc]
    BY <1>3
    DEF Acceptor, Accept, Handle, Admit, Refuse, Spawn, DetachUndefined, AcceptFails, Goto, Core,
        ConnectionAccepted
  <2> QED BY <1>0, <1>1, <1>2, <2>1, <2>2
<1>4. CASE Halting \/ UNCHANGED vars
  BY <1>2, <1>4
  DEF Halting, Interrupt, ExitAfterSleep, SecondInterrupt, SendKills, Stopped, vars
<1>5. ASSUME NEW d \in Customer, Serve(d) PROVE FALSE
  <2>1. CASE Receive(d) \/ ReceiveNothing(d)
    <3>1. PICK r \in {<<>>} \cup Requests : StartIssue(d, r) /\ UNCHANGED <<kpc, korder>>
      BY <2>1 DEF Receive, ReceiveNothing
    <3>2. CASE d # c
      <4>1. spc'[c] = spc[c] /\ remain'[c] = remain[c] /\ request'[c] = request[c]
        BY <1>0, <3>1, <3>2 DEF StartIssue
      <4> QED BY <1>1, <3>1, <4>1
    <3>3. CASE d = c
      <4>1. request'[c] = r /\ remain'[c] = Len(r)
        BY <1>0, <3>1, <3>3 DEF StartIssue, BurgerCount
      <4>2. r \in Requests BY <1>1, <4>1
      <4> QED BY <1>1, <4>1, <4>2, RequestsAssumption
    <3> QED BY <3>2, <3>3
  <2>2. CASE ~(Receive(d) \/ ReceiveNothing(d))
    <3>1. /\ UNCHANGED <<kpc, korder, remain, request>>
          /\ \A e \in Customer \ {d} : spc'[e] = spc[e]
          /\ spc'[d] \in {"issue", "wait", "waiting"}
               => spc'[d] = spc[d] \/ spc[d] \in {"issue", "wait"}
      BY <1>0, <1>5, <2>2
      DEF Serve, Proceed, Arrives, Visit, Welcome, Reject, Issue, Issued, Wait,
          SpuriousWakeup, HandOver, SkipHandOver, CleanUp, Leave, ServeUndefined
    <3>2. spc'[c] = spc[c] BY <1>1, <3>1
    <3> QED BY <1>2, <3>1, <3>2
  <2> QED BY <2>1, <2>2
<1>6. ASSUME NEW k \in Kitchen, Kitchens(k) PROVE FALSE
  <2>1. CASE KDecrement(k)
    <3>1. /\ remain' = [remain EXCEPT ![korder[k].cust] = @ - 1]
          /\ UNCHANGED <<korder, spc, request>> /\ kpc[k] = "decrement"
          /\ kpc' = [kpc EXCEPT ![k] = IF LastBurger(remain[korder[k].cust] - 1)
                                         THEN "signal" ELSE "count"]
      BY <2>1 DEF KDecrement
    <3>2. korder[k].cust # c
      BY <1>0, <1>1, <3>1 DEF LastBurger
    <3>3. remain'[c] = remain[c] BY <1>0, <3>1, <3>2
    <3>4. \A h \in Kitchen : kpc[h] = "signal" => kpc'[h] = "signal"
      BY <1>0, <3>1
    <3> QED BY <1>1, <3>1, <3>3, <3>4
  <2>2. CASE KSignal(k)
    <3>1. PICK d \in Customer : korder[k].cust = d
      BY <2>2, OrderOfKitchen DEF KSignal, UsesOrder, Core, Typed
    <3>2. /\ UNCHANGED <<korder, remain, request>>
          /\ spc' = IF spc[d] = "waiting" THEN [spc EXCEPT ![d] = "woken"] ELSE spc
          /\ \A h \in Kitchen \ {k} : kpc'[h] = kpc[h]
      BY <1>0, <2>2, <3>1 DEF KSignal
    <3>3. spc[c] = "waiting" /\ spc'[c] = "waiting" BY <1>0, <1>1, <3>2
    <3>4. d # c BY <1>0, <3>2, <3>3
    <3> QED BY <1>1, <3>1, <3>2, <3>3, <3>4
  <2>3. CASE KDequeue(k)
    <3>1. /\ UNCHANGED <<remain, request, spc>> /\ kpc[k] = "dequeue"
          /\ \A h \in Kitchen \ {k} : kpc'[h] = kpc[h] /\ korder'[h] = korder[h]
      BY <1>0, <2>3 DEF KDequeue
    <3> QED BY <1>1, <3>1
  <2>4. CASE KCount(k)
    <3>1. /\ UNCHANGED <<remain, request, spc>> /\ kpc[k] = "count"
          /\ \A h \in Kitchen \ {k} : kpc'[h] = kpc[h] /\ korder'[h] = korder[h]
      BY <1>0, <2>4 DEF KCount
    <3> QED BY <1>1, <3>1
  <2>5. CASE ~(KDecrement(k) \/ KSignal(k) \/ KDequeue(k) \/ KCount(k))
    <3>1. /\ UNCHANGED <<korder, remain, request, spc>>
          /\ \A h \in Kitchen : kpc'[h] = kpc[h] \/ kpc[h] # "signal"
      BY <1>0, <1>6, <2>5
      DEF Kitchens, Cook, KLoop, KPeek, KSleep, KDequeueNothing, KLockOrder, KCookFirst,
          KCookCopy, KCookAppend, KUnlockOrder, KUseAfterFree
    <3> QED BY <1>1, <3>1
  <2> QED BY <2>1, <2>2, <2>3, <2>4, <2>5
<1> QED BY <1>3, <1>4, <1>5, <1>6 DEF Next, Halting

\* pthread_cond_signal is lost only to a serving thread that does not wait yet:
\* whatever fails, one that waits when its order is finished is signalled first.
THEOREM LossesAreEarly == Spec => OnlyEarlySignalsAreLost
<1>1. Core /\ [Next]_vars
        => \A c \in Customer : ~Forgotten(c) /\ Forgotten(c)' => spc[c] \in {"issue", "wait"}
  BY EarlyLoss
<1> QED BY <1>1, CoreHolds, PTL DEF Spec, OnlyEarlySignalsAreLost
-----------------------------------------------------------------------------
(***************************************************************************)
(* What the reply is formatted from.                                       *)
(***************************************************************************)
LEMMA ReleasedIsStable ==
  ASSUME Core, Handed, [Next]_vars, NEW c \in Customer,
         spc[c] \in {"woken", "cleanup", "leave"}
  PROVE  orderStr'[c] = orderStr[c] /\ remain'[c] = remain[c]
<1> USE DEF listVars, seatVars, procVars, mainVars, kitchenVars, serveVars, orderVars
<1>1. \A k \in Kitchen : kpc[k] \in UsesOrder => korder[k].cust # c
  <2>1. /\ remain[c] = 0
        /\ \A k \in Kitchen : kpc[k] = "signal" => korder[k].cust # c
    BY DEF Handed, ReleasedIsDone, Released
  <2> QED BY <2>1, DoneIsUntouched
<1>2. DOMAIN orderStr = Customer /\ DOMAIN remain = Customer
  BY DEF Core, Typed, TypedOrders
<1>3. CASE Acceptor
  BY <1>3 DEF Acceptor, Accept, Handle, Admit, Refuse, Spawn, DetachUndefined, AcceptFails
<1>4. CASE Halting \/ UNCHANGED vars
  BY <1>4 DEF Halting, Interrupt, ExitAfterSleep, SecondInterrupt, SendKills, Stopped, vars
<1>5. ASSUME NEW d \in Customer, Serve(d)
      PROVE  orderStr'[c] = orderStr[c] /\ remain'[c] = remain[c]
  <2>1. CASE Receive(d) \/ ReceiveNothing(d)
    BY <1>2, <2>1 DEF Receive, ReceiveNothing, StartIssue
  <2>2. CASE ~(Receive(d) \/ ReceiveNothing(d))
    BY <1>5, <2>2
    DEF Serve, Proceed, Arrives, Visit, Welcome, Reject, Issue, Issued, Wait,
        SpuriousWakeup, HandOver, SkipHandOver, CleanUp, Leave, ServeUndefined
  <2> QED BY <2>1, <2>2
<1>6. ASSUME NEW k \in Kitchen, Kitchens(k)
      PROVE  orderStr'[c] = orderStr[c] /\ remain'[c] = remain[c]
  <2>1. CASE KCookFirst(k) \/ KCookAppend(k) \/ KDecrement(k)
    <3>1. korder[k].cust # c
      BY <1>1, <2>1 DEF KCookFirst, KCookAppend, KDecrement, UsesOrder
    <3> QED BY <1>2, <2>1, <3>1 DEF KCookFirst, KCookAppend, KDecrement
  <2>2. CASE ~(KCookFirst(k) \/ KCookAppend(k) \/ KDecrement(k))
    BY <1>6, <2>2
    DEF Kitchens, Cook, KLoop, KPeek, KSleep, KDequeue, KDequeueNothing, KLockOrder,
        KCookCopy, KUnlockOrder, KSignal, KCount, KUseAfterFree
  <2> QED BY <2>1, <2>2
<1> QED BY <1>3, <1>4, <1>5, <1>6 DEF Next, Halting

\* If pthread_cond_wait returns only when signalled, no thread writes to the
\* order string or the count of a request once its serving thread, which reads
\* both without a mutex, has been woken.
THEOREM ReplyIsStable ==
  "spurious_wakeup" \notin Faults => (Spec => OrderStringIsStable)
<1> SUFFICES ASSUME "spurious_wakeup" \notin Faults PROVE Spec => OrderStringIsStable
  OBVIOUS
<1>1. Core /\ Handed /\ [Next]_vars =>
        [\A c \in Customer : spc[c] \in {"woken", "cleanup", "leave"} =>
           orderStr'[c] = orderStr[c] /\ remain'[c] = remain[c]]_vars
  BY ReleasedIsStable
<1>2. Spec => []Handed BY HandedHolds
<1> QED BY <1>1, <1>2, CoreHolds, PTL DEF Spec, OrderStringIsStable
-----------------------------------------------------------------------------
(***************************************************************************)
(* The statistics.  Of the issued nodes, those of a type that are neither  *)
(* queued nor with a kitchen are the burgers counted for the type.         *)
(***************************************************************************)
Placed(n) ==
  \/ \E j \in 1..Len(list) : list[j] = n
  \/ \E k \in Kitchen : korder[k] = n

IssuedNode(n) == n.idx <= issued[n.cust]

Finished(t) ==
  {n \in NodeSet : IssuedNode(n) /\ request[n.cust][n.idx] = t /\ ~Placed(n)}

Tallied == \A t \in Type : totalBurgers[t] = Cardinality(Finished(t))

LEMMA NodeSetIsFinite == IsFiniteSet(NodeSet)
<1> DEFINE P == Customer \X (1..MAX_BURGERS)
           f == [p \in P |-> Node(p[1], p[2])]
<1>1. IsFiniteSet(1..MAX_BURGERS)
  BY FS_Interval, RequestsAssumption
<1>2. IsFiniteSet(P)
  BY <1>1, ThreadsAssumption, FS_Product
<1>3. f \in [P -> NodeSet]
  BY DEF Node, NodeSet
<1>4. ASSUME NEW n \in NodeSet PROVE \E p \in P : f[p] = n
  <2>1. /\ n.cust \in Customer /\ n.idx \in 1..MAX_BURGERS
        /\ n = Node(n.cust, n.idx)
    BY DEF NodeSet, Node
  <2>2. <<n.cust, n.idx>> \in P BY <2>1
  <2>3. f[<<n.cust, n.idx>>] = n BY <2>1, <2>2
  <2> QED BY <2>2, <2>3
<1>5. f \in Surjection(P, NodeSet)
  BY <1>3, <1>4 DEF Surjection
<1> HIDE DEF P, f
<1> QED BY <1>2, <1>5, FS_Surjection

LEMMA FinishedIsFinite ==
  ASSUME NEW t
  PROVE  IsFiniteSet(Finished(t)) /\ Cardinality(Finished(t)) \in Nat
<1>1. Finished(t) \subseteq NodeSet BY DEF Finished
<1> QED BY <1>1, NodeSetIsFinite, FS_Subset, FS_CardinalityType

\* Places counts zero exactly for the nodes that are nowhere.
LEMMA NoPlace ==
  ASSUME Core, NEW n \in NodeSet
  PROVE  Places(n.cust, n.idx) = 0 <=> ~Placed(n)
<1>1. n = Node(n.cust, n.idx) /\ n # NoNode
  BY ThreadsAssumption DEF NodeSet, Node, NoNode
<1> DEFINE J == {j \in 1..Len(list) : list[j] = n}
           K == {k \in Kitchen : korder[k] = n}
<1>2. Places(n.cust, n.idx) = Cardinality(J) + Cardinality(K)
  BY <1>1 DEF Places
<1>3. \A x, y \in J : x = y BY DEF Core, NodesApart
<1>4. \A x, y \in K : x = y BY <1>1 DEF Core, NodesApart
<1>5. Placed(n) <=> J # {} \/ K # {}
  BY DEF Placed
<1> HIDE DEF J, K
<1>6. /\ J # {} => Cardinality(J) = 1
      /\ J = {} => Cardinality(J) = 0
  BY <1>3, AtMostOne
<1>7. /\ K # {} => Cardinality(K) = 1
      /\ K = {} => Cardinality(K) = 0
  BY <1>4, AtMostOne
<1> QED BY <1>2, <1>5, <1>6, <1>7

\* Only kitchen_task's last critical section writes the statistics.
LEMMA OnlyCountCounts ==
  [Next]_vars => UNCHANGED totalBurgers \/ \E k \in Kitchen : KCount(k)
<1> SUFFICES ASSUME [Next]_vars, \A k \in Kitchen : ~KCount(k) PROVE UNCHANGED totalBurgers
  OBVIOUS
<1>1. CASE Acceptor
  BY <1>1 DEF Acceptor, Accept, Handle, Admit, Refuse, Spawn, DetachUndefined, AcceptFails
<1>2. CASE Halting \/ UNCHANGED vars
  BY <1>2 DEF Halting, Interrupt, ExitAfterSleep, SecondInterrupt, SendKills, Stopped, vars
<1>3. ASSUME NEW c \in Customer, Serve(c) PROVE UNCHANGED totalBurgers
  BY <1>3
  DEF Serve, Proceed, Arrives, Visit, Welcome, Receive, ReceiveNothing, Reject,
      Issue, Issued, Wait, SpuriousWakeup, HandOver, SkipHandOver, CleanUp, Leave,
      ServeUndefined
<1>4. ASSUME NEW k \in Kitchen, Kitchens(k) PROVE UNCHANGED totalBurgers
  BY <1>4
  DEF Kitchens, Cook, KLoop, KPeek, KSleep, KDequeue, KDequeueNothing, KLockOrder,
      KCookFirst, KCookCopy, KCookAppend, KUnlockOrder, KDecrement, KSignal,
      KUseAfterFree
<1> QED BY <1>1, <1>2, <1>3, <1>4 DEF Next, Halting

\* A step that finishes no node.
LEMMA SameFinished ==
  ASSUME \A n \in NodeSet : /\ IssuedNode(n)' <=> IssuedNode(n) \/ (IssuedNode(n)' /\ Placed(n)')
                            /\ IssuedNode(n) => /\ Placed(n)' <=> Placed(n)
                                                /\ request'[n.cust] = request[n.cust],
         NEW t
  PROVE  Finished(t)' = Finished(t)
<1>1. ASSUME NEW n \in NodeSet
      PROVE  (IssuedNode(n) /\ request[n.cust][n.idx] = t /\ ~Placed(n))'
               <=> IssuedNode(n) /\ request[n.cust][n.idx] = t /\ ~Placed(n)
  OBVIOUS
<1> QED BY <1>1 DEF Finished

LEMMA IssueFinishes ==
  ASSUME Core, NEW c \in Customer, Issue(c), NEW t
  PROVE  Finished(t)' = Finished(t)
<1> DEFINE m == Node(c, issued[c] + 1)
<1>0. /\ list \in Seq(NodeSet) /\ issued \in [Customer -> Nat]
  BY RequestsAssumption DEF Core, Typed, TypedList, TypedServe
<1>1. /\ list' = Append(list, m) /\ UNCHANGED <<korder, request>>
      /\ issued' = [issued EXCEPT ![c] = issued[c] + 1]
  BY DEF Issue, kitchenVars
<1>2. 1..Len(list') = 1..Len(list) \cup {Len(list) + 1}
      /\ \A j \in 1..Len(list) : list'[j] = list[j]
      /\ list'[Len(list) + 1] = m
  BY <1>0, <1>1
<1>3. \A n : Placed(n)' <=> Placed(n) \/ n = m
  BY <1>1, <1>2 DEF Placed
<1>4. ASSUME NEW n \in NodeSet
      PROVE  /\ n = m => ~IssuedNode(n)
             /\ IssuedNode(n)' <=> IssuedNode(n) \/ n = m
  <2>1. n.cust \in Customer /\ n.idx \in Int
    BY RequestsAssumption DEF NodeSet
  <2>2. n = m <=> n.cust = c /\ n.idx = issued[c] + 1
    BY DEF NodeSet, Node
  <2>3. issued[n.cust] \in Int BY <1>0, <2>1
  <2>4. issued'[n.cust] = IF n.cust = c THEN issued[c] + 1 ELSE issued[n.cust]
    BY <1>0, <1>1, <2>1
  <2> QED BY <2>1, <2>2, <2>3, <2>4 DEF IssuedNode
<1> HIDE DEF m
<1> QED BY <1>1, <1>3, <1>4, SameFinished

LEMMA DequeueFinishes ==
  ASSUME Core, NEW k \in Kitchen, KDequeue(k), NEW t
  PROVE  Finished(t)' = Finished(t)
<1>1. /\ list \in Seq(NodeSet) /\ list # <<>> /\ list' = Tail(list)
      /\ korder' = [korder EXCEPT ![k] = list[1]] /\ korder[k] = NoNode
      /\ UNCHANGED <<issued, request>>
  BY DEF KDequeue, Rest, serveVars, Core, Typed, TypedList, KitchenHasOrder, UsesOrder
<1>2. /\ Len(list) \in Nat /\ Len(list) >= 1 /\ Len(list') = Len(list) - 1
      /\ \A j \in 1..Len(list') : list'[j] = list[j + 1]
  BY <1>1
<1>3. ASSUME NEW n \in NodeSet PROVE Placed(n)' <=> Placed(n)
  <2>1. (\E j \in 1..Len(list) : list[j] = n)
          <=> (\E j \in 1..Len(list') : list'[j] = n) \/ list[1] = n
    <3>1. ASSUME NEW j \in 1..Len(list), j # 1, list[j] = n
          PROVE  j - 1 \in 1..Len(list') /\ list'[j - 1] = n
      BY <1>2, <3>1
    <3>2. ASSUME NEW j \in 1..Len(list'), list'[j] = n
          PROVE  j + 1 \in 1..Len(list) /\ list[j + 1] = n
      BY <1>2, <3>2
    <3>3. 1 \in 1..Len(list) BY <1>2
    <3> QED BY <3>1, <3>2, <3>3
  <2>2. n # NoNode BY ThreadsAssumption DEF NodeSet, Node, NoNode
  <2>3. (\E h \in Kitchen : korder'[h] = n)
          <=> (\E h \in Kitchen : korder[h] = n) \/ list[1] = n
    BY <1>1, <2>2 DEF Core, Typed, TypedKitchens
  <2> QED BY <2>1, <2>3 DEF Placed
<1> QED BY <1>1, <1>3, SameFinished DEF IssuedNode

LEMMA ReceiveFinishes ==
  ASSUME Core, NEW c \in Customer, Receive(c) \/ ReceiveNothing(c), NEW t
  PROVE  Finished(t)' = Finished(t)
<1>1. PICK r : request' = [request EXCEPT ![c] = r]
  BY DEF Receive, ReceiveNothing, StartIssue
<1>2. UNCHANGED <<list, korder, issued>> /\ issued[c] = 0
  BY DEF Receive, ReceiveNothing, listVars, kitchenVars, Core, IssuedAfterReceive
<1>3. ASSUME NEW n \in NodeSet, IssuedNode(n) PROVE request'[n.cust] = request[n.cust]
  <2>1. n.cust \in Customer /\ n.idx \in 1..MAX_BURGERS BY DEF NodeSet
  <2>2. n.cust # c BY <1>2, <1>3, <2>1, RequestsAssumption DEF IssuedNode
  <2> QED BY <1>1, <2>1, <2>2 DEF Core, Typed, TypedServe
<1>4. \A n : Placed(n)' <=> Placed(n) BY <1>2 DEF Placed
<1>5. \A n : IssuedNode(n)' <=> IssuedNode(n) BY <1>2 DEF IssuedNode
<1> QED BY <1>3, <1>4, <1>5, SameFinished

\* The kitchen that counts finishes its own node, for the type it adds to.
LEMMA CountFinishes ==
  ASSUME Core, NEW k \in Kitchen, KCount(k)
  PROVE  /\ TypeOf(korder[k]) \in Type
         /\ korder[k] \notin Finished(TypeOf(korder[k]))
         /\ \A t \in Type :
              Finished(t)' = IF t = TypeOf(korder[k]) THEN Finished(t) \cup {korder[k]}
                                                      ELSE Finished(t)
<1>1. PICK m \in NodeSet : m = korder[k]
  BY OrderOfKitchen DEF KCount, Core, Typed
<1>2. /\ korder' = [korder EXCEPT ![k] = NoNode]
      /\ UNCHANGED <<list, issued, request>>
  BY DEF KCount, listVars, serveVars
<1>3. m # NoNode /\ m.cust \in Customer /\ m.idx \in 1..MAX_BURGERS
  BY ThreadsAssumption DEF NodeSet, NoNode, Node
<1>4. Placed(m) /\ IssuedNode(m)
  BY <1>1, <1>3 DEF Placed, IssuedNode, Core, NodesIssued
<1>5. TypeOf(m) \in Type
  <2>1. PICK i \in Nat, l \in Nat : i = issued[m.cust] /\ l = Len(request[m.cust])
    BY <1>3, RequestLen, RequestsAssumption DEF Core, Typed, TypedServe
  <2>2. i <= l BY <1>3, <2>1 DEF Core, Typed, TypedServe
  <2>3. m.idx \in 1..l BY <1>3, <1>4, <2>1, <2>2, RequestsAssumption DEF IssuedNode
  <2>4. request[m.cust] \in {<<>>} \cup Requests BY <1>3 DEF Core, Typed, TypedServe
  <2>5. l # 0 BY <2>3
  <2>6. request[m.cust] # <<>> BY <2>1, <2>5
  <2>7. request[m.cust] \in Seq(Type) BY <2>4, <2>6, RequestsAssumption
  <2> QED BY <2>1, <2>3, <2>7 DEF TypeOf
<1>6. ASSUME NEW n \in NodeSet PROVE Placed(n)' <=> Placed(n) /\ n # m
  <2>1. n # NoNode BY ThreadsAssumption DEF NodeSet, Node, NoNode
  <2>2. /\ \A j \in 1..Len(list) : list[j] # m
        /\ \A h \in Kitchen : korder[h] = m => h = k
    BY <1>1, <1>3 DEF Core, NodesApart
  <2>3. (\E h \in Kitchen : korder'[h] = n) <=> (\E h \in Kitchen : korder[h] = n) /\ n # m
    BY <1>1, <1>2, <2>1, <2>2 DEF Core, Typed, TypedKitchens
  <2>4. (\E j \in 1..Len(list') : list'[j] = n) <=> (\E j \in 1..Len(list) : list[j] = n)
    BY <1>2
  <2>5. (\E j \in 1..Len(list) : list[j] = n) => n # m
    BY <2>2
  <2> QED BY <2>3, <2>4, <2>5 DEF Placed
<1>7. ASSUME NEW t \in Type
      PROVE  Finished(t)' = IF t = TypeOf(m) THEN Finished(t) \cup {m} ELSE Finished(t)
  <2>1. ASSUME NEW n \in NodeSet
        PROVE  n \in Finished(t)' <=> n \in Finished(t) \/ (n = m /\ t = TypeOf(m))
    BY <1>2, <1>4, <1>6 DEF Finished, TypeOf, IssuedNode
  <2>2. /\ \A n \in Finished(t)' : n \in NodeSet
        /\ \A n \in Finished(t) : n \in NodeSet
    BY DEF Finished
  <2> QED BY <2>1, <2>2
<1> QED BY <1>1, <1>4, <1>5, <1>7 DEF Finished

LEMMA TalliedStep ==
  ASSUME Core, Tallied, [Next]_vars
  PROVE  Tallied'
<1>1. ASSUME UNCHANGED totalBurgers, \A t \in Type : Finished(t)' = Finished(t)
      PROVE  Tallied'
  BY <1>1 DEF Tallied
<1>2. CASE \E k \in Kitchen : KCount(k)
  <2>1. PICK k \in Kitchen : KCount(k) BY <1>2
  <2>2. PICK m, u : m = korder[k] /\ u = TypeOf(korder[k])
    OBVIOUS
  <2>3. /\ u \in Type /\ m \notin Finished(u)
        /\ \A t \in Type :
             Finished(t)' = IF t = u THEN Finished(t) \cup {m} ELSE Finished(t)
    BY <2>1, <2>2, CountFinishes
  <2>4. totalBurgers' = [totalBurgers EXCEPT ![u] = totalBurgers[u] + 1]
    BY <2>1, <2>2 DEF KCount
  <2>5. Cardinality(Finished(u) \cup {m}) = Cardinality(Finished(u)) + 1
    BY <2>3, FinishedIsFinite, FS_AddElement
  <2> QED BY <2>3, <2>4, <2>5 DEF Tallied, Core, Typed, TypedTotals
<1>3. CASE UNCHANGED totalBurgers
  <2>1. CASE Quiet
    <3>1. \A n : Placed(n)' <=> Placed(n) BY <2>1 DEF Quiet, Placed
    <3>2. \A n : IssuedNode(n)' <=> IssuedNode(n) BY <2>1 DEF Quiet, IssuedNode
    <3> QED BY <1>1, <1>3, <2>1, <3>1, <3>2, SameFinished DEF Quiet
  <2>2. ASSUME NEW c \in Customer, Receive(c) \/ ReceiveNothing(c) PROVE Tallied'
    BY <1>1, <1>3, <2>2, ReceiveFinishes
  <2>3. ASSUME NEW c \in Customer, Issue(c) PROVE Tallied'
    BY <1>1, <1>3, <2>3, IssueFinishes
  <2>4. ASSUME NEW k \in Kitchen, KDequeue(k) PROVE Tallied'
    BY <1>1, <1>3, <2>4, DequeueFinishes
  <2>5. ASSUME NEW k \in Kitchen, KDecrement(k) PROVE Tallied'
    <3>1. UNCHANGED <<list, korder, issued, request>>
      BY <2>5 DEF KDecrement, listVars, serveVars
    <3>2. \A n : Placed(n)' <=> Placed(n) BY <3>1 DEF Placed
    <3>3. \A n : IssuedNode(n)' <=> IssuedNode(n) BY <3>1 DEF IssuedNode
    <3> QED BY <1>1, <1>3, <3>1, <3>2, <3>3, SameFinished
  <2> QED
    BY <1>2, <2>1, <2>2, <2>3, <2>4, <2>5, QuietOrMoves DEF MovesNodes, Core
<1> QED BY <1>2, <1>3, OnlyCountCounts

\* print_statistics prints exact numbers: the counter of a type is the number
\* of its burgers that went through a kitchen, although a burger is counted
\* outside the critical sections that cook it and maybe after its customer left.
THEOREM StatisticsCorrect == Spec => []BurgersAreCounted
<1>1. Init => Tallied
  <2> SUFFICES ASSUME Init, NEW t \in Type PROVE totalBurgers[t] = Cardinality(Finished(t))
    BY DEF Tallied
  <2>1. \A n \in NodeSet : ~IssuedNode(n)
    BY RequestsAssumption DEF Init, NodeSet, IssuedNode
  <2>2. Finished(t) = {} BY <2>1 DEF Finished
  <2> QED BY <2>2, FS_EmptySet DEF Init
<1>2. Core /\ Tallied /\ [Next]_vars => Tallied'
  BY TalliedStep
<1>3. Core /\ Tallied => BurgersAreCounted
  <2> SUFFICES ASSUME Core, Tallied, NEW t \in Type
               PROVE  totalBurgers[t] = Cardinality(Counted(t))
    BY DEF BurgersAreCounted
  <2>1. Counted(t) = Finished(t)
    BY NoPlace DEF Counted, Finished, IssuedNode
  <2> QED BY <2>1 DEF Tallied
<1> QED BY <1>1, <1>2, <1>3, CoreHolds, PTL DEF Spec
-----------------------------------------------------------------------------
(***************************************************************************)
(* The refinement of BurgerShop.  The phase of a customer is read off the  *)
(* program counters of the acceptor and of the serving thread.             *)
(***************************************************************************)
Attempted(c) == c = aconn /\ apc \in {"refuse", "spawn"}

ServingPhase(pc, served, lost) ==
  IF pc \in {"outside", "accepted"} THEN "outside"
  ELSE IF pc = "refused" THEN "refused"
  ELSE IF pc \in {"abandoned", "visit", "welcome", "receive", "leaked"} THEN "inside"
  ELSE IF pc \in {"issue", "wait", "waiting", "woken"}
    THEN (IF lost THEN "forgotten" ELSE "ordered")
  ELSE IF pc \in {"cleanup", "leave"} THEN "served"
  ELSE IF pc = "error" THEN (IF served THEN "served" ELSE "inside")
  ELSE "gone"

PhaseTable ==
  \A c \in Customer :
    /\ Attempted(c) => /\ spc[c] = "accepted"
                       /\ Phase(c) = IF apc = "refuse" THEN "refused" ELSE "inside"
    /\ ~Attempted(c) => Phase(c) = ServingPhase(spc[c], reply[c] # <<>>, Forgotten(c))

LEMMA PhaseFacts == Core => PhaseTable
<1> SUFFICES ASSUME Core, NEW c \in Customer
    PROVE  /\ Attempted(c) => /\ spc[c] = "accepted"
                              /\ Phase(c) = IF apc = "refuse" THEN "refused" ELSE "inside"
           /\ ~Attempted(c) => Phase(c) = ServingPhase(spc[c], reply[c] # <<>>, Forgotten(c))
  BY DEF PhaseTable
<1>1. spc[c] \in ServePC BY DEF Core, Typed, TypedServe
<1>2. CASE Attempted(c)
  <2>1. spc[c] = "accepted"
    BY <1>2 DEF Attempted, Core, ConnectionAccepted
  <2> QED BY <1>2, <2>1 DEF Attempted, Phase
<1>3. CASE ~Attempted(c)
  <2>1. ~(c = aconn /\ apc = "refuse") /\ ~(c = aconn /\ apc = "spawn")
    BY <1>3 DEF Attempted
  <2> QED BY <1>1, <1>3, <2>1 DEF Attempted, Phase, ServingPhase, ServePC, NoThread
<1> QED BY <1>2, <1>3

LEMMA PhaseFactsNext == Core' => PhaseTable'
BY PhaseFacts, PTL

(***************************************************************************)
(* What the refinement needs besides: the string of a customer holds the   *)
(* names that are no longer to be cooked, a dirty heap or not; a burger    *)
(* is owed only between the order and the signal; a request is not empty.  *)
(***************************************************************************)
StringIsMade == \A c \in Customer : InString(c) = Positions(c) \ Uncooked(c)

OwedIsOrdered ==
  \A c \in Customer : remain[c] # 0 => spc[c] \in {"issue", "wait", "waiting"}

OrderedHasRequest ==
  \A c \in Customer :
    spc[c] \in {"issue", "wait", "waiting", "woken"} => request[c] # <<>>

\* The two steps that put a name into a string.
Cooks(k) == KCookFirst(k) \/ KCookAppend(k)

LEMMA InStringOf ==
  ASSUME NEW s \in Seq(0..MAX_BURGERS), NEW i \in 1..MAX_BURGERS
  PROVE  {Append(s, i)[j] : j \in 1..Len(Append(s, i))} \ {Junk}
           = ({s[j] : j \in 1..Len(s)} \ {Junk}) \cup {i}
<1>1. /\ Len(s) \in Nat /\ Len(Append(s, i)) = Len(s) + 1
      /\ \A j \in 1..Len(s) : Append(s, i)[j] = s[j]
      /\ Append(s, i)[Len(s) + 1] = i
  OBVIOUS
<1>2. 1..Len(Append(s, i)) = 1..Len(s) \cup {Len(s) + 1}
  BY <1>1
<1>3. i # Junk BY RequestsAssumption DEF Junk
<1> QED BY <1>1, <1>2, <1>3

LEMMA CooksMake ==
  ASSUME Core, CopyIsString, NEW k \in Kitchen, Cooks(k)
  PROVE  /\ korder[k].cust \in Customer
         /\ korder[k].idx \in Uncooked(korder[k].cust)
         /\ \A e \in Customer :
              /\ Uncooked(e)' = IF e = korder[k].cust THEN Uncooked(e) \ {korder[k].idx}
                                                      ELSE Uncooked(e)
              /\ InString(e)' = IF e = korder[k].cust THEN InString(e) \cup {korder[k].idx}
                                                      ELSE InString(e)
<1>1. /\ kpc[k] \in {"cook", "append"} /\ kpc' = [kpc EXCEPT ![k] = "rest"]
      /\ UNCHANGED <<list, korder, issued, request>>
  BY DEF Cooks, KCookFirst, KCookAppend, KGoto, listVars, serveVars
<1>2. PICK c \in Customer, i \in 1..MAX_BURGERS : korder[k].cust = c /\ korder[k].idx = i
  BY <1>1, OrderOfKitchen DEF UsesOrder, Core, Typed
<1>3. /\ i \in Uncooked(c)
      /\ \A e \in Customer : Uncooked(e)' = IF e = c THEN Uncooked(e) \ {i} ELSE Uncooked(e)
  <2>1. /\ ToCook \in SUBSET UsesOrder /\ "rest" \notin ToCook /\ kpc[k] \in ToCook
    BY <1>1 DEF ToCook, UsesOrder
  <2>2. /\ korder[k].idx \in Left(korder[k].cust, ToCook)
        /\ \A e \in Customer :
             Left(e, ToCook)' = IF e = korder[k].cust THEN Left(e, ToCook) \ {korder[k].idx}
                                                      ELSE Left(e, ToCook)
    BY <1>1, <2>1, DoneLeft DEF Core
  <2>3. \A e : Uncooked(e) = Left(e, ToCook) BY DEF Uncooked
  <2>4. \A e : Uncooked(e)' = Left(e, ToCook)' BY DEF Uncooked, Left, ToCook
  <2> QED BY <1>2, <2>2, <2>3, <2>4
<1>4. orderStr[c] \in Seq(0..MAX_BURGERS) /\ DOMAIN orderStr = Customer
  BY DEF Core, Typed, TypedOrders
<1>5. InString(c)' = InString(c) \cup {i}
  <2>1. CASE KCookFirst(k)
    <3>1. orderStr[c] = <<>> /\ orderStr'[c] \in {<<i>>, <<i, Junk>>}
      BY <1>2, <1>4, <2>1 DEF KCookFirst, FirstName
    <3>2. i # Junk BY RequestsAssumption DEF Junk
    <3>3. InString(c) = {} BY <3>1 DEF InString
    <3>4. CASE orderStr'[c] = <<i>>
      <4>1. 1..Len(orderStr'[c]) = {1} /\ orderStr'[c][1] = i BY <3>4
      <4> QED BY <3>2, <3>3, <4>1 DEF InString
    <3>5. CASE orderStr'[c] = <<i, Junk>>
      <4>1. 1..Len(orderStr'[c]) = {1, 2} /\ orderStr'[c][1] = i /\ orderStr'[c][2] = Junk
        BY <3>5
      <4> QED BY <3>2, <3>3, <4>1 DEF InString
    <3> QED BY <3>1, <3>4, <3>5
  <2>2. CASE KCookAppend(k)
    <3>1. orderStr'[c] = Append(orderStr[c], i)
      BY <1>2, <1>4, <2>2 DEF KCookAppend, CopyIsString
    <3>2. {Append(orderStr[c], i)[j] : j \in 1..Len(Append(orderStr[c], i))} \ {Junk}
            = ({orderStr[c][j] : j \in 1..Len(orderStr[c])} \ {Junk}) \cup {i}
      BY <1>4, InStringOf
    <3> QED BY <3>1, <3>2 DEF InString
  <2> QED BY <2>1, <2>2 DEF Cooks
<1>6. \A e \in Customer \ {c} : InString(e)' = InString(e)
  <2>1. \A e \in Customer \ {c} : orderStr'[e] = orderStr[e]
    BY <1>2, <1>4 DEF Cooks, KCookFirst, KCookAppend
  <2> QED BY <2>1 DEF InString
<1> QED BY <1>2, <1>3, <1>5, <1>6
LEMMA MadeStep ==
  ASSUME Core, CopyIsString, StringIsMade, [Next]_vars
  PROVE  StringIsMade'
<1>1. CASE \E k \in Kitchen : Cooks(k)
  <2>1. PICK k \in Kitchen : Cooks(k) BY <1>1
  <2>2. PICK c, i : c = korder[k].cust /\ i = korder[k].idx OBVIOUS
  <2>3. /\ c \in Customer /\ i \in Uncooked(c)
        /\ \A e \in Customer :
             /\ Uncooked(e)' = IF e = c THEN Uncooked(e) \ {i} ELSE Uncooked(e)
             /\ InString(e)' = IF e = c THEN InString(e) \cup {i} ELSE InString(e)
    BY <2>1, <2>2, CooksMake
  <2>4. \A e : Positions(e)' = Positions(e)
    BY <2>1 DEF Cooks, KCookFirst, KCookAppend, serveVars, Positions
  <2>5. i \in Positions(c)
    BY <2>3 DEF Uncooked, Left, Unissued, Queued, Held
  <2>6. ASSUME NEW e \in Customer PROVE InString(e)' = Positions(e)' \ Uncooked(e)'
    <3>1. InString(e) = Positions(e) \ Uncooked(e) BY DEF StringIsMade
    <3> QED BY <2>3, <2>4, <2>5, <3>1
  <2> QED BY <2>6 DEF StringIsMade
<1>2. CASE \A k \in Kitchen : ~KCookFirst(k) /\ ~KCookAppend(k)
  <2>1. ASSUME NEW e \in Customer PROVE InString(e)' = Positions(e)' \ Uncooked(e)'
    <3>1. InString(e) = Positions(e) \ Uncooked(e) BY DEF StringIsMade
    <3>2. SameString(e) \/ NewString(e) BY <1>2, StringIsKept
    <3>3. InString(e)' = InString(e)
      BY <3>2 DEF SameString, NewString, InString
    <3> QED BY <3>1, <3>2, <3>3 DEF SameString, NewString
  <2> QED BY <2>1 DEF StringIsMade
<1> QED BY <1>1, <1>2 DEF Cooks

LEMMA OwedStep ==
  ASSUME "spurious_wakeup" \notin Faults, Core, Handed, OwedIsOrdered, [Next]_vars
  PROVE  OwedIsOrdered'
<1> USE DEF OwedIsOrdered, KGoto, listVars, seatVars, procVars, mainVars, kitchenVars,
            serveVars, orderVars
<1>0. spc \in [Customer -> ServePC] /\ remain \in [Customer -> Int]
  BY DEF Core, Typed, TypedServe, TypedOrders
<1>1. CASE Acceptor
  <2>1. UNCHANGED remain
    BY <1>1 DEF Acceptor, Accept, Handle, Admit, Refuse, Spawn, DetachUndefined, AcceptFails
  <2>2. \/ spc' = spc
        \/ \E c \in Customer, pc \in {"accepted", "refused", "visit", "abandoned"} :
             spc[c] \in {"outside", "accepted"} /\ spc' = [spc EXCEPT ![c] = pc]
    BY <1>1
    DEF Acceptor, Accept, Handle, Admit, Refuse, Spawn, DetachUndefined, AcceptFails, Goto, Core,
        ConnectionAccepted
  <2> QED BY <1>0, <2>1, <2>2
<1>2. CASE Halting \/ UNCHANGED vars
  BY <1>2 DEF Halting, Interrupt, ExitAfterSleep, SecondInterrupt, SendKills, Stopped, vars
<1>3. ASSUME NEW c \in Customer, Serve(c) PROVE OwedIsOrdered'
  <2>1. CASE Receive(c) \/ ReceiveNothing(c)
    <3>1. /\ spc' = [spc EXCEPT ![c] = "issue"]
          /\ \E n : remain' = [remain EXCEPT ![c] = n]
      BY <2>1 DEF Receive, ReceiveNothing, StartIssue
    <3> QED BY <1>0, <3>1
  <2>2. CASE ~(Receive(c) \/ ReceiveNothing(c))
    <3>1. UNCHANGED remain
      BY <1>3, <2>2
      DEF Serve, Proceed, Arrives, Visit, Welcome, Reject, Issue, Issued, Wait,
          SpuriousWakeup, HandOver, SkipHandOver, CleanUp, Leave, ServeUndefined
    <3>2. \/ spc' = spc
          \/ \E pc : spc' = [spc EXCEPT ![c] = pc] /\ spc[c] \notin {"issue", "wait", "waiting"}
          \/ \E pc \in {"wait", "waiting"} : spc' = [spc EXCEPT ![c] = pc]
      BY <1>3, <2>2
      DEF Serve, Proceed, Arrives, Visit, Welcome, Reject, Issue, Issued, Wait,
          SpuriousWakeup, HandOver, SkipHandOver, CleanUp, Leave, ServeUndefined
    <3> QED BY <1>0, <3>1, <3>2
  <2> QED BY <2>1, <2>2
<1>4. ASSUME NEW k \in Kitchen, Kitchens(k) PROVE OwedIsOrdered'
  <2>1. CASE KDecrement(k)
    <3>1. PICK c \in Customer : korder[k].cust = c /\ remain[c] # 0
      BY <2>1, DecrementPositive
    <3>2. /\ remain' = [remain EXCEPT ![c] = remain[c] - 1] /\ UNCHANGED spc
      BY <2>1, <3>1 DEF KDecrement
    <3> QED BY <1>0, <3>1, <3>2
  <2>2. CASE KSignal(k)
    <3>1. PICK c : c = korder[k].cust OBVIOUS
    <3>2. c \in Customer /\ remain[c] = 0
      BY <2>2, <3>1, OrderOfKitchen DEF KSignal, UsesOrder, Core, Typed, Handed, Signals
    <3>3. UNCHANGED remain /\ \A d \in Customer \ {c} : spc'[d] = spc[d]
      BY <1>0, <2>2, <3>1 DEF KSignal
    <3> QED BY <3>2, <3>3
  <2>3. CASE ~KDecrement(k) /\ ~KSignal(k)
    BY <1>4, <2>3
    DEF Kitchens, Cook, KLoop, KPeek, KSleep, KDequeue, KDequeueNothing, KLockOrder,
        KCookFirst, KCookCopy, KCookAppend, KUnlockOrder, KCount, KUseAfterFree
  <2> QED BY <2>1, <2>2, <2>3
<1> QED BY <1>1, <1>2, <1>3, <1>4 DEF Next, Halting

LEMMA HasRequestStep ==
  ASSUME "peer_closes" \notin Faults, Core, OrderedHasRequest, [Next]_vars
  PROVE  OrderedHasRequest'
<1> USE DEF OrderedHasRequest, listVars, seatVars, procVars, mainVars, kitchenVars,
            serveVars, orderVars
<1>0. spc \in [Customer -> ServePC] /\ request \in [Customer -> {<<>>} \cup Requests]
  BY DEF Core, Typed, TypedServe
<1>1. CASE Acceptor
  BY <1>0, <1>1 DEF Acceptor, Accept, Handle, Admit, Refuse, Spawn, DetachUndefined, AcceptFails
<1>2. CASE Halting \/ UNCHANGED vars
  BY <1>2 DEF Halting, Interrupt, ExitAfterSleep, SecondInterrupt, SendKills, Stopped, vars
<1>3. ASSUME NEW c \in Customer, Serve(c) PROVE OrderedHasRequest'
  <2>1. CASE Receive(c)
    <3>1. PICK r \in Requests : StartIssue(c, r) BY <2>1 DEF Receive
    <3>2. r # <<>> BY RequestsAssumption
    <3> QED BY <1>0, <3>1, <3>2 DEF StartIssue
  <2>2. ~ReceiveNothing(c) BY DEF ReceiveNothing
  <2> QED
    BY <1>0, <1>3, <2>1, <2>2
    DEF Serve, Proceed, Arrives, Visit, Welcome, Reject, Issue, Issued, Wait,
        SpuriousWakeup, HandOver, SkipHandOver, CleanUp, Leave, ServeUndefined
<1>4. ASSUME NEW k \in Kitchen, Kitchens(k) PROVE OrderedHasRequest'
  BY <1>0, <1>4
  DEF Kitchens, Cook, KLoop, KPeek, KSleep, KDequeue, KDequeueNothing, KLockOrder,
      KCookFirst, KCookCopy, KCookAppend, KUnlockOrder, KDecrement, KSignal, KCount,
      KUseAfterFree
<1> QED BY <1>1, <1>2, <1>3, <1>4 DEF Next, Halting

(***************************************************************************)
(* What the refinement reads of a state.                                   *)
(***************************************************************************)
Mapped ==
  /\ Core /\ CopyIsString /\ Handed /\ SeatsAreCounted /\ RepliedIsServed
  /\ StringIsMade /\ OwedIsOrdered /\ OrderedHasRequest

LEMMA MappedHolds ==
  Faults \cap {"spurious_wakeup", "peer_closes"} = {} => (Spec => []Mapped)
<1> SUFFICES ASSUME Faults \cap {"spurious_wakeup", "peer_closes"} = {}
             PROVE  Spec => []Mapped
  OBVIOUS
<1>1. "spurious_wakeup" \notin Faults /\ "peer_closes" \notin Faults
  OBVIOUS
<1> DEFINE IInv == /\ CooksHold /\ CopyIsString /\ RepliedIsServed /\ StringIsMade
                   /\ OwedIsOrdered /\ OrderedHasRequest
<1>2. Init => IInv
  <2> SUFFICES ASSUME Init PROVE IInv
    OBVIOUS
  <2>1. CooksHold /\ CopyIsString /\ RepliedIsServed /\ OwedIsOrdered /\ OrderedHasRequest
    BY DEF Init, CooksHold, CopyIsString, RepliedIsServed, OwedIsOrdered, OrderedHasRequest
  <2>2. \A c \in Customer : InString(c) = {} /\ Positions(c) = {}
    BY DEF Init, InString, Positions
  <2> QED BY <2>1, <2>2 DEF StringIsMade
<1>3. Core /\ Handed /\ IInv /\ [Next]_vars => IInv'
  BY <1>1, CooksHoldStep, CopyStep, RepliedStep, MadeStep, OwedStep, HasRequestStep
<1>4. Core /\ Handed /\ SeatsAreCounted /\ IInv => Mapped
  BY DEF Mapped
<1>5. Spec => []Handed BY <1>1, HandedHolds
<1> HIDE DEF IInv
<1> QED BY <1>2, <1>3, <1>4, <1>5, CoreHolds, SeatsCorrect, PTL DEF Spec
(***************************************************************************)
(* The steps of the shop, from what a step of the server does to the       *)
(* phases, the requests, the strings and the process.                      *)
(***************************************************************************)
SamePhases(S) == \A d \in S : Phase(d)' = Phase(d)

LEMMA ShopStutter ==
  ASSUME UNCHANGED <<request, orderStr, proc>>, SamePhases(Customer)
  PROVE  UNCHANGED BurgerShop!shopVars
<1>1. [c \in Customer |-> Phase(c)]' = [c \in Customer |-> Phase(c)]
  BY DEF SamePhases
<1>2. [c \in Customer |-> InString(c)]' = [c \in Customer |-> InString(c)]
  BY DEF InString
<1> QED BY <1>1, <1>2 DEF BurgerShop!shopVars

LEMMA ShopCloses ==
  ASSUME proc = "running", proc' # "running",
         UNCHANGED <<request, orderStr, spc, reply, apc, aconn, kpc, korder, remain>>
  PROVE  BurgerShop!Close
<1>1. [c \in Customer |-> Phase(c)]' = [c \in Customer |-> Phase(c)]
  BY DEF Phase, Forgotten
<1>2. [c \in Customer |-> InString(c)]' = [c \in Customer |-> InString(c)]
  BY DEF InString
<1> QED BY <1>1, <1>2 DEF BurgerShop!Close

LEMMA ShopMoves ==
  ASSUME NEW c \in Customer, NEW from, NEW to,
         proc = "running", Phase(c) = from, Phase(c)' = to, SamePhases(Customer \ {c})
  PROVE  BurgerShop!Move(c, from, to)
<1>1. [d \in Customer |-> Phase(d)]' = [[d \in Customer |-> Phase(d)] EXCEPT ![c] = to]
  BY DEF SamePhases
<1> QED BY <1>1 DEF BurgerShop!Move

\* A step of the serving thread of c moves nobody else.
LEMMA ServePhase ==
  ASSUME PhaseTable, PhaseTable', NEW c \in Customer, UNCHANGED <<apc, aconn>>,
         spc[c] # "accepted", spc'[c] # "accepted", UNCHANGED <<kpc, korder>>,
         \A d \in Customer \ {c} : /\ spc'[d] = spc[d] /\ reply'[d] = reply[d]
                                   /\ request'[d] = request[d] /\ remain'[d] = remain[d]
  PROVE  /\ SamePhases(Customer \ {c})
         /\ Phase(c) = ServingPhase(spc[c], reply[c] # <<>>, Forgotten(c))
         /\ Phase(c)' = ServingPhase(spc'[c], reply'[c] # <<>>, Forgotten(c)')
<1>1. \A d \in Customer \ {c} : Forgotten(d)' <=> Forgotten(d) BY DEF Forgotten
<1>2. \A d \in Customer \ {c} : Phase(d)' = Phase(d) BY <1>1 DEF Phase
<1> QED BY <1>2 DEF PhaseTable, SamePhases

\* With no burger owed every burger is in the string.
LEMMA NothingOwed ==
  ASSUME Core, StringIsMade, NEW c \in Customer, remain[c] = 0
  PROVE  InString(c) = Positions(c)
<1>1. Pending(c) = {}
  BY PendingIsFinite, FS_EmptySet DEF Core, Typed, RemainIsPending
<1>2. Uncooked(c) \subseteq Pending(c)
  BY DEF Uncooked, Left, Pending, Held, ToCook, BeforeDecrement, UsesOrder
<1> QED BY <1>1, <1>2 DEF StringIsMade

ShopStep == BurgerShop!ShopNext \/ UNCHANGED BurgerShop!shopVars

LEMMA ServeImplements ==
  ASSUME Faults \cap {"spurious_wakeup", "peer_closes"} = {}, Mapped, PhaseTable, PhaseTable',
         NEW c \in Customer, Serve(c)
  PROVE  ShopStep
<1> USE DEF listVars, seatVars, procVars, mainVars, kitchenVars, serveVars, orderVars,
            Mapped
<1>0. /\ spc \in [Customer -> ServePC] /\ reply \in [Customer -> Seq(0..MAX_BURGERS)]
      /\ proc = "running" /\ request \in [Customer -> {<<>>} \cup Requests]
      /\ remain \in [Customer -> Int]
  BY DEF Core, Typed, TypedServe, TypedOrders, Serve
<1>1. ~SpuriousWakeup(c) /\ ~ReceiveNothing(c)
  BY DEF SpuriousWakeup, ReceiveNothing
<1>2. reply[c] # <<>> => spc[c] \in {"cleanup", "leave", "error", "gone"}
  BY DEF RepliedIsServed
<1>3. CASE Visit(c) \/ Welcome(c) \/ Reject(c)
  <2>1. /\ UNCHANGED <<apc, aconn, reply, request, remain, orderStr, kpc, korder, proc>>
        /\ reply[c] = <<>>
        /\ spc[c] \in {"visit", "welcome", "receive"}
        /\ \E pc \in {"welcome", "receive", "error", "leaked"} : spc' = [spc EXCEPT ![c] = pc]
    BY <1>2, <1>3 DEF Visit, Welcome, Reject
  <2>2. /\ spc'[c] \in {"welcome", "receive", "error", "leaked"}
        /\ \A d \in Customer \ {c} : spc'[d] = spc[d]
    BY <1>0, <2>1
  <2>3. /\ SamePhases(Customer \ {c})
        /\ Phase(c) = ServingPhase(spc[c], reply[c] # <<>>, Forgotten(c))
        /\ Phase(c)' = ServingPhase(spc'[c], reply'[c] # <<>>, Forgotten(c)')
    BY <2>1, <2>2, ServePhase
  <2>4. Phase(c) = "inside" /\ Phase(c)' = "inside"
    BY <2>1, <2>2, <2>3 DEF ServingPhase
  <2> QED BY <2>1, <2>3, <2>4, ShopStutter DEF SamePhases, ShopStep
<1>4. CASE Issue(c) \/ Issued(c) \/ Wait(c)
  <2>1. /\ UNCHANGED <<apc, aconn, reply, request, remain, orderStr, kpc, korder, proc>>
        /\ spc[c] \in {"issue", "wait"}
        /\ spc' = spc \/ \E pc \in {"wait", "waiting"} : spc' = [spc EXCEPT ![c] = pc]
    BY <1>4 DEF Issue, Issued, Wait
  <2>2. /\ spc'[c] \in {"issue", "wait", "waiting"}
        /\ \A d \in Customer \ {c} : spc'[d] = spc[d]
    BY <1>0, <2>1
  <2>3. /\ SamePhases(Customer \ {c})
        /\ Phase(c) = ServingPhase(spc[c], reply[c] # <<>>, Forgotten(c))
        /\ Phase(c)' = ServingPhase(spc'[c], reply'[c] # <<>>, Forgotten(c)')
    BY <2>1, <2>2, ServePhase
  <2>4. Forgotten(c)' <=> Forgotten(c)
    BY <2>1, <2>2 DEF Forgotten
  <2>5. Phase(c)' = Phase(c)
    BY <2>1, <2>2, <2>3, <2>4 DEF ServingPhase
  <2> QED BY <2>1, <2>3, <2>5, ShopStutter DEF SamePhases, ShopStep
<1>5. CASE CleanUp(c)
  <2>1. /\ UNCHANGED <<apc, aconn, reply, request, remain, orderStr, kpc, korder, proc>>
        /\ spc[c] = "cleanup" /\ spc' = [spc EXCEPT ![c] = "leave"]
    BY <1>5 DEF CleanUp
  <2>2. spc'[c] = "leave" /\ \A d \in Customer \ {c} : spc'[d] = spc[d]
    BY <1>0, <2>1
  <2>3. /\ SamePhases(Customer \ {c})
        /\ Phase(c) = ServingPhase(spc[c], reply[c] # <<>>, Forgotten(c))
        /\ Phase(c)' = ServingPhase(spc'[c], reply'[c] # <<>>, Forgotten(c)')
    BY <2>1, <2>2, ServePhase
  <2>4. Phase(c) = "served" /\ Phase(c)' = "served"
    BY <2>1, <2>2, <2>3 DEF ServingPhase
  <2> QED BY <2>1, <2>3, <2>4, ShopStutter DEF SamePhases, ShopStep
<1>6. CASE Receive(c)
  <2>1. PICK r \in Requests : StartIssue(c, r) BY <1>6 DEF Receive
  <2>2. /\ UNCHANGED <<apc, aconn, reply, orderStr, kpc, korder, proc>> /\ spc[c] = "receive"
        /\ request' = [request EXCEPT ![c] = r] /\ spc' = [spc EXCEPT ![c] = "issue"]
        /\ remain' = [remain EXCEPT ![c] = Len(r)]
    BY <1>6, <2>1 DEF Receive, StartIssue, BurgerCount
  <2>3. /\ spc'[c] = "issue" /\ remain'[c] = Len(r)
        /\ \A d \in Customer \ {c} :
             spc'[d] = spc[d] /\ request'[d] = request[d] /\ remain'[d] = remain[d]
    BY <1>0, <2>2
  <2>4. /\ SamePhases(Customer \ {c})
        /\ Phase(c) = ServingPhase(spc[c], reply[c] # <<>>, Forgotten(c))
        /\ Phase(c)' = ServingPhase(spc'[c], reply'[c] # <<>>, Forgotten(c)')
    BY <2>2, <2>3, ServePhase
  <2>5. Phase(c) = "inside" /\ Phase(c)' = "ordered"
    <3>1. ~Forgotten(c)' BY <2>3, RequestsAssumption DEF Forgotten
    <3> QED BY <2>2, <2>3, <2>4, <3>1 DEF ServingPhase
  <2>6. BurgerShop!Move(c, "inside", "ordered")
    BY <1>0, <2>4, <2>5, ShopMoves
  <2>7. [d \in Customer |-> InString(d)]' = [d \in Customer |-> InString(d)]
    BY <2>2 DEF InString
  <2>8. BurgerShop!Order(c) BY <2>2, <2>6, <2>7 DEF BurgerShop!Order
  <2> QED BY <2>8 DEF ShopStep, BurgerShop!ShopNext
<1>7. CASE HandOver(c) \/ SkipHandOver(c)
  <2>1. spc[c] = "woken" /\ remain[c] = 0
    BY <1>7 DEF HandOver, SkipHandOver, Handed, ReleasedIsDone, Released
  <2>2. HandOver(c) BY <1>7, <2>1 DEF SkipHandOver, Completed
  <2>3. /\ UNCHANGED <<apc, aconn, request, remain, orderStr, kpc, korder, proc>>
        /\ reply' = [reply EXCEPT ![c] = orderStr[c]]
        /\ \E pc \in {"cleanup", "error"} : spc' = [spc EXCEPT ![c] = pc]
    BY <2>2 DEF HandOver
  <2>4. /\ spc'[c] \in {"cleanup", "error"} /\ reply'[c] = orderStr[c]
        /\ \A d \in Customer \ {c} : spc'[d] = spc[d] /\ reply'[d] = reply[d]
    BY <1>0, <2>3
  <2>5. InString(c) = Positions(c) BY <2>1, NothingOwed
  <2>6. reply'[c] # <<>>
    <3>1. request[c] # <<>> /\ request[c] \in Requests
      BY <1>0, <2>1 DEF OrderedHasRequest
    <3>2. Len(request[c]) \in 1..MAX_BURGERS BY <3>1, RequestsAssumption
    <3>3. 1 \in Positions(c) BY <3>2, RequestsAssumption DEF Positions
    <3>4. InString(c) # {} BY <2>5, <3>3
    <3> QED BY <2>4, <3>4 DEF InString
  <2>7. /\ SamePhases(Customer \ {c})
        /\ Phase(c) = ServingPhase(spc[c], reply[c] # <<>>, Forgotten(c))
        /\ Phase(c)' = ServingPhase(spc'[c], reply'[c] # <<>>, Forgotten(c)')
    BY <2>1, <2>3, <2>4, ServePhase
  <2>8. Phase(c) = "ordered" /\ Phase(c)' = "served"
    <3>1. ~Forgotten(c) BY <2>1 DEF Forgotten
    <3> QED BY <2>1, <2>4, <2>6, <2>7, <3>1 DEF ServingPhase
  <2>9. BurgerShop!Move(c, "ordered", "served")
    BY <1>0, <2>7, <2>8, ShopMoves
  <2>10. [d \in Customer |-> InString(d)]' = [d \in Customer |-> InString(d)]
    BY <2>3 DEF InString
  <2>11. BurgerShop!HandOver(c)
    BY <2>3, <2>5, <2>9, <2>10 DEF BurgerShop!HandOver, Positions
  <2> QED BY <2>11 DEF ShopStep, BurgerShop!ShopNext
<1>8. CASE Leave(c)
  <2>1. /\ UNCHANGED <<apc, aconn, reply, request, remain, orderStr, kpc, korder, proc>>
        /\ spc[c] \in {"leave", "error"} /\ spc' = [spc EXCEPT ![c] = "gone"]
    BY <1>8 DEF Leave
  <2>2. spc'[c] = "gone" /\ \A d \in Customer \ {c} : spc'[d] = spc[d]
    BY <1>0, <2>1
  <2>3. /\ SamePhases(Customer \ {c})
        /\ Phase(c) = ServingPhase(spc[c], reply[c] # <<>>, Forgotten(c))
        /\ Phase(c)' = ServingPhase(spc'[c], reply'[c] # <<>>, Forgotten(c)')
    BY <2>1, <2>2, ServePhase
  <2>4. Phase(c) \in {"inside", "served"} /\ Phase(c)' = "gone"
    BY <2>1, <2>2, <2>3 DEF ServingPhase
  <2>5. BurgerShop!Move(c, "inside", "gone") \/ BurgerShop!Move(c, "served", "gone")
    BY <1>0, <2>3, <2>4, ShopMoves
  <2>6. [d \in Customer |-> InString(d)]' = [d \in Customer |-> InString(d)]
    BY <2>1 DEF InString
  <2>7. BurgerShop!LeaveShop(c)
    BY <2>1, <2>5, <2>6 DEF BurgerShop!LeaveShop
  <2> QED BY <2>7 DEF ShopStep, BurgerShop!ShopNext
<1>9. CASE ServeUndefined(c)
  <2>1. BurgerShop!Close
    BY <1>0, <1>9, ShopCloses DEF ServeUndefined, Undefined
  <2> QED BY <2>1 DEF ShopStep, BurgerShop!ShopNext
<1> QED
  BY <1>1, <1>3, <1>4, <1>5, <1>6, <1>7, <1>8, <1>9 DEF Serve, Proceed, Arrives
LEMMA KitchenImplements ==
  ASSUME Mapped, PhaseTable, PhaseTable', NEW k \in Kitchen, Kitchens(k)
  PROVE  ShopStep
<1> USE DEF listVars, seatVars, procVars, mainVars, kitchenVars, serveVars, orderVars,
            Mapped
<1>0. /\ spc \in [Customer -> ServePC] /\ proc = "running"
      /\ kpc \in [Kitchen -> KitchenPC] /\ remain \in [Customer -> Int]
      /\ korder \in [Kitchen -> NodeSet \cup {NoNode}]
  BY DEF Core, Typed, TypedServe, TypedKitchens, TypedOrders, Kitchens
<1>1. ASSUME UNCHANGED <<spc, reply, apc, aconn, request, orderStr, proc>>,
             \A c \in Customer : Forgotten(c)' <=> Forgotten(c)
      PROVE  ShopStep
  <2>1. SamePhases(Customer) BY <1>1 DEF SamePhases, Phase
  <2> QED BY <1>1, <2>1, ShopStutter DEF ShopStep
<1>2. CASE Cooks(k)
  <2>1. PICK c, i : c = korder[k].cust /\ i = korder[k].idx OBVIOUS
  <2>2. /\ c \in Customer /\ i \in Uncooked(c)
        /\ \A e \in Customer :
             InString(e)' = IF e = c THEN InString(e) \cup {i} ELSE InString(e)
    BY <1>2, <2>1, CooksMake
  <2>3. /\ UNCHANGED <<spc, reply, apc, aconn, request, remain, korder, proc>>
        /\ kpc[k] # "signal" /\ kpc'[k] # "signal" /\ \A h \in Kitchen \ {k} : kpc'[h] = kpc[h]
    BY <1>0, <1>2 DEF Cooks, KCookFirst, KCookAppend, KGoto
  <2>4. [d \in Customer |-> Phase(d)]' = [d \in Customer |-> Phase(d)]
    <3>1. \A d \in Customer : Forgotten(d)' <=> Forgotten(d) BY <2>3 DEF Forgotten
    <3> QED BY <2>3, <3>1 DEF Phase
  <2>5. Phase(c) = "ordered"
    <3>1. i \in Pending(c)
      BY <2>2 DEF Uncooked, Left, Pending, Held, ToCook, BeforeDecrement, UsesOrder
    <3>2. Cardinality(Pending(c)) # 0
      BY <2>2, <3>1, PendingIsFinite, FS_EmptySet DEF Core, Typed
    <3>3. remain[c] # 0 BY <2>2, <3>2 DEF Core, RemainIsPending
    <3>4. spc[c] \in {"issue", "wait", "waiting"} /\ ~Forgotten(c)
      BY <2>2, <3>3 DEF OwedIsOrdered, Forgotten
    <3> QED BY <2>2, <3>4 DEF PhaseTable, ServingPhase, Attempted
  <2>6. i \in Positions(c) \ InString(c)
    BY <2>2 DEF StringIsMade, Uncooked, Left, Unissued, Queued, Held
  <2>7. [d \in Customer |-> InString(d)]'
          = [[d \in Customer |-> InString(d)] EXCEPT ![c] = InString(c) \cup {i}]
    BY <2>2
  <2>8. BurgerShop!Make(c)
    BY <1>0, <2>2, <2>3, <2>4, <2>5, <2>6, <2>7 DEF BurgerShop!Make, Positions
  <2> QED BY <2>2, <2>8 DEF ShopStep, BurgerShop!ShopNext
<1>3. CASE KSignal(k)
  <2>1. PICK c \in Customer : korder[k].cust = c
    BY <1>3, OrderOfKitchen DEF KSignal, UsesOrder, Core, Typed
  <2>2. /\ UNCHANGED <<reply, apc, aconn, request, remain, korder, orderStr, proc>>
        /\ spc' = IF spc[c] = "waiting" THEN [spc EXCEPT ![c] = "woken"] ELSE spc
        /\ kpc[k] = "signal" /\ kpc' = [kpc EXCEPT ![k] = "count"]
    BY <1>3, <2>1 DEF KSignal, KGoto
  <2>3. /\ spc'[c] = IF spc[c] = "waiting" THEN "woken" ELSE spc[c]
        /\ \A d \in Customer \ {c} : spc'[d] = spc[d]
        /\ kpc'[k] = "count" /\ \A h \in Kitchen \ {k} : kpc'[h] = kpc[h]
    BY <1>0, <2>2
  <2>4. SamePhases(Customer \ {c})
    <3>1. \A d \in Customer \ {c} : Forgotten(d)' <=> Forgotten(d)
      BY <2>1, <2>2, <2>3 DEF Forgotten
    <3> QED BY <2>2, <2>3, <3>1 DEF SamePhases, Phase
  <2>5. /\ remain[c] = 0 /\ ~Forgotten(c)
        /\ \A h \in Kitchen : kpc'[h] = "signal" => korder[h].cust # c
    BY <2>1, <2>2, <2>3 DEF Handed, Signals, Forgotten
  <2>6. CASE spc[c] \in {"issue", "wait"}
    <3>1. Forgotten(c)'
      BY <2>2, <2>3, <2>5, <2>6 DEF Forgotten, OrderedHasRequest
    <3>2. Phase(c) = "ordered" /\ Phase(c)' = "forgotten"
      BY <2>2, <2>3, <2>5, <2>6, <3>1 DEF PhaseTable, ServingPhase, Attempted
    <3>3. BurgerShop!Move(c, "ordered", "forgotten")
      BY <1>0, <2>4, <3>2, ShopMoves
    <3>4. InString(c) = Positions(c) BY <2>5, NothingOwed
    <3>5. [d \in Customer |-> InString(d)]' = [d \in Customer |-> InString(d)]
      BY <2>2 DEF InString
    <3>6. BurgerShop!Forget(c)
      BY <2>2, <3>3, <3>4, <3>5 DEF BurgerShop!Forget, Positions
    <3> QED BY <3>6 DEF ShopStep, BurgerShop!ShopNext
  <2>7. CASE spc[c] \notin {"issue", "wait"}
    <3>1. ~Forgotten(c)' BY <2>3, <2>7 DEF Forgotten
    <3>2. Phase(c)' = Phase(c)
      <4>1. CASE spc[c] = "waiting"
        <5>1. Phase(c) = "ordered" /\ Phase(c)' = "ordered"
          BY <2>3, <2>5, <3>1, <4>1 DEF PhaseTable, ServingPhase, Attempted
        <5> QED BY <5>1
      <4>2. CASE spc[c] # "waiting"
        BY <2>2, <2>3, <2>5, <3>1, <4>2 DEF Phase
      <4> QED BY <4>1, <4>2
    <3> QED BY <2>2, <2>4, <3>2, ShopStutter DEF SamePhases, ShopStep
  <2> QED BY <2>6, <2>7
<1>4. CASE KUseAfterFree(k)
  <2>1. BurgerShop!Close
    BY <1>0, <1>4, ShopCloses DEF KUseAfterFree, Undefined
  <2> QED BY <2>1 DEF ShopStep, BurgerShop!ShopNext
<1>5. CASE KDecrement(k)
  <2>1. PICK c \in Customer : korder[k].cust = c /\ remain[c] # 0
    BY <1>5, DecrementPositive
  <2>2. /\ UNCHANGED <<spc, reply, apc, aconn, request, korder, orderStr, proc>>
        /\ remain' = [remain EXCEPT ![c] = remain[c] - 1] /\ kpc[k] = "decrement"
        /\ kpc' = [kpc EXCEPT ![k] = IF LastBurger(remain[c] - 1) THEN "signal"
                                                                  ELSE "count"]
    BY <1>5, <2>1 DEF KDecrement, KGoto
  <2>3. ~Forgotten(c) /\ ~Forgotten(c)'
    <3>1. remain'[c] = 0 => kpc'[k] = "signal" BY <1>0, <2>2 DEF LastBurger
    <3> QED BY <2>1, <2>2, <3>1 DEF Forgotten
  <2>4. \A d \in Customer \ {c} : Forgotten(d)' <=> Forgotten(d)
    <3>1. \A d \in Customer \ {c} : remain'[d] = remain[d] BY <1>0, <2>2
    <3>2. \A h \in Kitchen \ {k} : kpc'[h] = kpc[h] BY <1>0, <2>2
    <3> QED BY <2>1, <2>2, <3>1, <3>2 DEF Forgotten
  <2> QED BY <1>1, <2>2, <2>3, <2>4
<1>6. CASE ~Cooks(k) /\ ~KSignal(k) /\ ~KUseAfterFree(k) /\ ~KDecrement(k)
  <2>1. /\ UNCHANGED <<spc, reply, apc, aconn, request, remain, orderStr, proc>>
        /\ kpc[k] # "signal" /\ kpc'[k] # "signal"
        /\ \A h \in Kitchen \ {k} : kpc'[h] = kpc[h] /\ korder'[h] = korder[h]
    <3>1. CASE KDequeue(k) \/ KCount(k)
      BY <1>0, <3>1 DEF KDequeue, KCount, KGoto
    <3>2. CASE ~(KDequeue(k) \/ KCount(k))
      BY <1>0, <1>6, <3>2
      DEF Kitchens, Cook, Cooks, KLoop, KPeek, KSleep, KDequeueNothing,
          KLockOrder, KCookCopy, KUnlockOrder, KGoto
    <3> QED BY <3>1, <3>2
  <2>2. \A d \in Customer : Forgotten(d)' <=> Forgotten(d)
    BY <2>1 DEF Forgotten
  <2> QED BY <1>1, <2>1, <2>2
<1> QED BY <1>2, <1>3, <1>4, <1>5, <1>6

\* The shop and the server count with the same operator.
LEMMA SameCardinality == \A S : BurgerShop!Cardinality(S) = Cardinality(S)
BY DEF BurgerShop!Cardinality, Cardinality

LEMMA AcceptorImplements ==
  ASSUME Mapped, Core', PhaseTable, PhaseTable', Acceptor
  PROVE  ShopStep
<1> USE DEF listVars, seatVars, procVars, mainVars, kitchenVars, serveVars, orderVars,
            Mapped, Goto
<1>0. /\ spc \in [Customer -> ServePC] /\ proc = "running"
      /\ apc # "accept" => aconn \in Customer /\ spc[aconn] = "accepted"
  BY DEF Core, Typed, TypedServe, Acceptor, ConnectionAccepted
<1>1. ASSUME NEW c \in Customer, Accept(c) PROVE ShopStep
  <2>1. /\ UNCHANGED <<reply, request, remain, orderStr, kpc, korder, proc>>
        /\ apc = "accept" /\ apc' = "admit" /\ spc[c] = "outside"
        /\ spc' = [spc EXCEPT ![c] = "accepted"]
    BY <1>1 DEF Accept
  <2>2. \A d \in Customer : ~Attempted(d) /\ ~Attempted(d)'
    BY <2>1 DEF Attempted
  <2>3. ASSUME NEW d \in Customer PROVE Phase(d)' = Phase(d)
    <3>1. /\ Phase(d) = ServingPhase(spc[d], reply[d] # <<>>, Forgotten(d))
          /\ Phase(d)' = ServingPhase(spc'[d], reply'[d] # <<>>, Forgotten(d)')
      BY <2>2 DEF PhaseTable
    <3>2. CASE d = c
      <4>1. spc[d] = "outside" /\ spc'[d] = "accepted" BY <1>0, <2>1, <3>2
      <4> QED BY <3>1, <4>1 DEF ServingPhase
    <3>3. CASE d # c
      <4>1. spc'[d] = spc[d] /\ reply'[d] = reply[d] BY <1>0, <2>1, <3>3
      <4>2. Forgotten(d)' <=> Forgotten(d) BY <2>1, <4>1 DEF Forgotten
      <4> QED BY <3>1, <4>1, <4>2 DEF ServingPhase
    <3> QED BY <3>2, <3>3
  <2> QED BY <2>1, <2>3, ShopStutter DEF SamePhases, ShopStep
<1>2. CASE Admit
  <2>1. PICK c \in Customer : aconn = c /\ spc[c] = "accepted"
    BY <1>0, <1>2 DEF Admit
  <2>2. /\ UNCHANGED <<spc, aconn, reply, request, remain, orderStr, kpc, korder, proc>>
        /\ apc = "admit"
        /\ totalQueueing' = totalQueueing + 1
        /\ apc' = IF Exceeds(totalQueueing') THEN "refuse" ELSE "spawn"
    BY <1>2 DEF Admit
  <2>3. SamePhases(Customer \ {c})
    <3>1. \A d \in Customer : Forgotten(d)' <=> Forgotten(d) BY <2>2 DEF Forgotten
    <3> QED BY <2>1, <2>2, <3>1 DEF SamePhases, Phase
  <2>4. Phase(c) = "outside"
    <3>1. ~Attempted(c) BY <2>2 DEF Attempted
    <3> QED BY <2>1, <3>1 DEF PhaseTable, ServingPhase
  <2>5. Phase(c)' = IF apc' = "refuse" THEN "refused" ELSE "inside"
    <3>1. Attempted(c)' BY <2>1, <2>2 DEF Attempted
    <3> QED BY <3>1 DEF PhaseTable
  <2>6. {d \in Customer : Phase(d) \in {"inside", "ordered", "forgotten", "served"}} = Seated
    <3>1. ASSUME NEW d \in Customer
          PROVE  Phase(d) \in {"inside", "ordered", "forgotten", "served"}
                   <=> spc[d] \notin {"outside", "accepted", "refused", "gone"}
      <4>1. ~Attempted(d) BY <2>2 DEF Attempted
      <4>2. Phase(d) = ServingPhase(spc[d], reply[d] # <<>>, Forgotten(d))
        BY <4>1 DEF PhaseTable
      <4>3. spc[d] \in ServePC BY <1>0
      <4> QED BY <4>2, <4>3 DEF ServingPhase, ServePC, NoThread
    <3> QED BY <3>1 DEF Seated
  <2>7. BurgerShop!Inside = Seated
    BY <2>6 DEF BurgerShop!Inside
  <2>8. Cardinality(Seated) \in Int /\ CUSTOMER_MAX \in Int
    BY SeatedIsFinite, NumbersAssumption
  <2>9. totalQueueing' = Cardinality(Seated) + 1
    <3>1. totalQueueing = Cardinality(Seated) + 0 BY <2>2 DEF SeatsAreCounted
    <3> QED BY <2>2, <2>8, <3>1
  <2>10. [d \in Customer |-> InString(d)]' = [d \in Customer |-> InString(d)]
    BY <2>2 DEF InString
  <2>11. CASE Exceeds(totalQueueing')
    <3>1. Cardinality(BurgerShop!Inside) >= CUSTOMER_MAX
      BY <2>7, <2>8, <2>9, <2>11 DEF Exceeds
    <3>2. BurgerShop!Move(c, "outside", "refused")
      BY <1>0, <2>2, <2>3, <2>4, <2>5, <2>11, ShopMoves
    <3>3. BurgerShop!TurnAway(c)
      BY <2>2, <2>10, <3>1, <3>2, SameCardinality DEF BurgerShop!TurnAway
    <3> QED BY <3>3 DEF ShopStep, BurgerShop!ShopNext
  <2>12. CASE ~Exceeds(totalQueueing')
    <3>1. Cardinality(BurgerShop!Inside) < CUSTOMER_MAX
      BY <2>7, <2>8, <2>9, <2>12 DEF Exceeds
    <3>2. BurgerShop!Move(c, "outside", "inside")
      BY <1>0, <2>2, <2>3, <2>4, <2>5, <2>12, ShopMoves
    <3>3. BurgerShop!Enter(c)
      BY <2>2, <2>10, <3>1, <3>2, SameCardinality DEF BurgerShop!Enter
    <3> QED BY <3>3 DEF ShopStep, BurgerShop!ShopNext
  <2> QED BY <2>11, <2>12
<1>3. CASE Refuse \/ Spawn
  <2>1. PICK c \in Customer : aconn = c /\ spc[c] = "accepted"
    BY <1>0, <1>3 DEF Refuse, Spawn
  <2>2. /\ UNCHANGED <<reply, request, remain, orderStr, kpc, korder, proc>>
        /\ apc' = "accept"
        /\ \/ /\ apc = "refuse" /\ spc' = [spc EXCEPT ![c] = "refused"]
           \/ /\ apc = "spawn"
              /\ \E pc \in {"visit", "abandoned"} : spc' = [spc EXCEPT ![c] = pc]
    BY <1>3, <2>1 DEF Refuse, Spawn
  <2>3. \A d \in Customer \ {c} : spc'[d] = spc[d] /\ reply'[d] = reply[d]
    BY <1>0, <2>2
  <2>4. ASSUME NEW d \in Customer \ {c} PROVE Phase(d)' = Phase(d)
    <3>1. ~Attempted(d) /\ ~Attempted(d)' BY <2>1, <2>2 DEF Attempted
    <3>2. /\ Phase(d) = ServingPhase(spc[d], reply[d] # <<>>, Forgotten(d))
          /\ Phase(d)' = ServingPhase(spc'[d], reply'[d] # <<>>, Forgotten(d)')
      BY <3>1 DEF PhaseTable
    <3>3. Forgotten(d)' <=> Forgotten(d) BY <2>2, <2>3 DEF Forgotten
    <3> QED BY <2>3, <3>2, <3>3 DEF ServingPhase
  <2>5. Phase(c)' = Phase(c)
    <3>1. Attempted(c) /\ ~Attempted(c)' BY <2>1, <2>2 DEF Attempted
    <3>2. /\ Phase(c) = IF apc = "refuse" THEN "refused" ELSE "inside"
          /\ Phase(c)' = ServingPhase(spc'[c], reply'[c] # <<>>, Forgotten(c)')
      BY <3>1 DEF PhaseTable
    <3>3. \/ apc = "refuse" /\ spc'[c] = "refused"
          \/ apc = "spawn" /\ spc'[c] \in {"visit", "abandoned"}
      BY <1>0, <2>2
    <3> QED BY <3>2, <3>3 DEF ServingPhase
  <2> QED BY <2>2, <2>4, <2>5, ShopStutter DEF SamePhases, ShopStep
<1>4. CASE DetachUndefined \/ AcceptFails
  <2>1. BurgerShop!Close
    BY <1>0, <1>4, ShopCloses DEF DetachUndefined, AcceptFails, Undefined
  <2> QED BY <2>1 DEF ShopStep, BurgerShop!ShopNext
<1> QED BY <1>1, <1>2, <1>3, <1>4 DEF Acceptor, Handle

LEMMA ShopStarts == Init => BurgerShop!ShopInit
<1> SUFFICES ASSUME Init PROVE BurgerShop!ShopInit
  OBVIOUS
<1>1. \A c \in Customer : Phase(c) = "outside" /\ InString(c) = {}
  BY DEF Init, Phase, InString
<1>2. request = [c \in Customer |-> <<>>] /\ proc = "running"
  BY DEF Init
<1> QED BY <1>1, <1>2 DEF BurgerShop!ShopInit

LEMMA NextImplements ==
  ASSUME Faults \cap {"spurious_wakeup", "peer_closes"} = {}, Mapped, Core',
         PhaseTable, PhaseTable', [Next]_vars
  PROVE  [BurgerShop!ShopNext]_(BurgerShop!shopVars)
<1> SUFFICES ShopStep
  BY DEF ShopStep
<1>1. ASSUME UNCHANGED <<spc, reply, apc, aconn, request, remain, orderStr, kpc, korder, proc>>
      PROVE  ShopStep
  <2>1. SamePhases(Customer) BY <1>1 DEF SamePhases, Phase, Forgotten
  <2> QED BY <1>1, <2>1, ShopStutter DEF ShopStep
<1>2. CASE Interrupt \/ Stopped \/ UNCHANGED vars
  BY <1>1, <1>2
  DEF Interrupt, Stopped, vars, mainVars, kitchenVars, serveVars, orderVars, procVars
<1>3. CASE ExitAfterSleep \/ SecondInterrupt \/ SendKills
  <2>1. BurgerShop!Close
    BY <1>3, ShopCloses
    DEF ExitAfterSleep, SecondInterrupt, SendKills, mainVars, kitchenVars, serveVars, orderVars
  <2> QED BY <2>1 DEF ShopStep, BurgerShop!ShopNext
<1>4. CASE Acceptor BY <1>4, AcceptorImplements
<1>5. ASSUME NEW c \in Customer, Serve(c) PROVE ShopStep
  BY <1>5, ServeImplements
<1>6. ASSUME NEW k \in Kitchen, Kitchens(k) PROVE ShopStep
  BY <1>6, KitchenImplements
<1> QED BY <1>2, <1>3, <1>4, <1>5, <1>6 DEF Next, Halting

\* As long as pthread_cond_wait returns only when signalled and no client
\* closes its connection instead of ordering, every step of the threads is a
\* step of the shop or invisible in it: nobody gets more than the promised
\* seats, a customer is turned away only when all are taken, every burger is
\* made once, and an order is handed over when it is complete; a customer is
\* forgotten when the signal is lost.
THEOREM ServerImplementsShop ==
  Faults \cap {"spurious_wakeup", "peer_closes"} = {} => (Spec => BurgerShop!ShopSafety)
<1> SUFFICES ASSUME Faults \cap {"spurious_wakeup", "peer_closes"} = {}
             PROVE  Spec => BurgerShop!ShopSafety
  OBVIOUS
<1>1. Spec => []Mapped BY MappedHolds
<1>2. Mapped /\ Core' /\ PhaseTable /\ PhaseTable' /\ [Next]_vars
        => [BurgerShop!ShopNext]_(BurgerShop!shopVars)
  BY NextImplements
<1> QED BY <1>1, <1>2, CoreHolds, PhaseFacts, ShopStarts, PTL DEF Spec, BurgerShop!ShopSafety
=============================================================================
