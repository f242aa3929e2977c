----------------------------- MODULE BurgerShop -----------------------------
(***************************************************************************)
(* What the burger server promises its customers (src/PA5/README.md,       *)
(* "McDonalds Specification"), without threads, list, mutexes or signals:  *)
(* a bounded number of customers is inside, the rest is turned away, every *)
(* burger of an order is made once, and an order is handed over when all   *)
(* of its burgers are made.                                                *)
(***************************************************************************)
EXTENDS Naturals, Sequences, FiniteSets

CONSTANTS Customer, Requests, CUSTOMER_MAX

VARIABLES phase,   \* where each customer is
          wants,   \* the order of each customer
          made,    \* the positions of the order whose burger has been made
          open     \* the server runs

shopVars == <<phase, wants, made, open>>

Inside == {c \in Customer : phase[c] \in {"inside", "ordered", "forgotten", "served"}}

ShopInit ==
  /\ phase = [c \in Customer |-> "outside"]
  /\ wants = [c \in Customer |-> <<>>]
  /\ made = [c \in Customer |-> {}]
  /\ open = TRUE

Move(c, from, to) ==
  /\ open
  /\ phase[c] = from
  /\ phase' = [phase EXCEPT ![c] = to]

\* A customer takes a free seat ...
Enter(c) ==
  /\ Move(c, "outside", "inside")
  /\ Cardinality(Inside) < CUSTOMER_MAX
  /\ UNCHANGED <<wants, made, open>>

\* ... and is turned away only if there is none.
TurnAway(c) ==
  /\ Move(c, "outside", "refused")
  /\ Cardinality(Inside) >= CUSTOMER_MAX
  /\ UNCHANGED <<wants, made, open>>

Order(c) ==
  /\ Move(c, "inside", "ordered")
  /\ \E r \in Requests : wants' = [wants EXCEPT ![c] = r]
  /\ UNCHANGED <<made, open>>

Make(c) ==
  /\ open /\ phase[c] = "ordered"
  /\ \E i \in (1..Len(wants[c])) \ made[c] :
       made' = [made EXCEPT ![c] = @ \cup {i}]
  /\ UNCHANGED <<phase, wants, open>>

HandOver(c) ==
  /\ Move(c, "ordered", "served")
  /\ made[c] = 1..Len(wants[c])
  /\ UNCHANGED <<wants, made, open>>

\* What README.md does not say: a customer who has sat down too late to hear that
\* the order is ready may be left sitting, on its seat.
Forget(c) ==
  /\ Move(c, "ordered", "forgotten")
  /\ made[c] = 1..Len(wants[c])
  /\ UNCHANGED <<wants, made, open>>

\* The customer leaves with the burgers, or without having ordered any.
LeaveShop(c) ==
  /\ Move(c, "served", "gone") \/ Move(c, "inside", "gone")
  /\ UNCHANGED <<wants, made, open>>

Close == open /\ open' = FALSE /\ UNCHANGED <<phase, wants, made>>

ShopNext ==
  \/ \E c \in Customer : \/ Enter(c) \/ TurnAway(c) \/ Order(c) \/ Make(c)
                         \/ HandOver(c) \/ Forget(c) \/ LeaveShop(c)
  \/ Close

\* What may happen in the shop, and in which order.
ShopSafety == ShopInit /\ [][ShopNext]_shopVars

\* While the shop is open, orders are made, handed over unless they are forgotten,
\* and customers leave.
Shop ==
  /\ ShopSafety
  /\ \A c \in Customer : WF_shopVars(Make(c)) /\ WF_shopVars(HandOver(c))
                         /\ WF_shopVars(LeaveShop(c))
=============================================================================
