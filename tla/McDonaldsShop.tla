---------------------------- MODULE McDonaldsShop ----------------------------
(* The server implements the shop: the refinement mapping.                 *)
EXTENDS McDonalds

\* A customer is turned away when the acceptor finds the seats taken, and
\* inside from the moment the acceptor has counted the seat.
Phase(c) ==
  CASE c = aconn /\ apc = "refuse" -> "refused"
    [] c = aconn /\ apc = "spawn" -> "inside"
    [] spc[c] \in {"outside", "accepted"} /\ ~(c = aconn /\ apc \in {"refuse", "spawn"})
         -> "outside"
    [] spc[c] = "refused" -> "refused"
    [] spc[c] \in {"abandoned", "visit", "welcome", "receive", "leaked"} -> "inside"
    [] spc[c] \in {"issue", "wait", "waiting", "woken"} ->
         IF Forgotten(c) THEN "forgotten" ELSE "ordered"
    [] spc[c] \in {"cleanup", "leave"} -> "served"
    [] spc[c] = "error" -> IF reply[c] = <<>> THEN "inside" ELSE "served"
    [] spc[c] = "gone" -> "gone"

\* A burger is made when its name is in the order string.
InString(c) ==
  {orderStr[c][j] : j \in 1..Len(orderStr[c])} \ {Junk}

BurgerShop == INSTANCE BurgerShop WITH
  phase <- [c \in Customer |-> Phase(c)],
  wants <- request,
  made  <- [c \in Customer |-> InString(c)],
  open  <- proc = "running"

\* Every behaviour of the threads is a behaviour of the shop, liveness included;
\* a customer is forgotten when the signal for it is lost.
ImplementsShop == BurgerShop!Shop
=============================================================================
