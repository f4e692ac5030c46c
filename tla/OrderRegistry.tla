--------------------------- MODULE OrderRegistry ---------------------------
(***************************************************************************)
(* What the creation of orders promises, with no cache, no quota and no    *)
(* failures: a merchant's key is given to one order, orders stay, and a    *)
(* request is told at most once, for good, of an order that was asked for: *)
(* by itself, or by a peer, which carries the same header.  Gateway        *)
(* implements it.                                                          *)
(***************************************************************************)

CONSTANTS
  Requests, MerchantOf, KeyOf, NoOrder,
  PeersOf   \* the requests whose answer a request may be given, itself among them

VARIABLES
  orders,   \* the orders that are registered, each named by its request
  told      \* the order a request was told of

registryVars == <<orders, told>>

Init ==
  /\ orders = {}
  /\ told = [q \in Requests |-> NoOrder]

\* The order that the merchant of q has under the key of q.
OrderOf(q) == {o \in orders : KeyOf[o] = KeyOf[q] /\ MerchantOf[o] = MerchantOf[q]}

Register(q) ==
  /\ OrderOf(q) = {}
  /\ orders' = orders \cup {q}
  /\ UNCHANGED told

Tell(q) ==
  /\ told[q] = NoOrder
  /\ \E p \in PeersOf[q] : \E o \in OrderOf(p) : told' = [told EXCEPT ![q] = o]
  /\ UNCHANGED orders

Next == \E q \in Requests : Register(q) \/ Tell(q)

Spec == Init /\ [][Next]_registryVars
=============================================================================
