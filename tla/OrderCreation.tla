--------------------------- MODULE OrderCreation ---------------------------
(***************************************************************************)
(* POST /v1/orders: create_order (app/services/order.py) and its endpoint  *)
(* (app/api/v1/orders.py), one action per await.  An order is named by the *)
(* request that inserted its row.  Merchant and key of a row never change. *)
(***************************************************************************)

CONSTANTS
  Requests,     \* creations, each with the idempotency_key of its body
  Merchants,
  Keys,
  MerchantOf,   \* the merchant whose credentials a request carries
  KeyOf,        \* the idempotency_key of a request
  NoOrder       \* a request that has named no order

VARIABLES
  orders,   \* the committed payment_intents rows
  opc,      \* where a request stands
  reply     \* the order that a request's 201 response names

orderVars == <<orders, opc, reply>>

OrderPc == {"find", "insert", "refresh", "created", "conflict", "rejected", "raised"}

TypeOK ==
  /\ orders \in SUBSET Requests
  /\ opc \in [Requests -> OrderPc]
  /\ reply \in [Requests -> Requests \cup {NoOrder}]

Init ==
  /\ orders = {}
  /\ opc = [q \in Requests |-> "find"]
  /\ reply = [q \in Requests |-> NoOrder]

Goto(q, label) == opc' = [opc EXCEPT ![q] = label]

Created(q, o) ==
  /\ Goto(q, "created")
  /\ reply' = [reply EXCEPT ![q] = o]

\* 401: the credentials are missing, invalid or of a merchant who is not active; or 422:
\* the body is not valid.  create_order is not called.
Reject(q) ==
  /\ opc[q] = "find"
  /\ Goto(q, "rejected")
  /\ UNCHANGED <<orders, reply>>

\* Mutated form: the SELECT goes by the key alone.
AnyMerchants(q) == {o \in orders : KeyOf[o] = KeyOf[q]}

\* The orders that the SELECT of create_order finds: at most one.
Existing(q) == {o \in orders : KeyOf[o] = KeyOf[q] /\ MerchantOf[o] = MerchantOf[q]}

\* An order of this merchant with this key, whatever its payload: replayed as 201.
Replay(q) ==
  /\ opc[q] = "find"
  /\ \E o \in Existing(q) : Created(q, o)
  /\ UNCHANGED orders

FindNone(q) ==
  /\ opc[q] = "find"
  /\ Existing(q) = {}
  /\ Goto(q, "insert")
  /\ UNCHANGED <<orders, reply>>

\* Mutated form: the column is not unique.
AnyKey(q) == FALSE

\* The unique index on payment_intents.idempotency_key, over all merchants.
KeyTaken(q) == \E o \in orders : KeyOf[o] = KeyOf[q]

\* INSERT and COMMIT.
Insert(q) ==
  /\ opc[q] = "insert"
  /\ ~KeyTaken(q)
  /\ orders' = orders \cup {q}
  /\ Goto(q, "refresh")
  /\ UNCHANGED reply

\* IntegrityError: rolled back and answered with 409.
Conflict(q) ==
  /\ opc[q] = "insert"
  /\ KeyTaken(q)
  /\ Goto(q, "conflict")
  /\ UNCHANGED <<orders, reply>>

\* The row is read back, and the order is named.
Refresh(q) ==
  /\ opc[q] = "refresh"
  /\ Created(q, q)
  /\ UNCHANGED orders

\* Mutated form: the error handler is around the refresh, too.
FailAsConflict(q) ==
  /\ opc[q] \in {"find", "insert", "refresh"}
  /\ Goto(q, IF opc[q] = "find" THEN "raised" ELSE "conflict")
  /\ UNCHANGED <<orders, reply>>

\* Mutated form: the error handler deletes the row it may have inserted.
FailDeletes(q) ==
  /\ opc[q] \in {"find", "insert", "refresh"}
  /\ orders' = orders \ {q}
  /\ Goto(q, "raised")
  /\ UNCHANGED reply

\* The database fails, before the commit or after it: an exception nobody catches.
Fail(q) ==
  /\ opc[q] \in {"find", "insert", "refresh"}
  /\ Goto(q, "raised")
  /\ UNCHANGED <<orders, reply>>

-----------------------------------------------------------------------------
\* The orders that get_order answers the merchant m with; any other id is a 404.
Visible(m) == {o \in orders : MerchantOf[o] = m}
=============================================================================
