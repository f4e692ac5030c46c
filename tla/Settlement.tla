----------------------------- MODULE Settlement -----------------------------
(***************************************************************************)
(* What the gateway promises about money, with no requests, sessions or    *)
(* locks: a transaction is opened once, is decided once, and the decision  *)
(* that it succeeded moves its order's amount to the payer's and to the    *)
(* merchant's account in the same step.  PaymentFlow implements it.        *)
(***************************************************************************)
EXTENDS Naturals

CONSTANTS Orders, Vpas, Txns, MerchantOf, AmountOf, NoRow

VARIABLES txns, balance, entries

settlementVars == <<txns, balance, entries>>

\* Nothing has been opened, every account is empty and no line is posted.
Init ==
  /\ txns = [t \in Txns |-> NoRow]
  /\ \A a \in DOMAIN balance : balance[a] = 0
  /\ \A e \in DOMAIN entries : entries[e] = 0

Open(t) ==
  /\ txns[t] = NoRow
  /\ \E o \in Orders, v \in Vpas :
       txns' = [txns EXCEPT ![t] = [order |-> o, vpa |-> v, state |-> "PENDING"]]
  /\ UNCHANGED <<balance, entries>>

Pending(t) == txns[t] # NoRow /\ txns[t].state = "PENDING"

Decline(t) ==
  /\ Pending(t)
  /\ txns' = [txns EXCEPT ![t].state = "FAILED"]
  /\ UNCHANGED <<balance, entries>>

Settle(t) ==
  /\ Pending(t)
  /\ txns' = [txns EXCEPT ![t].state = "SUCCESS"]
  /\ LET payer == txns[t].vpa
         payee == MerchantOf[txns[t].order]
         due == AmountOf[txns[t].order]
         line(account, side) ==
           [txn |-> t, account |-> account, side |-> side, amount |-> due]
     IN /\ balance' = [a \in DOMAIN balance |->
                         balance[a] + (IF a \in {payer, payee} THEN due ELSE 0)]
        /\ entries' = [e \in DOMAIN entries |->
                         entries[e] + (IF e \in {line(payer, "DEBIT"), line(payee, "CREDIT")}
                                         THEN 1 ELSE 0)]

Next == \E t \in Txns : Open(t) \/ Decline(t) \/ Settle(t)

Spec == Init /\ [][Next]_settlementVars
=============================================================================
