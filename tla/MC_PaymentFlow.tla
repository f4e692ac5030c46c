--------------------------- MODULE MC_PaymentFlow ---------------------------
(***************************************************************************)
(* PaymentFlow on small instances: the constants that are functions, and   *)
(* the symmetries of the instances.                                        *)
(***************************************************************************)
EXTENDS PaymentFlow, TLC

CONSTANTS o1, m1, m2

\* Every order belongs to m1, so that settlements share its account; a second
\* merchant, where there is one, owns no order.
OwnedByM1 == [o \in Orders |-> m1]

\* The first order belongs to m1, any other to m2.
OwnedInTurn == [o \in Orders |-> IF o = o1 THEN m1 ELSE m2]

\* The first order costs 1, any other 2, so that amounts tell orders apart.
OneAndTwo == [o \in Orders |-> IF o = o1 THEN 1 ELSE 2]

\* Every order costs 1: amounts do not matter.
AllOne == [o \in Orders |-> 1]

\* Workers of one kind and transaction ids are interchangeable: no action and no
\* property of a run that uses this names one of them.
WorkersAndTxns ==
  Permutations(Initiators) \cup Permutations(Callbacks) \cup Permutations(Txns)

\* So are addresses, where none is too long for its column.
WorkersTxnsAndVpas == WorkersAndTxns \cup Permutations(Vpas)
=============================================================================
