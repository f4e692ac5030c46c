----------------------------- MODULE MC_Gateway -----------------------------
(***************************************************************************)
(* Gateway on small instances: a merchant's attempts under one header and  *)
(* one without it, and another merchant that uses the same header and the  *)
(* same idempotency_key.                                                   *)
(***************************************************************************)
EXTENDS Gateway, TLC

CONSTANTS m1, m2, other, apiKey, address

OwnMerchant == [q \in Requests |-> IF q = other THEN m2 ELSE m1]

\* The attempts of m1 carry its API key and are counted for it; the other two requests carry
\* a bearer token and come from one address.
ByKeyOrAddress == [q \in Requests |-> IF q \in Attempts \ {other} THEN apiKey ELSE address]

OneKey == [q \in Requests |-> CHOOSE k \in Keys : TRUE]

\* A merchant's attempts under one header are interchangeable.
AttemptsAlike == Permutations(Attempts \ {other})
=============================================================================
