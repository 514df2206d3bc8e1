-------------------------- MODULE MCAuthentication --------------------------
(* Instances of Authentication for TLC. *)
EXTENDS Authentication

CONSTANTS k1, k2

\* An admin's token, one that expires early, one that a forger signed.
MCTokens == {
  [wellFormed |-> TRUE, kid |-> k1, signer |-> k1, exp |-> MaxTime, issuer |-> "ours", orgAdmin |-> TRUE],
  [wellFormed |-> TRUE, kid |-> k2, signer |-> k2, exp |-> 1, issuer |-> "ours", orgAdmin |-> FALSE],
  [wellFormed |-> TRUE, kid |-> k1, signer |-> "forger", exp |-> MaxTime, issuer |-> "ours", orgAdmin |-> TRUE]}

\* Keycloak starts with one key; what it publishes next is anything.
MCInit == Init /\ keycloak.served = {k1}
MCSpec == MCInit /\ [][Next]_vars /\ Fairness
=============================================================================
