---------------------------- MODULE MCConnection ----------------------------
(* Instances of Connection: clients a and b behind one router. *)
EXTENDS Connection, TLC

CONSTANTS a, b

OneClient  == {a}
TwoClients == {a, b}

\* The ports the router gives out first.
OnePort  == a :> 1
TwoPorts == a :> 1 @@ b :> 2
=============================================================================
