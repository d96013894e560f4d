------------------------------ MODULE MCBroker ------------------------------
(***************************************************************************)
(* Broker for TLC: clients and ports are interchangeable.                  *)
(***************************************************************************)
EXTENDS Broker

Symmetry == Permutations(Clients) \cup Permutations(Ports)
=============================================================================
