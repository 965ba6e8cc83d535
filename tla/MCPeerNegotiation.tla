------------------------- MODULE MCPeerNegotiation -------------------------
(* Small instances of PeerNegotiation.                                       *)
EXTENDS PeerNegotiation

MCPlans == {
  [tiers |-> 0, reach |-> 0, changes |-> <<1, 2>>, early |-> 0, refresh |-> FALSE, fault |-> "none", faults |-> 0],
  [tiers |-> 2, reach |-> 2, changes |-> <<0, 1>>, early |-> 0, refresh |-> FALSE, fault |-> "none", faults |-> 0],
  [tiers |-> 1, reach |-> 1, changes |-> <<0, 1>>, early |-> 1, refresh |-> FALSE, fault |-> "none", faults |-> 0],
  [tiers |-> 1, reach |-> 0, changes |-> <<0, 1>>, early |-> 0, refresh |-> FALSE, fault |-> "drop", faults |-> 2],
  [tiers |-> 1, reach |-> 1, changes |-> <<0, 1>>, early |-> 0, refresh |-> TRUE, fault |-> "none", faults |-> 0],
  [tiers |-> 1, reach |-> 1, changes |-> <<0, 0>>, early |-> 1, refresh |-> TRUE, fault |-> "none", faults |-> 0],
  [tiers |-> 0, reach |-> 0, changes |-> <<0, 1>>, early |-> 0, refresh |-> FALSE, fault |-> "role", faults |-> 2],
  [tiers |-> 0, reach |-> 0, changes |-> <<0, 0>>, early |-> 0, refresh |-> FALSE, fault |-> "role", faults |-> 3],
  [tiers |-> 0, reach |-> 0, changes |-> <<0, 0>>, early |-> 1, refresh |-> FALSE, fault |-> "role", faults |-> 1],
  [tiers |-> 0, reach |-> 0, changes |-> <<0, 1>>, early |-> 0, refresh |-> FALSE, fault |-> "refused", faults |-> 2],
  [tiers |-> 0, reach |-> 0, changes |-> <<0, 1>>, early |-> 0, refresh |-> FALSE, fault |-> "create", faults |-> 1],
  [tiers |-> 1, reach |-> 2, changes |-> <<0, 0>>, early |-> 0, refresh |-> FALSE, fault |-> "none", faults |-> 0]}
=============================================================================
