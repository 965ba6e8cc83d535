------------------------ MODULE MCBroadcastRuntime ------------------------
(***************************************************************************)
(* Small instances of BroadcastRuntime.  All peers share one device, the   *)
(* case in which the departure of one concerns the programs of another.    *)
(***************************************************************************)
EXTENDS BroadcastRuntime, TLC

OneDevice == [m \in Peers |-> "device"]

AnyLeaseId == Nat

\* Programs, request slots and peers are only compared for equality.
Interchangeable == Permutations(Programs) \cup Permutations(Requests) \cup Permutations(Peers)
=============================================================================
