------------------------- MODULE MCBroadcastGrants -------------------------
(***************************************************************************)
(* A small instance of BroadcastGrants.                                    *)
(***************************************************************************)
EXTENDS BroadcastGrants, TLC

Symmetry == Permutations(GrantIds) \cup Permutations(Requests)
=============================================================================
