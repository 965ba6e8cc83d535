------------------------ MODULE MCBroadcastProgram ------------------------
(***************************************************************************)
(* A small instance of BroadcastProgram.  Holders and lease ids are only   *)
(* compared for equality and are interchangeable.                          *)
(***************************************************************************)
EXTENDS BroadcastProgram, TLC

Symmetry == Permutations(Holders) \cup Permutations(LeaseIds)
=============================================================================
