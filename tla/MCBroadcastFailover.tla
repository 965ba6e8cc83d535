------------------------- MODULE MCBroadcastFailover -------------------------
(***************************************************************************)
(* A small instance of BroadcastFailover: two holders, of which the second *)
(* has the lower priority, and whose consent may end early.                *)
(***************************************************************************)
EXTENDS BroadcastFailover, TLC

Standby(h, until) ==
  [holder |-> h, priority |-> IF h = 1 THEN 1 ELSE 0, ready |-> TRUE, consentUntil |-> until]

\* The consent of the second standby ends at 2, between its first and its last
\* chance to take over.
TwoStandbys == {{Standby(1, MaxTime + 1), Standby(2, 2)}}

EitherRole == Permutations(Roles)

WriterOrBrowser == {{}, {"writer"}, {"browserSource"}}
=============================================================================
