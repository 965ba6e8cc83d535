---------------------------- MODULE FencedWriters ----------------------------
(***************************************************************************)
(* What writer fencing promises, without the program: a counter that only  *)
(* grows, at most one writer per role, and every change of the writer set  *)
(* consumes a new value of the counter.  A closed object admits no new     *)
(* writer.  Module BroadcastProgram is shown to implement this module.     *)
(***************************************************************************)
EXTENDS Integers

CONSTANTS Role, Id, Principal

VARIABLES fence, writers, closed

absvars == <<fence, writers, closed>>

AbsInit ==
  /\ fence = 1
  /\ writers = {}
  /\ closed = FALSE

\* A new writer takes over its role under the next fence.
Grant ==
  /\ ~closed
  /\ fence' = fence + 1
  /\ \E r \in Role, i \in Id, p \in Principal :
       writers' = {v \in writers : v.role # r} \cup
                  {[role |-> r, leaseId |-> i, holderRef |-> p,
                    fencingRevision |-> fence + 1]}
  /\ UNCHANGED closed

\* Some writers lose their place; the counter moves so that they know.
Retire ==
  /\ fence' = fence + 1
  /\ writers' \subseteq writers
  /\ closed' \in BOOLEAN
  /\ closed => closed'

Close ==
  /\ ~closed
  /\ closed' = TRUE
  /\ UNCHANGED <<fence, writers>>

AbsNext == Grant \/ Retire \/ Close

AbsSpec == AbsInit /\ [][AbsNext]_absvars
=============================================================================
