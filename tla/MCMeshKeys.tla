----------------------------- MODULE MCMeshKeys -----------------------------
(* Small instances of MeshKeys.                                              *)
EXTENDS MeshKeys

MCPlans == {
  [setup |-> 1, joins |-> 2, publishers |-> {1, 2}, leaves |-> {}, routes |-> 0, resets |-> 0, agents |-> FALSE, relay |-> FALSE],
  [setup |-> 2, joins |-> 2, publishers |-> {1, 2}, leaves |-> {2}, routes |-> 0, resets |-> 1, agents |-> TRUE, relay |-> FALSE],
  [setup |-> 1, joins |-> 2, publishers |-> {1, 2}, leaves |-> {1, 2}, routes |-> 0, resets |-> 0, agents |-> FALSE, relay |-> FALSE],
  [setup |-> 2, joins |-> 2, publishers |-> {1, 2}, leaves |-> {}, routes |-> 0, resets |-> 1, agents |-> FALSE, relay |-> FALSE],
  [setup |-> 2, joins |-> 2, publishers |-> {1, 2}, leaves |-> {}, routes |-> 0, resets |-> 2, agents |-> FALSE, relay |-> FALSE],
  [setup |-> 1, joins |-> 2, publishers |-> {1, 2}, leaves |-> {}, routes |-> 0, resets |-> 0, agents |-> TRUE, relay |-> FALSE],
  [setup |-> 1, joins |-> 2, publishers |-> {1}, leaves |-> {}, routes |-> 1, resets |-> 0, agents |-> TRUE, relay |-> FALSE],
  [setup |-> 2, joins |-> 2, publishers |-> {1}, leaves |-> {}, routes |-> 1, resets |-> 0, agents |-> FALSE, relay |-> TRUE],
  [setup |-> 3, joins |-> 3, publishers |-> {1, 2}, leaves |-> {3}, routes |-> 0, resets |-> 0, agents |-> FALSE, relay |-> FALSE],
  [setup |-> 3, joins |-> 3, publishers |-> {1}, leaves |-> {3}, routes |-> 0, resets |-> 0, agents |-> TRUE, relay |-> FALSE],
  [setup |-> 3, joins |-> 3, publishers |-> {1}, leaves |-> {2, 3}, routes |-> 0, resets |-> 0, agents |-> TRUE, relay |-> FALSE],
  [setup |-> 2, joins |-> 2, publishers |-> {1, 2}, leaves |-> {}, routes |-> 1, resets |-> 0, agents |-> FALSE, relay |-> FALSE]}

\* The route of the media agents changes once in a settled room of two, none of which is assigned an agent
MCRoutePlans == {q \in MCPlans : q.routes = 1 /\ q.setup = 2 /\ ~q.relay}
=============================================================================
