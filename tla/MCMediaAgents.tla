--------------------------- MODULE MCMediaAgents ---------------------------
(* Small instances of MediaAgents.  Peers 1 and 4 belong to one principal.   *)
EXTENDS MediaAgents

MCPrincipalOf == [p \in 1..4 |-> IF p = 4 THEN 1 ELSE p]
MCOwnerOf == [a \in 1..4 |-> IF a = 4 THEN 3 ELSE a]
MCPeerLimit == [a \in 1..4 |-> IF a = 3 THEN 2 ELSE 20]

\* A room that is left by all and opened by others; the creator's agent fails while another is asked;
\* a planned handover; owners that come and go; enrollment and restarts; an agent that takes two
\* peers; three forwarders; plans; readiness.
MCPlans == {
  [peers |-> {1, 2, 3, 4}, agents |-> {1, 2}, takers |-> {}, weak |-> {}, autos |-> {TRUE}, time |-> 0, routes |-> 3, may |-> {"leave"}],
  [peers |-> {1, 2}, agents |-> {1, 2}, takers |-> {}, weak |-> {1}, autos |-> {FALSE}, time |-> 2, routes |-> 4, may |-> {"network", "decline"}],
  [peers |-> {1, 2}, agents |-> {1, 2}, takers |-> {}, weak |-> {1}, autos |-> {FALSE}, time |-> 1, routes |-> 4, may |-> {"drain", "fitness"}],
  [peers |-> {1, 2, 4}, agents |-> {1, 2}, takers |-> {}, weak |-> {}, autos |-> {FALSE}, time |-> 0, routes |-> 5, may |-> {"leave", "consent"}],
  [peers |-> {2, 3}, agents |-> {2, 3}, takers |-> {}, weak |-> {}, autos |-> {TRUE}, time |-> 2, routes |-> 5, may |-> {"enroll", "restart"}],
  [peers |-> {1, 2, 3}, agents |-> {2, 3}, takers |-> {}, weak |-> {}, autos |-> {TRUE}, time |-> 1, routes |-> 5, may |-> {"enroll"}],
  [peers |-> {1, 2, 3}, agents |-> {1, 2, 4}, takers |-> {}, weak |-> {2}, autos |-> {TRUE}, time |-> 0, routes |-> 6, may |-> {"crash"}],
  [peers |-> {1, 2, 3}, agents |-> {1, 2}, takers |-> {2}, weak |-> {}, autos |-> {TRUE}, time |-> 0, routes |-> 4, may |-> {"subscribe"}],
  [peers |-> {1, 2, 3}, agents |-> {1, 2}, takers |-> {}, weak |-> {}, autos |-> {TRUE}, time |-> 0, routes |-> 5, may |-> {"ready"}]}
=============================================================================
