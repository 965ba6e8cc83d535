------------------------------ MODULE MCRooms ------------------------------
(* Small instances of Rooms: one plain room, two ids for breakout rooms.    *)
EXTENDS Rooms
CONSTANTS c1, c2, c3, c4, c5, c6, u1, u2, u3, m, l, r1, k1, k2

MCUserOf == [c \in {c1, c2, c3, c4, c5, c6} |->
  CASE c \in {c1, c4} -> u1 [] c = c2 -> u2 [] c = c3 -> u3 [] c = c5 -> m [] c = c6 -> l]

\* Three users and one breakout room; two breakout rooms and an owner with two tabs; that
\* owner moderating; a machine and an old client; pairs and restarts of a registered room.
MCPlans == {
  [conns |-> {c1, c2, c3}, kids |-> {k1}, may |-> {"breakout"}],
  [conns |-> {c1, c2, c4}, kids |-> {k1, k2}, may |-> {"breakout"}],
  [conns |-> {c1, c2}, kids |-> {k1}, may |-> {"breakout", "close"}],
  [conns |-> {c1, c2, c4}, kids |-> {}, may |-> {"remove", "close"}],
  [conns |-> {c1, c2}, kids |-> {}, may |-> {"policy", "hand"}],
  [conns |-> {c1, c5, c6}, kids |-> {}, may |-> {"policy"}],
  [conns |-> {c1, c2}, kids |-> {}, may |-> {"pair", "directory"}]}
=============================================================================
