---------------------- MODULE MCPackagerAssignments ----------------------
(***************************************************************************)
(* Small instances of PackagerAssignments: one event of each kind while    *)
(* the clock stands, one event while leases run out, two programs on one   *)
(* packager, and two programs for two packagers and one resource slot.     *)
(***************************************************************************)
EXTENDS PackagerAssignments

CONSTANTS a, g1, g2

OneProgram(loss, media, owner, tick) ==
  [loss |-> loss, media |-> media, owner |-> owner, tick |-> tick, slots |-> 1,
   programs |-> {g1}, packagers |-> Packagers]

OnePackager(media, owner, tick) ==
  [loss |-> 0, media |-> media, owner |-> owner, tick |-> tick, slots |-> 2,
   programs |-> {g1, g2}, packagers |-> {a}]

OneSlot(loss) ==
  [loss |-> loss, media |-> 0, owner |-> 0, tick |-> 0, slots |-> 1,
   programs |-> {g1, g2}, packagers |-> Packagers]

MCPlans ==
  {OneProgram(1, 1, 1, 0), OneProgram(0, 0, 1, 3), OneProgram(1, 0, 0, 3),
   OnePackager(1, 1, 0), OnePackager(0, 0, 3), OneSlot(1)}
=============================================================================
