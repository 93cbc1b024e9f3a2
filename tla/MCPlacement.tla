---------------------------- MODULE MCPlacement ----------------------------
(***************************************************************************)
(* Placement with ceilings and reservations for small instances: memory    *)
(* runs out before the slots do for the larger reservation only.           *)
(***************************************************************************)
EXTENDS Placement, TLC

MCCapacity ==
  [h \in Host |-> IF h \in Seeded
                    THEN {[slots |-> 1, memory |-> 2], [slots |-> 2, memory |-> 3]}
                    ELSE {[slots |-> 2, memory |-> 3]}]

MCNeed == {[slots |-> 1, memory |-> 1], [slots |-> 1, memory |-> 2]}

===========================================================================
