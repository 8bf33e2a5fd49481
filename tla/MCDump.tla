------------------------------- MODULE MCDump -------------------------------
(***************************************************************************)
(* Model-checking instance of Dump: three leaf blocks, whose contents are  *)
(* chosen from leaves that continue, break (data, time) or fail, and four  *)
(* metadata layouts: plain leaves, a one-leaf definition shared between    *)
(* two devices with leaves on both sides of the refs, a two-leaf           *)
(* definition, and an empty device.                                        *)
(***************************************************************************)
EXTENDS Dump

E(t, d, tm) == [thin |-> t, data |-> d, time |-> tm]

MCLocs == {1, 2, 3}

MCLeafChoices ==
  { <<E(0, 0, 0), E(1, 1, 0)>>,   \* a run of two
    <<E(2, 2, 0)>>,               \* continues it
    <<E(2, 3, 0)>>,               \* breaks it in the data space
    <<E(3, 3, 1)>>,               \* continues the data space with a new time
    BadNode }

MCLayouts ==
  { [defs |-> << >>, devs |-> << <<Leaf(1), Leaf(2), Leaf(3)>> >>],
    [defs |-> << <<Leaf(2)>> >>, devs |-> << <<Leaf(1), Ref(0)>>, <<Ref(0), Leaf(3)>> >>],
    [defs |-> << <<Leaf(1), Leaf(2)>> >>, devs |-> << <<Ref(0)>>, <<Ref(0), Leaf(3)>> >>],
    [defs |-> << >>, devs |-> << << >>, <<Leaf(1)>>, <<Leaf(2), Leaf(3)>> >>] }
=============================================================================
