-------------------------------- MODULE MCSlotMap --------------------------------
(* Slots 0 to 3 and four answers: two that split the slots differently,    *)
(* one with a slot nobody serves and a master that does not know its own   *)
(* address, and one with a replica without an address.                     *)
EXTENDS SlotMap

CONSTANTS a, b, c

MCServer == {a, b, c}
MCSlots  == 0..3

E(beg, end, master, slaves) ==
  [beg |-> beg, end |-> end, master |-> master, slaves |-> slaves]

MCViews ==
  { << E(0, 3, a, <<c>>) >>,
    << E(2, 3, b, <<>>), E(0, 1, a, <<c>>) >>,
    << E(0, 0, b, <<c>>), E(1, 1, NoServer, <<a>>), E(2, 2, c, <<a>>) >>,
    << E(1, 3, b, <<NoServer>>) >> }
MCConfigs == { {}, {a, b} }
===============================================================================
