------------------------------ MODULE MCDevice ------------------------------
(***************************************************************************)
(* Device for TLC: two processes and three uio objects; a machine with the *)
(* clock, two UARTs, two block devices of two blocks of two bytes and two  *)
(* entropy devices, one of which refuses the features; and a machine       *)
(* without a block device, which does not boot.                            *)
(***************************************************************************)
EXTENDS Device

Slot(id, ok) == [id |-> id, features_ok |-> ok]

MCMachines ==
    {<<Slot("vioblk", TRUE), Slot("viorng", FALSE), Slot("vioblk", TRUE),
       Slot("viorng", TRUE), Slot("vioblk", FALSE)>>,
     <<Slot("viorng", TRUE)>>}

MCMountNames == {"dev", "x"}

MCFileNames ==
    {File("uart", 0), File("uart", 1), File("rtc", 0), File("rtc", NULL),
     File("vioblk", 0), File("vioblk", 1), File("viorng", 0), File("viorng", 1)}

MCBufs == {<<1>>, <<1, 2, 3>>, <<1, 2, 3, 4>>}

=============================================================================
