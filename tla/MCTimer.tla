------------------------------- MODULE MCTimer -------------------------------
(* Timer for model checking: a time counter of four bits that is followed  *)
(* for its first ticks, a preemption tick every second one, and two sleep  *)
(* lengths: one tick, which a thread of the kernel that sleeps relative to *)
(* its previous wake time finds already late, and the largest value, which *)
(* saturates the wake time.                                                *)
EXTENDS Timer

MCTcnts == {1, 15}

=============================================================================
