------------------------------- MODULE MCCache -------------------------------
(* Cache for model checking: two entries and three blocks, so that a miss  *)
(* finds the cache full and evicts.  What the cache does with a block does *)
(* not depend on the contents of another block, so two contents are told   *)
(* apart for block 0 only.                                                 *)
EXTENDS Cache

MCBlocks == 0 .. 2
MCValsOf(b) == IF b = 0 THEN {0, 1} ELSE {0}

=============================================================================
