------------------------------ MODULE MCMemory ------------------------------
(***************************************************************************)
(* Memory for TLC: the programs that are executed.                         *)
(***************************************************************************)
EXTENDS Memory

Seg(vaddr, memsz, x) == [vaddr |-> vaddr, memsz |-> memsz, x |-> x]

\* An executable of two segments that share a page: the text in the first
\* two pages of the user region, the data from the last byte of the second.
Overlapping ==
    [type |-> ET_EXEC,
     segs |-> <<Seg(UMEM_START_VMA, 2 * PAGE_SIZE, TRUE),
                Seg(UMEM_START_VMA + 2 * PAGE_SIZE - 1, 2, FALSE)>>]

\* An executable whose second segment lies in the memory of the kernel.
Refused ==
    [type |-> ET_EXEC,
     segs |-> <<Seg(UMEM_START_VMA, 1, FALSE),
                Seg(RAM_START_PMA + PAGE_SIZE, 1, FALSE)>>]

\* The same segments in a file that is not marked as an executable.
Hostile == [Refused EXCEPT !.type = ET_NONE]

MCPrograms  == {Overlapping, Refused}
MCHostile   == {Hostile}
MCProtFlags == {{"R", "X", "U"}}
=============================================================================
