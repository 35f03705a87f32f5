------------------------------- MODULE Memory -------------------------------
(***************************************************************************)
(* The physical page allocator, the Sv39 page tables and the validation of *)
(* user pointers of src/sys/memory.c.                                      *)
(*                                                                         *)
(* A physical page is named by its page number, an address by its byte     *)
(* number.  The free list is the sequence of its chunks in list order.     *)
(* The contents of a page are modelled where the page is a page table (its *)
(* PTE_CNT entries); the bytes of a data page are not.  Nothing in         *)
(* memory.c sleeps, so every call is one step; the operations are          *)
(* operators on a record M of the allocator's and the tables' state, which *)
(* the actions below, and the modules that call into memory.c, compose.    *)
(***************************************************************************)
EXTENDS Integers, Sequences, FiniteSets, SequencesExt

CONSTANTS
    PAGE_SIZE,      \* bytes in a page (4096 in the kernel)
    PTE_CNT,        \* entries in a page table (512)
    ADDR_MOD,       \* 2^width of uintptr_t (2^64)
    RAM_START_PMA,  \* first byte of RAM, where the kernel image is linked
    RAM_END_PMA,    \* first byte after RAM
    FREE_BASE,      \* page number of the first page of the free pool
    UMEM_START_VMA, \* first byte of the user region
    UMEM_END_VMA,   \* first byte after the user region
    Programs,       \* the files that are executed: [type, segs], a segment
                    \* of one being [vaddr, memsz, x]
    ProtFlags,      \* the flag sets that set_range_flags is asked for
    NPROC           \* entries of proctab

ROOT_LEVEL == 2                      \* three levels of tables
MEGA_SIZE  == PTE_CNT * PAGE_SIZE
GIGA_SIZE  == PTE_CNT * MEGA_SIZE

ASSUME /\ {PAGE_SIZE, PTE_CNT, NPROC} \subseteq Nat \ {0}
       /\ ADDR_MOD % (PAGE_SIZE * PTE_CNT ^ (ROOT_LEVEL + 1)) = 0
       /\ RAM_START_PMA % GIGA_SIZE = 0 /\ RAM_END_PMA % MEGA_SIZE = 0
       /\ FREE_BASE * PAGE_SIZE \in RAM_START_PMA .. RAM_START_PMA + MEGA_SIZE
       /\ UMEM_START_VMA % PAGE_SIZE = 0 /\ UMEM_END_VMA % PAGE_SIZE = 0

VARIABLES
    free_chunk_list, \* the chunks of free pages, [addr, pagecnt], in list order
    pt,              \* pt[p][i]: entry i of the page table in page p
    satp,            \* the root table of the active memory space
    sys,             \* "running", or why the kernel panicked
    procs,           \* what the process with each mtag in proctab is doing
    stacks           \* the pages that threads were given as kernel stacks

vars == <<free_chunk_list, pt, satp, sys, procs, stacks>>

NULL     == 0
EINVAL   == 1
EBADFMT  == 5
EACCESS  == 7
ET_NONE  == "ET_NONE"
ET_EXEC  == "ET_EXEC"
RAM_END  == RAM_END_PMA \div PAGE_SIZE
Pool     == FREE_BASE .. RAM_END - 1
Idx      == 0 .. PTE_CNT - 1
RWXUG    == {"R", "W", "X", "U", "G"}
Flags    == RWXUG \cup {"V", "A", "D"}

\* The page tables of the main space are static data of the kernel image.
RAM_START == RAM_START_PMA \div PAGE_SIZE
MAIN_PT2 == RAM_START + 2
MAIN_PT1 == MAIN_PT2 + 1
MAIN_PT0 == MAIN_PT2 + 2
Tables   == {MAIN_PT2, MAIN_PT1, MAIN_PT0} \cup Pool

Mem == [free |-> free_chunk_list, pt |-> pt, satp |-> satp, panic |-> sys]

\* panic(): the kernel stops; what M holds after it is of no interest.
Panic(M, why) == IF M.panic = "running" THEN [M EXCEPT !.panic = why] ELSE M

VPN(vma)           == vma \div PAGE_SIZE
PT_INDEX(lvl, vpn) == (vpn \div PTE_CNT ^ lvl) % PTE_CNT

PTE_VALID(pte)  == "V" \in pte.flags
PTE_GLOBAL(pte) == "G" \in pte.flags
PTE_LEAF(pte)   == pte.flags \cap {"R", "W", "X"} # {}

leaf_pte(pp, rwxug_flags) ==
    [flags |-> rwxug_flags \cup {"A", "D", "V"}, ppn |-> pp]
ptab_pte(ptab, g_flag) == [flags |-> g_flag \cup {"V"}, ppn |-> ptab]
null_pte   == [flags |-> {}, ppn |-> 0]
pte_child(pte) == pte.ppn
EmptyTable == [i \in Idx |-> null_pte]

\* Bits 63:38 of the address are all 0 or all 1: the top bit that the
\* translation uses and every bit above it.
wellformed(vma) ==
    LET half == (PAGE_SIZE * PTE_CNT ^ (ROOT_LEVEL + 1)) \div 2
        bits == vma \div half
    IN  bits = 0 \/ bits = ADDR_MOD \div half - 1

-----------------------------------------------------------------------------
(* The physical page allocator *)

ChunkEnd(c) == c.addr + c.pagecnt

\* The chunk the search loop settles on: the smallest that fits, the first
\* of them in list order.
BestFit(M, cnt) ==
    LET fits == {i \in DOMAIN M.free : M.free[i].pagecnt >= cnt}
    IN  IF fits = {} THEN 0
        ELSE CHOOSE i \in fits : \A j \in fits :
                 \/ M.free[j].pagecnt > M.free[i].pagecnt
                 \/ M.free[j].pagecnt = M.free[i].pagecnt /\ i <= j

\* A chunk larger than the request keeps its header and gives its last
\* cnt pages.
alloc_carve(M, cnt, i) ==
    [M  |-> [M EXCEPT !.free[i].pagecnt = @ - cnt],
     pp |-> ChunkEnd(M.free[i]) - cnt]

\* Returns the new state as .M and the first page as .pp.
alloc_phys_pages(M, cnt) ==
    LET i == BestFit(M, cnt) IN
    IF cnt = 0 THEN [M |-> M, pp |-> NULL]
    ELSE IF i = 0 THEN [M |-> Panic(M, "no_memory"), pp |-> NULL]
    ELSE IF M.free[i].pagecnt = cnt
         THEN [M |-> [M EXCEPT !.free = RemoveAt(@, i)], pp |-> M.free[i].addr]
         ELSE alloc_carve(M, cnt, i)

alloc_phys_page(M) == alloc_phys_pages(M, 1)

\* free_phys_pages with the region put at the head of the list.
free_at_head(M, pp, cnt) ==
    IF cnt = 0 \/ pp = NULL \/ M.panic # "running" THEN M
    ELSE [M EXCEPT !.free = <<[addr |-> pp, pagecnt |-> cnt]>> \o @]

\* The walk stops at the first chunk that starts at or after the end of the
\* freed region, or that the region does not lie wholly behind; the second
\* is an overlap.  The freed region becomes a chunk of its own there.
free_phys_pages(M, pp, cnt) ==
    LET end   == pp + cnt
        stops == {i \in DOMAIN M.free :
                     M.free[i].addr >= end \/ pp < ChunkEnd(M.free[i])}
        k     == IF stops = {} THEN Len(M.free) + 1 ELSE Min(stops)
    IN  IF cnt = 0 \/ pp = NULL \/ M.panic # "running" THEN M
        ELSE IF pp < FREE_BASE \/ end > RAM_END THEN Panic(M, "assert")
        ELSE IF k <= Len(M.free) /\ M.free[k].addr < end
             THEN Panic(M, "overlapping_pages")
        ELSE [M EXCEPT !.free = InsertAt(@, k, [addr |-> pp, pagecnt |-> cnt])]

free_phys_page(M, pp) == free_phys_pages(M, pp, 1)

free_phys_page_count(M) ==
    FoldLeft(LAMBDA total, chunk : total + chunk.pagecnt, 0, M.free)

-----------------------------------------------------------------------------
(* The page tables *)

NoPte   == <<>>                              \* ptab_fetch returns NULL
Entry(M, at) == M.pt[at[1]][at[2]]
Occupied(M, ptab) == \E i \in Idx : PTE_VALID(M.pt[ptab][i])

\* replace_leaf with the page of the old mapping forgotten.
replace_without_free(M, leaf) == M

\* ptab_insert replaces a mapping: the page of a non-global leaf is freed.
replace_leaf(M, leaf) ==
    IF PTE_VALID(leaf) /\ PTE_LEAF(leaf) /\ ~PTE_GLOBAL(leaf)
    THEN free_phys_page(M, leaf.ppn) ELSE M

\* clone_flags without the U bit.
clone_drops_user_bit(pte) == pte.flags \cap {"R", "W", "X", "G"}

\* The flags a cloned leaf keeps.
clone_flags(pte) == pte.flags \cap RWXUG

RECURSIVE reset_from(_, _, _), discard_from(_, _, _), clone_from(_, _, _),
          fetch_from(_, _, _, _), insert_from(_, _, _, _, _, _),
          ptab_remove_recursive_helper(_, _, _, _)

\* for (i = 0; i < PTE_CNT; ++i): the entries that are not valid are
\* skipped, and no turn of these loops makes an entry of ptab valid.
ValidSlots(M, ptab) ==
    SelectSeq([i \in 1 .. PTE_CNT |-> i - 1], LAMBDA i : PTE_VALID(M.pt[ptab][i]))

ptab_reset(M, ptab) == reset_from(M, ptab, ValidSlots(M, ptab))
ptab_clone(M, ptab) ==
    LET A == alloc_phys_page(M) IN
    IF A.pp = NULL THEN A
    ELSE clone_from([M |-> [A.M EXCEPT !.pt[A.pp] = EmptyTable], pp |-> A.pp],
                    ptab, ValidSlots(M, ptab))
ptab_discard(M, ptab) ==
    LET D == discard_from(M, ptab, ValidSlots(M, ptab))
    IN  IF ptab # MAIN_PT2 THEN free_phys_page(D, ptab) ELSE D

reset_entry(M, ptab, i) ==
    LET curr == M.pt[ptab][i] IN
    IF ~PTE_VALID(curr) \/ PTE_GLOBAL(curr) THEN M
    ELSE LET below == IF PTE_LEAF(curr) THEN M
                      ELSE ptab_reset(M, pte_child(curr))
         IN  [free_phys_page(below, curr.ppn)
                 EXCEPT !.pt[ptab][i] = null_pte]

reset_from(M, ptab, todo) ==
    IF todo = <<>> THEN M
    ELSE reset_from(reset_entry(M, ptab, Head(todo)), ptab, Tail(todo))

discard_entry(M, ptab, i) ==
    LET curr == M.pt[ptab][i] IN
    IF ~PTE_VALID(curr) \/ PTE_GLOBAL(curr) THEN M
    ELSE [IF PTE_LEAF(curr) THEN free_phys_page(M, curr.ppn)
                            ELSE ptab_discard(M, pte_child(curr))
             EXCEPT !.pt[ptab][i] = null_pte]

discard_from(M, ptab, todo) ==
    IF todo = <<>> THEN M
    ELSE discard_from(discard_entry(M, ptab, Head(todo)), ptab, Tail(todo))

\* C.M is the state and C.pp the new table; a page that could not be
\* allocated ends the clone with the panic.
clone_entry(C, ptab, i) ==
    LET curr == C.M.pt[ptab][i]
        A    == alloc_phys_page(C.M)
        K    == ptab_clone(C.M, curr.ppn)
    IN  IF ~PTE_VALID(curr) \/ C.M.panic # "running" THEN C
        ELSE IF PTE_GLOBAL(curr) THEN [C EXCEPT !.M.pt[C.pp][i] = curr]
        ELSE IF PTE_LEAF(curr)
             THEN [C EXCEPT !.M = IF A.pp = NULL THEN A.M ELSE
                       [A.M EXCEPT !.pt[C.pp][i] =
                            leaf_pte(A.pp, clone_flags(curr))]]
        ELSE [C EXCEPT !.M = IF K.pp = NULL THEN K.M ELSE
                  [K.M EXCEPT !.pt[C.pp][i] =
                       ptab_pte(K.pp, curr.flags \cap {"G"})]]

clone_from(C, ptab, todo) ==
    IF todo = <<>> THEN C
    ELSE clone_from(clone_entry(C, ptab, Head(todo)), ptab, Tail(todo))

\* Where the entry that maps vpn is, <<table, index>>, or NoPte.
fetch_from(M, curr_pg, i, vpn) ==
    LET idx == PT_INDEX(i, vpn)
        pte == M.pt[curr_pg][idx]
    IN  IF ~PTE_VALID(pte) THEN NoPte
        ELSE IF PTE_LEAF(pte) \/ i = 0 THEN <<curr_pg, idx>>
        ELSE fetch_from(M, pte_child(pte), i - 1, vpn)

ptab_fetch(M, ptab, vpn) == fetch_from(M, ptab, ROOT_LEVEL, vpn)

insert_from(M, curr_pg, i, vpn, pp, rwxug_flags) ==
    LET idx == PT_INDEX(i, vpn)
        pte == M.pt[curr_pg][idx]
        A   == alloc_phys_page(M)
        sub == [A.M EXCEPT !.pt[A.pp] = EmptyTable,
                           !.pt[curr_pg][idx] = ptab_pte(A.pp, {})]
    IN  IF M.panic # "running" THEN M
        ELSE IF i = 0 THEN
            IF PTE_VALID(pte) /\ ~PTE_LEAF(pte) THEN Panic(M, "non_leaf_at_0")
            ELSE [replace_leaf(M, pte) EXCEPT
                     !.pt[curr_pg][idx] = leaf_pte(pp, rwxug_flags)]
        ELSE IF ~PTE_VALID(pte) THEN
            IF A.pp = NULL THEN A.M
            ELSE insert_from(sub, A.pp, i - 1, vpn, pp, rwxug_flags)
        ELSE IF PTE_LEAF(pte) THEN Panic(M, "leaf_for_subtable")
        ELSE insert_from(M, pte_child(pte), i - 1, vpn, pp, rwxug_flags)

ptab_insert(M, ptab, vpn, pp, rwxug_flags) ==
    insert_from(M, ptab, ROOT_LEVEL, vpn, pp, rwxug_flags)

\* Returns the state as .M, the page that was mapped as .pp, and as .res
\* 0 when nothing was removed, 1 when the table still has valid entries,
\* 2 when it is empty.
ptab_remove_recursive_helper(M, ptab, level, vpn) ==
    LET idx   == PT_INDEX(level, vpn)
        pte   == M.pt[ptab][idx]
        child == pte_child(pte)
        none  == [M |-> M, pp |-> NULL, res |-> 0]
        Left(N, pp) == [M |-> N, pp |-> pp,
                        res |-> IF Occupied(N, ptab) THEN 1 ELSE 2]
        R     == ptab_remove_recursive_helper(M, child, level - 1, vpn)
    IN  IF ~PTE_VALID(pte) THEN none
        ELSE IF PTE_LEAF(pte) \/ level = 0 THEN
            IF ~PTE_LEAF(pte) THEN none
            ELSE Left([M EXCEPT !.pt[ptab][idx] = null_pte], pte.ppn)
        ELSE IF R.res = 0 THEN none
        ELSE IF R.res = 2
             THEN Left([free_phys_page(R.M, child) EXCEPT
                           !.pt[ptab][idx] = null_pte], R.pp)
        ELSE Left(R.M, R.pp)

ptab_remove(M, ptab, vpn) ==
    ptab_remove_recursive_helper(M, ptab, ROOT_LEVEL, vpn)

\* ptab_adjust with the new flags added to the old.
adjust_adds_flags(M, ptab, vpn, rwxug_flags) ==
    LET at == ptab_fetch(M, ptab, vpn) IN
    IF at = NoPte \/ ~PTE_LEAF(Entry(M, at)) THEN M
    ELSE [M EXCEPT !.pt[at[1]][at[2]].flags = @ \cup rwxug_flags]

ptab_adjust(M, ptab, vpn, rwxug_flags) ==
    LET at == ptab_fetch(M, ptab, vpn) IN
    IF at = NoPte \/ ~PTE_LEAF(Entry(M, at)) THEN M
    ELSE [M EXCEPT !.pt[at[1]][at[2]].flags = (@ \ RWXUG) \cup rwxug_flags]

-----------------------------------------------------------------------------
(* Memory spaces, mappings and the validation of user pointers *)

active_space_ptab(M) == M.satp
switch_mspace(M, mtag) == [M EXCEPT !.satp = mtag]
clone_active_mspace(M) == ptab_clone(M, active_space_ptab(M))
reset_active_mspace(M) == ptab_reset(M, active_space_ptab(M))

\* discard_active_mspace without the switch to the main space.
discard_keeps_satp(M) ==
    IF active_space_ptab(M) # MAIN_PT2
    THEN ptab_discard(M, active_space_ptab(M)) ELSE M

discard_active_mspace(M) ==
    [IF active_space_ptab(M) # MAIN_PT2
        THEN ptab_discard(M, active_space_ptab(M)) ELSE M
     EXCEPT !.satp = MAIN_PT2]

\* The pages of a range of size bytes, as offsets from its first page.
PagesOf(size) == [i \in 1 .. (size + PAGE_SIZE - 1) \div PAGE_SIZE |-> i - 1]

\* What the range functions assert of their arguments.
RangeOk(vma, size) ==
    LET end_vma == (vma + (size - 1)) % ADDR_MOD IN
    /\ vma % PAGE_SIZE = 0 /\ wellformed(vma)
    /\ end_vma >= vma /\ wellformed(end_vma)

map_page(M, vma, pp, rwxug_flags) ==
    IF vma % PAGE_SIZE # 0 \/ ~wellformed(vma) \/ pp = NULL
    THEN Panic(M, "assert")
    ELSE ptab_insert(M, active_space_ptab(M), VPN(vma), pp, rwxug_flags)

map_range(M, vma, size, pp, rwxug_flags) ==
    IF size = 0 THEN M
    ELSE IF ~RangeOk(vma, size) \/ pp = NULL THEN Panic(M, "assert")
    ELSE FoldLeft(LAMBDA S, i :
                      map_page(S, vma + i * PAGE_SIZE, pp + i, rwxug_flags),
                  M, PagesOf(size))

alloc_and_map_range(M, vma, size, rwxug_flags) ==
    LET A == alloc_phys_pages(M, Len(PagesOf(size))) IN
    IF size = 0 THEN M
    ELSE IF vma % PAGE_SIZE # 0 \/ ~wellformed(vma) THEN Panic(M, "assert")
    ELSE map_range(A.M, vma, size, A.pp, rwxug_flags)

set_range_flags(M, vp, size, rwxug_flags) ==
    IF size = 0 THEN M
    ELSE IF ~RangeOk(vp, size) THEN Panic(M, "assert")
    ELSE FoldLeft(LAMBDA S, i :
                      ptab_adjust(S, active_space_ptab(S), VPN(vp) + i,
                                  rwxug_flags),
                  M, PagesOf(size))

\* unmap_page with the page left allocated.
unmap_keeps_page(M, vpn) == ptab_remove(M, active_space_ptab(M), vpn).M

unmap_page(M, vpn) ==
    LET R == ptab_remove(M, active_space_ptab(M), vpn) IN
    IF R.pp # NULL THEN free_phys_page(R.M, R.pp) ELSE R.M

unmap_and_free_range(M, vp, size) ==
    IF size = 0 THEN M
    ELSE IF ~RangeOk(vp, size) THEN Panic(M, "assert")
    ELSE FoldLeft(LAMBDA S, i : unmap_page(S, VPN(vp) + i), M, PagesOf(size))

\* The test both validations make of one page: mapped by a valid leaf that
\* has every flag asked for.
page_check(M, vpn, flags) ==
    LET at == ptab_fetch(M, active_space_ptab(M), vpn) IN
    IF /\ at # NoPte
       /\ PTE_VALID(Entry(M, at)) /\ PTE_LEAF(Entry(M, at))
       /\ flags \subseteq Entry(M, at).flags
    THEN 0 ELSE -EACCESS

\* last_page with the end of the buffer taken for its last byte.
last_page_exclusive(start_addr, len) == VPN(start_addr + len) - 1

last_page(start_addr, len) == VPN(start_addr + len - 1)

validate_vptr(M, vp, len, rwxu_flags) ==
    LET end_addr == (vp + len) % ADDR_MOD IN
    IF len = 0 THEN 0
    ELSE IF vp > end_addr THEN -EINVAL
    ELSE IF ~wellformed(vp) \/ ~wellformed(end_addr - 1) THEN -EINVAL
    ELSE IF \E i \in VPN(vp) .. last_page(vp, len) :
                page_check(M, i, rwxu_flags) # 0
         THEN -EACCESS
    ELSE 0

\* One turn of the loop of validate_vstr, for the byte at addr.
vstr_check(M, addr, rug_flags) ==
    IF (addr + 1) % ADDR_MOD < addr \/ ~wellformed(addr) THEN -EINVAL
    ELSE page_check(M, VPN(addr), rug_flags)

\* The string at vs has its terminator at vs + n: the loop looks at the
\* bytes up to there, and returns at the first that fails its test.
validate_vstr(M, vs, n, rug_flags) ==
    LET fails == {a \in vs .. Min({vs + n, ADDR_MOD - 1}) :
                      vstr_check(M, a, rug_flags) # 0}
    IN  IF vs = NULL \/ ~wellformed(vs) THEN -EINVAL
        ELSE IF fails # {} THEN vstr_check(M, Min(fails), rug_flags)
        ELSE 0

-----------------------------------------------------------------------------
(* The kernel's calls into memory.c: memory_init, process_exec with        *)
(* elf_load, process_fork, process_exit and the switch of threads.  The    *)
(* process that makes a call is the one whose space is active.             *)

\* memory_init: the main space maps the devices in gigapages, the first
\* megarange of RAM page by page (text, read-only data, then data), the
\* rest of RAM in megapages, all of it global; the pages behind the heap
\* are one free chunk.
main_pt2 ==
    [i \in Idx |->
        IF i * GIGA_SIZE < RAM_START_PMA
        THEN leaf_pte((i * GIGA_SIZE) \div PAGE_SIZE, {"R", "W", "G"})
        ELSE IF i = PT_INDEX(ROOT_LEVEL, RAM_START) THEN ptab_pte(MAIN_PT1, {"G"})
        ELSE null_pte]

main_pt1 ==
    [i \in Idx |->
        IF i = 0 THEN ptab_pte(MAIN_PT0, {"G"})
        ELSE IF RAM_START_PMA + i * MEGA_SIZE < RAM_END_PMA
        THEN leaf_pte(RAM_START + i * PTE_CNT, {"R", "W", "G"})
        ELSE null_pte]

main_pt0 ==
    [i \in Idx |->
        leaf_pte(RAM_START + i,
                 CASE i = 0 -> {"R", "X", "G"}
                   [] i = 1 -> {"R", "G"}
                   [] OTHER -> {"R", "W", "G"})]

memory_init ==
    [free  |-> IF RAM_END > FREE_BASE
               THEN <<[addr |-> FREE_BASE, pagecnt |-> RAM_END - FREE_BASE]>>
               ELSE <<>>,
     pt    |-> [p \in Tables |->
                   CASE p = MAIN_PT2 -> main_pt2
                     [] p = MAIN_PT1 -> main_pt1
                     [] p = MAIN_PT0 -> main_pt0
                     [] OTHER        -> EmptyTable],
     satp  |-> MAIN_PT2,
     panic |-> "running"]

\* What a process is doing: the kernel has not started a program in it,
\* process_exec is loading segment k + 1 of prog, its program runs in user
\* mode, or process_exec has returned an error to it.
Boot             == [st |-> "boot"]
User             == [st |-> "user"]
Failed           == [st |-> "failed"]
Loading(prog, k) == [st |-> "loading", prog |-> prog, k |-> k]

Init ==
    /\ free_chunk_list = memory_init.free
    /\ pt = memory_init.pt
    /\ satp = memory_init.satp
    /\ sys = memory_init.panic
    /\ procs = [mtag \in {MAIN_PT2} |-> Boot]
    /\ stacks = {}

\* A call ends with the state it leaves, or with the kernel stopped.
Commit(R) ==
    IF R.panic # "running"
    THEN sys' = R.panic /\ UNCHANGED <<free_chunk_list, pt, satp>>
    ELSE /\ free_chunk_list' = R.free /\ pt' = R.pt /\ satp' = R.satp
         /\ UNCHANGED sys

\* The process of the active space goes on to do next, unless the call
\* stopped the kernel.
Becomes(next) ==
    procs' = IF sys' = "running" THEN [procs EXCEPT ![satp] = next] ELSE procs

\* elf_segment_check with the test of an executable left out.
elf_without_region_test(e_type, ph) ==
    IF ph.vaddr + ph.memsz > UMEM_END_VMA - PAGE_SIZE THEN -EBADFMT ELSE 0

\* elf_load's tests of a PT_LOAD segment: it does not wrap around, ends
\* below the stack page and, in an executable, lies in the user region; in
\* any other file it only has to lie above the page at 0.
elf_segment_check(e_type, ph) ==
    LET seg_end == ph.vaddr + ph.memsz IN
    IF \/ seg_end >= ADDR_MOD
       \/ seg_end > UMEM_END_VMA - PAGE_SIZE
       \/ e_type = ET_EXEC /\ (ph.vaddr < UMEM_START_VMA \/ seg_end > UMEM_END_VMA)
       \/ e_type # ET_EXEC /\ ph.vaddr < PAGE_SIZE
    THEN -EBADFMT ELSE 0

\* The pages of the segment are allocated and mapped for the kernel to
\* write and the user to read, and to execute if the segment says so.
elf_map_segment(M, ph) ==
    LET offset_in_first_page == ph.vaddr % PAGE_SIZE
        total_mem_bytes      == offset_in_first_page + ph.memsz
    IN  alloc_and_map_range(M, ph.vaddr - offset_in_first_page,
            PAGE_SIZE * ((total_mem_bytes + PAGE_SIZE - 1) \div PAGE_SIZE),
            {"R", "W", "U"} \cup (IF ph.x THEN {"X"} ELSE {}))

\* process_exec, until elf_load waits for the header of the file: the
\* active space is emptied.
ExecReset(prog) ==
    /\ sys = "running"
    /\ procs[satp].st \in {"boot", "user"}
    /\ Commit(reset_active_mspace(Mem))
    /\ Becomes(Loading(prog, 0))
    /\ UNCHANGED stacks

\* One turn of the loop of elf_load, until it waits for the bytes of the
\* segment: a segment that fails the tests ends the exec with an error.
LoadSegment ==
    /\ sys = "running"
    /\ procs[satp].st = "loading"
    /\ procs[satp].k < Len(procs[satp].prog.segs)
    /\ LET prog == procs[satp].prog
           k    == procs[satp].k + 1
       IN  IF elf_segment_check(prog.type, prog.segs[k]) # 0
           THEN /\ procs' = [procs EXCEPT ![satp] = Failed]
                /\ UNCHANGED <<free_chunk_list, pt, satp, sys>>
           ELSE /\ Commit(elf_map_segment(Mem, prog.segs[k]))
                /\ Becomes(Loading(prog, k))
    /\ UNCHANGED stacks

\* uio_read or uio_cntl fails, or the file is not what its header says:
\* elf_load returns the error with the segments it has mapped left mapped.
LoadFails ==
    /\ sys = "running"
    /\ procs[satp].st = "loading"
    /\ procs' = [procs EXCEPT ![satp] = Failed]
    /\ UNCHANGED <<free_chunk_list, pt, satp, sys, stacks>>

\* process_exec after elf_load: the page of the user stack is allocated,
\* built and mapped below UMEM_END_VMA, and the program starts.
ExecStart ==
    /\ sys = "running"
    /\ procs[satp].st = "loading"
    /\ procs[satp].k = Len(procs[satp].prog.segs)
    /\ LET A == alloc_phys_page(Mem) IN
       Commit(map_page(A.M, UMEM_END_VMA - PAGE_SIZE, A.pp, {"R", "W", "U"}))
    /\ Becomes(User)
    /\ UNCHANGED stacks

\* build_stack finds the arguments too large for the page: the page is
\* freed and process_exec returns the error.
ExecStackFails ==
    /\ sys = "running"
    /\ procs[satp].st = "loading"
    /\ procs[satp].k = Len(procs[satp].prog.segs)
    /\ LET A == alloc_phys_page(Mem) IN Commit(free_phys_page(A.M, A.pp))
    /\ Becomes(Failed)
    /\ UNCHANGED stacks

\* process_fork: the active space is cloned for the child and
\* create_thread takes a page for the kernel stack of its thread.
Fork ==
    /\ sys = "running"
    /\ procs[satp].st = "user"
    /\ Cardinality(DOMAIN procs) < NPROC
    /\ LET C == clone_active_mspace(Mem)
           A == alloc_phys_page(C.M)
       IN  /\ Commit(A.M)
           /\ IF sys' = "running"
              THEN /\ procs' = [mtag \in DOMAIN procs \cup {C.pp} |->
                                   IF mtag = C.pp THEN User ELSE procs[mtag]]
                   /\ stacks' = stacks \cup {A.pp}
              ELSE UNCHANGED <<procs, stacks>>

\* process_fork when spawn_thread finds no free thread: the clone is
\* made the active space, discarded, and the space of the parent is made
\* active again.
ForkFails ==
    /\ sys = "running"
    /\ procs[satp].st = "user"
    /\ Cardinality(DOMAIN procs) < NPROC
    /\ LET C == clone_active_mspace(Mem) IN
       Commit(IF C.pp = NULL THEN C.M
              ELSE switch_mspace(
                       discard_active_mspace(switch_mspace(C.M, C.pp)), satp))
    /\ UNCHANGED <<procs, stacks>>

\* process_exit: the active space is discarded and the main space becomes
\* active.  The exit of the main process ends the main thread, which halts
\* the machine.  running_thread_suspend never finds the thread it resumes
\* exited, so the stack of the thread that exits stays allocated.
Exit ==
    /\ sys = "running"
    /\ procs[satp].st = "user"
    /\ LET D == discard_active_mspace(Mem) IN
       IF satp = MAIN_PT2
       THEN /\ sys' = IF D.panic = "running" THEN "halted" ELSE D.panic
            /\ UNCHANGED <<free_chunk_list, pt, satp, procs>>
       ELSE /\ Commit(D)
            /\ procs' = IF sys' = "running"
                        THEN [mtag \in DOMAIN procs \ {satp} |-> procs[mtag]]
                        ELSE procs
    /\ UNCHANGED stacks

\* running_thread_suspend switches to the space of the next thread.
Switch(mtag) ==
    /\ sys = "running"
    /\ Commit(switch_mspace(Mem, mtag))
    /\ UNCHANGED <<procs, stacks>>

\* After a panic or a halt the kernel does nothing more.
Stopped == sys # "running" /\ UNCHANGED vars

Next ==
    \/ \E prog \in Programs : ExecReset(prog)
    \/ LoadSegment \/ LoadFails \/ ExecStart \/ ExecStackFails
    \/ Fork \/ ForkFails \/ Exit
    \/ \E mtag \in DOMAIN procs : Switch(mtag)
    \/ Stopped

Spec == Init /\ [][Next]_vars

-----------------------------------------------------------------------------
(* Properties *)

PTE   == [flags : SUBSET Flags, ppn : 0 .. RAM_END - 1]
Phase == {Boot, User, Failed} \cup
         {Loading(prog, k) : prog \in Programs, k \in 0 .. 3}

TypeOK ==
    /\ free_chunk_list \in Seq([addr : Pool, pagecnt : Nat])
    /\ pt \in [Tables -> [Idx -> PTE]]
    /\ satp \in DOMAIN procs
    /\ DOMAIN procs \subseteq Tables /\ \A mtag \in DOMAIN procs : procs[mtag] \in Phase
    /\ stacks \subseteq Pool
    /\ sys \in {"running", "halted", "no_memory", "assert", "overlapping_pages",
                "non_leaf_at_0", "leaf_for_subtable"}

\* The free list is sorted by address, and its chunks have pages, do not
\* overlap and lie in the pool: what alloc_phys_pages and free_phys_pages
\* assume of the list they walk, and free_phys_pages never finds a page it
\* is given free already.
FreeListSorted ==
    /\ \A i \in DOMAIN free_chunk_list :
          /\ free_chunk_list[i].pagecnt >= 1
          /\ ChunkEnd(free_chunk_list[i]) <= RAM_END
    /\ \A i \in 1 .. Len(free_chunk_list) - 1 :
          ChunkEnd(free_chunk_list[i]) <= free_chunk_list[i + 1].addr
    /\ sys \notin {"assert", "overlapping_pages"}

\* The tables of the spaces with the given roots: the roots and what
\* they reach through entries that are not global.
OwnSubtable(M, r) ==
    /\ PTE_VALID(Entry(M, r)) /\ ~PTE_GLOBAL(Entry(M, r))
    /\ ~PTE_LEAF(Entry(M, r))

RECURSIVE TablesBelow(_, _, _)
TablesBelow(M, roots, n) ==
    IF n = 0 THEN roots
    ELSE roots \cup TablesBelow(M,
             {pte_child(Entry(M, r)) : r \in {r \in roots \X Idx : OwnSubtable(M, r)}},
             n - 1)

\* The holders of the pages of the pool in M, each with the page it
\* holds: the chunks a page is free in, the entries of live spaces that
\* name it, the process whose root it is, the thread whose stack it is.
Holders(M, roots) ==
    UNION {{<<"free", i, p>> : p \in M.free[i].addr .. ChunkEnd(M.free[i]) - 1} :
              i \in DOMAIN M.free}
    \cup {<<"pte", r, Entry(M, r).ppn>> : r \in
            {r \in TablesBelow(M, roots, ROOT_LEVEL) \X Idx :
                PTE_VALID(Entry(M, r)) /\ ~PTE_GLOBAL(Entry(M, r))}}
    \cup {<<"root", p, p>> : p \in roots \ {MAIN_PT2}}
    \cup {<<"stack", p, p>> : p \in stacks}

Conserved(M, roots) ==
    LET held == Holders(M, roots) IN
    \A p \in Pool : Cardinality({h \in held : h[3] = p}) = 1

\* Every page of the pool has exactly one holder, whatever the processes
\* did: no page is leaked (ptab_reset and ptab_discard free the tables they
\* empty, ptab_insert the page it replaces when two segments of a program
\* overlap, process_fork the whole clone when it fails), none is free
\* while a table or a mapping still names it, and no two spaces share a
\* page after ptab_clone.
EveryPageHasOneHolder ==
    sys = "running" => Conserved(Mem, DOMAIN procs)

\* What a space lets its user do with the pages of the user region.
UserVpns == VPN(UMEM_START_VMA) .. VPN(UMEM_END_VMA) - 1
View(M, root) ==
    [vpn \in UserVpns |->
        LET at == ptab_fetch(M, root, vpn) IN
        IF at = NoPte THEN {} ELSE Entry(M, at).flags]

\* process_fork gives the child the mappings of the parent: the same pages
\* of the user region with the same permissions (ptab_clone keeps R, W, X,
\* U and G of a leaf), and leaves the parent's as they were.
CloneIsACopy ==
    [][\A root \in DOMAIN procs' \ DOMAIN procs :
           LET parent == View(Mem, satp) IN
           View(Mem', root) = parent /\ View(Mem', satp) = parent]_vars

\* How the addresses of the kernel are mapped in the space of root: the
\* entry that the walk for each page of the first megarange of RAM, and
\* for the first page of every other megarange below the user region,
\* ends in.
KernelVpns ==
    {vpn \in 0 .. VPN(UMEM_START_VMA) - 1 :
        vpn % PTE_CNT = 0 \/ vpn \in RAM_START .. RAM_START + PTE_CNT - 1}
KernelView(M, root) ==
    [vpn \in KernelVpns |->
        LET at == ptab_fetch(M, root, vpn) IN
        IF at = NoPte THEN null_pte ELSE Entry(M, at)]

\* Every space maps the addresses of the kernel as memory_init mapped
\* them, and no call panics over a mapping it did not expect: elf_load
\* maps nothing outside the user region, ptab_reset and ptab_discard leave
\* global entries alone, ptab_clone copies them.
KernelViewAtInit == KernelView(memory_init, MAIN_PT2)
KernelMappingsIntact ==
    /\ sys \notin {"leaf_for_subtable", "non_leaf_at_0"}
    /\ \A root \in DOMAIN procs : KernelView(Mem, root) = KernelViewAtInit

\* The byte at addr can be accessed with the permissions in flags: the
\* address is canonical and the walk of the active space ends in a leaf
\* that has them.
Accessible(addr, flags) ==
    /\ addr < ADDR_MOD /\ wellformed(addr)
    /\ page_check(Mem, VPN(addr), flags) = 0

\* The page-aligned ranges that the segments of the programs in the user
\* region lie in, and the addresses at their borders.
Ranges ==
    {<<ph.vaddr - (ph.vaddr % PAGE_SIZE),
       PAGE_SIZE * (((ph.vaddr % PAGE_SIZE) + ph.memsz + PAGE_SIZE - 1) \div PAGE_SIZE)>> :
        ph \in {ph \in UNION {{prog.segs[i] : i \in DOMAIN prog.segs} :
                               prog \in Programs} :
                   elf_segment_check(ET_EXEC, ph) = 0}}
ProbeAddrs ==
    {NULL, ADDR_MOD - 1, UMEM_END_VMA - 1} \cup
    UNION {{r[1] - 1, r[1], r[1] + PAGE_SIZE - 1} : r \in Ranges}
ProbeLens  == {0, 1, 2, PAGE_SIZE + 1, ADDR_MOD - 1}
ProbeFlags == {{"U", "R"}, {"U", "W"}}

\* validate_vptr accepts a buffer exactly when every byte of it can be
\* accessed, and validate_vstr a string exactly when every byte up to its
\* terminator can be: the first and the last page of the range are the
\* right ones, and a range that wraps around the address space or leaves
\* the canonical addresses is refused.
ValidateMatchesAccess ==
    \A vp \in ProbeAddrs, len \in ProbeLens, flags \in ProbeFlags :
        /\ validate_vptr(Mem, vp, len, flags) = 0
              <=> \A a \in vp .. vp + len - 1 : Accessible(a, flags)
        /\ len < ADDR_MOD - 1 =>
              (validate_vstr(Mem, vp, len, flags) = 0
                  <=> vp # NULL /\ \A a \in vp .. vp + len : Accessible(a, flags))

RangeVpns(r) == {VPN(r[1]) + i : i \in 0 .. r[2] \div PAGE_SIZE - 1}

\* unmap_and_free_range, called in any state the kernel reaches, unmaps
\* the pages of the range and nothing else, and gives back every page it
\* unmapped and every table that ptab_remove left empty.
UnmapIsExact ==
    LET mapped == View(Mem, satp) IN
    sys = "running" =>
        \A r \in Ranges :
            LET U == unmap_and_free_range(Mem, r[1], r[2]) IN
            /\ U.panic = "running"
            /\ Conserved(U, DOMAIN procs)
            /\ View(U, satp) = [vpn \in UserVpns |->
                   IF vpn \in RangeVpns(r) THEN {} ELSE mapped[vpn]]

\* set_range_flags, called in any state the kernel reaches, gives the
\* mapped pages of the range the new permissions in place of the old, and
\* changes nothing else.
SetRangeFlagsIsExact ==
    LET mapped == View(Mem, satp) IN
    sys = "running" =>
        \A r \in Ranges, flags \in ProtFlags :
            LET F == set_range_flags(Mem, r[1], r[2], flags) IN
            /\ F.panic = "running" /\ F.free = Mem.free
            /\ View(F, satp) = [vpn \in UserVpns |->
                   IF vpn \in RangeVpns(r) /\ mapped[vpn] # {}
                   THEN (mapped[vpn] \ RWXUG) \cup flags
                   ELSE mapped[vpn]]

\* The two operations on a range of the active space, unmap_and_free_range
\* and set_range_flags, change the pages of the range as they say and
\* nothing outside it, for every range and in every state the spaces reach.
RangeOperationsAreExact == UnmapIsExact /\ SetRangeFlagsIsExact

=============================================================================
