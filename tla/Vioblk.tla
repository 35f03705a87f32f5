------------------------------- MODULE Vioblk -------------------------------
(***************************************************************************)
(* The VirtIO block driver (src/sys/dev/vioblk.c) with the storage         *)
(* interface that calls it (src/sys/device.c), the boot steps that attach  *)
(* and open the device (src/sys/main.c) and the device at the other end of *)
(* the virtqueue, on top of the thread manager.                            *)
(*                                                                         *)
(* A transfer is cut into requests of one block.  For each the driver      *)
(* takes three descriptors from a stack of free ones, links them into a    *)
(* chain (header, data, status byte), publishes the head in the available  *)
(* ring and sleeps on the condition done until the status byte has         *)
(* changed.  The device works through the available ring, moves the data,  *)
(* writes the status byte, puts the head in the used ring and raises its   *)
(* interrupt; vioblk_isr acknowledges it and broadcasts done.  The caller  *)
(* then returns to the stack the descriptors of every chain the used ring  *)
(* names.                                                                  *)
(*                                                                         *)
(* Sizes and positions are in bytes.  The disk's content is a function     *)
(* from byte positions to small numbers, a caller's buffer one from        *)
(* offsets to small numbers.  Addresses in descriptors are references to   *)
(* a header, a status byte or an offset of a caller's buffer.              *)
(***************************************************************************)
EXTENDS Integers, Sequences, FiniteSets, SequencesExt

CONSTANTS
    NTHR,           \* slots of thrtab; all are in use here
    NULL,
    VIOBLK_QSIZE,   \* the queue length the driver asks for (128 in the kernel)
    QueueNumMaxes,  \* the values the device's queue_num_max may have
    IDX_MOD,        \* the ring indices are uint16_t: they count modulo this
    SECTOR,         \* bytes in a sector of the device (512)
    BLKSZ,          \* the device's block size, a multiple of SECTOR
    CAPACITY,       \* the device's capacity in sectors
    Positions,      \* the positions callers pass to storage_fetch and _store
    Sizes,          \* the byte counts they pass
    Faults,         \* TRUE: a request may fail in the device
    Serialized,     \* TRUE: a caller holds the cache's lock around a transfer
    MaxReq          \* bound on the requests the callers publish

ASSUME /\ NTHR \in Nat /\ NTHR >= 2
       /\ VIOBLK_QSIZE \in Nat \ {0} /\ QueueNumMaxes \subseteq Nat
       /\ IDX_MOD > VIOBLK_QSIZE /\ IDX_MOD % VIOBLK_QSIZE = 0
       /\ SECTOR \in Nat \ {0} /\ BLKSZ \in Nat \ {0} /\ BLKSZ % SECTOR = 0
       /\ CAPACITY \in Nat
       /\ Positions \subseteq Nat /\ Sizes \subseteq Nat
       /\ Faults \in BOOLEAN /\ Serialized \in BOOLEAN
       /\ MaxReq \in Nat

VARIABLES
    thrtab, ready_list, wait_list, TP,      \* the thread manager's state
    sie,            \* SSTATUS.SIE of the hart while it is in S mode
    umode,          \* umode[t]: t runs in U mode when it has the hart
    halted,         \* TRUE after halt_failure
    registered,     \* the device is in the device table
    prio,           \* priority of the device's source in the PLIC
    is_open,        \* vbd->is_open
    q_size,         \* vbd->q_size
    free_stack,     \* vbd->free_stack, up to free_top
    req_desc,       \* vbd->req_desc_header, _data, _status, by slot
    used_idx_seen,  \* vbd->used_idx_seen
    header_pool,    \* vbd->header_pool
    status_pool,    \* vbd->status_pool
    desc,           \* the descriptor table
    avail,          \* the available ring: idx, ring
    used,           \* the used ring: idx, ring
    queue_num_max,  \* regs->queue_num_max: the longest queue the device supports
    device,         \* the device's own state: last, busy
    interrupt_status,   \* regs->interrupt_status is not 0
    disk,           \* the content of the device
    mem,            \* mem[t]: the buffer t has passed to the driver
    at,             \* at[t]: how far t is into a call of the driver
    loc,            \* loc[t]: the locals of the call t is in
    ret,            \* the call that returned last: tid, val
    nreq            \* number of requests published so far, and of those
                    \* the calls in progress may still publish

tvars  == <<thrtab, ready_list, wait_list, TP>>
cpu    == <<sie, umode>>
boot   == <<halted, registered, prio>>
driver == <<is_open, q_size, free_stack, req_desc, used_idx_seen>>
queue  == <<header_pool, status_pool, desc, avail, used>>
hw     == <<queue_num_max, device, interrupt_status, disk>>
call   == <<at, loc>>
vars   == <<thrtab, ready_list, wait_list, TP, sie, umode, halted, registered,
            prio, is_open, q_size, free_stack, req_desc, used_idx_seen,
            header_pool, status_pool, desc, avail, used, queue_num_max, device,
            interrupt_status, disk, mem, at, loc, ret, nreq>>

Tids == 0 .. NTHR - 1
Ids  == 0 .. q_size - 1             \* descriptors, and slots of the rings
Idx  == 0 .. IDX_MOD - 1
Bytes == 0 .. CAPACITY * SECTOR - 1
MaxBuf == IF Sizes = {} THEN 0 ELSE CHOOSE n \in Sizes : \A m \in Sizes : m <= n
Offsets == 0 .. MaxBuf - 1

EINVAL  == 1
EBUSY   == 2
ENOTSUP == 3
ENOMEM  == 4
VIOBLK_INTR_PRIO == 1
VIRTIO_BLK_T_IN  == "IN"
VIRTIO_BLK_T_OUT == "OUT"
VIRTIO_BLK_S_OK    == 0
VIRTIO_BLK_S_IOERR == 1
PENDING == 255                      \* 0xFF in a status byte
VIRTQ_DESC_F_NEXT  == "NEXT"
VIRTQ_DESC_F_WRITE == "WRITE"
NONE == [header |-> NULL, data |-> NULL, status |-> NULL]   \* 0xFFFF thrice

\* What a buffer holds before a fetch, and what a caller stores at offset i.
JUNK == -1
Pattern(i) == 10 + i
Blank == [i \in Offsets |-> JUNK]

\* The thread manager, with the condition of the driver.
T == INSTANCE Thread WITH
        Locks <- {}, ExtConds <- {"done", "alarm"},
        MaxStackPages <- 0, MaxLockCnt <- 1,
        lock <- <<>>, pc <- [t \in Tids |-> <<"run">>], stack_pages <- 0,
        sys <- IF halted THEN "halted" ELSE "running"

done  == T!Ext("done")
alarm == T!Ext("alarm")     \* stands for what a process waits for elsewhere

Users == Tids \ {T!IDLE_TID}

\* The thread lists after a step of the thread manager.  A thread that is
\* resumed goes on with the SIE value of the thread that switched to it; one
\* that is resumed in U mode has interrupts on.
Switch(S, ie) ==
    /\ thrtab' = S.thr
    /\ ready_list' = S.ready
    /\ wait_list' = S.wait
    /\ TP' = S.tp
    /\ sie' = (ie \/ umode[S.tp])

\* An interrupt can be taken now.
IntrOn == umode[TP] \/ sie

Address(pool, idx, off) == [pool |-> pool, idx |-> idx, off |-> off]
Descriptor(addr, len, flags, next) ==
    [addr |-> addr, len |-> len, flags |-> flags, next |-> next]
Zeroed == Descriptor(Address("null", 0, 0), 0, {}, 0)

NoLocals == [op |-> NULL, pos |-> 0, bytecnt |-> 0, done |-> 0, chunk |-> 0,
             head |-> 0]

Least(a, b) == IF a < b THEN a ELSE b

-----------------------------------------------------------------------------
(* Mutated forms of the operators below.                                   *)

\* The reclaim that returns only the head of a chain to the stack.
push_head_only(stack, r) ==
    IF Len(stack) < q_size THEN Append(stack, r.header) ELSE stack

\* The sector of a request counted in blocks, not in sectors of 512 bytes.
sector_in_blocks(absolute_pos) == absolute_pos \div BLKSZ

\* The free stack filled with 1 .. qlen.
stack_from_one(qlen) == [i \in 1 .. qlen |-> i]

\* The reclaim that looks at one entry of the used ring and not at all
\* that are new.
reclaim_one(Q, seen) ==
    IF seen = used.idx THEN Q
    ELSE LET r == Q.req[used.ring[seen % q_size] % q_size]
         IN  [free |-> IF r = NONE THEN Q.free
                       ELSE Q.free \o <<r.header, r.data, r.status>>,
              req  |-> [Q.req EXCEPT ![used.ring[seen % q_size] % q_size] = NONE]]

-----------------------------------------------------------------------------
(* The driver's data structures.                                           *)

\* The free stack after the three pops of a request, and the chain popped:
\* the head is the top of the stack.
free_top == Len(free_stack)
Popped == [header |-> free_stack[free_top],
           data   |-> free_stack[free_top - 1],
           status |-> free_stack[free_top - 2]]

\* The three pushes that return a chain; each is skipped when the stack is
\* full.  (The code tests the three fields of a slot crosswise; they are
\* set and cleared together.)
push_chain(stack, r) ==
    LET push(s, id) == IF Len(s) < q_size THEN Append(s, id) ELSE s
    IN  push(push(push(stack, r.header), r.data), r.status)

\* The loop over the used ring from seen to used->idx: the chain of every
\* head the ring names goes back to the stack and its slot is cleared.
RECURSIVE reclaim_used(_, _)
reclaim_used(Q, seen) ==
    IF seen = used.idx THEN Q
    ELSE LET slot_used == used.ring[seen % q_size] % q_size
             r == Q.req[slot_used]
         IN  reclaim_used(
                [free |-> IF r = NONE THEN Q.free ELSE push_chain(Q.free, r),
                 req  |-> [Q.req EXCEPT ![slot_used] = NONE]],
                (seen + 1) % IDX_MOD)

\* The free stack vioblk_storage_open leaves: free_stack[i] = i.
initial_stack(qlen) == [i \in 1 .. qlen |-> i - 1]

\* The sector a request names in its header.
sector_of(absolute_pos) == absolute_pos \div SECTOR

-----------------------------------------------------------------------------
Init ==
    /\ thrtab = [t \in Tids |->
                    IF t = T!MAIN_TID THEN T!Thread("SELF", NULL)
                    ELSE T!Thread("READY", T!MAIN_TID)]
    /\ ready_list = <<T!IDLE_TID>> \o [i \in 1 .. NTHR - 2 |-> i]
    /\ wait_list = [c \in T!Conds |-> <<>>]
    /\ TP = T!MAIN_TID
    /\ sie = FALSE
    /\ umode = [t \in Tids |-> t \notin {T!MAIN_TID, T!IDLE_TID}]
    /\ halted = FALSE /\ registered = FALSE /\ prio = 0
    /\ is_open = FALSE /\ q_size = 0 /\ free_stack = <<>>
    /\ req_desc = <<>> /\ used_idx_seen = 0
    /\ header_pool = <<>> /\ status_pool = <<>> /\ desc = <<>>
    /\ avail = [idx |-> 0, ring |-> <<>>]
    /\ used = [idx |-> 0, ring |-> <<>>]
    /\ queue_num_max \in QueueNumMaxes
    /\ device = [last |-> 0, busy |-> NULL]
    /\ interrupt_status = FALSE
    /\ disk = [b \in Bytes |-> b]
    /\ mem = [t \in Tids |-> Blank]
    /\ at = [t \in Tids |-> IF t = T!MAIN_TID THEN "attach" ELSE "run"]
    /\ loc = [t \in Tids |-> NoLocals]
    /\ ret = [tid |-> NULL, val |-> 0]
    /\ nreq = 0

\* A thread in U mode makes a system call: the trap clears SIE.
Enter(t) == T!Running(t) /\ umode[t] /\ at[t] = "run"

Trap(t) ==
    /\ umode' = [umode EXCEPT ![t] = FALSE]
    /\ sie' = FALSE

\* A call that does not return at once goes on in S mode at the given place.
Goto(t, place, locals) ==
    /\ at' = [at EXCEPT ![t] = place]
    /\ loc' = [loc EXCEPT ![t] = locals]

\* The call returns r, and the thread returns to U mode.  The buffer is the
\* caller's again: the model forgets what it holds.
Return(t, r) ==
    /\ at' = [at EXCEPT ![t] = "run"]
    /\ loc' = [loc EXCEPT ![t] = NoLocals]
    /\ umode' = [umode EXCEPT ![t] = TRUE]
    /\ sie' = TRUE
    /\ mem' = [mem EXCEPT ![t] = Blank]
    /\ ret' = [tid |-> t, val |-> r]

\* halt_failure.
halt_failure ==
    /\ halted' = TRUE
    /\ UNCHANGED <<tvars, cpu, call, mem, ret, nreq>>

\* main up to mount_cdrive: vioblk_attach negotiates the features,
\* allocates the device's structure, registers vioblk_isr for its source
\* and puts the device in the device table; when a step of that fails the
\* device is left out.  main then enables interrupts.
vioblk_attach(t) ==
    /\ T!Running(t) /\ at[t] = "attach"
    /\ \/ /\ prio' = VIOBLK_INTR_PRIO
          /\ registered' = TRUE
       \/ UNCHANGED <<prio, registered>>       \* negotiation or kmalloc fails
       \/ /\ prio' = VIOBLK_INTR_PRIO          \* register_device fails
          /\ UNCHANGED registered
    /\ sie' = TRUE
    /\ at' = [at EXCEPT ![t] = "mount"]
    /\ UNCHANGED <<tvars, umode, halted, driver, queue, hw, mem, loc, ret, nreq>>

\* vioblk_storage_open after the test of is_open: the queue length is the
\* smaller of VIOBLK_QSIZE and what the device supports.  The call allocates
\* in three places, the rings, the free stack and the pools of headers and
\* status bytes, and returns -ENOMEM from the first that fails with what it
\* set before: failed is that place, 0 when none fails.  With the rings the
\* call zeroes them, empties the slots and takes the used ring as seen up
\* to its index; with the free stack it puts every descriptor on it; with
\* the pools it zeroes them, enables the interrupt source and marks the
\* device open.  (is_open stays 0 after a failure, and no code looks at the
\* pointers the failed kmalloc left.)
AllocationPoints == 1 .. 3

open_result(failed) ==
    IF queue_num_max = 0 THEN -ENOTSUP ELSE IF failed = 0 THEN 0 ELSE -ENOMEM

queue_setup(failed) ==
    LET qlen      == Least(VIOBLK_QSIZE, queue_num_max)
        Q         == 0 .. qlen - 1
        err       == open_result(failed)
        passed(k) == queue_num_max # 0 /\ (failed = 0 \/ k < failed)
    IN
    /\ q_size' = IF queue_num_max = 0 THEN q_size ELSE qlen
    /\ IF passed(1)
       THEN /\ desc' = [i \in Q |-> Zeroed]
            /\ avail' = [idx |-> 0, ring |-> [i \in Q |-> 0]]
            /\ used' = [idx |-> 0, ring |-> [i \in Q |-> 0]]
            /\ req_desc' = [i \in Q |-> NONE]
            /\ used_idx_seen' = 0
       ELSE UNCHANGED <<desc, avail, used, req_desc, used_idx_seen>>
    /\ free_stack' = IF passed(2) THEN initial_stack(qlen) ELSE free_stack
    /\ IF passed(3)
       THEN /\ header_pool' = [i \in Q |-> [type |-> NULL, sector |-> 0]]
            /\ status_pool' = [i \in Q |-> 0]
       ELSE UNCHANGED <<header_pool, status_pool>>
    /\ is_open' = (err = 0)
    /\ err = 0 => prio' = VIOBLK_INTR_PRIO
    /\ err # 0 => UNCHANGED prio

\* mount_cdrive: the kernel halts when the device is not in the table or
\* cannot be opened; otherwise main goes on to become the first process.
mount_cdrive(t) ==
    /\ T!Running(t) /\ at[t] = "mount"
    /\ \/ /\ ~registered
          /\ halt_failure
          /\ UNCHANGED <<registered, prio, driver, queue>>
       \/ /\ registered
          /\ \E failed \in {0} \cup AllocationPoints :
                /\ queue_setup(failed)
                /\ IF open_result(failed) = 0
                   THEN /\ at' = [at EXCEPT ![t] = "run"]
                        /\ umode' = [umode EXCEPT ![t] = TRUE]
                        /\ UNCHANGED <<tvars, sie, halted, loc, mem, ret, nreq>>
                   ELSE halt_failure
          /\ UNCHANGED registered
    /\ UNCHANGED hw

\* storage_open_uio: a process opens the device by its name.  The device
\* is open since the boot, and vioblk_storage_open refuses.
vioblk_storage_open(t) ==
    /\ Enter(t)
    /\ IF is_open
       THEN /\ Return(t, -EBUSY)
            /\ UNCHANGED <<prio, driver, queue>>
       ELSE \E failed \in {0} \cup AllocationPoints :
                /\ queue_setup(failed)
                /\ Return(t, open_result(failed))
    /\ UNCHANGED <<tvars, halted, registered, hw, nreq>>

-----------------------------------------------------------------------------
(* Transfers.                                                              *)

\* storage_fetch and storage_store pass a call on only when the position
\* is a multiple of the block size and the buffer is empty or holds a block.
storage_accepts(pos, bufsz) == (bufsz = 0 \/ BLKSZ <= bufsz) /\ pos % BLKSZ = 0

\* The byte count the driver works on: what is left of the device behind
\* pos at most, rounded down to whole blocks.
clamped(pos, bytecnt) == Least(bytecnt, CAPACITY * SECTOR - pos)
aligned_blocks(bytecnt) == (bytecnt \div BLKSZ) * BLKSZ
whole_blocks(pos, bytecnt) == aligned_blocks(clamped(pos, bytecnt))

\* A transfer up to its loop.  It returns at once when the interface
\* refuses it, when the device is not open, when pos is behind the end of
\* the device and when less than a block is to be moved.
Begin(t, op, pos, bufsz, buffer) ==
    /\ Enter(t)
    /\ Serialized => \A u \in Users \ {t} : at[u] \in {"run", "alarm"}
    /\ IF ~storage_accepts(pos, bufsz)
       THEN Return(t, -EINVAL) /\ UNCHANGED nreq
       ELSE IF ~is_open \/ pos >= CAPACITY * SECTOR \/ whole_blocks(pos, bufsz) = 0
       THEN Return(t, 0) /\ UNCHANGED nreq
       ELSE /\ nreq + whole_blocks(pos, bufsz) \div BLKSZ <= MaxReq
            /\ nreq' = nreq + whole_blocks(pos, bufsz) \div BLKSZ
            /\ Trap(t)
            /\ Goto(t, "submit", [NoLocals EXCEPT !.op = op, !.pos = pos,
                                    !.bytecnt = whole_blocks(pos, bufsz)])
            /\ mem' = [mem EXCEPT ![t] = buffer]
            /\ UNCHANGED ret
    /\ UNCHANGED <<tvars, boot, driver, queue, hw>>

storage_fetch(t, pos, bufsz) == Begin(t, VIRTIO_BLK_T_IN, pos, bufsz, Blank)

storage_store(t, pos, bufsz) ==
    Begin(t, VIRTIO_BLK_T_OUT, pos, bufsz, [i \in Offsets |-> Pattern(i)])

\* The head of the loop up to lock_release: the next chunk, of a block at
\* most, becomes a request.  With fewer than three free descriptors the
\* call returns what it has moved so far.  Otherwise the chain is popped
\* and noted in the slot of its head, the header names the operation and
\* the sector, the status byte is set to 0xFF, the three descriptors are
\* filled and linked, the head is written to the available ring and the
\* ring's index advanced, and the device is notified.
Submit(t, type, data_flags) ==
    LET L     == loc[t]
        chunk == Least(L.bytecnt - L.done, BLKSZ)
        c     == Popped
        hdr   == Descriptor(Address("hdr", c.header, 0), 16,
                            {VIRTQ_DESC_F_NEXT}, c.data)
        data  == Descriptor(Address("buf", t, L.done), chunk, data_flags,
                            c.status)
        stat  == Descriptor(Address("status", c.header, 0), 1,
                            {VIRTQ_DESC_F_WRITE}, 0)
    IN
    /\ T!Running(t) /\ at[t] = "submit" /\ loc[t].op = type
    /\ IF free_top < 3
       THEN /\ Return(t, L.done)
            /\ UNCHANGED <<tvars, free_stack, req_desc, queue>>
       ELSE /\ free_stack' = SubSeq(free_stack, 1, free_top - 3)
            /\ req_desc' = [req_desc EXCEPT ![c.header % q_size] = c]
            /\ header_pool' = [header_pool EXCEPT ![c.header] =
                    [type |-> type, sector |-> sector_of(L.pos + L.done)]]
            /\ status_pool' = [status_pool EXCEPT ![c.header] = PENDING]
            /\ desc' = [desc EXCEPT ![c.header] = hdr, ![c.data] = data,
                                    ![c.status] = stat]
            /\ avail' = [ring |-> [avail.ring EXCEPT ![avail.idx % q_size] = c.header],
                         idx  |-> (avail.idx + 1) % IDX_MOD]
            /\ Goto(t, "test", [L EXCEPT !.chunk = chunk, !.head = c.header])
            /\ UNCHANGED <<tvars, cpu, used, mem, ret>>
    /\ UNCHANGED <<boot, is_open, q_size, used_idx_seen, hw, nreq>>

\* disable_interrupts and the first test of the status byte: while the
\* byte is 0xFF the caller waits on done, with interrupts disabled until it
\* has been suspended; otherwise the interrupts are as they were.
FirstTest(t, type) ==
    /\ T!Running(t) /\ at[t] = "test" /\ loc[t].op = type
    /\ IF status_pool[loc[t].head] = PENDING
       THEN Switch(T!condition_wait(T!Sched, done), FALSE)
       ELSE UNCHANGED <<tvars, sie>>
    /\ at' = [at EXCEPT ![t] = "loop"]
    /\ UNCHANGED <<umode, boot, driver, queue, hw, mem, loc, ret, nreq>>

\* The test of the while loop: the status byte is read, and the caller
\* goes on to condition_wait or leaves the loop.
WhileTest(t, type) ==
    /\ T!Running(t) /\ at[t] = "loop" /\ loc[t].op = type
    /\ at' = [at EXCEPT ![t] = IF status_pool[loc[t].head] = PENDING
                               THEN "wait" ELSE "reclaim"]
    /\ UNCHANGED <<tvars, cpu, boot, driver, queue, hw, mem, loc, ret, nreq>>

\* condition_wait up to running_thread_suspend: the caller is WAITING and
\* on the wait list of done.
wait_enqueue(t) ==
    /\ ~halted /\ TP = t /\ at[t] = "wait"
    /\ Switch(T!condition_enqueue(T!Sched, done), sie)
    /\ at' = [at EXCEPT ![t] = "sleep"]
    /\ UNCHANGED <<umode, boot, driver, queue, hw, mem, loc, ret, nreq>>

\* running_thread_suspend; the caller tests the status byte again when it
\* has the hart again.
wait_suspend(t) ==
    /\ ~halted /\ TP = t /\ at[t] = "sleep"
    /\ Switch(T!running_thread_suspend(T!Sched), sie)
    /\ at' = [at EXCEPT ![t] = "loop"]
    /\ UNCHANGED <<umode, boot, driver, queue, hw, mem, loc, ret, nreq>>

\* From the second lock_acquire to the end of the loop: the chains the
\* used ring names behind used_idx_seen go back to the free stack, and the
\* ring is seen up to its index.  Then the status byte decides: on OK the
\* chunk counts, and the loop goes on while bytes are left; on an error the
\* call returns what it has moved so far.
Reclaim(t, type) ==
    LET L     == loc[t]
        Q     == reclaim_used([free |-> free_stack, req |-> req_desc],
                              used_idx_seen)
        moved == IF status_pool[L.head] = VIRTIO_BLK_S_OK
                 THEN L.done + L.chunk ELSE L.done
    IN
    /\ T!Running(t) /\ at[t] = "reclaim" /\ loc[t].op = type
    /\ free_stack' = Q.free
    /\ req_desc' = Q.req
    /\ used_idx_seen' = used.idx
    /\ IF status_pool[L.head] = VIRTIO_BLK_S_OK /\ moved < L.bytecnt
       THEN /\ Goto(t, "submit", [L EXCEPT !.done = moved])
            /\ UNCHANGED <<cpu, mem, ret>>
       ELSE Return(t, moved)
    /\ UNCHANGED <<tvars, boot, is_open, q_size, queue, hw, nreq>>

fetch_submit(t) ==
    Submit(t, VIRTIO_BLK_T_IN, {VIRTQ_DESC_F_WRITE, VIRTQ_DESC_F_NEXT})
store_submit(t) == Submit(t, VIRTIO_BLK_T_OUT, {VIRTQ_DESC_F_NEXT})
fetch_test(t)  == FirstTest(t, VIRTIO_BLK_T_IN)
store_test(t)  == FirstTest(t, VIRTIO_BLK_T_OUT)
fetch_while(t) == WhileTest(t, VIRTIO_BLK_T_IN)
store_while(t) == WhileTest(t, VIRTIO_BLK_T_OUT)
fetch_reclaim(t) == Reclaim(t, VIRTIO_BLK_T_IN)
store_reclaim(t) == Reclaim(t, VIRTIO_BLK_T_OUT)

-----------------------------------------------------------------------------
(* The device, and its interrupt.                                          *)

\* The device takes the next head from the available ring and follows the
\* chain: it reads the header, moves the data between the disk and the
\* buffer the data descriptor names (into the buffer only if the descriptor
\* lets it write) and writes the status byte.  A request may fail when
\* Faults is set; then no data moves.
DeviceTransfer(st) ==
    LET head == avail.ring[device.last % q_size]
        d    == desc[desc[head].next]
        s    == desc[d.next]
        hdr  == header_pool[desc[head].addr.idx]
        base == hdr.sector * SECTOR
        span == 0 .. d.len - 1
        ok   == /\ st = VIRTIO_BLK_S_OK
                /\ hdr.type = VIRTIO_BLK_T_IN => VIRTQ_DESC_F_WRITE \in d.flags
                /\ \A i \in span : base + i \in Bytes
    IN
    /\ ~halted /\ is_open
    /\ device.busy = NULL /\ device.last # avail.idx
    /\ mem' = IF ok /\ hdr.type = VIRTIO_BLK_T_IN
              THEN [mem EXCEPT ![d.addr.idx] =
                      [i \in Offsets |-> IF i - d.addr.off \in span
                                         THEN disk[base + i - d.addr.off]
                                         ELSE @[i]]]
              ELSE mem
    /\ disk' = IF ok /\ hdr.type = VIRTIO_BLK_T_OUT
               THEN [b \in Bytes |-> IF b - base \in span
                                     THEN mem[d.addr.idx][d.addr.off + b - base]
                                     ELSE disk[b]]
               ELSE disk
    /\ status_pool' = [status_pool EXCEPT ![s.addr.idx] =
                          IF ok THEN VIRTIO_BLK_S_OK ELSE VIRTIO_BLK_S_IOERR]
    /\ device' = [last |-> (device.last + 1) % IDX_MOD, busy |-> head]
    /\ UNCHANGED <<tvars, cpu, boot, driver, queue_num_max, header_pool, desc,
                   avail, used, interrupt_status, call, ret, nreq>>

\* The device puts the head of the request it has done in the used ring,
\* advances the ring's index and raises its interrupt.
DeviceUsed ==
    /\ ~halted /\ device.busy # NULL
    /\ used' = [ring |-> [used.ring EXCEPT ![used.idx % q_size] = device.busy],
                idx  |-> (used.idx + 1) % IDX_MOD]
    /\ interrupt_status' = TRUE
    /\ device' = [device EXCEPT !.busy = NULL]
    /\ UNCHANGED <<tvars, cpu, boot, driver, queue_num_max, header_pool,
                   status_pool, desc, avail, disk, mem, call, ret, nreq>>

\* vioblk_isr: what is pending in interrupt_status is acknowledged, and
\* the waiters on done are made ready.  The handler takes no lock.  (With
\* nothing pending it returns at once; the PLIC offers the source only
\* while the line is raised.)
vioblk_isr(S) == [pending |-> FALSE, sched |-> T!condition_broadcast(S, done)]

\* An external interrupt: handle_extern_interrupt claims the source from
\* the PLIC, which offers it while it has a priority and the device's line
\* is raised, and calls vioblk_isr.  The handler runs with interrupts
\* disabled and returns to what it interrupted.
handle_extern_interrupt ==
    LET R == vioblk_isr(T!Sched) IN
    /\ ~halted /\ IntrOn
    /\ prio > 0 /\ interrupt_status
    /\ interrupt_status' = R.pending
    /\ Switch(R.sched, sie)
    /\ UNCHANGED <<umode, boot, driver, queue, queue_num_max, device, disk, mem,
                   call, ret, nreq>>

\* A process sleeps in another system call, here for an alarm, and another
\* interrupt handler, here the timer's, wakes it.  While every process
\* sleeps the idle thread has the hart, and it enables interrupts.
alarm_sleep(t) ==
    /\ Enter(t)
    /\ umode' = [umode EXCEPT ![t] = FALSE]
    /\ Switch(T!condition_wait(T!Sched, alarm), FALSE)
    /\ at' = [at EXCEPT ![t] = "alarm"]
    /\ UNCHANGED <<boot, driver, queue, hw, mem, loc, ret, nreq>>

alarm_return(t) ==
    /\ T!Running(t) /\ at[t] = "alarm"
    /\ at' = [at EXCEPT ![t] = "run"]
    /\ umode' = [umode EXCEPT ![t] = TRUE]
    /\ sie' = TRUE
    /\ UNCHANGED <<tvars, boot, driver, queue, hw, mem, loc, ret, nreq>>

handle_timer_interrupt ==
    /\ ~halted /\ IntrOn
    /\ wait_list[alarm] # <<>>
    /\ Switch(T!condition_broadcast(T!Sched, alarm), sie)
    /\ UNCHANGED <<umode, boot, driver, queue, hw, mem, call, ret, nreq>>

\* intr.c: after a preemption tick of the timer the interrupted thread
\* yields, if it was in U mode.  The thread it switches to goes on inside
\* the handler, with interrupts disabled.
timer_preempt(t) ==
    /\ Enter(t)
    /\ Switch(T!running_thread_suspend(T!Sched), FALSE)
    /\ UNCHANGED <<umode, boot, driver, queue, hw, mem, call, ret, nreq>>

\* The idle thread yields while a thread is ready; otherwise it executes
\* wfi and enables interrupts.
idle_thread_func ==
    /\ T!Running(T!IDLE_TID)
    /\ \/ /\ ready_list # <<>>
          /\ Switch(T!running_thread_suspend(T!Sched), sie)
       \/ /\ ready_list = <<>>
          /\ sie' = TRUE
          /\ UNCHANGED tvars
    /\ UNCHANGED <<umode, boot, driver, queue, hw, mem, call, ret, nreq>>

\* After halt_failure nothing happens any more.
Halted == halted /\ UNCHANGED vars

ThreadStep(t) ==
    \/ vioblk_attach(t) \/ mount_cdrive(t)
    \/ vioblk_storage_open(t)
    \/ \E pos \in Positions, bufsz \in Sizes :
          storage_fetch(t, pos, bufsz) \/ storage_store(t, pos, bufsz)
    \/ fetch_submit(t) \/ fetch_test(t) \/ fetch_while(t) \/ fetch_reclaim(t)
    \/ store_submit(t) \/ store_test(t) \/ store_while(t) \/ store_reclaim(t)
    \/ wait_enqueue(t) \/ wait_suspend(t)
    \/ timer_preempt(t)
    \/ alarm_sleep(t) \/ alarm_return(t)

Next ==
    \/ \E t \in Users : ThreadStep(t)
    \/ idle_thread_func
    \/ handle_extern_interrupt
    \/ handle_timer_interrupt
    \/ \E st \in {VIRTIO_BLK_S_OK} \cup (IF Faults THEN {VIRTIO_BLK_S_IOERR} ELSE {}) :
          DeviceTransfer(st)
    \/ DeviceUsed
    \/ Halted

Spec == Init /\ [][Next]_vars

-----------------------------------------------------------------------------
(* Properties.                                                             *)

Places == {"attach", "mount", "run", "submit", "test", "loop", "wait",
           "sleep", "reclaim", "alarm"}
Values == {JUNK} \cup Bytes \cup {Pattern(i) : i \in Offsets}
Chain == [header : Ids, data : Ids, status : Ids]

TypeOK ==
    /\ thrtab \in [Tids -> [state : {"WAITING", "SELF", "READY", "EXITED"},
                            parent : Tids \cup {NULL},
                            wait_cond : T!Conds \cup {NULL}]]
    /\ ready_list \in Seq(Tids)
    /\ wait_list \in [T!Conds -> Seq(Tids)]
    /\ TP \in Tids
    /\ sie \in BOOLEAN /\ umode \in [Tids -> BOOLEAN]
    /\ halted \in BOOLEAN /\ registered \in BOOLEAN
    /\ prio \in {0, VIOBLK_INTR_PRIO}
    /\ is_open \in BOOLEAN
    /\ queue_num_max \in QueueNumMaxes
    /\ q_size \in 0 .. VIOBLK_QSIZE
    /\ is_open =>
        /\ free_stack \in Seq(Ids)
        /\ req_desc \in [Ids -> Chain \cup {NONE}]
        /\ used_idx_seen \in Idx
        /\ header_pool \in [Ids -> [type : {NULL, VIRTIO_BLK_T_IN, VIRTIO_BLK_T_OUT},
                                    sector : 0 .. CAPACITY]]
        /\ status_pool \in [Ids -> {VIRTIO_BLK_S_OK, VIRTIO_BLK_S_IOERR, PENDING}]
        /\ desc \in [Ids -> [addr : [pool : {"null", "hdr", "buf", "status"},
                                     idx : Nat, off : Nat],
                             len : Nat,
                             flags : SUBSET {VIRTQ_DESC_F_NEXT, VIRTQ_DESC_F_WRITE},
                             next : Ids \cup {0}]]
        /\ avail \in [idx : Idx, ring : [Ids -> Ids \cup {0}]]
        /\ used \in [idx : Idx, ring : [Ids -> Ids \cup {0}]]
    /\ device \in [last : Idx, busy : 0 .. VIOBLK_QSIZE \cup {NULL}]
    /\ interrupt_status \in BOOLEAN
    /\ disk \in [Bytes -> Values]
    /\ mem \in [Tids -> [Offsets -> Values]]
    /\ at \in [Tids -> Places]
    /\ loc \in [Tids -> [op : {NULL, VIRTIO_BLK_T_IN, VIRTIO_BLK_T_OUT},
                         pos : Nat, bytecnt : Nat, done : Nat, chunk : Nat,
                         head : 0 .. VIOBLK_QSIZE]]
    /\ ret \in [tid : Tids \cup {NULL}, val : Int]
    /\ nreq \in 0 .. MaxReq


Chains == Range(req_desc) \ {NONE}
ChainIds(r) == {r.header, r.data, r.status}

\* Every descriptor is in exactly one place: on the free stack, once, or in
\* one chain in flight.  vioblk_storage_fetch and _store pop three
\* descriptors for a request and push the chains the used ring names,
\* their own or those of earlier requests, and the device finishes
\* requests while they do; a descriptor pushed twice or never would be
\* handed to two requests or lost to the queue.
DescriptorsConserved ==
    is_open =>
        /\ Range(free_stack) \cup UNION {ChainIds(r) : r \in Chains} = Ids
        /\ Len(free_stack) + 3 * Cardinality(Chains) = q_size

\* The heads the device has still to take from the available ring.
Unserved ==
    {avail.ring[(device.last + k) % q_size] :
        k \in 0 .. ((avail.idx - device.last) % IDX_MOD) - 1}

\* The rings account for the chains: the slots that name a chain are as
\* many as the requests published and not yet reclaimed (the indices count
\* modulo 2^16, the slots modulo the queue length), and the chain of a
\* request the device has still to serve is intact: its slot names it and
\* its descriptors are linked header, data, status byte, as
\* vioblk_storage_fetch and _store left them.  The reclaim loop runs on
\* what the used ring holds at that moment, not on the caller's request.
RingsAccountForChains ==
    is_open =>
        /\ Cardinality(Chains) = (avail.idx - used_idx_seen) % IDX_MOD
        /\ \A h \in Unserved :
              LET r == req_desc[h % q_size] IN
              /\ r # NONE /\ r.header = h
              /\ desc[h].next = r.data /\ desc[r.data].next = r.status
              /\ desc[h].addr = Address("hdr", h, 0)
              /\ desc[r.status].addr = Address("status", h, 0)
              /\ status_pool[h] = PENDING

\* A transfer returns what it has moved: the count is a number of whole
\* blocks; it is short of what was asked only when the device failed the
\* last request, or when the queue is too short for the chains of two
\* requests and the loop finds "not enough free indicies" (with a longer
\* queue never for want of descriptors); a fetch has filled the
\* buffer with what the device holds at pos, and after a store the device
\* holds at pos what the buffer held.  The caller is woken by a broadcast
\* that may belong to an earlier request, reads the status byte of a
\* recycled head and names the sector itself.  (A caller holds the cache's
\* lock, so no other transfer changes the device meanwhile.)
Exact(t, n) ==
    LET L == loc[t] IN
    /\ n % BLKSZ = 0 /\ n <= L.bytecnt
    /\ n < L.bytecnt =>
          \/ at[t] = "submit" /\ q_size < 6
          \/ status_pool[L.head] \notin {VIRTIO_BLK_S_OK, PENDING}
    /\ \A i \in 0 .. n - 1 :
          IF L.op = VIRTIO_BLK_T_IN THEN mem[t][i] = disk[L.pos + i]
          ELSE disk[L.pos + i] = Pattern(i)

TransferIsExact ==
    [][\A t \in Users :
          at[t] \in {"submit", "reclaim"} /\ at'[t] = "run" => Exact(t, ret'.val)]_vars

-----------------------------------------------------------------------------
(* What the driver's comments say, and the code does not do.               *)

\* "ISR may have already run so only sleep if no progress has occurred": a
\* caller of vioblk_storage_fetch or _store sleeps on done only while
\* something is left that will wake it, an interrupt that is pending or a
\* request the device has not finished.  The while loop tests the status
\* byte and calls condition_wait with the interrupts as the caller has
\* them, and a caller the idle thread has resumed has them enabled.
NoLostCompletion ==
    wait_list[done] # <<>> => interrupt_status \/ used.idx # avail.idx

=============================================================================
