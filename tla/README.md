# TLA+ models of the RISC-V Unix-like kernel

This directory holds TLA+ specifications of the kernel under `src/sys` and of
the shell and the utilities under `src/usr/progs`, the TLC configurations that check them, and `PROJECT.json`, which lists every
component, run, mutant, source mapping, finding and hazard in machine-readable
form.  Every definition is translated from the C source; where a definition
stands for code that is not in `src/` (the assembly of the context switch and
of trap entry, the SBI call that sets the timer comparator) it follows the
design document and is marked `spec_modelled` in the map.

Run a configuration with `tlc -workers 2 -config <file>.cfg <module>`.

## 1. The system

A uniprocessor kernel for RV64 (Sv39): threads with a cooperative scheduler
and timer preemption of user mode, processes with fork/exec/exit/wait, a block
cache over a virtio block device, the KTFS file system, pipes, and drivers for
a UART, a virtio entropy device, a RAM disk and a clock.

| Component | Source | State | Operations | Status |
|---|---|---|---|---|
| Thread manager | `thread.c` | `thrtab[16]`, `ready_list`, `TP`, per thread: state, parent, `wait_cond`, `child_exit`, stack page | `spawn_thread`, `running_thread_exit`, `running_thread_yield`, `thread_join`, `thread_detach`, `running_thread_suspend`, `thread_reclaim`, `idle_thread_func` | `Thread` |
| Conditions, locks | `thread.c` | per condition a FIFO wait list; per lock owner, count, release condition | `condition_wait`, `condition_broadcast`, `lock_acquire`, `lock_release` | `Thread`, `Timer` |
| Timer and interrupts | `timer.c`, `intr.c`, `intr.h`, `plic.c` | `sleep_list`, `next_preemption_tick`, `sched_tick_pending`, the comparator, SSTATUS.SIE, the ISR table | `alarm_sleep`, `alarm_reset`, `sleep_us`, `handle_timer_interrupt`, `program_next_stcmp`, `handle_interrupt`, `handle_extern_interrupt` | `Timer` (PLIC dispatch planned) |
| Trap dispatch | `excp.c`, `syscall.c` | the trap frame | exception routing, page-fault handling, the system call table | `Process` (the system calls and the exit of a faulting process; page faults in `Memory`) |
| Processes | `process.c`, `syscall.c` | `proctab[16]`, per process: thread, address space, 16 descriptors | `process_exec`, `process_fork`, `process_exit`, `fork_func` | `Process` for descriptors, threads and the fork handshake; `Memory` for spaces and pages |
| UIO and pipes | `uio.c` | reference counts, the pipe buffer, reader/writer counts | `uio_close`, `uio_addref`, pipe read/write/close | `Process` |
| Block cache | `cache.c` | 64 entries: block, valid, dirty, in_use, owner, age; `last_used`; one lock, one condition | `cache_get_block`, `cache_release_block`, `cache_flush` | `Cache`, `BlockStore` |
| KTFS | `ktfs.c` | superblock, bitmaps, inodes, the root directory, open files | mount, open, create, delete, read (fetch), write (store), set end, flush | `Ktfs` |
| Physical pages | `memory.c` | the free list of page ranges | `alloc_phys_pages`, `free_phys_pages`, `free_phys_page_count` | `Memory` |
| Address spaces | `memory.c` | three-level page tables, the active space | map, unmap, clone, reset, discard, `handle_umode_page_fault`, `validate_vptr`, `validate_vstr` | `Memory` |
| Device manager, file systems | `device.c`, `filesys.c` | `devlist`, `mplist`, the uio objects of devices and listings with position and bounce buffer | `register_device`, `find_device`, `attach_filesystem`, `open_file`, `create_file`, `delete_file`, the read, write, cntl and close of each kind of object | `Device`, `Lease` |
| Devices | `dev/uart.c`, `dev/vioblk.c`, `dev/viorng.c`, `dev/ramdisk.c`, `dev/rtc.c` | ring buffers, virtqueues, the opened flags | open/close/read/write and the interrupt handlers | `Uart`, `Vioblk`; `Device` for `viorng.c`, `rtc.c` and the opened flags (`ramdisk.c` not modelled) |
| ELF loader | `elf.c` | none that outlives a call | the tests and the mapping of each `PT_LOAD` segment | `Memory` (header parsing not modelled) |
| Boot, helpers | `main.c`, `misc.c`, `error.c`, headers | none that outlives a call | initialisation, formatting | `Vioblk` for the attach and the mount of the block device; `Device` for `attach_devices`, `mount_cdrive` and `run_init`; the rest not modelled |
| User programs | `usr/progs/shell.c`, `cat.c`, `wc.c`, `rm.c`, `touch.c`, `usr/shell.h` | the local variables of each program; the descriptors, pipes, files and children the kernel keeps for it | the command loop, `command_parse`, `run_single`, `run_pipeline`; the loops of the utilities | `Shell` (`xargs`, `echo`, `date` and `usr/uio.c` not modelled) |

### How the parts interact

Everything that blocks does so through `condition_wait`, and everything that
wakes does so through `condition_broadcast`: `thread_join` waits on the
child's `child_exit`, `lock_acquire` on the lock's release condition,
`alarm_sleep` on the alarm's condition, the drivers on their ring-buffer
conditions, `process_fork` on a condition on its own stack, the cache on
`any_cv`.  The thread manager is therefore the base of every other model, and
the other modules instantiate it.

Code runs in three contexts: a thread in U mode, which any interrupt can
interrupt and the preemption tick can take the hart from; a thread in S mode,
which nothing preempts (the dispatcher yields only when SSTATUS.SPP says the
interrupt came from U mode) but which an interrupt handler can interrupt when
SSTATUS.SIE is set; and the interrupt handlers, which run with SIE clear.  SIE
is not part of a thread's saved context: `running_thread_suspend` restores its
caller's value before `_thread_swtch`, so a thread resumes with the value of
the thread that switched to it.

### What is hard here

The `hazards` array of `PROJECT.json` lists them at the line where each one
bites, with the properties that watch it; where one has turned out to be a
bug it is told under `findings` and in section 7.  In short:

* the window in `condition_wait` between marking the caller WAITING and
  inserting it into the wait list, and the window in `alarm_sleep` between
  queuing the alarm and calling `condition_wait`;
* the order of a child's exit and its parent's join; the hand-over of orphans
  when a thread is reclaimed; `thread_join(0)` deciding once whether there is
  a child;
* Mesa semantics of the lock: a woken waiter re-tests and may lose again;
* the interrupt-enable bit inherited across a switch;
* the comparator shared by alarms and the preemption tick; saturation of wake
  times;
* the cache's re-test after a wait, its single `last_used` pin, the lock held
  across a transfer, write-back followed by a failed fetch;
* ring buffers shared with the interrupt handler of the UART, and a line
  status read before a wait and used after it;
* the block driver's wait for a status byte the device writes before it
  raises its interrupt: an interrupt of the last request that arrives during
  the next, chains reclaimed by a later call, a test made with interrupts
  enabled;
* a page pool without coalescing shared by spaces that are cloned, emptied
  and discarded; leaves replaced by a later mapping; segments of a file that
  say where they are to be mapped; address ranges that wrap;
* descriptors of one object held by several processes and closed in any
  order; a reader or writer asleep in a pipe whose other end is closed; the
  ring of the pipe at its wrap; fork's handshake on a condition on the
  parent's stack; an exec that fails half way;
* a pipeline of two programs and the shell, three processes that each hold
  descriptors of the one pipe: the reader sees the end of the data only when
  all of them have closed the writing end, the data is cut wherever the two
  bytes of the ring leave room, and a call of the shell that fails must give
  back what the calls before it acquired;
* a device that serves one open at a time, held through objects that a
  fork shares and that are closed in any order; a transfer cut into a head,
  whole blocks and a tail, each with a wait in which other calls run,
  through one bounce buffer per object; the end of the device; a buffer of
  random bytes that still holds the last fill while the reader waits.

## 2. Plan

Modules are built in the order of dependence and of risk.  Each later module
instantiates `Thread` for scheduling, as `Timer` and `Cache` do.

| Order | Module | Models | Abstract specification / main properties | Runs |
|---|---|---|---|---|
| 1 | `Thread` | thread manager, conditions, locks | scheduler consistency, orphans, lock wake-ups, FIFO, join progress | 4 (done) |
| 2 | `Timer` | alarms, timer interrupt, SIE | comparator, no stranded sleeper, preemption of U mode only, alarms fire | 2 (done) |
| 3 | `Cache`, `BlockStore` | `cache.c` over `Thread` | refinement to a block store; a pinned entry stays its holder's; no block cached twice; only the holder changes a block | 3 (done) |
| 4 | `Uart` | ring buffers shared with the interrupt handler, PLIC dispatch | no lost wake-up, every byte delivered once and in order | 2 (done) |
| 4b | `Vioblk` | the block driver: attach, open, the descriptor stack, the rings, the wait for the device, the interrupt handler; the device | every descriptor is in one place; the rings account for the chains in flight; a transfer returns what it moved; no completion is lost | 2 (done) |
| 4c | `Device`, `Lease` | the device manager, the device file system, the mount table, the boot that fills them, `rtc.c`, `viorng.c`; block transfers at any alignment | refinement to `Lease` (who may open what, and until when); a transfer moves the bytes asked for; entropy is never handed out twice | 1 (done) |
| 5 | `Process` | the system calls, fork/exec/exit/wait, descriptor tables, reference counts, pipes | a reference count equals the number of descriptors; the pipe is a FIFO; no thread sleeps on a condition that is already true | 2 (done) |
| 5b | `Shell` | `shell.c`, `cat.c`, `wc.c`, `rm.c`, `touch.c` as processes on the kernel of `Process` | a command leaves the files as it says; the shell keeps nothing of a finished command; every command line returns to the prompt | 1 (done) |
| 6 | `Ktfs` | bitmaps, inodes, the block map, the directory, open files and listings, called by several threads; out of space; readers that race writers | every block has one owner; the directory names each file once; the disk holds what the calls returned; a fetch returns what was stored | 2 (done; the file system as the cache's caller is still to come) |
| 7 | `Memory` | the page allocator, the page tables and the address spaces, driven by exec, fork and exit | every page has one holder; a clone is a copy; the kernel's mappings never change; validation agrees with the tables | 2 (done) |

## 3. Module `Thread` (`src/sys/thread.c`)

**Grain.**  S-mode code is not preempted, so a thread runs from one call of
`running_thread_suspend` to the next without interference from other threads.
One step of the module is one call of the thread API up to the point where it
returns or suspends; a call that was suspended inside a loop (`thread_join`,
`lock_acquire`) continues at that loop, recorded in `pc`.  What a thread does
between calls is the environment: any running thread may make any call.

**State.**

| Variable | Code |
|---|---|
| `thrtab[t]` | `thrtab[tid]`: `NULL` or a record of `state`, `parent`, `wait_cond` |
| `ready_list` | the FIFO `ready_list` |
| `wait_list[c]` | `cond->wait_list`, for the `child_exit` of every thread, the release condition of every lock, and conditions owned by other components |
| `TP` | the `tp` register |
| `lock[l]` | `owner` and `cnt` of a `struct lock` |
| `pc[t]` | where a suspended call continues |
| `stack_pages` | pages taken by `alloc_phys_page` for stacks and not given back |
| `sys` | `running`, or how the kernel stopped: `halted` (main exited), `panic` (no page for a stack), `fault` (exit of a detached thread) |

**Operations.**  The helpers `condition_broadcast`, `condition_enqueue`,
`running_thread_suspend`, `thread_exit` and `thread_reclaim` are operators on a
record of the scheduler's state (`Sched`), so that an action composes them in
the order the code calls them; `Commit` assigns the result.  The actions are
`spawn_thread` (with its two failures: no slot gives `-EMTHR`, no page
panics), `running_thread_exit`, `running_thread_yield`, `thread_join` (a named
child or any child, and the loop after each wake-up), `thread_detach`,
`lock_acquire` (free, recursive, or wait and re-test), `lock_release`,
`idle_thread_func`, and `ExtWait`/`ExtBroadcast` for conditions of other
components.
A thread may exit while it owns a lock: `running_thread_exit` does nothing
about locks (`release_all_thread_locks` is commented out), and the lock
stays owned by the slot.  An owner is a slot number here and a pointer to a
`struct thread` in the code, so a thread spawned in the slot owns the lock
in the model, as it does in the code when the allocator hands out the
structure of the exited thread again.

**Properties.**

| Property | Kind | Says |
|---|---|---|
| `TypeOK` | invariant | types; a lock has an owner exactly when its count is positive |
| `SchedulerConsistent` | invariant | every live thread is in exactly one place: running, once on the ready list, or once on the wait list of the condition `wait_cond` names; the idle thread never waits |
| `OrphansAdopted` | invariant | the parent chain of every live thread ends at the main thread through live threads only |
| `NoLostLockWakeup` | invariant | no thread waits for a lock that is free |
| `ReadyListFifo` | action | threads leave the ready list from the head and join at the tail, and nothing reorders those that stay |
| `JoinReturns` | liveness | a parent that joins a child which has exited returns from `thread_join` |

**Fairness.**  `FairSpec` assumes weak fairness of the continuation of a
suspended call and of the idle loop: a thread that has the hart executes.
Nothing is assumed about which calls threads make.

## 4. Module `Timer` (`src/sys/timer.c`, `src/sys/intr.c`)

`Timer` instantiates `Thread` (`T == INSTANCE Thread WITH ...`) for the thread
table and the lists, with one condition per alarm, and adds the clock, the
comparator, the sleep list and the interrupt-enable bit.

**Grain.**  Here the interrupt handler is an actor of its own, so
`alarm_sleep` followed by `condition_wait` is cut wherever the code has
interrupts enabled: `alarm_enqueue` (everything up to `restore_interrupts`),
`wait_mark` (state and `wait_cond` written), `wait_insert` (the insertion,
done with interrupts disabled), `wait_suspend` (the switch), `sleep_return`.
`at[t]` records how far thread `t` is.  `handle_timer_interrupt` is one step
from the trap to the return of `handle_interrupt`, the yield included; it is
enabled when the comparator has been reached and `IntrOn` holds (the running
thread is in U mode, or SIE is set).

**State.**  `now` is `rdtime()`, `stcmp` the comparator, `sie` SSTATUS.SIE
while in S mode, `umode[t]` whether `t` executes user code when it has the
hart, `twake[t]` the wake time of the alarm of `t`, `sleep_list` the queue of
alarms by owner.  `sched_tick_pending` is set and consumed within one run of
the handler and is the local `tick` of `handle_timer_interrupt`.

**Callers.**  User threads sleep through the `usleep` system call (`sleep_us`:
a fresh alarm whose base is `now`; the trap has cleared SIE).  Threads in
`KernelThreads` call `alarm_sleep` on an alarm they keep (the wake time
advances from the previous one, so the alarm may already be late and return at
once), `alarm_reset`, and `running_thread_yield`, with whatever SIE they run
with.

**Properties.**

| Property | Kind | Says |
|---|---|---|
| `TypeOK` | invariant | types; wake times stay within the counter's range |
| `ComparatorCoversEarliest` | invariant | the comparator is not later than the first alarm or the next tick |
| `SyscallSleeperQueued` | invariant | a thread asleep through `usleep` is never waiting with its alarm off the list |
| `UserThreadIsPreempted` | liveness | a thread in U mode does not keep the hart: while the clock can still reach the next tick, the hart goes to another thread, also after a tick was dropped in S mode |
| `AlarmFires` | liveness | while the hart keeps returning to code with interrupts enabled, a system-call sleeper whose wake time the clock reaches is woken |

**Fairness.**  `FairSpec` assumes that the clock runs (weak fairness of
`Tick`); that a pending interrupt is taken when interrupts are enabled again
and again (strong fairness of `handle_timer_interrupt`: the hardware keeps the
interrupt pending, and the handler is disabled only while SIE is clear); that
a call in progress continues when its thread has the hart; that the idle loop
goes round; and that a kernel thread, which nothing preempts, yields.  The
premise `[]<>IntrOn` of `AlarmFires` is needed and is itself a hazard: a kernel
thread that was switched to from a system call runs with SIE clear, and if it
only ever yields, the idle thread never reaches `enable_interrupts` (its inner
loop yields while the ready list is not empty) and no interrupt is taken
again.

## 5. Modules `Cache` and `BlockStore` (`src/sys/cache.c`)

`Cache` instantiates `Thread` (one lock `mtx`, the conditions `any_cv` of the
cache and `done` of the device) and adds the cache's state: `entries` (block
number, valid, dirty, in_use, owner, waiters, access time, buffer),
`last_used` and the blocks on the `disk`.  `at[t]` is the place where thread
`t` is suspended inside a call and `op[t]` the call's arguments and locals;
`held[t]` is the caller's side: the entry whose pointer it uses and the block
it asked for.

An action is what a thread does from one suspension to the next, because
nothing else can run in between (the kernel is not preempted):

| Action | Code |
|---|---|
| `cache_get_block` | `lock_acquire`; the release of the previous pin through `last_used`; the scan; a hit that is taken or waited for; on a miss the victim, `-EBUSY`, and the start of the store or of the fetch |
| `wait_return` | the waiter of the hit loop takes `mtx` again (it may have to wait for it), counts itself out and re-tests `in_use` and `owner_tid` of the same entry |
| `store_return`, `fetch_return` | the rest of the miss after `storage_store` and `storage_fetch`, with every result the device can give |
| `cache_release_block` | the entry of the pointer is marked dirty if asked, unpinned whoever owns it, `any_cv` is broadcast |
| `cache_flush`, `flush_return` | the loop over the entries, suspended in each store, ended by the first error |
| `lock_retry` | a caller that waited for `mtx` re-tests it |
| `transfer_complete` | the device's interrupt handler broadcasts `done` |
| `running_thread_yield`, `idle_thread_func` | a caller gives up the hart between two calls, with or without a block; the idle thread passes it on |

`mtx` is held while the caller waits for the device and released only while it
waits on `any_cv`.  A transfer ends `ok`, `refused` (nothing was transferred)
or `failed` (the device has written to the buffer, or to the block, before it
reported the error); the constant `Faults` says which failures a run admits.
The access times are kept as their order only.  A block's contents are a
value of `ValsOf(b)`; a caller writes through its pointer when it releases
the block as dirty.

`BlockStore` is what the cache is to a caller: `store[b]` is what block `b`
reads as and `pinned[t]` the block caller `t` holds; `Get`, `Unpin` and
`Write` are its only steps.  `Cache` maps `store` to `Contents` (the buffer of
the entry that holds the block, else the block on the device) and `pinned` to
the block of `held`.

Properties:

* `PinnedForHolder`: the entry a caller uses is valid and pinned for that
  caller.
* `UniqueBlock`: no block is in two entries.
* `OnlyHolderWrites`: what a block reads as changes only in a step of the
  thread its entry is pinned for; eviction, write-back, fetch and flush leave
  it alone.
* `ImplementsBlockStore`: the refinement.  It does not hold (finding 4).

## 5a. Module `Uart` (`src/sys/dev/uart.c`, `intr.c`, `plic.c`)

`Uart` instantiates `Thread` with the conditions `rxbnotempty` and
`txbnotfull` and adds the device: the two ring buffers (`hpos`, `tpos`, the
slots), the interrupt enable register, the receiver and transmitter
registers, the source's priority in the PLIC and the isr table, `opened` and
the holders of the device's `uio`.

**Grain.**  The driver takes no lock.  A system call starts with interrupts
disabled, but a caller that has slept is resumed from the idle thread and
goes on with SIE set, so the handler can run between any two of its accesses
to the buffers.  `uart_serial_recv` and `uart_serial_send` are therefore cut
where they read what the handler writes: entry, each turn of the loop, the
insertion into the wait list, the switch, and in `send` the read of `hpos`
and the write of THR.  `handle_extern_interrupt` (claim, `uart_isr`,
complete) is one step, as are `uart_serial_open`, `uio_addref`, `uio_close`,
the arrival of a character (`Arrive`) and the transmitter shifting one out
(`Transmit`).

**History.**  Characters are numbered in the order they enter the driver;
`wire` is what the transmitter has sent and `got` what receivers have been
given.

| Property | Kind | Says |
|---|---|---|
| `TypeOK` | invariant | types; `hpos` and `tpos` stay below the width of `unsigned int` |
| `RxInOrder` | invariant | what receivers were given, then `rxbuf`, then RBR, is strictly increasing: nothing received is duplicated or reordered |
| `NoLostWakeupRx` | invariant | no thread waits on `rxbnotempty` while `rxbuf` holds a character and the data-ready interrupt is off |
| `TxNothingDropped` | action | a character leaves THR only to the wire.  Violated (finding 6) |
| `NoLostWakeupTx` | invariant | no thread waits on `txbnotfull` while the transmit interrupt is off.  Violated (finding 21) |

`NoLostWakeupTx` holds while a sender waits at most once in a call, for it
then tests `rbuf_full` with interrupts disabled.  A send of four characters
through the two slots waits, is resumed by the idle thread with SIE set, and
tests again: the handler can empty `txbuf` and turn the transmit interrupt
off between that test and `condition_wait`.  The run sends 2 or 4 characters
a call so that the second test happens; the receiving side has the same
shape and `NoLostWakeupRx` holds there, because `uart_serial_recv` enables
the data-ready interrupt in every turn of its loop before it waits and the
handler leaves it on while `rxbuf` has room.

No liveness property is checked for the driver: at the bounds below the
temporal check of the half million states does not finish in minutes, and a
smaller instance has no waiter and a handler at once.

## 5b. Module `Memory` (`src/sys/memory.c`, `elf.c`, `process.c`)

**Abstraction.**  A physical page is its page number; a table is a function
from `0 .. PTE_CNT - 1` to entries of `flags` (a subset of V, R, W, X, U, G,
A, D) and `ppn`; the free list is the sequence of its chunks (`addr`,
`pagecnt`) in list order.  The bytes of data pages are not modelled, so
`ptab_clone` copies a leaf by allocating a page, and a chunk header, which
the code writes into the freed page, is an element of the list.  `PAGE_SIZE`,
`PTE_CNT` and the width of an address are constants: the instance checked
has pages of 2 bytes, tables of 8 entries and 12-bit addresses, which keeps
three levels, megapages, gigapages and the wrap of an address.

**Operators.**  Nothing in `memory.c` sleeps, so each function is an operator
from a record `M` (`free`, `pt`, `satp`, `panic`) to the record after the
call (and the result, where there is one): `alloc_phys_pages` (best fit,
carved from the end of the chunk), `free_phys_pages` (sorted insertion, no
coalescing, panic on overlap), `ptab_fetch`, `ptab_insert`, `ptab_remove`,
`ptab_adjust`, `ptab_reset`, `ptab_clone`, `ptab_discard`, `map_page`,
`map_range`, `alloc_and_map_range`, `set_range_flags`,
`unmap_and_free_range`, `validate_vptr`, `validate_vstr`, and the four
operations on the active space.  `panic` and a failed `assert` set
`M.panic`, and the kernel does nothing after it.  The loops over the entries
of a table are recursive operators over the valid entries.

**Actions.**  The variables are the record's fields (`free_chunk_list`, `pt`,
`satp`, `sys`), `procs` (for the root of every live process what the process
is doing: not started, loading segment k of a program, running it, or
returned from a failed exec) and `stacks` (the pages `create_thread` took for
kernel stacks).  The actions are the kernel's calls into `memory.c`, in the
order `process.c`, `elf.c` and `thread.c` make them:

| Action | Code |
|---|---|
| `ExecReset` | `process_exec` up to `elf_load`: `reset_active_mspace` |
| `LoadSegment` | one turn of the loop of `elf_load`: the tests of the segment, then `alloc_and_map_range`; `elf_load` then waits in `uio_read` |
| `LoadFails` | a read fails or the file is malformed: `process_exec` returns the error with the segments mapped so far left in the space |
| `ExecStart`, `ExecStackFails` | the page of the user stack is allocated and mapped, or freed again when `build_stack` fails |
| `Fork` | `clone_active_mspace`, then the page of the child's kernel stack |
| `ForkFails` | the clone is made active, discarded, and the parent's space made active again |
| `Exit` | `discard_active_mspace`; the main process halts the machine |
| `Switch` | `running_thread_suspend` makes the space of another process active |

A process acts only while its space is active, and `elf_load` is the only
place where one process is suspended in the middle of a call, so loads of two
processes interleave segment by segment with forks and exits of the other.
The kernel stack of an exited thread is never freed (finding 1), so in the
model, as in the kernel, every fork costs a page for good.  A process whose
exec failed returns to user mode with its program gone; the page-fault
handler changes nothing and `excp.c` returns to the faulting instruction, so
the process stays `Failed` until the kernel stops.

`unmap_and_free_range` and `set_range_flags` have no caller in the kernel.
They are checked as operators: in every reachable state the result of
applying them to every range and flag set of the instance is compared with
what the tables said before.

| Property | Kind | Says |
|---|---|---|
| `TypeOK` | invariant | types; the active space is the root of a live process.  Holds under `MCMemory.cfg` when added to it; the run does not list it |
| `EveryPageHasOneHolder` | invariant | every page of the pool is in exactly one place: in a free chunk, a table of one space, the leaf of one user mapping, or a kernel stack.  Nothing leaks and nothing is shared or freed twice, through overlapping segments, failed loads, failed forks and exits |
| `KernelMappingsIntact` | invariant | what the addresses outside the user region translate to, in every space, is what `memory_init` set up |
| `ValidateMatchesAccess` | invariant | `validate_vptr` accepts an address and length exactly when every byte of the range, which must not wrap, is a mapped leaf with the flags asked for |
| `RangeOperationsAreExact` | invariant | `unmap_and_free_range` of a range removes exactly its pages, returns them and the tables that became empty to the pool, and leaves every other translation as it was (`UnmapIsExact`); `set_range_flags` replaces the R, W, X, U flags of the mapped pages of the range and changes nothing else (`SetRangeFlagsIsExact`) |

`Memory` also defines the action property `CloneIsACopy` (after a fork the
child's space translates the same user addresses with the same flags as the
parent's, to pages of its own).  It holds under `MCMemory.cfg` when it is
added to it; the run does not list it, since a clone that shared or dropped
a page is what `EveryPageHasOneHolder` reports.

## 5c. Module `Ktfs` (`src/sys/ktfs.c`, `ktfs.h`)

**Abstraction.**  The disk is what the driver sees through the cache: the two
bitmaps as the sets of their set bits, the inode table as a function from
inode numbers to records (`size`, `block`, `indirect`, `dindirect`), and the
data blocks as functions from `0 .. KTFS_BLKSZ - 1` to cells.  A cell is one
byte of a file, one block index of a table, or one directory entry
(`PackEntry`, `UnpackEntry`), so a block of the instance checked holds two
bytes, two indices or two entries, and a file uses the direct slot, the
indirect table and both levels under the double-indirect slot within seven
blocks.  Names are numbers.  The sizes (`KTFS_BLKSZ`, the numbers of direct
and double-indirect slots, the superblock) are constants.

**Grain.**  A thread can be suspended in every `cache_get_block`, so a call is
a sequence of steps.

* The calls that write (`ktfs_store`, `FCNTL_SETEND`, `ktfs_create`,
  `ktfs_delete`) hold `mount_lock` from their first read to their last write.
  What they write is fixed when they have the lock: the operators named after
  the functions (`ktfs_store`, `ktfs_map_block_and_or_allocate`,
  `ktfs_alloc_zero_block`, `ktfs_inode_free_all_blocks`, ...) compute the
  disk after each `cache_release_block(.., 1)` of the call, in the order of
  the code, and the return value.  `Store`, `SetEnd`, `Create` and `Delete`
  start the call, `WriteBack` applies one write per step, and the call
  returns with its last write.  `ktfs_store` and `FCNTL_SETEND` take
  `mount_lock` and then wait for the file lock; `LockMount` is the first and
  `Store` / `SetEnd` the second.
* The calls that read take no `mount_lock`.  `ktfs_fetch` (`FetchBegin`,
  `FetchStep`) reads the inode once and then walks the block map one block at
  a time, each table and each data block a step; `ktfs_open` of a file
  (`OpenBegin`, `OpenScan`, `OpenGrab`) reads the root inode once and then
  one directory entry per step; `ktfs_listing_read` reads one entry per step
  of the snapshot its listing took.  `ReadFails` is a `cache_get_block` of a
  reader that returns an error.
* `ListingOpen`, `SetPos` and `Close` are one step each.

`EnsureSlot` keeps the code's types: the result of `ktfs_alloc_zero_block`
for a missing double-indirect table is stored in a `uint32_t`, so the test
for its failure never holds, the slot becomes `0 - data_start` and the call
goes on in block 0 (`Table`, `SuperWord`: the superblock read as a table).
`FreeIndirect` returns at the first `ktfs_unmark_data_block` that fails,
before the table is written back.  The run `ktfs_volume` fills the volume
but never with a file that needs its double-indirect table then; the image
`FilledImage` of `MCKtfsFull.cfg` does (finding 20).

An operator that continues after an intermediate result takes the result as
a parameter (`Zeroed`, `Hung`, `LinkedIn`, `Copied`, `Stored`, `Resized`,
`Made`, `Entered`, `Released`, `Unlinked`): the error test and the
continuation of one `if (ret < 0) return ret;` of the code.

**History.**  `files` holds, for each name, the contents the calls that
returned have given the file (`NULL` when it does not exist); it changes when
a call that writes returns without an error.  `ret` holds what the call that
returned in the last step returned, and for a fetch or an open what it should
have returned when no call on the same file overlapped it.  `writes` counts
the calls that write, against the bound `MaxWrites`.

**Properties** (run `ktfs_volume`).

| Property | Says |
|---|---|
| `TypeOK` | the shapes, the bitmaps within their bits, a position within `KTFS_MAX_FILE_SIZE` |
| `BlocksHaveOneOwner` | between calls every block a linked inode reaches is marked and is reached through one slot |
| `DirectoryConsistent` | no name and no inode twice in the directory; the inode bitmap marks exactly the linked inodes |
| `DiskImplementsFiles` | the directory and the bytes read through the block maps are what the calls returned (`files`) |
| `FetchReturnsWhatWasStored` | a fetch no store or SETEND on its file overlaps returns the file's bytes, whatever other calls do to the disk meanwhile |

`Quiescent` (no call in progress) guards the three properties of the disk;
readers change neither `disk` nor `files`, so every disk that stands between
two calls that write is checked.

**Assumption.**  `UnlinkOpenFiles = FALSE`: callers do not delete a file that
is open or being opened (`Delete`, `OpenBegin`).  The design does not say
what deleting an open file means; the code frees the inode, and the open uio
then works on whatever file is given the inode number next
(`MCKtfsUnlinkOpen.cfg` shows `DiskImplementsFiles` violated that way).

## 5d. Module `Process` (`src/sys/syscall.c`, `process.c`, `uio.c`, `excp.c`)

`Process` models what the processes share and the calls that change it: the
descriptor table of every process, the reference count of every uio object,
the pipe, the open files, the process table and the threads of the
processes.

**Grain.**  A system call runs in S mode with interrupts disabled, and S-mode
code is not preempted, so a call is one step from the trap to its return or
to its `condition_wait`.  A thread in U mode can be preempted anywhere, so
the calls of the processes interleave in every order.  A thread a broadcast
has made ready continues in its call in a later step (`Resume`), where the
call re-tests what it waited for: `pipe_read_endpoint` and
`pipe_write_endpoint` go round their loops, `thread_join` looks for a
child that has exited (whether it has the child it names, or any, it
decided on entry), `process_fork` returns the child's id.  `ForkFunc` is the
first step of a forked thread.

**State.**

| Variable | Code |
|---|---|
| `thr[t]` | `thrtab[t]`: `NULL`, or the parent, the state and the condition waited on |
| `proctab` | `proctab[]`, each slot the thread of its process (a process has one thread) |
| `uiotab[t]` | `proc->uiotab[]` of the process of thread `t` |
| `refcnt[u]` | `uio->refcnt` of the console, of the two ends of each pipe and of each `ktfs_uio` |
| `pipe[p]` | `struct pipe_chan`: the ring, `read_pos`, `write_pos`, `used_bytes`, `reader_alive`, `writer_alive`; `NULL` when freed |
| `file[h]`, `fdata[f]` | an open `ktfs_uio` (name and position) and the bytes of each file |
| `image[t]` | the program the space of the process holds |
| `call[t]` | the call thread `t` waits in: what it is, its argument, the bytes still to write, the bytes done |
| `a0`, `umem` | `tfr->a0` of the call that returned last, and what it copied to its caller |
| `sent[p]`, `rcvd[p]` | history: the bytes written to and read from a pipe |

**Abstraction.**  A file is what `Ktfs` shows `ktfs.c` to keep: bytes and a
position for each open uio, with `ktfs_fetch` and `ktfs_store` clamped to the
size and to `KTFS_MAX_FILE_SIZE`.  `elf_load` is its verdict (`-EIO` for a
uio without `FCNTL_SETPOS`, `-EBADFMT` for a file that holds no program) and
the position it leaves; the spaces it builds are the subject of `Memory`.  A
pointer argument is what `validate_vptr` says of it (`Valid`).  `kmalloc`
and the page allocator fail when `AllocFaults` allows it; the `kmalloc` of
the copy of `argv` in `process_exec` fails when `ArgvFaults` does.

**Actions.**  One for each entry of the system call table that changes
state: `SysExit`, `SysExec`, `SysFork`, `SysWait`, `SysFsCreate`,
`SysFsDelete`, `SysOpen`, `SysClose`, `SysRead`, `SysWrite`, `SysFcntl`,
`SysPipe`, `SysUiodup`, each with the argument checks of the code in the
order of the code (`FdArgs` holds a negative and a too large descriptor);
`Fatal`, the exception of a user program that is not a system call
(`handle_umode_exception` calls `process_exit`); `ForkFunc` and `Resume`.
`process_exit` closes every descriptor, leaves `proctab`, and exits the
thread; the main process halts the machine.

| Property | Kind | Says |
|---|---|---|
| `TypeOK` | invariant | the variables hold what the structures can hold.  Holds under `MCProcessFiles.cfg` when added to it; the runs do not list it |
| `RefcntCountsReferences` | invariant | the count of an object is the number of descriptors, of all processes, that name it; an object exists exactly while its count is positive; a channel is freed when both ends are closed |
| `PipeIsFifo` | invariant | what was written to a pipe is what was read from it followed by what the ring holds, and `write_pos` is `read_pos + used_bytes` modulo the capacity |
| `NoLostWakeup` | invariant | a thread sleeps in a read only while the pipe is empty and has a writer, in a write only while it is full and has a reader, in a wait only while the child runs, in a fork only until the child has started |

`a0` and `umem` are written and never read, so the runs compare states by
the other variables (`VIEW Kernel` of `MCProcess`).

**Deadlock** is not checked: every process may wait (a reader of an empty
pipe whose writer is its own process waits for ever, as in the kernel), and
the idle thread then spins.

**Assumption.**  As in `Ktfs`, callers do not delete a file that is open
(a guard of `SysFsDelete`); what the code does then is shown by
`MCKtfsUnlinkOpen.cfg`.

## 5e. Module `Vioblk` (`src/sys/dev/vioblk.c`, `device.c`, `main.c`)

`Vioblk` instantiates `Thread` with the conditions `done` (the driver's) and
`alarm` (a sleep in `alarm_sleep`) and adds the driver's structure, the
virtqueue in memory the driver and the device share, and the device.

| Variable | Code |
|---|---|
| `is_open`, `q_size`, `used_idx_seen` | the fields of `struct vioblk_storage` |
| `free_stack` | `free_stack[0 .. free_top - 1]`; `free_top` is its length |
| `req_desc` | `req_desc_header`, `_data`, `_status` by slot, `NONE` for `0xFFFF` |
| `header_pool`, `status_pool` | one header and one status byte per descriptor index |
| `desc`, `avail`, `used` | the descriptor table and the two rings; ring indices count modulo `IDX_MOD` |
| `device` | the device's own position in the available ring, and the request it has finished and not yet reported |
| `queue_num_max` | the register: the longest queue the device supports, fixed from the first state on |
| `interrupt_status` | the register, and with it the level of the interrupt line |
| `disk`, `mem` | the bytes of the device, and of each caller's buffer |
| `registered`, `prio`, `halted` | the device table, the PLIC priority of the source, `halt_failure` |
| `at`, `loc` | where each thread is in a call, and the locals that live across the cuts: position, byte count, bytes done, head |

**Boot.**  `vioblk_attach` (with the failures of the feature negotiation, of
`kmalloc` and of `register_device`), `enable_interrupts` in `main`, and
`mount_cdrive`, which opens the device and halts when that fails.
`vioblk_storage_open` takes the smaller of `VIOBLK_QSIZE` and the device's
`queue_num_max`, refuses a queue of length 0, clears the rings and the slots
and fills the stack.  It allocates in three places (the rings, the free
stack, the pools) and returns `-ENOMEM` from the first that fails, with what
it had set before: `queue_setup(failed)` has the place as its parameter.  A
process that opens the device later gets `-EBUSY`.

**Transfers.**  `storage_fetch` and `storage_store` refuse a position that is
not a multiple of the block size and a buffer shorter than a block; the
driver clamps the byte count at the capacity and rounds it down to blocks.
Each turn of the loop is four steps, cut where the caller reads what the
device or the handler writes: the submission up to `lock_release` (`Submit`),
`disable_interrupts` and the first test of the status byte (`FirstTest`),
each test of the `while` loop (`WhileTest`) with the two steps of
`condition_wait` that `Uart` has as well, and the reclaim with the test of
the result (`Reclaim`).  `fetch_*` and `store_*` differ in the type of the
request and in the flags of the data descriptor.  `queue_lock` is not a
variable: a caller never sleeps while it holds it, and no other thread runs
in S mode meanwhile.

**Device.**  From the VirtIO specification.  `DeviceTransfer` takes the next
head from the available ring, follows the chain, moves the block (or fails,
when `Faults` is set, when the data descriptor of a read is not writable or
when the sector is outside the device) and writes the status byte;
`DeviceUsed`, a later step, writes the used ring and raises the interrupt.
The caller watches the status byte, so it can run between the two.
`handle_extern_interrupt` is taken whenever SIE is set or the hart is in
U mode; `vioblk_isr` acknowledges and broadcasts `done`.

**The rest of the kernel** is what decides when interrupts are enabled:
`timer_preempt` takes the hart from a process in U mode, a process sleeps
through `alarm_sleep` and is woken by `handle_timer_interrupt`, and
`idle_thread_func` yields while a thread is ready and enables interrupts
only when none is.  Without a process that can sleep elsewhere the idle
thread never takes that branch while a request is outstanding.

**Assumption `Serialized`.**  `Begin` starts a transfer only when no other
is in progress.  That is what the code around the driver enforces, not the
driver: `storage_fetch` and `storage_store` are called by the block cache,
with `cache->mtx` held from `lock_acquire` to the return of the transfer
(`cache.c:137-218`, `271-289`), and by the storage uio of `device.c`, of
which none exists for this device (`vioblk_storage_open` returns `-EBUSY`
once `mount_cdrive` has opened it).  Chains of an earlier request can still
be in flight, since a caller returns as soon as it has seen the status
byte.

**Queue length.**  The run lets the device report a `queue_num_max` of 0, 4
or 8.  With 0 the open fails and the kernel halts.  With 4 one chain fits:
the second block of a transfer finds "not enough free indicies" whenever
the chain of the first is not yet in the used ring, and the call returns
the one block it moved.  With 8 two chains fit, used-ring entries pile up
and are reclaimed together, and no call runs out of descriptors.

**View.**  A descriptor, a header or a status byte that no chain in flight
uses keeps the contents of its last request, which nothing reads before it
is written again.  `MCVioblk` checks under a view that blanks them, and that
leaves out the return value of the last call.

| Property | Kind | Says |
|---|---|---|
| `TypeOK` | invariant | types; the free stack, the slots, the descriptors and the rings name descriptors of the queue.  Holds under `MCVioblk.cfg` when added to it; the run does not list it, `DescriptorsConserved` says more |
| `DescriptorsConserved` | invariant | every descriptor is on the free stack or in exactly one chain noted in a slot, never both and never twice |
| `RingsAccountForChains` | invariant | the slots name as many chains as requests were published and not yet reclaimed, and the chain of a request the device has still to serve is intact: noted in the slot of its head, linked header, data, status, its status byte `0xFF` |
| `TransferIsExact` | action | a call that returns `n` has moved the first `n` bytes between the buffer and the device at its position; `n` is a whole number of blocks, and short of what was asked only when the device failed the last request or when a queue of 4 had no free chain |
| `NoLostCompletion` | invariant | no thread waits on `done` unless a request is outstanding or an interrupt is pending.  Violated (finding 13) |

## 5f. Module `Shell` (`src/usr/progs/shell.c`, `cat.c`, `wc.c`, `rm.c`, `touch.c`)

`Shell` is the composition of the user programs with the kernel: it
instantiates `Process` (`K == INSTANCE Process`, same constants and
variables) and adds, for every thread slot, the program counter `pc[t]` and
the local variables `loc[t]` of the program that runs in it.  Where
`Process` lets a process make any call, here a process makes the calls its
program makes, in the order of the code.

**Grain.**  One step of a program is one system call together with the
user code up to the next call: the step is the conjunction of the action of
`Process` for the call and of the change of `pc` and `loc` the program
makes of the result (`a0`, and `umem` for what the kernel copied out).  A
call that blocks leaves `pc` where it is, and the process goes on in
`K!Resume`.  User code between two calls touches no shared state, so
nothing is lost by taking it with the call.  `pc[t]` is the name of the
call site (`"single.fork"`, `"cat.write"`, ...); `"none"` is a slot without
a process.  A fork copies `pc` and `loc` to the child, which continues in
the branch `process_id == 0`.

**State and actions.**

| Definition | Code |
|---|---|
| `main` | `main` of `shell.c`: the console set up on descriptors 0 and 1, the banner, the prompt, `getsn`, `_exit` for `exit` |
| `Dispatch`, `Trimmed`, `PipePosition`, `Left`, `Right` | the rest of the loop of `main`: blanks stripped, the empty line, the search for the first `\|` |
| `command_parse`, `find_terminator`, `SkipBlanks` | the parser: words, `<` and `>` with the file name after them, at most `MAXARGS` words; the terminator of a word is overwritten and skipped whatever it is |
| `create_exec_path`, `create_redirection_path`, `buildPath`, `fix_path`, `make_path`, `parse_path` | the path each program builds from a word, and what `filesys.c` makes of it |
| `run_single`, `single_parent`, `single_child` | `run_single`: the files opened in the shell at descriptors 3 and 4, the fork, the child's `close`/`uiodup`/`close`, the parent's closes and its wait |
| `run_pipeline`, `pipeline_parent`, `left_child`, `right_child` | `run_pipeline`: the input file, `_pipe`, the two forks, what each child does with the two ends, the parent's closes and waits |
| `ExecProgram`, `Start` | the end of every child: open the program at `PROGRAM_FD`, `_exec`, `_exit` when either fails; the program's first call site |
| `cat_main`, `wc_main`, `rm_main`, `touch_main` | the utilities: the loop of `cat` over chunks of 128 bytes and over short writes, the counters of `wc` across reads of 512 bytes and its report one byte a call, one `_fsdelete` or `_fscreate` for each operand with a valid path |
| `handle_umode_exception` | a process whose `_exec` failed after its space was reset takes a page fault and exits |

**Abstraction.**  A command line is a sequence of symbols: a word (a mount
point and a name), a blank, `<`, `>`, `|`.  The parser works on symbols as
the code works on characters; how a word is spelled is kept only as far as
the path helpers look at it (no slash, a leading slash, `c/`, another mount
point).  `getsn` delivers a whole line: the line editing is in a library
that is not part of the sources.  The lines are those of `MCLines`, and a
program that would read the console is not among them, since the console
never reports the end of its input.  File contents are bytes; the messages
the programs print (`print_error`, `dprintf`, `printf`) are left out, as
`sysprint` is in `Process`, except the message of `wc`, which goes to its
standard output and so into the file of a redirection (two bytes stand for
it).  A program whose `main` returns exits.  The results of `command_parse`
and of `Dispatch` are tabulated per line (`Parsed`, `Dispatched`), which
changes nothing but the time TLC takes.

**Fairness.**  `FairSpec` is `Spec /\ WF_vars(Next)`: as long as some process
can take a step, a step is taken.  That is what the kernel gives: the idle
thread runs only when the ready list is empty, and a ready thread is
resumed in FIFO order (`ReadyListFifo`, `JoinReturns`).  No fairness between
processes is assumed; `PromptReturns` holds because in every state each
process that is not blocked gets nearer to its end.

| Property | Kind | Says |
|---|---|---|
| `NothingLeftBehind` | invariant | at the prompt the shell holds the console at 0, 1 and 2 and nothing else, and no child, pipe or open file is left of the command |
| `CommandsDeliver` | invariant | when the shell is back at the prompt after a job of `Jobs`, the file after `>` holds what the last program was to write, computed from the file the first program read by a definition of `cat` and `wc` on whole sequences (`Meaning`, `Counts`), and every other file is unchanged: however the three processes interleave and however the pipe cuts the data |
| `PromptReturns` | temporal | under `FairSpec` the shell always comes back to `getsn` or exits: every child ends, the reader of a pipe sees the end of the data, every wait returns |
| `TypeOK` | invariant | the types, `K!TypeOK`, and a slot has a program counter exactly while a process lives in it.  Holds under `MCShell.cfg` when added to it; the run does not list it |
| `OperatorsRecognized` | invariant | blanks around `<` and `>` change nothing for the parser.  Violated (finding 15) |

**Deadlock** is not checked: the shell waits for its next line, and the run
stops after `MaxLines` lines.

What the model shows of the programs beside the findings: `wc file` hands
the word to `_open` as it is, which `parse_path` refuses for want of a mount
point, while `cat file` maps it to `c/file`; `>` creates the file but does
not truncate one that exists, so a shorter output leaves the tail of the old
contents (`Meaning` says so); the `_open(CONSOLEOUT, "dev/uart1")` of `main`
fails with `-EBADFD`, since `run_init` has put the console there already.

## 5g. Modules `Device` and `Lease` (`src/sys/device.c`, `filesys.c`, `main.c`, `dev/rtc.c`, `dev/viorng.c`)

`Device` models what stands between a file name and a driver: the device
table and the device file system of `device.c`, the mount table of
`filesys.c`, the boot of `main.c` that fills both, and the drivers as the
device manager sees them.  `Vioblk` and `Uart` model a driver each from the
inside; `Device` models all of them from the outside, and the two that have
no module of their own (`rtc.c`, `viorng.c`) whole.

| Variable | Code |
|---|---|
| `virtio` | the VirtIO slots of the machine, in the order `attach_devices` probes them; each is a block or an entropy device whose feature negotiation succeeds or fails |
| `boot`, `slot` | where `main` is; the drivers attached so far |
| `devlist`, `mplist` | the two lists, in the order of registration; a device structure is named by the place of its record |
| `status` | `regs->status` as the driver left it: `DRIVER_OK` or `FAILED` |
| `opened` | `uart->opened`, `v->opened`, `vbd->is_open` |
| `disk` | the bytes of each block device |
| `rng` | per entropy device `avail.idx` and `used.idx`, and the buffer as the number of the fill it holds; as history, the fills readers have got |
| `uio` | the uio objects of the heap: kind (serial, storage, device listing, mount listing), device, position or cursor, bounce buffer |
| `held` | the objects each process has a descriptor of; the reference count of an object is the number of processes that hold it |
| `at` | the call a process waits in, with the locals that live across the wait |
| `ret`, `ncalls` | what the last call returned; the calls made (bound `MaxCalls`) |
| `clean`, `snap` | history: whether another call touched the object of a call in progress; position and device contents when the call began |

**Boot.**  One step per driver in the order of `attach_devices` (the clock,
`NUART` UARTs, the VirtIO slots), then the mount of `dev`, `mount_cdrive`
(the cache opens `vioblk0`, the volume is mounted as `c`) and `run_init`
(the main process gets `dev/uart0`).  A step that fails is `halt_failure`;
a machine without a block device halts in `mount_cdrive`.  `viorng_attach`
sets `DRIVER_OK` and then registers; `vioblk_attach` registers and sets the
status by what `register_device` returned.

**Names.**  `open_file` looks the mount point up and calls its `open`;
`devfs_open` gives a listing for the empty name and otherwise splits the
name into the stem and the number its trailing digits spell.  A name is the
pair of the two, so that `rtc` (no digits, refused), `rtc0`, `vioblk1` and
`viorng1` (not registered) are different inputs.  The volume `c` stands for
`Ktfs`: `Device` leaves its mount point name out of the names a caller
passes.  `create_file` and `delete_file` reach a file system that has
neither and return `-ENOTSUP`.

**Calls.**  Kernel code is not preempted, so a call is one step up to where
it waits for a device.  An open, a close, a read of a listing, of the clock
or of a UART, a write to a UART and every `cntl` are one step.  A read of
the entropy device is two: `viorng_serial_recv` up to its wait, and
`viorng_return` when the wait loop ends; `viorng_isr` is the device filling
the buffer and the handler that wakes the readers.  A read or a write of a
block device is a chain of storage calls (`Start`, `Unaligned`, `Fetched`,
`WholeBlocks`, `Moved`, `TailPart`, `Aligned`, translated from
`storage_uio_read`, `storage_uio_write`, `unaligned_fetch` and
`unaligned_store`); each storage call looks at its arguments as
`storage_fetch`, `storage_store` and the driver do (`Asked`) and, when there
are bytes to move, waits for the device once per block: `vioblk_serve` is
the device moving one block between the disk and the memory the descriptor
names (the caller's buffer or the bounce buffer of the object, as it is
when the device gets to it), `vioblk_refuse` the device answering with an
error and moving nothing, `storage_resume` the driver's loop counting the
block and going on to the next, or returning what it has counted to the uio
layer at the end and at the first block the device refused.  What the UART delivers is
left to `Uart`: here a read returns any count the ring could hold.

**Sharing.**  `Inherit` is the descriptor loop of `process_fork`: the child
holds the objects of the parent, with their position and their buffer.
`uio_close` drops one reference and runs the close method (which closes the
device and frees the object) for the last one.

`Lease` is the abstract specification of open and close.  A device is
`shared` (the clock, whose `open` tests nothing) or `exclusive` from its
registration on; `Acquire` of an exclusive device needs it free and sets its
flag, `Release` by the last holder clears it, `Inherit` adds a client to all
that another holds.  `Device` implements it with the holders of a device
being the processes that hold an object of it, and the kernel for the
device of the volume.

| Property | Kind | Says |
|---|---|---|
| `CallMovesTheBytesAsked` | action | a read or write of a block device that lies within the device, on an object no other call came across and with no request refused by the device, returns the length asked for, leaves the position behind the last byte, and has read what the device held there when the call began, or changed those bytes of the device and no other: for every alignment of position and length, across all the waits of the call, with the calls of another process on other objects in between |
| `RandomBytesAreFresh` | action | what a reader of the entropy device gets was made by the device after the reader asked: never the fill a reader got before |
| `ImplementsLease` | refinement | every step of `Device` is a step of `Lease`: the opened flag of a driver is set exactly while somebody holds the device, an open of a held device is refused, the close of one of several holders leaves the device open |
| `TypeOK` | invariant | types, and every descriptor names an object that exists.  Holds under `MCDevice.cfg` when added to it; the run does not list it, the refinement fails on a descriptor left dangling |
| `WhatIsReadWasOnTheDevice` | action | the bytes a read returns, however few, are what the device held from the position on.  Violated (finding 22) |
| `PositionWithinDevice` | invariant | the position of an object never lies behind the end of its device.  Violated (finding 16) |
| `NothingButWhatWasWritten` | invariant | a device holds, at every place, what it held at first or a byte a caller wrote.  Violated (finding 17) |
| `RegisteredDevicesAreReady` | invariant | a block device that is registered has `DRIVER_OK` set.  Violated (finding 18) |
| `EveryFillGoesToOneReader` | action | no reader of the entropy device gets a fill a reader got before.  Violated (finding 19) |

**Assumptions.**  `FailedServes = TRUE`: a block device whose driver set
`FAILED` still serves its queue (finding 18 makes such a device reachable;
with `FALSE` a call on it waits for ever).  `Uios` bounds the objects of the
heap: an open that would need one more is not taken.  The reference count
of an object is the number of processes that hold it, one descriptor each
(`Process` models the counts with several descriptors per process).

## 6. Runs

| Run | Module, cfg | Result | Shows |
|---|---|---|---|
| `thread_safety` | `MCThread`, `MCThread.cfg` | holds; 132,325 states | the five safety properties of `Thread` |
| `thread_join_progress` | `MCThread`, `MCThreadLive.cfg` | holds; 1,641 states | `JoinReturns` under `FairSpec` |
| `timer_sleep` | `MCTimer`, `MCTimer.cfg` | holds; 12,828 states | the five properties of `Timer` under `FairSpec` |
| `cache_pins_and_writeback` | `MCCache`, `MCCache.cfg` | holds; 839,114 states | `TypeOK`, `PinnedForHolder`, `UniqueBlock`, `OnlyHolderWrites` with transfers that succeed or are refused |
| `uart_driver` | `MCUart`, `MCUart.cfg` | holds; 609,590 states | `TypeOK`, `RxInOrder`, `NoLostWakeupRx` |
| `memory_spaces` | `MCMemory`, `MCMemory.cfg` | holds; 4,228 states | the four properties of `Memory` the run lists |
| `ktfs_volume` | `MCKtfs`, `MCKtfs.cfg` | holds; 305,838 states | the five properties of `Ktfs` |
| `process_pipes` | `MCProcess`, `MCProcess.cfg` | holds; 161,161 states | `PipeIsFifo`, `NoLostWakeup` with a pipe shared by two processes (the counts of the pipe's ends are part of `NothingLeftBehind` in `shell_commands`) |
| `process_files` | `MCProcess`, `MCProcessFiles.cfg` | holds; 15,298 states | `RefcntCountsReferences` with a file, failing allocations and failing pointer checks |
| `vioblk_driver` | `MCVioblk`, `MCVioblk.cfg` | holds; 217,099 states | `DescriptorsConserved`, `RingsAccountForChains`, `TransferIsExact` |
| `shell_commands` | `MCShell`, `MCShell.cfg` | holds; 45,464 states | `NothingLeftBehind`, `CommandsDeliver`, `PromptReturns` for two command lines under `FairSpec` |
| `device_files` | `MCDevice`, `MCDevice.cfg` | holds; 80,482 states | `CallMovesTheBytesAsked`, `RandomBytesAreFresh` and the refinement `ImplementsLease`, from the boot of two machines on, with four calls of two processes and a block device that may refuse a request |

Further configurations are kept beside the runs; each checks one property
that TLC finds violated:

| Module, cfg | Property | Shows |
|---|---|---|
| `MCThread`, `MCThreadStack.cfg` | `StackFreedAfterExit` | finding 1 |
| `MCCache`, `MCCacheStale.cfg` | `ImplementsBlockStore` | finding 4 |
| `MCUart`, `MCUartTxLoss.cfg` | `TxNothingDropped` | finding 6 |
| `MCKtfs`, `MCKtfsOpenRace.cfg` | `OpenFindsExistingFile` | finding 9 |
| `MCTimer`, `MCTimerStranded.cfg` | `EverySleeperQueued` | finding 3 |
| `MCMemory`, `MCMemoryHostile.cfg` | `KernelMappingsIntact` | finding 7 |
| `MCProcess`, `MCProcessExecLeak.cfg` | `RefcntCountsReferences` | finding 12 |
| `MCCache`, `MCCacheFetch.cfg` | `OnlyHolderWrites` | finding 5 |
| `MCKtfs`, `MCKtfsLeak.cfg` | `NoLeakedBlocks` | finding 10 |
| `MCKtfs`, `MCKtfsDirGrow.cfg` | `DiskImplementsFiles` | finding 11 |
| `MCKtfs`, `MCKtfsUnlinkOpen.cfg` | `DiskImplementsFiles` | the assumption of section 5c |
| `MCVioblk`, `MCVioblkWakeup.cfg` | `NoLostCompletion` | finding 13 |
| `MCShell`, `MCShellForkFails.cfg` | `NothingLeftBehind` | finding 14 |
| `MCShell`, `MCShellTight.cfg` | `OperatorsRecognized` | finding 15 |
| `MCDevice`, `MCDeviceEnd.cfg` | `PositionWithinDevice` | finding 16 |
| `MCDevice`, `MCDeviceShared.cfg` | `NothingButWhatWasWritten` | finding 17 |
| `MCDevice`, `MCDeviceAttach.cfg` | `RegisteredDevicesAreReady` | finding 18 |
| `MCDevice`, `MCDeviceEntropy.cfg` | `EveryFillGoesToOneReader` | finding 19 |
| `MCKtfs`, `MCKtfsFull.cfg` | `AllocationFailureIsReported` | finding 20 |
| `MCUart`, `MCUartTxSleep.cfg` | `NoLostWakeupTx` | finding 21 |
| `MCDevice`, `MCDeviceRefused.cfg` | `WhatIsReadWasOnTheDevice` | finding 22 |

The modules define three further invariants that no run lists,
`SleepListSorted` (`Timer`), `FreeListSorted` (`Memory`) and
`LocksBelongToCalls` (`Ktfs`): each holds under the configuration of its
module's run when it is added to it, and each follows from how a single
operation is written, so the runs spend their time on the properties above.

**Bounds.**

* `NTHR = 4`: main, idle and two further slots.  Two spawned threads are
  enough for a grandchild to be orphaned and adopted, for two waiters on one
  lock, and for the table to fill so that `spawn_thread` fails.
* `MaxStackPages = 3` (one more than can be used) in the safety run and `2`
  in the others, where the allocator runs out; `MaxLockCnt = 2` bounds the
  recursion of `lock_acquire` (a guard of the recursive branch).
* One lock and one external condition in the safety run.  The liveness run
  has none: join progress does not involve them and the temporal check is
  faster.
* Timer: `UINT64_MAX = 15` (a four-bit counter), `MaxTime = 3` (the clock
  stops there, a guard of `Tick`), `PREEMPTION_INTERVAL = 2`, sleep lengths
  `{1, 15}`.  The clock passes the first tick and the first wake times, an
  added `15` saturates, a kernel thread's relative sleep of `1` is late once
  the clock has passed it, and two user sleepers with equal or different wake
  times exercise every branch of the insertion.

* Cache: two callers and the idle thread (`NTHR = 3`), two entries and three
  blocks, so that the third block finds the cache full, the least recently
  used entry is a real choice and a dirty victim is written back.  Two
  callers are enough for a waiter and a holder, for a pin dropped through
  another thread's `last_used`, and for both to miss at once.  What the cache
  does never depends on the contents of a block, so two contents are told
  apart for block 0 only (`ValsOf`), and a caller writes contents of the block
  its entry holds.  The run explores every interleaving of the two callers;
  it has no liveness property, and the idle thread may wait for ever when
  both callers wait.

* Uart: two user threads and the idle thread, ring buffers of 2 slots whose
  positions count modulo 4 (so they wrap within a run, and a full buffer has
  `tpos - hpos = 2` across the wrap), at most 4 characters sent and 3
  received, receives of 0 or 1 character and sends of 0, 2 or 4.  A send
  of 4 through two slots waits, is resumed by the idle thread with
  interrupts enabled and tests the buffer again.  Two callers are enough for
  two waiters on one condition and for a caller that waits while the other
  fills the buffer.
* Memory: pages of 2 bytes, tables of 8 entries, addresses of 12 bits, RAM
  of 24 pages at 256 of which the last 19 are the pool, the user region
  `[384, 512)`, two entries of `proctab`.  The two programs are an
  executable whose second segment starts in the last byte of the first (so a
  leaf is replaced and a page is mapped for one byte) and one whose second
  segment lies in the kernel image (refused).  Nineteen pages let two
  processes load, fork and exit, and run out after the stacks of a few forks
  are lost, so the panics of the allocator are reached as well as the
  successes.  A larger pool or a third process multiplies the placements of
  pages in the pool (the free list is not coalesced, so its shape records
  the history) beyond what a run finishes; the instance is chosen so that
  every action and every branch of the operators is taken.

* Ktfs: two threads and two uios; a volume of 13 blocks of two cells (the
  superblock, one block for each bitmap and for the inode table, nine data
  blocks), three inodes, one direct and one double-indirect slot, so that
  `KTFS_MAX_FILE_SIZE` is 14 bytes; names `{1, 2}`; stores and fetches of 3
  bytes (a call crosses a block boundary, and two of them the indirect
  table); `FCNTL_SETPOS` and `FCNTL_SETEND` with 0, 5 and 15 (the last is
  past the cap).  The volume starts empty, or with a file of 8 bytes written
  at position 5 (built by `ktfs_create` and `ktfs_store` of the model), which
  uses seven blocks and leaves one free.  `MaxWrites = 2` calls that write
  then reach: the first block of a file and its tables, a store into and
  past the end, the volume full in the middle of an extension, a delete that
  frees all three levels, the swap of the last directory entry, the reuse of
  a freed inode and of freed blocks, `-EEXIST`, `-ENOENT`, `-EINVAL`, the two
  uios in use (`-ENOMEM`); and every interleaving of the second thread's
  fetch, open and listing with them.  The violated configurations take
  `MaxWrites = 3`; a third call multiplies the states of the passing run by
  about three.  Two uios are needed for a fetch through one
  while a store through the other extends the same file.

* Process: three thread slots (main, one child, idle), two process slots,
  two descriptors per process of which the console takes one, one pipe of
  capacity 2 or one open file of at most 2 bytes.  Writes of `<<1>>` and
  `<<2, 1>>` and reads of 0, 1 and 2 bytes make the ring wrap, make a write
  wait half way and continue, and make a chunk end at the end of the
  storage; `MaxSent = 4` bytes per pipe lets a write start at `write_pos`
  1 with one byte free.  A parent and its child are enough for a descriptor
  shared by two tables and closed in either order, for a reader woken by
  the writer's exit, and for a full process and thread table.  The two runs
  split the objects: with the pipe and the file together, or with three
  descriptors or a second child, the reachable states pass a million and a
  run does not finish in minutes.  The pipe run has no failing allocation
  or pointer check (they return before anything changes); the file run has
  both.

* Shell: four thread slots and three process slots (the shell, two
  children, idle), so that a pipeline has its two children and a third fork
  would fail; seven descriptors, 0 to `PROGRAM_FD` (the kernel has 16; the programs use
  no other); one pipe of capacity 2; five
  programs and the files `in` (one line of four bytes, a blank, a word of two
  letters and a newline, so that the pipe cuts the word in two), `out` and
  `new` (which do not exist at the start).  `Lines` are four jobs (`cat in >
  out`, `wc < in > out`, `cat < in | wc > out`, `cat in | cat > new`) and
  eight other lines: `exit`, a program that does not exist, a file that is
  no program (the `_exec` fails and the child faults), paths the kernel
  refuses on the input and on the output side, `rm` of two files, `touch`
  with blanks around it.  `MaxLines = 2`: the second line runs on what the
  first left, so a file created, filled or removed by one command is read,
  overwritten or removed by the next, and anything a command left behind
  would be in the way of the next.  One line gives 6,429 states, two give
  45,464.

* Device: two machines, one with two block devices that work, one whose
  negotiation fails and two entropy devices of which one works (so that
  instance numbers 0 and 1 are given, a device is missing from the table,
  and a name can be that of a device that is not there), and one with no
  block device (the boot halts).  `NUART = 2` as in `main.c`.  Blocks of 2
  bytes and a device of 4: with lengths `{0, 1, 3, 4}`, buffers of 1, 3 and
  4 bytes and the positions 0, 1 (by `FCNTL_SETPOS`) and those the calls
  leave, a call has a head part, whole blocks (one or two, so the driver's
  loop iterates) and a tail part in every combination, and reaches the end
  of the device.  Position 5 is the one `FCNTL_SETPOS` refuses.
  `VIORNG_BUFSZ = 2`, `RTC_BLKSZ = 2`: a read can ask for less, as much and
  more.  Two processes and three objects: the console, and two more for a
  process that opens a device twice or two processes that open one each.
  `MaxCalls = 4`: an open, a fork or a positioning, and two transfers that
  overlap; five calls take more than four minutes.  The device may refuse
  any request of a transfer, so a call ends early after none, one or two of
  its blocks.  The run uses a view that leaves out `ret`,
  which is written and never read.

* Vioblk: one process that transfers, one that sleeps and the idle thread;
  a queue of 8 descriptors, so that a chain left in flight by the last
  request and the chain of the next (6 descriptors) fit, and a device that
  supports 8, 4 or none: `min(VIOBLK_QSIZE, queue_num_max)` is the whole
  queue, half of it (one chain, so that the transfer loop meets fewer than
  three free descriptors), or the open fails with `-ENOTSUP`.  The queue
  lengths are powers of two, as VirtIO requires, and divide `IDX_MOD`.  Sectors of one byte, blocks of two
  and a device of five sectors: a sector and a block differ, and the last
  sector is not a whole block.  Positions `{0, 1, 4, 6}` (a block, a
  position the interface refuses, the last block with one sector left, past
  the end) and byte counts `{0, 1, 2, 6}` (nothing, less than a block, one
  block, more than is left: two requests in one call).  `MaxReq = 3`
  requests in a run: the third is made while chains of the first two may
  still be in flight.  The ring indices count modulo 16 and never wrap in
  three requests; the wrap of the `uint16_t` indices after 65,536 requests
  is not reached.

Every property of a passing run has a mutant in `PROJECT.json`: a plausible
bug in a mapped operator (a signal instead of a broadcast, a yield that
requeues an exited thread, an unsaturated addition, an insertion at the head,
a comparator that ignores the alarms, a yield from S mode, a pin released
without the owner test, a lock given up during the fetch, a victim marked
clean without the store, a block handed out without its bit set, a directory
that shrinks without the swap, a fork that copies the descriptors without
`uio_addref`, a close that skips the broadcast, a chunk that ignores the
free space, a reclaim that returns only the head of a chain or looks at one
used entry only, a sector counted in blocks, a position left where it was after whole blocks were moved, an entropy reader that does not wait, an open that does not test the flag, a shell that waits for its children before it
closes the pipe or its files, a `wc` that counts a word at the end of every
read, ...) under which
TLC finds the property violated.

## 7. Findings

1. **Thread stacks are never freed** (`thread.c:678`).  After
   `_thread_swtch` returns, `running_thread_suspend` tests the state of `thr`,
   which is the thread that has just been resumed; an exited thread is never
   resumed, so `free_phys_page` is never called.  Every spawn or fork leaks a
   page.
2. **`thread_join(0)` on the main thread never fails** (`thread.c:387`).  The
   idle thread is a child of main, so the scan always finds a child, and a
   `wait(0)` with no real child waits for ever instead of returning
   `-EINVAL`.  (`JoinAnyHasChild` of `Thread` states it; checked as an
   invariant under the constants of `MCThread.cfg` it is violated.  No run
   is kept for it.)
3. **`alarm_sleep` is not atomic** (`timer.c:165`, `thread.c:479`).  For a
   caller with interrupts enabled the handler can unlink the alarm and
   broadcast before the caller is on the wait list; the caller then sleeps
   with no alarm queued.  The `usleep` system call is safe because the trap
   disables interrupts (`SyscallSleeperQueued` holds).

4. **A waiter in the hit loop is handed the wrong block** (`cache.c:152`).
   The waiter sleeps with `mtx` released and, when it wakes, tests only
   `in_use` and `owner_tid` of the entry it waited for.  In between the entry
   can be released, evicted (`cache_evict_entry` ignores `waiters`) and
   refilled; the waiter gets the new block as the one it asked for and its
   write goes to the wrong block.  The design notes say the waiter re-scans.
   The trace takes a caller that is suspended while it holds a block; KTFS
   releases its blocks before it can be suspended outside the cache, so the
   file system alone does not reach it.
5. **A failed fetch leaves a valid entry with a clobbered buffer**
   (`cache.c:196`).  The victim's buffer is handed to the device while the
   entry is still valid under its old block number; when the transfer fails
   the call returns the error and leaves the entry as it is, and the next hit
   on the old block reads what the transfer left behind.

6. **`uart_serial_send` overwrites the transmitter register**
   (`uart.c:328`).  The line status is read once, before anything is queued;
   after the loop a character is written to THR if that old value had THRE
   set.  When the caller has waited in between, the handler has filled THR
   since, and the write replaces a character that was not yet sent.
7. **A file that is not `ET_EXEC` is mapped wherever it says**
   (`elf.c:269`).  `elf_load` accepts `e_type` 0 and then only requires a
   segment to start at or above `0x1000` and to end below the stack page.  A
   segment at an address of the kernel image replaces the global leaf in
   `main_pt0`, which every space shares, by a page the user can write.  The
   design places every segment in the user region.
8. **Segments are not mapped with the permissions they ask for**
   (`elf.c:288`).  Every segment is mapped R, W and U, with X added for
   `PF_X`, and `set_range_flags`, which has no caller, is never applied: the
   text of a program stays writable.  The design says segments are mapped
   with the requested permissions.  No run is needed to see it:
   `elf_map_segment` is the whole of it.

9. **`ktfs_open` can miss a file that exists** (`ktfs.c:284`).  Only the
   listing branch of `ktfs_open` takes `mount_lock`.  The file branch reads
   the root inode once and then scans the entries one `cache_get_block` at a
   time.  `ktfs_delete` of another file moves the last entry into the slot of
   the deleted one, and a `ktfs_create` then writes its entry into the old
   last slot: a scan that had passed the first slot finds the file in
   neither and returns `-ENOENT`, though the file was there before, during
   and after the call.
10. **A full volume leaks the blocks of the failed call** (`ktfs.c:515`,
   `1008`).  The extension loops of `ktfs_store` and `FCNTL_SETEND` mark and
   link one block after the other and return at the first failure without
   writing the inode.  The bits of the blocks already taken stay set and no
   inode reaches them, so every failed write on a nearly full volume makes
   it fuller.  The design requires the bitmap to match what the inodes
   reach.
11. **The directory cannot grow past its first block** (`ktfs.c:709`,
   `1184`).  `ktfs_create` maps the block for the new entry with
   `allocE = 0` and allocates only on `-ENOENT`, but the tests that made
   `ktfs_map_block` return `-ENOENT` for an index 0 are commented out: the
   unallocated slot maps to block `data_start`, which is the first block of
   the directory.  The entry that should open the second block overwrites
   the first entry, and that file can no longer be opened or deleted; with
   the sizes of `ktfs.h` it is the 33rd file.

12. **A failed `sysexec` loses a reference** (`process.c:101`,
   `syscall.c:181`).  `sysexec` takes a reference of its own on the uio,
   clears the descriptor and calls `process_exec`.  When the `kmalloc` of
   the copy of `argv` fails, `process_exec` returns before `elf_load` and
   never closes the uio: the count stays one above the number of descriptors, and the file
   or pipe end is never closed, whatever the process does afterwards.

13. **A completion of the block device can be missed** (`vioblk.c:933`).
   The first test of the status byte is made with interrupts disabled; the
   `while` loop after it tests the byte and calls `condition_wait` with
   interrupts as the wake-up left them, although the comment above says
   "ISR may have already run so only sleep if no progress has occurred".
   In the trace a call transfers two blocks.  The caller sees the status of
   the first written before the device has raised its interrupt, reclaims
   nothing and submits the second; the first test puts it to sleep; the
   other process sleeps in `alarm_sleep`, the idle thread enables
   interrupts, and the interrupt of the first request wakes the caller,
   which runs with SIE set.  The loop reads `0xFF`; the device finishes the
   second request and `vioblk_isr` broadcasts to an empty wait list; the
   caller then inserts itself and sleeps.  No request is outstanding and no
   interrupt pending, so nothing wakes it, and it holds the lock of the
   cache.

14. **The shell leaks what a failed command had acquired**
   (`shell.c:681`, `613`, `601`, `371`).  `run_pipeline` returns to the
   prompt when the second `_fork` fails without closing the two descriptors
   of the pipe and without waiting for the left child, which is already
   running; after a failed first `_fork` the pipe and the input file stay
   open, after a failed `_pipe` the input file, and `run_single` returns
   from a failed `_fork` with the redirection files open.  The descriptors
   are lost for good, and the left child blocks on a pipe nobody reads.
   `MCShellForkFails.cfg` gives the process table room for the shell and
   one child; `NothingLeftBehind` is violated at the prompt after the
   pipeline.
15. **An operator directly after a word is swallowed** (`shell.c:182`,
   `153`).  `command_parse` overwrites the terminator of a word or file
   name with NUL and goes on behind it, whatever the terminator was.  When
   it was `<` or `>` the redirection is lost and the file name becomes an
   argument: `wc <in>out` counts `in` and prints to the console.  The
   comment above the function says it recognizes `<` and `>`;
   `OperatorsRecognized` compares the parse of a command typed with and
   without blanks (`MCShellTight.cfg`).

16. **A transfer at the end of a device takes nothing for a block**
   (`device.c:773`, `838`).  At or behind the end of the device
   `vioblk_storage_fetch` returns 0, which is no error.  `unaligned_fetch`
   and `unaligned_store` test for a negative result only and go on as if the
   block were in the bounce buffer: a read copies what the buffer held
   before to the caller and counts it, and the position moves on.
   `storage_uio_cntl` refuses a position behind the end (`device.c:861`),
   and a read can leave one there: after a read of the whole device a read
   of one byte returns 1, a byte of the buffer, and the position is behind
   the end; `PositionWithinDevice` is violated (`MCDeviceEnd.cfg`).
17. **The bounce buffer of a storage object is shared by its holders**
   (`device.c:843`).  A fork hands the object to the child
   (`process.c:313`), with its one position and its one buffer.
   `unaligned_store` fetches a block into the buffer, changes it and stores
   it, and waits for the device twice on the way; nothing keeps the other
   holder from a call of its own meanwhile.  A read of the other process
   refills the buffer between the fetch and the store, and the block is
   stored with bytes of another place of the device, which no caller wrote
   there: `NothingButWhatWasWritten` is violated (`MCDeviceShared.cfg`).
18. **The second block device is registered and left failed**
   (`vioblk.c:450`).  `register_device` returns the instance number of the
   device (`device.c:202`).  `vioblk_attach` takes every result other than 0
   for a failure, sets `FAILED` and returns without `DRIVER_OK`: the second
   block device of a machine, whose number is 1, is in the table and can be
   opened as `vioblk1`, with a driver that has given it up.
   `RegisteredDevicesAreReady` is violated (`MCDeviceAttach.cfg`).

19. **Two readers of the entropy device get the same bytes**
   (`viorng.c:286`).  The driver has one buffer, and every reader waits
   until `used.idx` has caught up with `avail.idx`, whoever advanced it.
   The open is exclusive, but a fork shares the object: when parent and
   child both read, the first reader waits on for the request of the
   second, the device fills the buffer twice, and both copy the second
   fill.  `RandomBytesAreFresh` holds (neither gets bytes from before it
   asked); `EveryFillGoesToOneReader` is violated (`MCDeviceEntropy.cfg`).

20. **A full volume is reported as `-EIO`, after the superblock was read
   as a table** (`ktfs.c:1821`).  `ktfs_map_block_and_or_allocate` declares
   the `rc` of the allocation of a double-indirect table as `uint32_t` (the
   comma after `calc_abs_no = 0` continues the declaration), so
   `if(rc < 0) return rc;` never returns.  On a full volume the slot
   becomes `0 - data_start`, the table the call goes on with is block 0,
   and the word `block_count` of the superblock is taken for the index of a
   second-level table, which lies past the end of the volume: the store
   returns the `-EIO` of that read, not the allocator's error.  The same
   test after the other allocations uses an `int`.
   `AllocationFailureIsReported` is violated (`MCKtfsFull.cfg`, on the image
   `FilledImage` with four free blocks).

21. **A sender can sleep with the transmit interrupt off**
   (`uart.c:320`).  `uart_serial_send` enables the transmit interrupt
   before the loop and after every character, and tests `rbuf_full` and
   calls `condition_wait` with interrupts as they are.  A sender that has
   slept once runs with SIE set: between its test, which finds `txbuf`
   full, and its insertion into the wait list the handler can send both
   characters, find `txbuf` empty and disable the interrupt.  The sender
   then sleeps until another sender enables it.  `NoLostWakeupTx` is
   violated (`MCUartTxSleep.cfg`, one call of four characters).

22. **A read whose request the device refused returns bytes nobody read**
   (`device.c:776`).  `vioblk_storage_fetch` leaves its loop at the first
   status that is not `VIRTIO_BLK_S_OK` and returns the bytes counted so
   far, 0 for the one block `unaligned_fetch` asks for.  `unaligned_fetch`
   returns only a negative result as an error, copies from the bounce
   buffer what was there and reports the part of the block as read.
   `WhatIsReadWasOnTheDevice` is violated (`MCDeviceRefused.cfg`).  It is
   the test that finding 16 meets at the end of the device.

The model also reaches states the design excludes and no run states yet: a
caller whose previous pin is not dropped by its next `cache_get_block`,
because another thread has overwritten `last_used`, owns two entries, and the
first stays pinned for ever.  That is planned with the composition of `Ktfs` and `Cache`, where it decides
whether a caller can be stuck.

## 8. Not modelled

* The register switch and trap entry/exit (assembly outside `src/`): the
  switch is the change of `TP`; the saved registers and the stack anchor are
  left out.
* Thread and condition names, tracing and debugging output.
* The bytes of data pages, and with them the copy of a page in `ptab_clone`,
  the copy of a segment in `elf_load` and the strings `validate_vstr` walks
  (it is given the number of bytes before the terminator).  The TLB and
  `sfence.vma`.  The kernel heap (`kmalloc`), whose failures `process.c`
  handles like the failures that are modelled.
* In `process.c`: `build_stack` is its outcome only, and the registers of
  the trap frame other than `a0`.
* In `syscall.c`: `sysprint` and `sysusleep` (the latter is `sleep_us` of
  `Timer`); an open of a device (`dev/uart1`), which `Process` treats as a
  name that does not exist and `Device` models; the contents of the strings a call is given.
* In `elf.c`: the parsing and the checks of the header; a malformed file is
  the action `LoadFails`.
* The multiplication of microseconds into ticks in `alarm_sleep_us`, which
  needs the 64-bit width to overflow; the model gives `alarm_sleep` its tick
  count directly.
* In the cache: the argument checks that return `-EINVAL`, the bytes of a
  block, and the virtio queue behind a transfer (descriptors, the used ring,
  `queue_lock`), which `Vioblk` models under a caller that stands for the
  cache.
* In `ktfs.c`: a `cache_get_block` that fails inside a call that writes (the
  calls then stop between two writes: `ktfs_delete` after it freed blocks
  and before it unlinked the name, `ktfs_inode_free_all_blocks` with a table
  still pinned, `ktfs_alloc_zero_block` writing through the pointer it did
  not get); the pins of the cache, which `Cache` models, so a pointer used
  after a later `cache_get_block` is not seen here; `FCNTL_GETEND` and
  `FCNTL_GETPOS`, which change nothing; `ktfs_flush`, which is `cache_flush`;
  the argument checks that return `-EINVAL`; the characters of a name; the
  32-bit products `block * KTFS_BLKSZ` (`ktfs.c:1615`), which wrap only on a
  volume of 4 GiB or more.
* In `vioblk.c`: what `vioblk_storage_close` does to the queue (`Device`
  models it for the flag it clears); the branch of `vioblk_storage_fetch` for a position inside a block
  (lines 729-778), which `storage_fetch` never lets through;
  `vioblk_storage_cntl`, which reads constants; the feature bits, of which
  the model keeps whether the negotiation succeeds; transfers by two
  callers at once, which the cache's lock excludes; the wrap of the ring
  indices.
* In `viorng.c`: the descriptor and the rings beyond the two indices the
  wait loop compares, and what `virtio_reset_virtq` in the close does to
  the device's side of them: the driver keeps its indices across a close,
  and what a device makes of that after the next open is the device's
  affair.  The random bytes themselves: the buffer holds the number of its
  fill.
* `ramdisk.c`, which `main.c` does not attach.  Video devices, of which
  `device.c` knows the type and the sources have no driver.  In `device.c`:
  the characters of a name (a name is its stem and its number) and the
  bytes a UART or the clock delivers; `kcalloc` failing in an open.
* Boot code other than the attach and the mount of the block device, and string and console helpers: sequential code without shared
  state.
* Of the user programs: `xargs.c`, `echo.c` and `date.c`; the characters of
  a word and of a message; `getsn` and `printf`, whose library is not part
  of the sources; `src/usr/uio.c`, a library of uio wrappers and of a
  terminal line discipline that none of the programs calls; a program that
  reads the console.  `Process` alone still lets every process make every
  call, so the kernel's properties do not depend on what the programs do.
