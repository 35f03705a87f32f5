------------------------------- MODULE Thread -------------------------------
(***************************************************************************)
(* The thread manager of the kernel (src/sys/thread.c): the thread table,  *)
(* the FIFO ready list, condition variables with Mesa semantics, recursive *)
(* locks, and spawn / exit / yield / join / detach.                        *)
(*                                                                         *)
(* The kernel runs on one hart and S-mode code is never preempted, so a    *)
(* thread runs from one call of running_thread_suspend to the next without *)
(* another thread getting in between.  One step of this module is          *)
(* therefore one call of the thread API up to the point where it returns   *)
(* or suspends; a call that suspended continues, in a later step, at the   *)
(* loop it was suspended in (pc).  What a thread does between calls is the *)
(* environment: any running thread may make any call.                      *)
(***************************************************************************)
EXTENDS Integers, Sequences, FiniteSets, SequencesExt

CONSTANTS
    NTHR,           \* number of slots of thrtab (16 in the kernel)
    Locks,          \* the struct lock objects that exist
    ExtConds,       \* conditions other than child_exit and lock release
    NULL,           \* the null pointer
    MaxStackPages,  \* pages the physical allocator can give to thread stacks
    MaxLockCnt      \* bound on lock->cnt, the depth of recursive acquisition

ASSUME /\ NTHR \in Nat /\ NTHR >= 2
       /\ MaxStackPages \in Nat
       /\ MaxLockCnt \in Nat \ {0}

VARIABLES
    thrtab,         \* thrtab[tid]: NULL or the thread's state, parent, wait_cond
    ready_list,     \* the FIFO of READY threads
    wait_list,      \* wait_list[c]: the FIFO of threads waiting on condition c
    TP,             \* the running thread (the tp register)
    lock,           \* lock[l]: owner and cnt
    pc,             \* pc[tid]: the loop a suspended call continues in
    stack_pages,    \* stack pages taken from the allocator and not given back
    sys             \* "running", or how the kernel stopped

sched == <<thrtab, ready_list, wait_list, TP, stack_pages>>
vars  == <<thrtab, ready_list, wait_list, TP, lock, pc, stack_pages, sys>>

Tids     == 0 .. NTHR - 1
MAIN_TID == 0
IDLE_TID == NTHR - 1
EINVAL   == 1
EMTHR    == 11

\* The conditions of the system: one child_exit per thread, one release per
\* lock, and those of devices, pipes and alarms.
ChildExit(t) == <<"child_exit", t>>
Release(l)   == <<"release", l>>
Ext(c)       == <<"ext", c>>
Conds == {ChildExit(t) : t \in Tids} \cup {Release(l) : l \in Locks}
            \cup {Ext(c) : c \in ExtConds}

\* Where a thread is: in its own code, or suspended inside a call.
RUN          == <<"run">>
Joining(tid) == <<"join", tid>>
Acquiring(l) == <<"acquire", l>>

Thread(st, par) == [state |-> st, parent |-> par, wait_cond |-> NULL]

\* The scheduler's state as one value, so that the steps of a call compose.
Sched == [thr |-> thrtab, ready |-> ready_list, wait |-> wait_list,
          tp |-> TP, pages |-> stack_pages]

Commit(S) ==
    /\ thrtab' = S.thr
    /\ ready_list' = S.ready
    /\ wait_list' = S.wait
    /\ TP' = S.tp
    /\ stack_pages' = S.pages

-----------------------------------------------------------------------------
(* Mutated forms of the operators below, each the definition with one      *)
(* plausible slip; the properties are checked to tell them apart.          *)

\* condition_broadcast that wakes only the first waiter.
condition_signal_one(S, c) ==
    IF S.wait[c] = <<>> THEN S
    ELSE LET t == Head(S.wait[c]) IN
         [S EXCEPT !.thr[t].state = "READY", !.thr[t].wait_cond = NULL,
                   !.ready = Append(@, t), !.wait[c] = Tail(@)]

\* running_thread_suspend that puts the caller on the ready list whatever
\* its state.
suspend_requeue_always(S) ==
    LET self == S.tp
        Q    == [S EXCEPT !.thr[self].state = "READY", !.ready = Append(@, self)]
        next == Head(Q.ready)
    IN  [Q EXCEPT !.thr[next].state = "SELF", !.ready = Tail(@), !.tp = next]

\* thread_reclaim without the loop that re-parents the children.
reclaim_keep_parent(S, tid) == [S EXCEPT !.thr[tid] = NULL]

\* condition_broadcast that puts the woken threads at the head of the ready
\* list.
broadcast_to_front(S, c) ==
    LET woken == S.wait[c] IN
    [S EXCEPT !.thr   = [t \in Tids |->
                            IF Contains(woken, t)
                            THEN [S.thr[t] EXCEPT !.state = "READY",
                                                  !.wait_cond = NULL]
                            ELSE S.thr[t]],
              !.ready = woken \o @,
              !.wait[c] = <<>>]

\* The first acquisition that sets the owner and forgets lock->cnt = 1.
take_without_count(t) == [owner |-> t, cnt |-> 0]

-----------------------------------------------------------------------------
(* The scheduler: thread lists, conditions, suspend, reclaim.              *)

\* Every waiter leaves the wait list, becomes READY and joins the tail of
\* the ready list, in the order it waited.
condition_broadcast(S, c) ==
    LET woken == S.wait[c] IN
    [S EXCEPT !.thr   = [t \in Tids |->
                            IF Contains(woken, t)
                            THEN [S.thr[t] EXCEPT !.state = "READY",
                                                  !.wait_cond = NULL]
                            ELSE S.thr[t]],
              !.ready = @ \o woken,
              !.wait[c] = <<>>]

\* condition_wait up to the call of running_thread_suspend: the caller is
\* WAITING and at the tail of the condition's wait list.
condition_enqueue(S, c) ==
    [S EXCEPT !.thr[S.tp].state = "WAITING", !.thr[S.tp].wait_cond = c,
              !.wait[c] = Append(@, S.tp)]

\* A caller that is still SELF goes to the tail of the ready list; the head
\* of the ready list (the idle thread when it is empty) becomes SELF and the
\* running thread.  The thread that resumes frees a stack only if it finds
\* ITSELF in state EXITED.
running_thread_suspend(S) ==
    LET self == S.tp
        Q    == IF S.thr[self].state = "SELF"
                THEN [S EXCEPT !.thr[self].state = "READY",
                               !.ready = Append(@, self)]
                ELSE S
        next == IF Q.ready = <<>> THEN IDLE_TID ELSE Head(Q.ready)
        R    == [Q EXCEPT !.thr[next].state = "SELF",
                          !.ready = IF @ = <<>> THEN @ ELSE Tail(@),
                          !.tp = next]
    IN  [R EXCEPT !.pages = IF R.thr[next].state = "EXITED" THEN @ - 1 ELSE @]

condition_wait(S, c) == running_thread_suspend(condition_enqueue(S, c))

\* (Mutated form of thread_exit: the exit that broadcasts &thr->child_exit,
\* its own condition, where its parent does not wait.)
exit_wakes_own_waiters(S) ==
    running_thread_suspend(condition_broadcast(
        [S EXCEPT !.thr[S.tp].state = "EXITED"], ChildExit(S.tp)))

\* running_thread_exit of a thread other than main: EXITED, the waiters of
\* the parent's child_exit woken, and the hart given away for good.
thread_exit(S) ==
    running_thread_suspend(condition_broadcast(
        [S EXCEPT !.thr[S.tp].state = "EXITED"],
        ChildExit(S.thr[S.tp].parent)))

\* What lock_acquire writes when it takes a lock without an owner.
lock_take(t) == [owner |-> t, cnt |-> 1]

\* The children of the reclaimed thread become children of its parent, and
\* the slot is free again.  The stack page is not touched.
thread_reclaim(S, tid) ==
    [S EXCEPT !.thr = [c \in Tids |->
        IF c = tid THEN NULL
        ELSE IF c >= 1 /\ S.thr[c] # NULL /\ S.thr[c].parent = tid
             THEN [S.thr[c] EXCEPT !.parent = S.thr[tid].parent]
             ELSE S.thr[c]]]

Children(p) == {c \in 1 .. NTHR - 1 : thrtab[c] # NULL /\ thrtab[c].parent = p}
FreeSlots == {s \in 1 .. NTHR - 1 : thrtab[s] = NULL}

\* t is the running thread and the kernel has not stopped.
Running(t) == sys = "running" /\ TP = t /\ thrtab[t].state = "SELF"
\* t is running its own code (not inside a suspended call) and may call.
Caller(t)  == Running(t) /\ t # IDLE_TID /\ pc[t] = RUN

-----------------------------------------------------------------------------
Init ==
    /\ thrtab = [t \in Tids |->
                    CASE t = MAIN_TID -> Thread("SELF", NULL)
                      [] t = IDLE_TID -> Thread("READY", MAIN_TID)
                      [] OTHER        -> NULL]
    /\ ready_list = <<IDLE_TID>>
    /\ wait_list = [c \in Conds |-> <<>>]
    /\ TP = MAIN_TID
    /\ lock = [l \in Locks |-> [owner |-> NULL, cnt |-> 0]]
    /\ pc = [t \in Tids |-> RUN]
    /\ stack_pages = 0
    /\ sys = "running"

-----------------------------------------------------------------------------
(* The calls of the thread API.                                            *)

\* No free slot returns -EMTHR; no page for the stack panics in the
\* allocator; otherwise the child is READY at the tail of the ready list.
spawn_thread(t) ==
    /\ Caller(t)
    /\ \/ /\ FreeSlots = {}
          /\ UNCHANGED <<sched, sys>>
       \/ /\ FreeSlots # {} /\ stack_pages = MaxStackPages
          /\ sys' = "panic"
          /\ UNCHANGED sched
       \/ /\ FreeSlots # {} /\ stack_pages < MaxStackPages
          /\ LET tid == Min(FreeSlots) IN
                /\ thrtab' = [thrtab EXCEPT ![tid] = Thread("READY", t)]
                /\ ready_list' = Append(ready_list, tid)
          /\ stack_pages' = stack_pages + 1
          /\ UNCHANGED <<wait_list, TP, sys>>
    /\ UNCHANGED <<lock, pc>>

\* The main thread halts the machine.  Any other thread becomes EXITED,
\* wakes the waiters of its parent's child_exit and never runs again; one
\* whose parent pointer is NULL faults on &thr->parent->child_exit.
\* Nothing is done about the locks the thread holds: they stay owned by its
\* slot (release_all_thread_locks is commented out in the source).
running_thread_exit(t) ==
    /\ Caller(t)
    /\ \/ /\ t = MAIN_TID
          /\ sys' = "halted"
          /\ UNCHANGED sched
       \/ /\ t # MAIN_TID /\ thrtab[t].parent = NULL
          /\ sys' = "fault"
          /\ UNCHANGED sched
       \/ /\ t # MAIN_TID /\ thrtab[t].parent # NULL
          /\ Commit(thread_exit(Sched))
          /\ UNCHANGED sys
    /\ UNCHANGED <<lock, pc>>

\* Also what the trap handler does to a thread interrupted in U mode when
\* the preemption interval has elapsed.
running_thread_yield(t) ==
    /\ Caller(t)
    /\ Commit(running_thread_suspend(Sched))
    /\ UNCHANGED <<lock, pc, sys>>

\* tid = 0 joins any child, the first EXITED one in slot order.  The checks
\* of the argument are made once, on entry; the loop around condition_wait
\* only looks for an EXITED child again.
thread_join(t, tid) ==
    LET entering == pc[t] = RUN
        invalid  == IF tid = 0 THEN Children(t) = {} ELSE tid \notin Children(t)
        exited   == {c \in IF tid = 0 THEN Children(t) ELSE {tid} :
                        thrtab[c].state = "EXITED"}
    IN
    /\ Running(t) /\ t # IDLE_TID /\ pc[t] \in {RUN, Joining(tid)}
    /\ \/ /\ entering /\ invalid
          /\ UNCHANGED <<sched, pc>>
       \/ /\ ~(entering /\ invalid) /\ exited # {}
          /\ Commit(thread_reclaim(Sched, Min(exited)))
          /\ pc' = [pc EXCEPT ![t] = RUN]
       \/ /\ ~(entering /\ invalid) /\ exited = {}
          /\ Commit(condition_wait(Sched, ChildExit(t)))
          /\ pc' = [pc EXCEPT ![t] = Joining(tid)]
    /\ UNCHANGED <<lock, sys>>

thread_detach(t, tid) ==
    /\ Caller(t) /\ thrtab[tid] # NULL
    /\ thrtab' = [thrtab EXCEPT ![tid].parent = NULL]
    /\ UNCHANGED <<ready_list, wait_list, TP, lock, pc, stack_pages, sys>>

\* The owner only counts; anyone else waits on the lock's release condition
\* until it finds the lock without an owner.
lock_acquire(t, l) ==
    /\ Running(t) /\ t # IDLE_TID /\ pc[t] \in {RUN, Acquiring(l)}
    /\ \/ /\ lock[l].owner = t /\ lock[l].cnt < MaxLockCnt
          /\ lock' = [lock EXCEPT ![l].cnt = @ + 1]
          /\ UNCHANGED <<sched, pc>>
       \/ /\ lock[l].owner = NULL
          /\ lock' = [lock EXCEPT ![l] = lock_take(t)]
          /\ pc' = [pc EXCEPT ![t] = RUN]
          /\ UNCHANGED sched
       \/ /\ lock[l].owner \notin {t, NULL}
          /\ Commit(condition_wait(Sched, Release(l)))
          /\ pc' = [pc EXCEPT ![t] = Acquiring(l)]
          /\ UNCHANGED lock
    /\ UNCHANGED sys

\* lock_release_completely: wake the waiters, then give up ownership.
lock_release_completely(S, l) == condition_broadcast(S, Release(l))

\* Only the owner releases (the call asserts it).
lock_release(t, l) ==
    /\ Caller(t) /\ lock[l].owner = t
    /\ \/ /\ lock[l].cnt > 1
          /\ lock' = [lock EXCEPT ![l].cnt = @ - 1]
          /\ UNCHANGED sched
       \/ /\ lock[l].cnt = 1
          /\ Commit(lock_release_completely(Sched, l))
          /\ lock' = [lock EXCEPT ![l] = [owner |-> NULL, cnt |-> 0]]
    /\ UNCHANGED <<pc, sys>>

\* The idle thread yields while anything is ready, and otherwise sleeps in
\* wfi until an interrupt.
idle_thread_func ==
    /\ Running(IDLE_TID)
    /\ \/ ready_list # <<>> /\ Commit(running_thread_suspend(Sched))
       \/ ready_list = <<>> /\ UNCHANGED sched
    /\ UNCHANGED <<lock, pc, sys>>

\* A thread waits on a condition of a device, a pipe or an alarm, and a
\* thread or an interrupt handler broadcasts it.
ExtWait(t, c) ==
    /\ Caller(t)
    /\ Commit(condition_wait(Sched, Ext(c)))
    /\ UNCHANGED <<lock, pc, sys>>

ExtBroadcast(c) ==
    /\ sys = "running"
    /\ Commit(condition_broadcast(Sched, Ext(c)))
    /\ UNCHANGED <<lock, pc, sys>>

\* After halt_success, a panic or a fault nothing runs any more.
Stopped == sys # "running" /\ UNCHANGED vars

ThreadCall(t) ==
    \/ spawn_thread(t)
    \/ running_thread_exit(t)
    \/ running_thread_yield(t)
    \/ \E tid \in 0 .. NTHR : thread_join(t, tid)
    \/ \E tid \in Tids : thread_detach(t, tid)
    \/ \E l \in Locks : lock_acquire(t, l) \/ lock_release(t, l)
    \/ \E c \in ExtConds : ExtWait(t, c)

Next ==
    \/ \E t \in Tids : ThreadCall(t)
    \/ idle_thread_func
    \/ \E c \in ExtConds : ExtBroadcast(c)
    \/ Stopped

Spec == Init /\ [][Next]_vars

(* Fairness.  The timer preempts a thread that runs in U mode, the idle    *)
(* loop yields whenever a thread is ready, and a call that was woken goes  *)
(* on when its thread is scheduled: each of these steps, once enabled, is  *)
(* eventually taken.  Nothing is assumed about the calls a thread chooses  *)
(* to make.                                                                *)
Fairness ==
    /\ \A t \in Tids : WF_vars(running_thread_yield(t))
    /\ \A t \in Tids, tid \in Tids :
            WF_vars(pc[t] = Joining(tid) /\ thread_join(t, tid))
    /\ \A t \in Tids, l \in Locks :
            WF_vars(pc[t] = Acquiring(l) /\ lock_acquire(t, l))
    /\ WF_vars(idle_thread_func /\ ready_list # <<>>)

FairSpec == Spec /\ Fairness

-----------------------------------------------------------------------------
(* Properties.                                                             *)

Continuations ==
    {RUN} \cup {Joining(t) : t \in Tids} \cup {Acquiring(l) : l \in Locks}

TypeOK ==
    /\ thrtab \in [Tids -> {NULL} \cup
                    [state : {"WAITING", "SELF", "READY", "EXITED"},
                     parent : Tids \cup {NULL},
                     wait_cond : Conds \cup {NULL}]]
    /\ ready_list \in Seq(Tids)
    /\ wait_list \in [Conds -> Seq(Tids)]
    /\ TP \in Tids
    /\ lock \in [Locks -> {[owner |-> NULL, cnt |-> 0]} \cup
                            [owner : Tids, cnt : 1 .. MaxLockCnt]]
    /\ pc \in [Tids -> Continuations]
    /\ stack_pages \in 0 .. MaxStackPages
    /\ sys \in {"running", "halted", "panic", "fault"}

Live == {t \in Tids : thrtab[t] # NULL}
InState(st) == {t \in Live : thrtab[t].state = st}

\* The thread lists and the thread states agree: the thread in tp is the
\* only one in state SELF, the ready list holds exactly the READY threads,
\* once each, and the wait list of a condition exactly the threads WAITING on
\* it.  This is what running_thread_suspend, condition_wait and
\* condition_broadcast keep between them; a thread on two lists, or READY on
\* none, is run twice or never again.
SchedulerConsistent ==
    /\ InState("SELF") = {TP}
    /\ IsInjective(ready_list) /\ ToSet(ready_list) = InState("READY")
    /\ \A c \in Conds :
        /\ IsInjective(wait_list[c])
        /\ ToSet(wait_list[c]) =
                {t \in InState("WAITING") : thrtab[t].wait_cond = c}

RECURSIVE Ancestors(_, _)
Ancestors(t, n) ==
    IF n = 0 \/ thrtab[t] = NULL \/ thrtab[t].parent = NULL THEN {}
    ELSE {thrtab[t].parent} \cup Ancestors(thrtab[t].parent, n - 1)

\* Every thread that has a parent has one that is still in the thread
\* table, and no thread is its own ancestor: when thread_reclaim frees a
\* slot, the children of the reclaimed thread are handed to its parent, so
\* that an exiting thread always finds a child_exit condition to broadcast
\* and a slot that is used again never inherits children.
OrphansAdopted ==
    \A t \in Live :
        /\ Ancestors(t, NTHR) \subseteq Live
        /\ t \notin Ancestors(t, NTHR)

\* No thread sleeps on the release condition of a lock that nobody holds:
\* lock_release_completely wakes every waiter before the owner is cleared,
\* and lock_acquire waits only after it has seen an owner.
NoLostLockWakeup ==
    \A l \in Locks : wait_list[Release(l)] # <<>> => lock[l].owner # NULL

Before(a, b, list) ==
    \E i, j \in DOMAIN list : i < j /\ list[i] = a /\ list[j] = b

\* The ready list is FIFO.  In every step, the threads that stay on the
\* ready list keep their order, a thread that joins it stands behind every
\* thread that was there already, and the thread that is given the hart was
\* ahead of every thread that is left waiting for it: running_thread_suspend
\* takes the head, and spawn_thread, condition_broadcast and
\* running_thread_suspend add at the tail.  A thread that is ready is then
\* overtaken by no thread that became ready after it.
ReadyListFifo ==
    [][LET old == ToSet(ready_list)
           new == ToSet(ready_list')
       IN  /\ \A a, b \in old \cap new :
                Before(a, b, ready_list) => Before(a, b, ready_list')
           /\ \A a \in old \cap new, b \in new \ old : Before(a, b, ready_list')
           /\ \A a \in old \cap new :
                TP' # TP /\ TP' \in old => Before(TP', a, ready_list)]_vars

\* A parent that waits in thread_join for a child that has exited returns
\* from the join: running_thread_exit broadcasts the parent's child_exit,
\* and the woken parent finds the child EXITED when it is scheduled.
JoinReturns ==
    \A p \in Tids, c \in Tids \ {0} :
        (pc[p] = Joining(c) /\ thrtab[c] # NULL /\ thrtab[c].state = "EXITED")
            ~> (pc[p] = RUN \/ sys # "running")

-----------------------------------------------------------------------------
(* What the design documents say, and the code does not do.                *)

\* "After returning [from the switch], if the previous thread is EXITED,
\* free its stack page": the only stacks in use are those of the spawned
\* threads that have not exited.
StackFreedAfterExit ==
    stack_pages = Cardinality((Live \ {MAIN_TID, IDLE_TID}) \ InState("EXITED"))

\* "thread_join returns -EINVAL if no such child": a thread that waits for
\* any child has a child that can exit.
JoinAnyHasChild ==
    \A t \in Tids : pc[t] = Joining(0) => Children(t) \ {IDLE_TID} # {}

=============================================================================
