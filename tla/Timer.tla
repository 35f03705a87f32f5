-------------------------------- MODULE Timer --------------------------------
(***************************************************************************)
(* Alarms and the timer interrupt (src/sys/timer.c, src/sys/intr.c) on top *)
(* of the thread manager.                                                  *)
(*                                                                         *)
(* A thread sleeps by queuing an alarm on the sleep list and waiting on    *)
(* the alarm's condition; the timer interrupt handler takes the alarms     *)
(* that are due off the list and broadcasts their conditions.  The handler *)
(* runs wherever interrupts are enabled: in U mode, in the idle loop, and  *)
(* in S-mode code that runs with SSTATUS.SIE set.  alarm_sleep and         *)
(* condition_wait are therefore modelled in the pieces between which the   *)
(* code has interrupts enabled, and the SIE bit is a variable: a trap      *)
(* clears it, and running_thread_suspend hands the caller's value to the   *)
(* thread it switches to.                                                  *)
(***************************************************************************)
EXTENDS Integers, Sequences, FiniteSets, SequencesExt

CONSTANTS
    NTHR,               \* slots of thrtab; all are in use here
    NULL,
    KernelThreads,      \* threads that stay in S mode (never enter U mode)
    UINT64_MAX,         \* the largest value of the time counter's type
    MaxTime,            \* bound on rdtime(): the clock stops there
    PREEMPTION_INTERVAL,
    Tcnts               \* the sleep lengths callers ask for

ASSUME /\ NTHR \in Nat /\ NTHR >= 2
       /\ PREEMPTION_INTERVAL \in Nat \ {0}
       /\ MaxTime \in Nat /\ MaxTime + PREEMPTION_INTERVAL <= UINT64_MAX
       /\ Tcnts \subseteq 0 .. UINT64_MAX
       /\ KernelThreads \subseteq 1 .. NTHR - 2

VARIABLES
    thrtab, ready_list, wait_list, TP,      \* the thread manager's state
    sie,                    \* SSTATUS.SIE of the hart while it is in S mode
    umode,                  \* umode[t]: t runs in U mode when it has the hart
    now,                    \* rdtime()
    stcmp,                  \* the timer comparator: an interrupt is pending
                            \* while now >= stcmp
    next_preemption_tick,
    sleep_list,             \* the queued alarms, by the thread that owns them
    twake,                  \* twake[t]: wake time of the alarm of thread t
    at                      \* at[t]: how far t is into alarm_sleep

tvars == <<thrtab, ready_list, wait_list, TP>>
vars  == <<thrtab, ready_list, wait_list, TP, sie, umode, now, stcmp,
           next_preemption_tick, sleep_list, twake, at>>

Tids == 0 .. NTHR - 1

\* The thread manager.  It has no locks here, one condition for the alarm
\* of each thread, and no thread is inside thread_join or lock_acquire.
T == INSTANCE Thread WITH
        Locks <- {}, ExtConds <- Tids, MaxStackPages <- 0, MaxLockCnt <- 1,
        lock <- <<>>, pc <- [t \in Tids |-> <<"run">>], stack_pages <- 0,
        sys <- "running"

Cond(t) == T!Ext(t)             \* al->cond of the alarm of thread t

\* The thread lists after a step of the thread manager.  A thread that is
\* resumed goes on with the SIE value of the thread that switched to it; one
\* that is resumed on its way back to U mode returns there at once, and in
\* U mode interrupts are on.
Switch(S, ie) ==
    /\ thrtab' = S.thr
    /\ ready_list' = S.ready
    /\ wait_list' = S.wait
    /\ TP' = S.tp
    /\ sie' = (ie \/ umode[S.tp])

\* An interrupt can be taken now.
IntrOn == umode[TP] \/ sie
\* The timer interrupt is pending.
Pending == now >= stcmp

-----------------------------------------------------------------------------
(* Mutated forms of the operators below.                                   *)

\* twake += tcnt without the test for overflow.
add_unchecked(a, b) == a + b

\* The insertion that always links the new alarm at the head.
insert_at_head(list, t, tw) == <<t>> \o list

\* The insertion that ends the list at the new alarm (al->next = NULL).
insert_drop_tail(list, t, tw) ==
    SelectSeq(list, LAMBDA a : tw[a] <= tw[t]) \o <<t>>

\* The comparator programmed for the preemption tick only.
stcmp_tick_only(list, tw, npt) == IF npt # 0 THEN npt ELSE UINT64_MAX

\* The dispatcher that tests SSTATUS.SPP the wrong way round.
preempt_from_smode(pending) == pending /\ ~umode[TP]

\* The handler that unlinks the alarms that are due and wakes nobody.
unlink_due(S, list, tw, time) == S

-----------------------------------------------------------------------------
(* timer.c                                                                 *)

\* al->twake += tcnt, saturating.
twake_add(a, b) == IF UINT64_MAX - a < b THEN UINT64_MAX ELSE a + b

\* The sleep list with the alarm of thread t linked in: before the head if
\* it is earlier than the head, otherwise behind the last alarm that is not
\* later.
sleep_list_insert(list, t, tw) ==
    LET later == {i \in 2 .. Len(list) : tw[list[i]] > tw[t]}
    IN  IF list = <<>> \/ tw[t] < tw[Head(list)] THEN <<t>> \o list
        ELSE InsertAt(list, IF later = {} THEN Len(list) + 1 ELSE Min(later), t)

\* program_next_stcmp: the earlier of the first alarm and the next
\* preemption tick.
program_next_stcmp(list, tw, npt) ==
    LET alarm == IF list # <<>> THEN tw[Head(list)] ELSE UINT64_MAX
    IN  IF npt # 0 /\ npt < alarm THEN npt ELSE alarm

\* The alarms at the head of the list that are due at the given time.
Due(list, tw, time) ==
    LET n == CHOOSE n \in 0 .. Len(list) :
                /\ \A i \in 1 .. n : tw[list[i]] <= time
                /\ n < Len(list) => tw[list[n + 1]] > time
    IN  SubSeq(list, 1, n)

\* The wake-up loop of handle_timer_interrupt: the condition of every due
\* alarm is broadcast, in list order.
RECURSIVE broadcast_all(_, _)
broadcast_all(S, alarms) ==
    IF alarms = <<>> THEN S
    ELSE broadcast_all(T!condition_broadcast(S, Cond(Head(alarms))), Tail(alarms))

wake_due(S, list, tw, time) == broadcast_all(S, Due(list, tw, time))

\* The preemption tick after the handler has run at the given time.
RECURSIVE advance_tick(_, _)
advance_tick(npt, time) ==
    IF npt <= time THEN advance_tick(npt + PREEMPTION_INTERVAL, time) ELSE npt

\* intr.c: the dispatcher yields after a tick only if the interrupt came
\* from U mode (SSTATUS.SPP = 0).
preempt_on_return(pending) == pending /\ umode[TP]

-----------------------------------------------------------------------------
Init ==
    /\ thrtab = [t \in Tids |->
                    IF t = T!MAIN_TID THEN T!Thread("SELF", NULL)
                    ELSE T!Thread("READY", T!MAIN_TID)]
    /\ ready_list = <<T!IDLE_TID>> \o [i \in 1 .. NTHR - 2 |-> i]
    /\ wait_list = [c \in T!Conds |-> <<>>]
    /\ TP = T!MAIN_TID
    /\ sie = TRUE
    /\ umode = [t \in Tids |-> t \notin KernelThreads \cup {T!IDLE_TID}]
    /\ now = 0
    /\ next_preemption_tick = PREEMPTION_INTERVAL
    /\ stcmp = PREEMPTION_INTERVAL
    /\ sleep_list = <<>>
    /\ twake = [t \in Tids |-> 0]
    /\ at = [t \in Tids |-> "run"]

\* The time counter advances.
Tick ==
    /\ now < MaxTime
    /\ now' = now + 1
    /\ UNCHANGED <<tvars, sie, umode, stcmp, next_preemption_tick, sleep_list,
                   twake, at>>

\* alarm_sleep up to restore_interrupts: the wake time is advanced from
\* base; an alarm that is already late returns at once; otherwise the alarm
\* is linked into the sleep list and the comparator programmed, with
\* interrupts disabled.
alarm_enqueue(t, base, tcnt) ==
    LET tw == [twake EXCEPT ![t] = twake_add(base, tcnt)] IN
    /\ twake' = tw
    /\ \/ /\ tw[t] < now
          /\ UNCHANGED <<sleep_list, stcmp, at>>
       \/ /\ tw[t] >= now
          /\ sleep_list' = sleep_list_insert(sleep_list, t, tw)
          /\ stcmp' = program_next_stcmp(sleep_list', tw, next_preemption_tick)
          /\ at' = [at EXCEPT ![t] = "queued"]

\* The usleep system call: the trap from U mode clears SIE, sleep_us
\* initialises an alarm on its stack (twake = now) and calls alarm_sleep.
sleep_us(t, tcnt) ==
    /\ T!Running(t) /\ umode[t] /\ at[t] = "run"
    /\ alarm_enqueue(t, now, tcnt)
    /\ umode' = [umode EXCEPT ![t] = at'[t] = "run"]
    /\ sie' = umode'[t]
    /\ UNCHANGED <<tvars, now, next_preemption_tick>>

\* alarm_sleep called by a thread of the kernel on its own alarm: the wake
\* time advances from the previous one.
alarm_sleep(t, tcnt) ==
    /\ T!Running(t) /\ t \in KernelThreads /\ at[t] = "run"
    /\ alarm_enqueue(t, twake[t], tcnt)
    /\ UNCHANGED <<tvars, sie, umode, now, next_preemption_tick>>

alarm_reset(t) ==
    /\ T!Running(t) /\ t \in KernelThreads /\ at[t] = "run"
    /\ twake' = [twake EXCEPT ![t] = now]
    /\ UNCHANGED <<tvars, sie, umode, now, stcmp, next_preemption_tick,
                   sleep_list, at>>

\* condition_wait(&al->cond), first part: the caller marks itself WAITING.
wait_mark(t) ==
    /\ TP = t /\ at[t] = "queued"
    /\ thrtab' = [thrtab EXCEPT ![t].state = "WAITING", ![t].wait_cond = Cond(t)]
    /\ at' = [at EXCEPT ![t] = "marked"]
    /\ UNCHANGED <<ready_list, wait_list, TP, sie, umode, now, stcmp,
                   next_preemption_tick, sleep_list, twake>>

\* Second part: with interrupts disabled, the caller joins the wait list.
wait_insert(t) ==
    /\ TP = t /\ at[t] = "marked"
    /\ wait_list' = [wait_list EXCEPT ![Cond(t)] = Append(@, t)]
    /\ at' = [at EXCEPT ![t] = "listed"]
    /\ UNCHANGED <<thrtab, ready_list, TP, sie, umode, now, stcmp,
                   next_preemption_tick, sleep_list, twake>>

\* Third part: running_thread_suspend.
wait_suspend(t) ==
    /\ TP = t /\ at[t] = "listed"
    /\ Switch(T!running_thread_suspend(T!Sched), sie)
    /\ at' = [at EXCEPT ![t] = "asleep"]
    /\ UNCHANGED <<umode, now, stcmp, next_preemption_tick, sleep_list, twake>>

\* The sleeper has the hart again: condition_wait and alarm_sleep return,
\* and a system call returns to U mode.
sleep_return(t) ==
    /\ T!Running(t) /\ at[t] = "asleep"
    /\ at' = [at EXCEPT ![t] = "run"]
    /\ umode' = [umode EXCEPT ![t] = t \notin KernelThreads]
    /\ sie' = (sie \/ umode'[t])
    /\ UNCHANGED <<tvars, now, stcmp, next_preemption_tick, sleep_list, twake>>

\* A thread of the kernel gives up the hart.
running_thread_yield(t) ==
    /\ T!Running(t) /\ t \in KernelThreads /\ at[t] = "run"
    /\ Switch(T!running_thread_suspend(T!Sched), sie)
    /\ UNCHANGED <<umode, now, stcmp, next_preemption_tick, sleep_list, twake, at>>

\* The idle thread yields while a thread is ready; otherwise it executes
\* wfi and enables interrupts.
idle_thread_func ==
    /\ T!Running(T!IDLE_TID)
    /\ \/ /\ ready_list # <<>>
          /\ Switch(T!running_thread_suspend(T!Sched), sie)
       \/ /\ ready_list = <<>>
          /\ sie' = TRUE
          /\ UNCHANGED tvars
    /\ UNCHANGED <<umode, now, stcmp, next_preemption_tick, sleep_list, twake, at>>

\* The timer interrupt, from the trap to the return of handle_interrupt:
\* every alarm that is due leaves the sleep list and has its condition
\* broadcast; if the preemption tick has passed it is moved beyond now; the
\* comparator is programmed; and after a tick the interrupted thread
\* yields, if it was in U mode.  The handler runs with interrupts disabled,
\* and so does the thread the yield switches to.
handle_timer_interrupt ==
    LET due   == Due(sleep_list, twake, now)
        rest  == SubSeq(sleep_list, Len(due) + 1, Len(sleep_list))
        tick  == next_preemption_tick # 0 /\ now >= next_preemption_tick
        npt   == IF tick THEN advance_tick(next_preemption_tick, now)
                 ELSE next_preemption_tick
        woken == wake_due(T!Sched, sleep_list, twake, now)
    IN
    /\ IntrOn /\ Pending
    /\ sleep_list' = rest
    /\ next_preemption_tick' = npt
    /\ stcmp' = program_next_stcmp(rest, twake, npt)
    /\ IF preempt_on_return(tick)
       THEN Switch(T!running_thread_suspend(woken), FALSE)
       ELSE Switch(woken, sie)
    /\ UNCHANGED <<umode, now, twake, at>>

ThreadStep(t) ==
    \/ \E tcnt \in Tcnts : sleep_us(t, tcnt) \/ alarm_sleep(t, tcnt)
    \/ alarm_reset(t)
    \/ wait_mark(t) \/ wait_insert(t) \/ wait_suspend(t)
    \/ sleep_return(t)
    \/ running_thread_yield(t)

Next ==
    \/ Tick
    \/ \E t \in Tids : ThreadStep(t)
    \/ idle_thread_func
    \/ handle_timer_interrupt

Spec == Init /\ [][Next]_vars

(* Fairness.  The clock runs.  A pending interrupt is taken as soon as the  *)
(* hart has interrupts enabled, so the handler runs if that happens again   *)
(* and again.  A call that has begun goes on when its thread has the hart,  *)
(* the idle loop goes round, and a thread of the kernel, which nothing      *)
(* preempts, gives up the hart of its own accord.  Nothing is assumed about *)
(* when a thread sleeps.                                                    *)
Fairness ==
    /\ WF_vars(Tick)
    /\ SF_vars(handle_timer_interrupt)
    /\ WF_vars(idle_thread_func)
    /\ \A t \in Tids :
        /\ WF_vars(wait_mark(t) \/ wait_insert(t) \/ wait_suspend(t)
                        \/ sleep_return(t))
        /\ WF_vars(running_thread_yield(t))

FairSpec == Spec /\ Fairness

-----------------------------------------------------------------------------
(* Properties.                                                             *)

TypeOK ==
    /\ thrtab \in [Tids -> [state : {"WAITING", "SELF", "READY", "EXITED"},
                            parent : Tids \cup {NULL},
                            wait_cond : T!Conds \cup {NULL}]]
    /\ ready_list \in Seq(Tids)
    /\ wait_list \in [T!Conds -> Seq(Tids)]
    /\ TP \in Tids
    /\ sie \in BOOLEAN
    /\ umode \in [Tids -> BOOLEAN]
    /\ now \in 0 .. MaxTime
    /\ stcmp \in 0 .. UINT64_MAX
    /\ next_preemption_tick \in 0 .. UINT64_MAX
    /\ sleep_list \in Seq(Tids)
    /\ twake \in [Tids -> 0 .. UINT64_MAX]
    /\ at \in [Tids -> {"run", "queued", "marked", "listed", "asleep"}]

\* The sleep list holds each alarm once and in ascending order of wake
\* time, so that the handler, which stops at the first alarm that is not
\* due, leaves no due alarm behind: alarm_sleep inserts in order and
\* handle_timer_interrupt removes from the head.
SleepListSorted ==
    /\ IsInjective(sleep_list)
    /\ \A i, j \in DOMAIN sleep_list :
            i < j => twake[sleep_list[i]] <= twake[sleep_list[j]]

\* The comparator is never later than the first alarm or the next
\* preemption tick: both alarm_sleep and handle_timer_interrupt program it
\* after they have changed the sleep list, so no alarm waits for an
\* interrupt that is set for a later event.
ComparatorCoversEarliest ==
    /\ stcmp <= next_preemption_tick
    /\ sleep_list # <<>> => stcmp <= twake[Head(sleep_list)]

\* t sleeps on its alarm, and the alarm is not on the sleep list.
Stranded(t) ==
    /\ thrtab[t].state = "WAITING" /\ Contains(wait_list[Cond(t)], t)
    /\ ~Contains(sleep_list, t)

\* A thread that sleeps through the usleep system call is never stranded:
\* the trap has disabled interrupts, so the handler cannot take the alarm
\* off the list and broadcast between alarm_sleep's insertion and the
\* caller's entry into the wait list.
SyscallSleeperQueued == \A t \in Tids \ KernelThreads : ~Stranded(t)

\* A thread in U mode does not keep the hart for ever.  The preemption tick
\* is never more than one interval ahead of the clock (advance_tick), the
\* comparator is never set later than the tick (alarm_sleep and the handler
\* both program it), and the dispatcher makes a thread that was taken in
\* U mode yield.  A tick taken in S mode is dropped without a yield
\* (handle_interrupt tests SSTATUS.SPP after timer_preemption_flag has cleared
\* the flag), and the thread is preempted at the next one.
UserThreadIsPreempted ==
    \A t \in Tids \ (KernelThreads \cup {T!IDLE_TID}) :
        (TP = t /\ umode[t] /\ now + PREEMPTION_INTERVAL <= MaxTime) ~> (TP # t)

\* Sleeping is bounded in time: as long as the hart keeps coming back to
\* code that runs with interrupts enabled, a thread that sleeps through the
\* system call until a time the clock reaches is woken (it leaves the wait
\* list of its alarm).  It takes the comparator, the handler, the idle loop
\* and the SIE bit handed on by running_thread_suspend together.
AlarmFires ==
    \A t \in Tids \ KernelThreads :
        []<>IntrOn =>
            ((at[t] # "run" /\ twake[t] <= MaxTime)
                ~> (thrtab[t].state # "WAITING" /\ at[t] \in {"run", "asleep"}))

-----------------------------------------------------------------------------
(* What the design documents say, and the code does not do.                *)

\* "alarm_sleep atomically advances twake, inserts into the sleep list,
\* reprograms the comparator and waits on the alarm's condition": no
\* sleeper, whoever called, is stranded.
EverySleeperQueued == \A t \in Tids : ~Stranded(t)

=============================================================================
