-------------------------------- MODULE Uart --------------------------------
(***************************************************************************)
(* The NS16550 serial driver (src/sys/dev/uart.c) with the dispatch of     *)
(* external interrupts (src/sys/intr.c, src/sys/plic.c), on top of the     *)
(* thread manager.                                                         *)
(*                                                                         *)
(* uart_serial_send queues characters in the ring buffer txbuf and         *)
(* uart_isr moves them to the transmitter holding register THR;            *)
(* uart_isr moves received characters from the receiver buffer register    *)
(* RBR to the ring buffer rxbuf and uart_serial_recv takes them out.  A    *)
(* caller that finds txbuf full or rxbuf empty waits on a condition the    *)
(* handler broadcasts.  The driver takes no lock: it relies on the handler *)
(* running to its end and on its callers having interrupts disabled.  A    *)
(* system call begins that way, but a caller that has slept is resumed by  *)
(* the idle thread, which runs with interrupts enabled, and goes on with   *)
(* SSTATUS.SIE set.  The calls are therefore modelled in the pieces        *)
(* between which the handler changes what they read.                       *)
(*                                                                         *)
(* Characters are numbered in the order they enter the driver: the k-th    *)
(* character written to txbuf is k, the k-th character that arrives at     *)
(* the receiver is k.                                                      *)
(***************************************************************************)
EXTENDS Integers, Sequences, FiniteSets, SequencesExt

CONSTANTS
    NTHR,           \* slots of thrtab; all are in use here
    NULL,
    UART_RBUFSZ,    \* capacity of a ring buffer (64 in the kernel)
    UINT_MOD,       \* hpos and tpos are unsigned int: they count modulo this
    MaxSend,        \* bound on the characters written through the driver
    MaxRecv,        \* bound on the characters that arrive at the receiver
    RecvSizes,      \* the buffer sizes callers pass to uart_serial_recv
    SendSizes       \* and to uart_serial_send

ASSUME /\ NTHR \in Nat /\ NTHR >= 2
       /\ UART_RBUFSZ \in Nat \ {0}
       /\ UINT_MOD > UART_RBUFSZ /\ UINT_MOD % UART_RBUFSZ = 0
       /\ MaxSend \in Nat /\ MaxRecv \in Nat
       /\ RecvSizes \subseteq Nat /\ SendSizes \subseteq Nat

VARIABLES
    thrtab, ready_list, wait_list, TP,      \* the thread manager's state
    sie,            \* SSTATUS.SIE of the hart while it is in S mode
    umode,          \* umode[t]: t runs in U mode when it has the hart
    holders,        \* the threads that hold a reference to the device's uio
    opened,         \* uart->opened
    rxbuf, txbuf,   \* the ring buffers: hpos, tpos, data
    ier,            \* interrupt enable register: the enabled interrupts
    rbr,            \* receiver buffer register: NULL while LSR.DR is clear
    thr,            \* transmitter holding register: NULL while LSR.THRE is set
    prio,           \* priority of the UART's source in the PLIC
    isrtab,         \* TRUE while an isr is registered for the source
    at,             \* at[t]: how far t is into a call of the driver
    loc,            \* loc[t]: the locals of the call t is in
    wire,           \* the characters the transmitter has shifted out
    got,            \* the characters uart_serial_recv has returned
    nput,           \* number of characters written to txbuf so far
    narr            \* number of characters that have arrived so far

tvars == <<thrtab, ready_list, wait_list, TP>>
cpu   == <<sie, umode>>
plic  == <<prio, isrtab>>
dev   == <<opened, rxbuf, txbuf, ier, rbr, thr, plic>>
call  == <<at, loc>>
hist  == <<wire, got, nput, narr>>
vars  == <<thrtab, ready_list, wait_list, TP, sie, umode, holders, opened,
           rxbuf, txbuf, ier, rbr, thr, prio, isrtab, at, loc, wire, got, nput,
           narr>>

Tids == 0 .. NTHR - 1
Slots == 0 .. UART_RBUFSZ - 1
Pos == 0 .. UINT_MOD - 1

EINVAL == 1
EBUSY  == 2
UART_INTR_PRIO == 1
UART0_INTR_SRCNO == 10
IER_DRIE   == "DRIE"
IER_THREIE == "THREIE"

\* The thread manager, with the two conditions of the driver.
T == INSTANCE Thread WITH
        Locks <- {}, ExtConds <- {"rxbnotempty", "txbnotfull"},
        MaxStackPages <- 0, MaxLockCnt <- 1,
        lock <- <<>>, pc <- [t \in Tids |-> <<"run">>], stack_pages <- 0,
        sys <- "running"

rxbnotempty == T!Ext("rxbnotempty")
txbnotfull  == T!Ext("txbnotfull")

Users == Tids \ {T!IDLE_TID}

\* The thread lists after a step of the thread manager.  A thread that is
\* resumed goes on with the SIE value of the thread that switched to it; one
\* that is resumed in U mode has interrupts on.
Switch(S, ie) ==
    /\ thrtab' = S.thr
    /\ ready_list' = S.ready
    /\ wait_list' = S.wait
    /\ TP' = S.tp
    /\ sie' = (ie \/ umode[S.tp])

\* An interrupt can be taken now.
IntrOn == umode[TP] \/ sie
\* The UART raises its interrupt line: received data is available, or the
\* holding register is empty, and the interrupt for it is enabled.
IrqLine == (IER_DRIE \in ier /\ rbr # NULL) \/ (IER_THREIE \in ier /\ thr = NULL)

NoLocals == [n |-> 0, bufsz |-> 0, lsr |-> FALSE, h |-> 0, c |-> 0]

-----------------------------------------------------------------------------
(* Mutated forms of the operators below.                                   *)

\* rbuf_full that lets one character too many in.
full_off_by_one(b) == (b.tpos - b.hpos) % UINT_MOD = UART_RBUFSZ + 1

\* rbuf_getc that counts hpos in a wider type than the field has.
advance_no_wrap(b, h) == [b EXCEPT !.hpos = h + 1]

\* The handler that wakes the senders and forgets the receivers.
isr_wakes_senders_only(S, rx, tx) ==
    IF (tx.tpos - tx.hpos) % UINT_MOD # UART_RBUFSZ
    THEN T!condition_broadcast(S, txbnotfull) ELSE S

-----------------------------------------------------------------------------
(* Ring buffers.                                                           *)

rbuf_init(b) == [b EXCEPT !.hpos = 0, !.tpos = 0]

rbuf_empty(b) == b.hpos = b.tpos

rbuf_full(b) == (b.tpos - b.hpos) % UINT_MOD = UART_RBUFSZ

rbuf_putc(b, c) ==
    [b EXCEPT !.data[b.tpos % UART_RBUFSZ] = c, !.tpos = (b.tpos + 1) % UINT_MOD]

\* rbuf_getc in its two halves: the character at position h, and the buffer
\* with hpos set behind h.
rbuf_peek(b, h) == b.data[h % UART_RBUFSZ]
rbuf_advance(b, h) == [b EXCEPT !.hpos = (h + 1) % UINT_MOD]

\* Number of characters a buffer holds, and the characters, oldest first.
Count(b) == (b.tpos - b.hpos) % UINT_MOD
Queue(b) == [i \in 1 .. Count(b) |-> rbuf_peek(b, b.hpos + i - 1)]

\* The copy loop of uart_serial_recv: up to n characters leave the buffer.
RECURSIVE rbuf_drain(_, _)
rbuf_drain(b, n) ==
    IF n = 0 \/ rbuf_empty(b) THEN b
    ELSE rbuf_drain(rbuf_advance(b, b.hpos), n - 1)

-----------------------------------------------------------------------------
Init ==
    /\ thrtab = [t \in Tids |->
                    IF t = T!MAIN_TID THEN T!Thread("SELF", NULL)
                    ELSE T!Thread("READY", T!MAIN_TID)]
    /\ ready_list = <<T!IDLE_TID>> \o [i \in 1 .. NTHR - 2 |-> i]
    /\ wait_list = [c \in T!Conds |-> <<>>]
    /\ TP = T!MAIN_TID
    /\ sie = TRUE
    /\ umode = [t \in Tids |-> t # T!IDLE_TID]
    /\ holders = {}
    /\ opened = FALSE
    /\ rxbuf = [hpos |-> 0, tpos |-> 0, data |-> [i \in Slots |-> 0]]
    /\ txbuf = rxbuf
    /\ ier = {} /\ rbr = NULL /\ thr = NULL
    /\ prio = 0 /\ isrtab = FALSE
    /\ at = [t \in Tids |-> "run"]
    /\ loc = [t \in Tids |-> NoLocals]
    /\ wire = <<>> /\ got = <<>> /\ nput = 0 /\ narr = 0

\* A thread in U mode makes a system call: the trap clears SIE.
Enter(t) == T!Running(t) /\ umode[t] /\ at[t] = "run"

Trap(t) ==
    /\ umode' = [umode EXCEPT ![t] = FALSE]
    /\ sie' = FALSE

\* A call that does not return at once goes on in S mode at the given place.
Goto(t, place, locals) ==
    /\ at' = [at EXCEPT ![t] = place]
    /\ loc' = [loc EXCEPT ![t] = locals]

\* The call returns r, and the thread returns to U mode.  (The value is not
\* kept: no caller in the model reads it.)
Return(t, r) ==
    /\ at' = [at EXCEPT ![t] = "run"]
    /\ loc' = [loc EXCEPT ![t] = NoLocals]
    /\ umode' = [umode EXCEPT ![t] = TRUE]
    /\ sie' = TRUE

\* enable_intr_source registers the handler and gives the source its
\* priority; disable_intr_source takes the priority away and removes the
\* handler.
enable_intr_source(p) == isrtab' = TRUE /\ prio' = p
disable_intr_source == prio' = 0 /\ isrtab' = FALSE

\* uart_serial_open, reached through serial_open_uio: a second open is
\* refused; the first resets the ring buffers, reads RBR (which drops a
\* character that waits there), enables the data-ready interrupt and
\* registers the handler, and the caller gets the uio with one reference.
uart_serial_open(t) ==
    /\ Enter(t)
    /\ \/ /\ opened
          /\ Return(t, -EBUSY)
          /\ UNCHANGED <<dev, holders>>
       \/ /\ ~opened
          /\ rxbuf' = rbuf_init(rxbuf)
          /\ txbuf' = rbuf_init(txbuf)
          /\ rbr' = NULL
          /\ ier' = {IER_DRIE}
          /\ enable_intr_source(UART_INTR_PRIO)
          /\ opened' = TRUE
          /\ holders' = {t}
          /\ Return(t, 0)
          /\ UNCHANGED thr
    /\ UNCHANGED <<tvars, hist>>

\* uio_addref: a holder passes the uio on (fork copies the descriptor table).
uio_addref(t, u) ==
    /\ Enter(t) /\ t \in holders /\ u \in Users \ holders
    /\ holders' = holders \cup {u}
    /\ UNCHANGED <<tvars, cpu, dev, call, hist>>

\* uio_close: the reference is dropped, and the last one closes the device:
\* uart_serial_close disables the UART's interrupts and the source, and
\* removes the handler.
uio_close(t) ==
    /\ Enter(t) /\ t \in holders
    /\ holders' = holders \ {t}
    /\ IF holders' = {} /\ opened
       THEN /\ ier' = {}
            /\ disable_intr_source
            /\ opened' = FALSE
            /\ UNCHANGED <<rxbuf, txbuf, rbr, thr>>
       ELSE UNCHANGED dev
    /\ UNCHANGED <<tvars, cpu, call, hist>>

\* condition_wait up to running_thread_suspend: the caller is WAITING and
\* on the wait list.  (The handler reads neither before the caller is on
\* the list, so the two assignments and the insertion are one step.)
WaitCond(place) == IF place = "recv_wait" THEN rxbnotempty ELSE txbnotfull

wait_enqueue(t) ==
    /\ TP = t /\ at[t] \in {"recv_wait", "send_wait"}
    /\ Switch(T!condition_enqueue(T!Sched, WaitCond(at[t])), sie)
    /\ at' = [at EXCEPT ![t] = IF @ = "recv_wait" THEN "recv_sleep" ELSE "send_sleep"]
    /\ UNCHANGED <<umode, holders, dev, loc, hist>>

\* running_thread_suspend; the caller goes round its loop when it has the
\* hart again.
wait_suspend(t) ==
    /\ TP = t /\ at[t] \in {"recv_sleep", "send_sleep"}
    /\ Switch(T!running_thread_suspend(T!Sched), sie)
    /\ at' = [at EXCEPT ![t] = IF @ = "recv_sleep" THEN "recv" ELSE "send"]
    /\ UNCHANGED <<umode, holders, dev, loc, hist>>

\* uart_serial_recv, up to its loop.
uart_serial_recv(t, bufsz) ==
    /\ Enter(t) /\ t \in holders
    /\ \/ /\ ~opened
          /\ Return(t, -EINVAL)
       \/ /\ opened /\ bufsz = 0
          /\ Return(t, 0)
       \/ /\ opened /\ bufsz > 0
          /\ Trap(t)
          /\ Goto(t, "recv", [NoLocals EXCEPT !.bufsz = bufsz])
    /\ UNCHANGED <<tvars, holders, dev, hist>>

\* The loops of uart_serial_recv: the caller waits while rxbuf is empty,
\* then takes the characters that are there, up to bufsz.
recv_loop(t) ==
    LET k == IF loc[t].bufsz < Count(rxbuf) THEN loc[t].bufsz ELSE Count(rxbuf) IN
    /\ T!Running(t) /\ at[t] = "recv"
    /\ \/ /\ rbuf_empty(rxbuf)
          /\ Goto(t, "recv_wait", loc[t])
          /\ UNCHANGED <<sie, umode, rxbuf, got>>
       \/ /\ ~rbuf_empty(rxbuf)
          /\ rxbuf' = rbuf_drain(rxbuf, loc[t].bufsz)
          /\ got' = got \o SubSeq(Queue(rxbuf), 1, k)
          /\ Return(t, k)
    /\ UNCHANGED <<tvars, holders, opened, txbuf, ier, rbr, thr, plic, wire,
                   nput, narr>>

\* Characters that calls of uart_serial_send in progress have yet to queue.
Unqueued ==
    FoldFunctionOnSet(+, 0, [t \in Tids |-> loc[t].bufsz - loc[t].n],
                      {t \in Tids : at[t] \in {"send", "send_wait", "send_sleep"}})

\* uart_serial_send, up to its loop: the transmit interrupt is enabled and
\* the line status register is read.
uart_serial_send(t, bufsz) ==
    /\ Enter(t) /\ t \in holders
    /\ nput + Unqueued + bufsz <= MaxSend
    /\ \/ /\ ~opened
          /\ Return(t, -EINVAL)
          /\ UNCHANGED ier
       \/ /\ opened /\ bufsz = 0
          /\ Return(t, 0)
          /\ UNCHANGED ier
       \/ /\ opened /\ bufsz > 0
          /\ ier' = ier \cup {IER_THREIE}
          /\ Trap(t)
          /\ Goto(t, "send", [NoLocals EXCEPT !.bufsz = bufsz, !.lsr = (thr = NULL)])
    /\ UNCHANGED <<tvars, holders, opened, rxbuf, txbuf, rbr, thr, plic, hist>>

\* The loop of uart_serial_send: while txbuf is full the caller waits;
\* otherwise the next character is queued and the transmit interrupt
\* enabled.  After the last character the caller goes on to the test that
\* follows the loop.
send_loop(t) ==
    /\ T!Running(t) /\ at[t] = "send"
    /\ \/ /\ loc[t].n = loc[t].bufsz
          /\ Goto(t, "kick", loc[t])
          /\ UNCHANGED <<txbuf, ier, nput>>
       \/ /\ loc[t].n < loc[t].bufsz /\ rbuf_full(txbuf)
          /\ Goto(t, "send_wait", loc[t])
          /\ UNCHANGED <<txbuf, ier, nput>>
       \/ /\ loc[t].n < loc[t].bufsz /\ ~rbuf_full(txbuf)
          /\ txbuf' = rbuf_putc(txbuf, nput + 1)
          /\ nput' = nput + 1
          /\ ier' = ier \cup {IER_THREIE}
          /\ Goto(t, "send", [loc[t] EXCEPT !.n = @ + 1])
    /\ UNCHANGED <<tvars, cpu, holders, opened, rxbuf, rbr, thr, plic, wire, got,
                   narr>>

\* After the loop: if the line status read at the start of the call had
\* THRE set and txbuf is not empty, the caller takes a character out of
\* txbuf and writes it to THR.
send_kick(t) ==
    /\ T!Running(t) /\ at[t] = "kick"
    /\ \/ /\ loc[t].lsr /\ ~rbuf_empty(txbuf)
          /\ Goto(t, "getc", loc[t])
          /\ UNCHANGED <<sie, umode>>
       \/ /\ ~(loc[t].lsr /\ ~rbuf_empty(txbuf))
          /\ Return(t, loc[t].bufsz)
    /\ UNCHANGED <<tvars, holders, dev, hist>>

\* rbuf_getc, first half: hpos and the character there are read.
send_getc(t) ==
    /\ T!Running(t) /\ at[t] = "getc"
    /\ Goto(t, "thr", [loc[t] EXCEPT !.h = txbuf.hpos,
                                     !.c = rbuf_peek(txbuf, txbuf.hpos)])
    /\ UNCHANGED <<tvars, cpu, holders, dev, hist>>

\* rbuf_getc, second half, and the write to THR, which replaces a character
\* that is still there; uart_serial_send returns.
send_thr(t) ==
    /\ T!Running(t) /\ at[t] = "thr"
    /\ txbuf' = rbuf_advance(txbuf, loc[t].h)
    /\ thr' = loc[t].c
    /\ Return(t, loc[t].bufsz)
    /\ UNCHANGED <<tvars, holders, opened, rxbuf, ier, rbr, plic, hist>>

\* uart_isr, on the scheduler's state: the conditions it broadcasts, given
\* the ring buffers it leaves.
isr_broadcast(S, rx, tx) ==
    LET R == IF ~rbuf_empty(rx) THEN T!condition_broadcast(S, rxbnotempty) ELSE S
    IN  IF ~rbuf_full(tx) THEN T!condition_broadcast(R, txbnotfull) ELSE R

\* uart_isr, on the interrupt enable register: the transmit interrupt is
\* disabled when txbuf is left empty.
isr_ier(tx, r) == IF rbuf_empty(tx) THEN r \ {IER_THREIE} ELSE r

\* uart_isr: the character in RBR goes to rxbuf, or is dropped if rxbuf is
\* full; the oldest character of txbuf goes to THR if THR is empty; the
\* conditions are broadcast; and the transmit interrupt is disabled when
\* txbuf is left empty.  The result is the state the handler leaves.
uart_isr ==
    LET rx   == IF rbr # NULL /\ ~rbuf_full(rxbuf) THEN rbuf_putc(rxbuf, rbr)
                ELSE rxbuf
        move == thr = NULL /\ ~rbuf_empty(txbuf)
        tx   == IF move THEN rbuf_advance(txbuf, txbuf.hpos) ELSE txbuf
    IN  [rxbuf |-> rx, txbuf |-> tx,
         thr   |-> IF move THEN rbuf_peek(txbuf, txbuf.hpos) ELSE thr,
         ier   |-> isr_ier(tx, ier),
         sched |-> isr_broadcast(T!Sched, rx, tx)]

\* plic_claim_interrupt: the UART's source, if it has a priority and its
\* line is raised; 0 if no source is to be served.
plic_claim_interrupt == IF prio > 0 /\ IrqLine THEN UART0_INTR_SRCNO ELSE 0

\* An external interrupt: handle_extern_interrupt claims the source from
\* the PLIC, calls the handler registered for it and completes the
\* interrupt.  The handler runs with interrupts disabled and returns to
\* what it interrupted.
handle_extern_interrupt ==
    LET srcno == plic_claim_interrupt
        R     == uart_isr
    IN
    /\ IntrOn /\ srcno # 0
    /\ isrtab
    /\ rxbuf' = R.rxbuf
    /\ rbr' = NULL
    /\ txbuf' = R.txbuf
    /\ thr' = R.thr
    /\ ier' = R.ier
    /\ Switch(R.sched, sie)
    /\ UNCHANGED <<umode, holders, opened, plic, call, hist>>

\* intr.c: after a preemption tick of the timer the interrupted thread
\* yields, if it was in U mode.  The thread it switches to goes on inside
\* the handler, with interrupts disabled.
timer_preempt(t) ==
    /\ Enter(t)
    /\ Switch(T!running_thread_suspend(T!Sched), FALSE)
    /\ UNCHANGED <<umode, holders, dev, call, hist>>

\* The idle thread yields while a thread is ready; otherwise it executes
\* wfi and enables interrupts.
idle_thread_func ==
    /\ T!Running(T!IDLE_TID)
    /\ \/ /\ ready_list # <<>>
          /\ Switch(T!running_thread_suspend(T!Sched), sie)
       \/ /\ ready_list = <<>>
          /\ sie' = TRUE
          /\ UNCHANGED tvars
    /\ UNCHANGED <<umode, holders, dev, call, hist>>

\* The device.  A character arrives at the receiver: it replaces one that
\* has not been read (an overrun).
Arrive ==
    /\ narr < MaxRecv
    /\ narr' = narr + 1
    /\ rbr' = narr + 1
    /\ UNCHANGED <<tvars, cpu, holders, opened, rxbuf, txbuf, ier, thr, plic,
                   call, wire, got, nput>>

\* The transmitter shifts the character in THR out.
Transmit ==
    /\ thr # NULL
    /\ wire' = Append(wire, thr)
    /\ thr' = NULL
    /\ UNCHANGED <<tvars, cpu, holders, opened, rxbuf, txbuf, ier, rbr, plic,
                   call, got, nput, narr>>

ThreadStep(t) ==
    \/ uart_serial_open(t)
    \/ \E u \in Users : uio_addref(t, u)
    \/ uio_close(t)
    \/ \E bufsz \in RecvSizes : uart_serial_recv(t, bufsz)
    \/ \E bufsz \in SendSizes : uart_serial_send(t, bufsz)
    \/ recv_loop(t)
    \/ send_loop(t) \/ send_kick(t) \/ send_getc(t) \/ send_thr(t)
    \/ wait_enqueue(t) \/ wait_suspend(t)
    \/ timer_preempt(t)

Next ==
    \/ \E t \in Users : ThreadStep(t)
    \/ idle_thread_func
    \/ handle_extern_interrupt
    \/ Arrive
    \/ Transmit

Spec == Init /\ [][Next]_vars

-----------------------------------------------------------------------------
(* Properties.                                                             *)

Places == {"run", "recv", "recv_wait", "recv_sleep", "send", "send_wait",
           "send_sleep", "kick", "getc", "thr"}

Ringbuf(chars) == [hpos : Pos, tpos : Pos, data : [Slots -> chars]]

TypeOK ==
    /\ thrtab \in [Tids -> [state : {"WAITING", "SELF", "READY", "EXITED"},
                            parent : Tids \cup {NULL},
                            wait_cond : T!Conds \cup {NULL}]]
    /\ ready_list \in Seq(Tids)
    /\ wait_list \in [T!Conds -> Seq(Tids)]
    /\ TP \in Tids
    /\ sie \in BOOLEAN
    /\ umode \in [Tids -> BOOLEAN]
    /\ holders \subseteq Users
    /\ opened \in BOOLEAN
    /\ rxbuf \in Ringbuf(0 .. MaxRecv)
    /\ txbuf \in Ringbuf(0 .. MaxSend)
    /\ ier \subseteq {IER_DRIE, IER_THREIE}
    /\ rbr \in 1 .. MaxRecv \cup {NULL}
    /\ thr \in 0 .. MaxSend \cup {NULL}
    /\ prio \in {0, UART_INTR_PRIO}
    /\ isrtab \in BOOLEAN
    /\ at \in [Tids -> Places]
    /\ loc \in [Tids -> [n : Nat, bufsz : Nat, lsr : BOOLEAN, h : Pos,
                         c : 0 .. MaxSend]]
    /\ wire \in Seq(0 .. MaxSend)
    /\ got \in Seq(0 .. MaxRecv)
    /\ nput \in 0 .. MaxSend
    /\ narr \in 0 .. MaxRecv

StrictlyIncreasing(s) == \A i, j \in DOMAIN s : i < j => s[i] < s[j]
Reg(r) == IF r = NULL THEN <<>> ELSE <<r>>

\* Received characters reach the callers of uart_serial_recv in the order
\* they arrived and none twice (characters are lost only to an overrun):
\* what has been returned, what rxbuf holds and what waits in RBR is one
\* ascending sequence.  uart_isr writes tpos and uart_serial_recv writes
\* hpos, each may run between two steps of the other, and the handler must
\* not write into a full buffer.
RxInOrder == StrictlyIncreasing(got \o Queue(rxbuf) \o Reg(rbr))

\* No receiver sleeps while rxbuf holds characters, and a receiver that
\* sleeps is woken by the next character: the data-ready interrupt is
\* enabled and the source has a priority.  uart_serial_recv tests
\* rbuf_empty and calls condition_wait without disabling interrupts; the
\* handler cannot run between the two because a caller that finds rxbuf
\* empty has interrupts disabled: it comes from the trap, or was resumed by
\* a thread that did, and the idle thread, which hands on enabled
\* interrupts, resumes it only after a broadcast that found data.
NoLostWakeupRx ==
    wait_list[rxbnotempty] # <<>> =>
        rbuf_empty(rxbuf) /\ IER_DRIE \in ier /\ prio > 0

-----------------------------------------------------------------------------
(* What the driver's interface says, and the code does not do.             *)

\* "Writes data into the UART transmit buffer for sending": while the
\* device is open, a character that uart_serial_send has queued stays in
\* txbuf or THR until the transmitter has shifted it out.
InFlight == Range(Reg(thr)) \cup Range(Queue(txbuf))

TxNothingDropped ==
    [][opened /\ opened' =>
        \A c \in InFlight : c \in InFlight' \/ wire' = Append(wire, c)]_vars

\* A sender that sleeps is woken when THR empties: the transmit interrupt is
\* enabled while a thread waits on txbnotfull.  uart_serial_send enables it
\* "BEFORE filling buffer" and after every character, which "prevents race
\* condition when buffer fills up"; uart_isr disables it when it leaves
\* txbuf empty.  The test of rbuf_full and condition_wait are not one step
\* for a caller that runs with interrupts enabled.
NoLostWakeupTx ==
    wait_list[txbnotfull] # <<>> => IER_THREIE \in ier /\ prio > 0

=============================================================================
