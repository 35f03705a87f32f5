------------------------------ MODULE Process ------------------------------
(***************************************************************************)
(* The processes of the kernel and what they share: the descriptor tables  *)
(* (process.c), the system calls that change them (syscall.c), the         *)
(* reference counts of the uio objects and the pipe (uio.c).               *)
(*                                                                         *)
(* A process has one thread and is named by its thread id.  Kernel code is *)
(* not preempted, so a system call is one step up to the point where it    *)
(* waits on a condition; a thread in U mode can be preempted anywhere, so  *)
(* the calls of different processes interleave in any order.  A thread      *)
(* that a broadcast made ready goes on in its call in a later step         *)
(* (Resume).                                                               *)
(*                                                                         *)
(* A file is what ktfs promises of it: its bytes and, for every open uio,  *)
(* a position.  The address space of a process is image, the program it    *)
(* runs.  Of the trap frames and the user memory the model keeps what the  *)
(* last return left: a0 with the thread it was for, and umem, the bytes    *)
(* the call copied to its caller's buffer.                                 *)
(***************************************************************************)
EXTENDS Integers, Sequences, FiniteSets, TLC

CONSTANTS
    NTHR,                \* thread slots; slot 0 is main, slot NTHR-1 is idle
    NPROC,               \* process slots
    PROCESS_UIOMAX,      \* descriptors of a process
    ConsoleFds,          \* the descriptors run_init gives the console
    Pipes,               \* the pipe_chan objects the heap can hold
    Handles,             \* the ktfs_uio objects the heap can hold
    Files,               \* file names
    Executables,         \* the files elf_load accepts
    Bytes,               \* what a byte can be
    Bufs,                \* the buffers a caller may pass to write
    Lens,                \* the sizes a caller may pass to read
    capacity,            \* chan->capacity
    KTFS_MAX_FILE_SIZE,
    AllocFaults,         \* TRUE: kmalloc and the page allocator may fail
    ArgvFaults,          \* TRUE: so may the kmalloc of process_exec's kargv
    MaxSent,             \* bound: bytes written to one pipe
    Valid,               \* what validate_vptr may say of a pointer: 0, -EACCESS
    InitFiles,           \* the volume at boot
    INITEXE,             \* the program run_init starts in the main process
    NULL

VARIABLES
    thr,       \* thrtab: NULL or [parent, state, cond]
    proctab,   \* proctab: slot -> tid of the process or NULL
    uiotab,    \* uiotab of each process: descriptor -> uio or NULL
    refcnt,    \* uio->refcnt of every uio object; 0 when it does not exist
    pipe,      \* struct pipe_chan, NULL when freed
    file,      \* struct ktfs_uio: [name, pos], NULL when freed
    fdata,     \* the bytes of each file, NULL when it does not exist
    image,     \* the program mapped in the process's space, NULL when none
    call,      \* the call a thread is waiting in
    a0,        \* [tid, val]: tfr->a0 of the thread that returned last
    umem,      \* the bytes the last call copied to user memory
    halted,    \* halt_success was called
    sent,      \* history: the bytes written to each pipe
    rcvd       \* history: the bytes read from each pipe

vars == <<thr, proctab, uiotab, refcnt, pipe, file, fdata, image, call, a0,
          umem, halted, sent, rcvd>>

EINVAL  == 1
ENOTSUP == 3
ENOENT  == 6
EACCESS == 7
EBADFD  == 8
EMFILE  == 9
ENOMEM  == 13
EPIPE   == 14
EEXIST  == 15

Tids     == 0 .. NTHR - 1
MAIN_TID == 0
IDLE_TID == NTHR - 1
Fds      == 0 .. PROCESS_UIOMAX - 1
FdArgs   == -1 .. PROCESS_UIOMAX     \* -1: negative; PROCESS_UIOMAX: too large

CONSOLE       == <<"dev", 0>>
WriterEnd(p)  == <<"w", p>>
ReaderEnd(p)  == <<"r", p>>
FileUio(h)    == <<"f", h>>
Uio           == {CONSOLE} \cup ({"w", "r"} \X Pipes) \cup ({"f"} \X Handles)

Least(S)  == CHOOSE i \in S : \A j \in S : i <= j

NoFiles == [fd \in Fds |-> NULL]
NoCall  == [op |-> "none", arg |-> 0, data |-> <<>>, done |-> 0]

\* the state a close, an exit or a broadcast works on
Objs == [thr |-> thr, refcnt |-> refcnt, pipe |-> pipe, file |-> file]

Put(S) ==
    /\ thr' = S.thr
    /\ refcnt' = S.refcnt
    /\ pipe' = S.pipe
    /\ file' = S.file

-----------------------------------------------------------------------------
(* Conditions and threads                                                  *)

\* every waiter of the condition goes to the ready list
condition_broadcast(T, c) ==
    [t \in Tids |->
        IF T[t] # NULL /\ T[t].state = "WAITING" /\ T[t].cond = c
        THEN [T[t] EXCEPT !.state = "READY", !.cond = NULL]
        ELSE T[t]]

condition_wait(T, t, c) == [T EXCEPT ![t].state = "WAITING", ![t].cond = c]

\* the thread is back in U mode
InUser(T, t) == [T EXCEPT ![t].state = "USER", ![t].cond = NULL]

running_thread_exit(S, t) ==
    IF t = MAIN_TID THEN S
    ELSE [S EXCEPT !.thr = condition_broadcast(
                     [S.thr EXCEPT ![t].state = "EXITED", ![t].cond = NULL],
                     <<"child_exit", S.thr[t].parent>>)]

thread_reclaim(T, c) ==
    [x \in Tids |->
        IF x = c THEN NULL
        ELSE IF x >= 1 /\ T[x] # NULL /\ T[x].parent = c
        THEN [T[x] EXCEPT !.parent = T[c].parent]
        ELSE T[x]]

\* create_thread's scan: the lowest free slot from 1, NTHR when there is none
FreeTid == Least({t \in Tids \ {MAIN_TID} : thr[t] = NULL} \cup {NTHR})

-----------------------------------------------------------------------------
(* uio objects                                                             *)

uio_addref(R, u) == [R EXCEPT ![u] = @ + 1]

pipe_free_backing(S, p) == [S EXCEPT !.pipe[p] = NULL]

FreeIfBothClosed(S, p, other_alive) ==
    IF other_alive THEN S ELSE pipe_free_backing(S, p)

pipe_close_writer_silent(S, p) ==
    FreeIfBothClosed([S EXCEPT !.pipe[p].writer_alive = FALSE],
                     p, S.pipe[p].reader_alive)

pipe_close_writer(S, p) ==
    FreeIfBothClosed(
        IF S.pipe[p].writer_alive
        THEN [S EXCEPT !.pipe[p].writer_alive = FALSE,
                       !.thr = condition_broadcast(S.thr, <<"readable", p>>)]
        ELSE S,
        p, S.pipe[p].reader_alive)

pipe_close_reader(S, p) ==
    FreeIfBothClosed(
        IF S.pipe[p].reader_alive
        THEN [S EXCEPT !.pipe[p].reader_alive = FALSE,
                       !.thr = condition_broadcast(S.thr, <<"writable", p>>)]
        ELSE S,
        p, S.pipe[p].writer_alive)

ktfs_close(S, h) == [S EXCEPT !.file[h] = NULL]

\* uio->intf->close
CloseMethod(S, u) ==
    CASE u[1] = "w" -> pipe_close_writer(S, u[2])
      [] u[1] = "r" -> pipe_close_reader(S, u[2])
      [] u[1] = "f" -> ktfs_close(S, u[2])
      [] OTHER      -> S

Dropped(S, u, n) ==
    IF n = 0 THEN CloseMethod([S EXCEPT !.refcnt[u] = 0], u)
    ELSE [S EXCEPT !.refcnt[u] = n]

uio_close_at_once(S, u) == Dropped(S, u, 0)

uio_close(S, u) ==
    Dropped(S, u, IF S.refcnt[u] > 0 THEN S.refcnt[u] - 1 ELSE 0)

\* the loop of process_exit over the descriptors
RECURSIVE CloseFrom(_, _, _)
CloseFrom(S, tab, fd) ==
    IF fd = PROCESS_UIOMAX THEN S
    ELSE CloseFrom(IF tab[fd] = NULL THEN S ELSE uio_close(S, tab[fd]),
                   tab, fd + 1)

\* the first free descriptor, PROCESS_UIOMAX when there is none
FirstFree(tab, taken) ==
    Least({fd \in Fds : tab[fd] = NULL /\ fd \notin taken} \cup {PROCESS_UIOMAX})

-----------------------------------------------------------------------------
(* Entering and leaving a call                                             *)

\* a thread in U mode with a program to run
Caller(t) ==
    /\ ~halted
    /\ thr[t] # NULL
    /\ thr[t].state = "USER"
    /\ image[t] # NULL

\* handle_syscall stores the result in the trap frame
Returns(t, v) == a0' = [tid |-> t, val |-> v]

\* a failure of the heap or of the page allocator, where the model has them
Fault == IF AllocFaults THEN BOOLEAN ELSE {FALSE}

objs == <<thr, refcnt, pipe, file>>
hist == <<sent, rcvd>>

-----------------------------------------------------------------------------
(* Descriptors                                                             *)

\* the descriptor is out of range or not open
Closed(tab, fd) == IF fd \in Fds THEN tab[fd] = NULL ELSE TRUE

SysClose(t, fd) ==
    /\ Caller(t)
    /\ \/ /\ Closed(uiotab[t], fd)
          /\ Returns(t, -EBADFD)
          /\ UNCHANGED <<objs, uiotab>>
       \/ /\ ~Closed(uiotab[t], fd)
          /\ Put(uio_close(Objs, uiotab[t][fd]))
          /\ uiotab' = [uiotab EXCEPT ![t][fd] = NULL]
          /\ Returns(t, 0)
    /\ UNCHANGED <<proctab, fdata, image, call, umem, halted, hist>>

\* the descriptor a call is to install at: the one asked for, or the first
\* free one; a negative error when there is none
Slot(tab, fd) ==
    IF fd >= 0
    THEN IF fd >= PROCESS_UIOMAX \/ tab[fd] # NULL THEN -EBADFD ELSE fd
    ELSE IF FirstFree(tab, {}) = PROCESS_UIOMAX THEN -EMFILE
         ELSE FirstFree(tab, {})

SysUiodup(t, oldfd, newfd) ==
    /\ Caller(t)
    /\ \/ /\ Closed(uiotab[t], oldfd)
          /\ Returns(t, -EBADFD)
          /\ UNCHANGED <<uiotab, refcnt>>
       \/ /\ ~Closed(uiotab[t], oldfd)
          /\ Returns(t, Slot(uiotab[t], newfd))
          /\ IF Slot(uiotab[t], newfd) < 0
             THEN UNCHANGED <<uiotab, refcnt>>
             ELSE /\ refcnt' = uio_addref(refcnt, uiotab[t][oldfd])
                  /\ uiotab' = [uiotab EXCEPT
                        ![t][Slot(uiotab[t], newfd)] = uiotab[t][oldfd]]
    /\ UNCHANGED <<thr, pipe, file, proctab, fdata, image, call, umem,
                   halted, hist>>

\* open_file on the mounted volume: ktfs_open of a file
SysOpen(t, fd, path) ==
    /\ Caller(t)
    /\ \E fault \in Fault :
        LET slot == Slot(uiotab[t], fd)
            free == {h \in Handles : file[h] = NULL}
            rc   == CASE path = NULL          -> -EINVAL
                      [] slot < 0             -> slot
                      [] fdata[path] = NULL   -> -ENOENT
                      [] fault \/ free = {}   -> -ENOMEM
                      [] OTHER                -> slot
        IN  /\ Returns(t, rc)
            /\ IF rc < 0
               THEN UNCHANGED <<uiotab, refcnt, file>>
               ELSE /\ file' = [file EXCEPT ![Least(free)] =
                                    [name |-> path, pos |-> 0]]
                    /\ refcnt' = [refcnt EXCEPT ![FileUio(Least(free))] = 1]
                    /\ uiotab' = [uiotab EXCEPT
                                    ![t][slot] = FileUio(Least(free))]
    /\ UNCHANGED <<thr, pipe, proctab, fdata, image, call, umem, halted, hist>>

\* create_pipe
NewChan ==
    [storage |-> [i \in 0 .. capacity - 1 |-> 0], read_pos |-> 0,
     write_pos |-> 0, used_bytes |-> 0,
     reader_alive |-> TRUE, writer_alive |-> TRUE]

SysPipe(t, wreq, rreq) ==
    /\ Caller(t)
    /\ \E fault \in Fault :
        LET tab  == uiotab[t]
            badw == wreq >= 0 /\ (wreq >= PROCESS_UIOMAX \/ tab[wreq] # NULL)
            badr == rreq >= 0 /\ (\/ rreq >= PROCESS_UIOMAX
                                  \/ tab[rreq] # NULL
                                  \/ rreq = wreq)
            wfd  == IF wreq >= 0 THEN wreq
                    ELSE FirstFree(tab, IF rreq >= 0 THEN {rreq} ELSE {})
            rfd  == IF rreq >= 0 THEN rreq ELSE FirstFree(tab, {wfd})
            free == {p \in Pipes : pipe[p] = NULL}
            rc   == CASE badw \/ badr                -> -EBADFD
                      [] PROCESS_UIOMAX \in {wfd, rfd} -> -EMFILE
                      [] fault \/ free = {}          -> -ENOMEM
                      [] OTHER                       -> 0
        IN  /\ Returns(t, rc)
            /\ IF rc < 0
               THEN UNCHANGED <<uiotab, refcnt, pipe, umem, hist>>
               ELSE /\ pipe' = [pipe EXCEPT ![Least(free)] = NewChan]
                    /\ refcnt' = [refcnt EXCEPT
                                    ![WriterEnd(Least(free))] = 1,
                                    ![ReaderEnd(Least(free))] = 1]
                    /\ uiotab' = [uiotab EXCEPT
                                    ![t][wfd] = WriterEnd(Least(free)),
                                    ![t][rfd] = ReaderEnd(Least(free))]
                    /\ umem' = <<wfd, rfd>>
                    /\ sent' = [sent EXCEPT ![Least(free)] = <<>>]
                    /\ rcvd' = [rcvd EXCEPT ![Least(free)] = <<>>]
    /\ UNCHANGED <<thr, file, proctab, fdata, image, call, halted>>

-----------------------------------------------------------------------------
(* The pipe                                                                *)

\* the bytes one pass of the read takes: no more than asked for, than the
\* pipe holds, than lie before the end of the ring
ReadChunk(P, bufsz) == Least({bufsz, P.used_bytes, capacity - P.read_pos})

\* what one memcpy takes out of the buffer
Taken(P, chunk) == [i \in 1 .. chunk |-> P.storage[P.read_pos + i - 1]]

\* pipe_read_endpoint from the test of used_bytes on; the call and every
\* wake-up of it start here
PipeRead(t, p, bufsz) ==
    LET P     == pipe[p]
        chunk == ReadChunk(P, bufsz)
    IN  \/ /\ P.used_bytes = 0 /\ ~P.writer_alive
           /\ Returns(t, 0)
           /\ thr' = InUser(thr, t)
           /\ call' = [call EXCEPT ![t] = NoCall]
           /\ UNCHANGED <<pipe, umem, rcvd>>
        \/ /\ P.used_bytes = 0 /\ P.writer_alive
           /\ thr' = condition_wait(thr, t, <<"readable", p>>)
           /\ call' = [call EXCEPT ![t] =
                        [op |-> "read", arg |-> p, data |-> <<>>, done |-> bufsz]]
           /\ UNCHANGED <<pipe, umem, rcvd, a0>>
        \/ /\ P.used_bytes > 0
           /\ pipe' = [pipe EXCEPT
                        ![p].read_pos = (P.read_pos + chunk) % capacity,
                        ![p].used_bytes = P.used_bytes - chunk]
           /\ umem' = Taken(P, chunk)
           /\ rcvd' = [rcvd EXCEPT ![p] = @ \o Taken(P, chunk)]
           /\ thr' = condition_broadcast(InUser(thr, t), <<"writable", p>>)
           /\ call' = [call EXCEPT ![t] = NoCall]
           /\ Returns(t, chunk)

WriteChunkOverrun(P, data) == Least({Len(data), capacity - P.write_pos})

\* the bytes one pass of the write loop copies: no more than are left, than
\* the pipe has room for, than fit before the end of the ring
WriteChunk(P, data) ==
    Least({Len(data), capacity - P.used_bytes, capacity - P.write_pos})

\* the copy loop of pipe_write_endpoint, as far as it gets without waiting
RECURSIVE Filled(_, _)
Filled(P, data) ==
    IF data = <<>> \/ P.used_bytes = capacity THEN [chan |-> P, left |-> data]
    ELSE LET chunk == WriteChunk(P, data)
         IN  Filled([P EXCEPT
                       !.storage = [i \in 0 .. capacity - 1 |->
                           IF i \in P.write_pos .. P.write_pos + chunk - 1
                           THEN data[i - P.write_pos + 1] ELSE P.storage[i]],
                       !.write_pos = (P.write_pos + chunk) % capacity,
                       !.used_bytes = P.used_bytes + chunk],
                    SubSeq(data, chunk + 1, Len(data)))

\* pipe_write_endpoint from the head of its loop: data is still to be
\* written and transferred bytes are in the pipe already
PipeWrite(t, p, data, transferred) ==
    LET F      == Filled(pipe[p], data)
        copied == Len(data) - Len(F.left)
        woken  == IF copied > 0
                  THEN condition_broadcast(thr, <<"readable", p>>) ELSE thr
    IN  \/ /\ ~pipe[p].reader_alive
           /\ Returns(t, IF transferred > 0 THEN transferred ELSE -EPIPE)
           /\ thr' = InUser(thr, t)
           /\ call' = [call EXCEPT ![t] = NoCall]
           /\ UNCHANGED <<pipe, sent>>
        \/ /\ pipe[p].reader_alive
           /\ pipe' = [pipe EXCEPT ![p] = F.chan]
           /\ sent' = [sent EXCEPT ![p] = @ \o SubSeq(data, 1, copied)]
           /\ IF F.left = <<>>
              THEN /\ Returns(t, transferred + copied)
                   /\ thr' = InUser(woken, t)
                   /\ call' = [call EXCEPT ![t] = NoCall]
              ELSE /\ thr' = condition_wait(woken, t, <<"writable", p>>)
                   /\ call' = [call EXCEPT ![t] =
                                [op |-> "write", arg |-> p, data |-> F.left,
                                 done |-> transferred + copied]]
                   /\ UNCHANGED a0

-----------------------------------------------------------------------------
(* Files, as ktfs_fetch and ktfs_store present them                        *)

ktfs_fetch(t, h, len) ==
    LET f == file[h]
        n == IF f.pos >= Len(fdata[f.name]) THEN 0
             ELSE Least({len, Len(fdata[f.name]) - f.pos})
    IN  /\ file' = [file EXCEPT ![h].pos = f.pos + n]
        /\ umem' = SubSeq(fdata[f.name], f.pos + 1, f.pos + n)
        /\ Returns(t, n)

ktfs_store_unclamped(t, h, buf) ==
    LET f == file[h]
    IN  /\ file' = [file EXCEPT ![h].pos = f.pos + Len(buf)]
        /\ fdata' = [fdata EXCEPT ![f.name] = SubSeq(@, 1, f.pos) \o buf]
        /\ Returns(t, Len(buf))

ktfs_store(t, h, buf) ==
    LET f   == file[h]
        old == fdata[f.name]
        n   == Least({Len(buf), KTFS_MAX_FILE_SIZE - f.pos})
    IN  IF f.pos >= KTFS_MAX_FILE_SIZE
        THEN Returns(t, -EINVAL) /\ UNCHANGED <<file, fdata>>
        ELSE /\ file' = [file EXCEPT ![h].pos = f.pos + n]
             /\ fdata' = [fdata EXCEPT ![f.name] =
                    [i \in 1 .. f.pos |-> IF i <= Len(old) THEN old[i] ELSE 0]
                        \o SubSeq(buf, 1, n)
                        \o SubSeq(old, f.pos + n + 1, Len(old))]
             /\ Returns(t, n)

-----------------------------------------------------------------------------
(* read, write and fcntl.  v is what validate_vptr says of the pointer the *)
(* caller passes: 0 or an error.                                           *)

\* the tests before the call of the uio's method: the value returned, or 1
\* when the method is called
Checked(t, fd, v, method_missing) ==
    CASE fd \notin Fds          -> -EBADFD
      [] uiotab[t][fd] = NULL   -> -EBADFD
      [] v < 0                  -> v
      [] uiotab[t][fd][1] \in method_missing -> -ENOTSUP
      [] OTHER                  -> 1

SysRead(t, fd, bufsz, v) ==
    /\ Caller(t)
    /\ LET rc == IF bufsz = 0 THEN 0 ELSE Checked(t, fd, v, {"w"})
           x  == uiotab[t][fd]
       IN  \/ /\ rc <= 0
              /\ Returns(t, rc)
              /\ UNCHANGED <<thr, pipe, file, call, umem, rcvd>>
           \/ /\ rc = 1 /\ x[1] = "r"
              /\ PipeRead(t, x[2], bufsz)
              /\ UNCHANGED file
           \/ /\ rc = 1 /\ x[1] = "f"
              /\ ktfs_fetch(t, x[2], bufsz)
              /\ UNCHANGED <<thr, pipe, call, rcvd>>
           \/ /\ rc = 1 /\ x = CONSOLE
              /\ \E b \in Bytes : umem' = <<b>>
              /\ Returns(t, 1)
              /\ UNCHANGED <<thr, pipe, file, call, rcvd>>
    /\ UNCHANGED <<proctab, uiotab, refcnt, fdata, image, halted, sent>>

SysWrite(t, fd, buf, v) ==
    /\ Caller(t)
    /\ LET rc == IF ~Closed(uiotab[t], fd) /\ buf = <<>> THEN 0
                 ELSE Checked(t, fd, v, {"r"})
           x  == uiotab[t][fd]
       IN  \/ /\ rc <= 0
              /\ Returns(t, rc)
              /\ UNCHANGED <<thr, pipe, file, fdata, call, sent>>
           \/ /\ rc = 1 /\ x[1] = "w"
              /\ Len(sent[x[2]]) + Len(buf) <= MaxSent
              /\ PipeWrite(t, x[2], buf, 0)
              /\ UNCHANGED <<file, fdata>>
           \/ /\ rc = 1 /\ x[1] = "f"
              /\ ktfs_store(t, x[2], buf)
              /\ UNCHANGED <<thr, pipe, call, sent>>
           \/ /\ rc = 1 /\ x = CONSOLE
              /\ Returns(t, Len(buf))
              /\ UNCHANGED <<thr, pipe, file, fdata, call, sent>>
    /\ UNCHANGED <<proctab, uiotab, refcnt, image, umem, halted, rcvd>>

\* sysfcntl with FCNTL_SETPOS, the command of ktfs_cntl that changes the uio
SysFcntl(t, fd, newpos, v) ==
    /\ Caller(t)
    /\ LET rc == Checked(t, fd, v, {"w", "r"})
           x  == uiotab[t][fd]
           ret == CASE rc <= 0                     -> rc
                    [] x = CONSOLE                 -> -ENOTSUP
                    [] newpos > KTFS_MAX_FILE_SIZE -> -EINVAL
                    [] OTHER                       -> 0
       IN  /\ Returns(t, ret)
           /\ file' = IF rc = 1 /\ ret = 0
                      THEN [file EXCEPT ![x[2]].pos = newpos] ELSE file
    /\ UNCHANGED <<thr, refcnt, pipe, proctab, uiotab, fdata, image, call,
                   umem, halted, hist>>

-----------------------------------------------------------------------------
(* The volume                                                              *)

Open(name) == \E h \in Handles : file[h] # NULL /\ file[h].name = name

SysFsCreate(t, path) ==
    /\ Caller(t)
    /\ LET rc == CASE path = NULL        -> -EINVAL
                   [] fdata[path] # NULL -> -EEXIST
                   [] OTHER              -> 0
       IN  /\ Returns(t, rc)
           /\ fdata' = IF rc < 0 THEN fdata ELSE [fdata EXCEPT ![path] = <<>>]
    /\ UNCHANGED <<objs, proctab, uiotab, image, call, umem, halted, hist>>

\* callers do not delete a file that is open
SysFsDelete(t, path) ==
    /\ Caller(t)
    /\ path = NULL \/ ~Open(path)
    /\ LET rc == CASE path = NULL        -> -EINVAL
                   [] fdata[path] = NULL -> -ENOENT
                   [] OTHER              -> 0
       IN  /\ Returns(t, rc)
           /\ fdata' = IF rc < 0 THEN fdata ELSE [fdata EXCEPT ![path] = NULL]
    /\ UNCHANGED <<objs, proctab, uiotab, image, call, umem, halted, hist>>

-----------------------------------------------------------------------------
(* exit, fork, wait and exec                                               *)

\* process_exit: close every descriptor, discard the space, leave proctab,
\* exit the thread; the main thread halts the machine
process_exit(t) ==
    /\ Put(running_thread_exit(CloseFrom(Objs, uiotab[t], 0), t))
    /\ uiotab' = [uiotab EXCEPT ![t] = NoFiles]
    /\ proctab' = [i \in DOMAIN proctab |->
                     IF proctab[i] = t /\ t # MAIN_TID THEN NULL ELSE proctab[i]]
    /\ image' = [image EXCEPT ![t] = NULL]
    /\ halted' = (t = MAIN_TID)
    /\ UNCHANGED <<fdata, call, a0, umem, hist>>

SysExit(t) == Caller(t) /\ process_exit(t)

\* handle_umode_exception for anything but a system call
Fatal(t) ==
    /\ ~halted
    /\ thr[t] # NULL /\ thr[t].state = "USER"
    /\ process_exit(t)

InheritedNoAddref(R, tab) == R

\* one more reference for every descriptor of the parent
Inherited(R, tab) ==
    [u \in Uio |-> R[u] + Cardinality({fd \in Fds : tab[fd] = u})]

SysFork(t) ==
    /\ Caller(t)
    /\ \E fault \in Fault :
        LET slots == {i \in DOMAIN proctab : proctab[i] = NULL}
            child == FreeTid
        IN  IF slots = {} \/ fault \/ child = NTHR
            THEN /\ Returns(t, -ENOMEM)
                 /\ UNCHANGED <<thr, proctab, uiotab, refcnt, image, call>>
            ELSE /\ thr' = condition_wait(
                             [thr EXCEPT ![child] = [parent |-> t,
                                 state |-> "NEW", cond |-> NULL]],
                             t, <<"done", t>>)
                 /\ proctab' = [proctab EXCEPT ![Least(slots)] = child]
                 /\ uiotab' = [uiotab EXCEPT ![child] = uiotab[t]]
                 /\ refcnt' = Inherited(refcnt, uiotab[t])
                 /\ image' = [image EXCEPT ![child] = image[t]]
                 /\ UNCHANGED a0
                 /\ call' = [call EXCEPT ![t] =
                        [op |-> "fork", arg |-> child, data |-> <<>>, done |-> 0]]
    /\ UNCHANGED <<pipe, file, fdata, umem, halted, hist>>

\* fork_func: the first step of the child's thread, which enters U mode
\* with the parent's trap frame and a0 = 0
ForkFunc(c) ==
    /\ ~halted
    /\ thr[c] # NULL /\ thr[c].state = "NEW"
    /\ thr' = condition_broadcast(InUser(thr, c), <<"done", thr[c].parent>>)
    /\ Returns(c, 0)
    /\ UNCHANGED <<proctab, uiotab, refcnt, pipe, file, fdata, image, call,
                   umem, halted, hist>>

\* thread_join, from the call and from every wake-up: whether there is
\* such a child is decided once, on entry; the loop around condition_wait
\* only looks for an EXITED child again
thread_join(t, tid) ==
    LET kids == {c \in Tids \ {MAIN_TID} : thr[c] # NULL /\ thr[c].parent = t}
        dead == {c \in kids : thr[c].state = "EXITED"}
        want == IF tid # 0 THEN {tid} ELSE kids
        invalid == call[t] = NoCall /\ want \cap kids = {}
    IN  \/ /\ invalid
           /\ Returns(t, -EINVAL)
           /\ thr' = InUser(thr, t)
           /\ call' = [call EXCEPT ![t] = NoCall]
        \/ /\ ~invalid /\ want \cap dead # {}
           /\ Returns(t, Least(want \cap dead))
           /\ thr' = InUser(thread_reclaim(thr, Least(want \cap dead)), t)
           /\ call' = [call EXCEPT ![t] = NoCall]
        \/ /\ ~invalid /\ want \cap dead = {}
           /\ thr' = condition_wait(thr, t, <<"child_exit", t>>)
           /\ call' = [call EXCEPT ![t] =
                        [op |-> "wait", arg |-> tid, data |-> <<>>, done |-> 0]]
           /\ UNCHANGED a0

SysWait(t, tid) ==
    /\ Caller(t)
    /\ thread_join(t, tid)
    /\ UNCHANGED <<proctab, uiotab, refcnt, pipe, file, fdata, image, umem,
                   halted, hist>>

\* elf_load of the uio: 0 for a file that holds a program
elf_load(x) ==
    CASE x[1] # "f"                            -> -4    \* -EIO: no FCNTL_SETPOS
      [] file[x[2]].name \notin Executables    -> -5    \* -EBADFMT
      [] OTHER                                 -> 0

\* elf_load leaves the position of a file where its last read ended
Loaded(S, x) ==
    IF x[1] = "f"
    THEN [S EXCEPT !.file[x[2]].pos = Len(fdata[S.file[x[2]].name])]
    ELSE S

\* sysexec and process_exec.  The reference sysexec takes replaces the one
\* of the descriptor it closes; process_exec gives it up after elf_load.
SysExec(t, fd, v) ==
    /\ Caller(t)
    /\ LET rc == Checked(t, fd, v, {})
           x  == uiotab[t][fd]
       IN  \/ /\ rc <= 0
              /\ Returns(t, rc)
              /\ UNCHANGED <<objs, uiotab, image, umem>>
           \/ /\ rc = 1 /\ ArgvFaults        \* no memory for the copy of argv
              /\ Returns(t, -ENOMEM)
              /\ uiotab' = [uiotab EXCEPT ![t][fd] = NULL]
              /\ UNCHANGED <<objs, image, umem>>
           \/ /\ rc = 1
              /\ \E fault \in Fault :
                   LET ret == IF elf_load(x) = 0 /\ fault THEN -ENOMEM
                              ELSE elf_load(x)
                   IN  /\ Returns(t, ret)
                       /\ image' = [image EXCEPT ![t] =
                            IF ret = 0 THEN file[x[2]].name ELSE NULL]
              /\ Put(uio_close(Loaded(Objs, x), x))
              /\ uiotab' = [uiotab EXCEPT ![t][fd] = NULL]
              /\ UNCHANGED umem
    /\ UNCHANGED <<proctab, fdata, call, halted, hist>>

-----------------------------------------------------------------------------
(* A thread a broadcast made ready goes on where it waited                 *)

Resume(t) ==
    /\ ~halted
    /\ thr[t] # NULL /\ thr[t].state = "READY"
    /\ \/ /\ call[t].op = "fork"
          /\ Returns(t, call[t].arg)
          /\ thr' = InUser(thr, t)
          /\ call' = [call EXCEPT ![t] = NoCall]
          /\ UNCHANGED <<pipe, umem, hist>>
       \/ /\ call[t].op = "wait"
          /\ thread_join(t, call[t].arg)
          /\ UNCHANGED <<pipe, umem, hist>>
       \/ /\ call[t].op = "read"
          /\ PipeRead(t, call[t].arg, call[t].done)
          /\ UNCHANGED sent
       \/ /\ call[t].op = "write"
          /\ PipeWrite(t, call[t].arg, call[t].data, call[t].done)
          /\ UNCHANGED <<umem, rcvd>>
    /\ UNCHANGED <<proctab, uiotab, refcnt, file, fdata, image, halted>>

\* after halt_success nothing runs
Halted == halted /\ UNCHANGED vars

-----------------------------------------------------------------------------
(* procmgr_init and run_init: the main process runs INITEXE with the       *)
(* console at descriptors 0, 1 and 2                                       *)

Init ==
    /\ thr = [t \in Tids |->
                CASE t = MAIN_TID -> [parent |-> NULL, state |-> "USER", cond |-> NULL]
                  [] t = IDLE_TID -> [parent |-> MAIN_TID, state |-> "IDLE", cond |-> NULL]
                  [] OTHER        -> NULL]
    /\ proctab = [i \in 0 .. NPROC - 1 |-> IF i = 0 THEN MAIN_TID ELSE NULL]
    /\ uiotab = [t \in Tids |->
                   IF t = MAIN_TID
                   THEN [fd \in Fds |-> IF fd \in ConsoleFds THEN CONSOLE ELSE NULL]
                   ELSE NoFiles]
    /\ refcnt = [u \in Uio |-> IF u = CONSOLE THEN Cardinality(ConsoleFds) ELSE 0]
    /\ pipe = [p \in Pipes |-> NULL]
    /\ file = [h \in Handles |-> NULL]
    /\ fdata = InitFiles
    /\ image = [t \in Tids |-> IF t = MAIN_TID THEN INITEXE ELSE NULL]
    /\ call = [t \in Tids |-> NoCall]
    /\ a0 = [tid |-> MAIN_TID, val |-> 0]
    /\ umem = <<>>
    /\ halted = FALSE
    /\ sent = [p \in Pipes |-> <<>>]
    /\ rcvd = [p \in Pipes |-> <<>>]

Next ==
    \/ \E t \in Tids :
        \/ SysExit(t) \/ Fatal(t) \/ SysFork(t) \/ ForkFunc(t) \/ Resume(t)
        \/ \E tid \in -1 .. NTHR : SysWait(t, tid)
        \/ \E fd \in FdArgs :
            \/ SysClose(t, fd)
            \/ \E newfd \in FdArgs : SysUiodup(t, fd, newfd) \/ SysPipe(t, fd, newfd)
            \/ \E path \in Files \cup {NULL} : SysOpen(t, fd, path)
            \/ \E v \in Valid :
                \/ SysExec(t, fd, v)
                \/ \E n \in Lens \cup {0} : SysRead(t, fd, n, v)
                \/ \E buf \in Bufs \cup {<<>>} : SysWrite(t, fd, buf, v)
                \/ \E pos \in Lens \cup {0} : SysFcntl(t, fd, pos, v)
        \/ \E path \in Files \cup {NULL} : SysFsCreate(t, path) \/ SysFsDelete(t, path)
    \/ Halted

Spec == Init /\ [][Next]_vars

-----------------------------------------------------------------------------
(* Properties                                                              *)

ThreadRec == [parent : Tids \cup {NULL},
              state : {"NEW", "USER", "READY", "WAITING", "EXITED", "IDLE"},
              cond : {NULL} \cup ({"readable", "writable"} \X Pipes)
                        \cup ({"child_exit", "done"} \X Tids)]

ChanRec == [storage : [0 .. capacity - 1 -> Bytes \cup {0}],
            read_pos : 0 .. capacity - 1, write_pos : 0 .. capacity - 1,
            used_bytes : 0 .. capacity,
            reader_alive : BOOLEAN, writer_alive : BOOLEAN]

\* The variables hold what the structures of process.h, thread.c and uio.c
\* can hold.
TypeOK ==
    /\ thr \in [Tids -> ThreadRec \cup {NULL}]
    /\ proctab \in [0 .. NPROC - 1 -> Tids \cup {NULL}]
    /\ uiotab \in [Tids -> [Fds -> Uio \cup {NULL}]]
    /\ refcnt \in [Uio -> Nat]
    /\ pipe \in [Pipes -> ChanRec \cup {NULL}]
    /\ file \in [Handles -> [name : Files, pos : 0 .. KTFS_MAX_FILE_SIZE] \cup {NULL}]
    /\ DOMAIN fdata = Files
    /\ \A f \in Files :
        \/ fdata[f] = NULL
        \/ fdata[f] \in Seq(Bytes \cup {0}) /\ Len(fdata[f]) <= KTFS_MAX_FILE_SIZE
    /\ image \in [Tids -> Executables \cup {NULL}]
    /\ a0 \in [tid : Tids, val : Int]
    /\ halted \in BOOLEAN
    /\ \A t \in Tids : call[t].op \in {"none", "fork", "wait", "read", "write"}

\* the descriptors, of all processes, that name the object
Refs(u) == {d \in Tids \X Fds : uiotab[d[1]][d[2]] = u}

\* what the object stands on: the channel of a pipe end, the ktfs_uio
Backed(u) ==
    CASE u[1] = "w" -> pipe[u[2]] # NULL /\ pipe[u[2]].writer_alive
      [] u[1] = "r" -> pipe[u[2]] # NULL /\ pipe[u[2]].reader_alive
      [] u[1] = "f" -> file[u[2]] # NULL
      [] OTHER      -> TRUE

\* The count of an object is the number of descriptors that name it, in all
\* processes together: sysopen and syspipe create it with one, sysuiodup and
\* process_fork add one for each new descriptor, sysclose, sysexec and
\* process_exit give one back for each descriptor they clear.  The close
\* method runs exactly when the last descriptor goes, so no descriptor
\* names a freed ktfs_uio or a closed pipe end, no object stays behind
\* without a descriptor, and a channel is freed when both its ends are.
RefcntCountsReferences ==
    /\ \A u \in Uio :
        /\ refcnt[u] = Cardinality(Refs(u))
        /\ u # CONSOLE => (refcnt[u] > 0 <=> Backed(u))
    /\ \A p \in Pipes :
        pipe[p] # NULL => pipe[p].writer_alive \/ pipe[p].reader_alive

\* the bytes in the ring, oldest first
InFlight(P) ==
    [i \in 1 .. P.used_bytes |-> P.storage[(P.read_pos + i - 1) % capacity]]

\* A pipe is a FIFO that neither loses nor repeats nor reorders a byte,
\* whatever the sizes of the reads and writes, across the wrap of the ring
\* in pipe_read_endpoint and pipe_write_endpoint and across writers that
\* wait half way: what was written is what was read followed by what is
\* in the ring.
PipeIsFifo ==
    \A p \in Pipes :
        pipe[p] # NULL =>
            /\ sent[p] = rcvd[p] \o InFlight(pipe[p])
            /\ pipe[p].write_pos = (pipe[p].read_pos + pipe[p].used_bytes) % capacity

Children(t) == {c \in Tids \ {MAIN_TID} : thr[c] # NULL /\ thr[c].parent = t}

\* what a thread waiting on the condition waits for has not happened yet
StillTrue(t, c) ==
    CASE c[1] = "readable" ->
            /\ pipe[c[2]] # NULL
            /\ pipe[c[2]].used_bytes = 0 /\ pipe[c[2]].writer_alive
      [] c[1] = "writable" ->
            /\ pipe[c[2]] # NULL
            /\ pipe[c[2]].used_bytes = capacity /\ pipe[c[2]].reader_alive
      [] c[1] = "child_exit" ->
            LET want == IF call[t].arg # 0 THEN {call[t].arg} ELSE Children(t)
            IN  /\ want \cap Children(t) # {}
                /\ \A k \in want \cap Children(t) : thr[k].state # "EXITED"
      [] c[1] = "done" -> thr[call[t].arg] # NULL /\ thr[call[t].arg].state = "NEW"

\* No wake-up is lost: a thread sleeps in read only while the pipe is empty
\* and has a writer, in write only while it is full and has a reader, in
\* wait only while the child it waits for runs, in fork only until the
\* child has started.  Every step that ends one of these (a read, a write,
\* the close of the last descriptor of an end by sysclose, sysexec or
\* process_exit, running_thread_exit, fork_func) broadcasts the condition.
NoLostWakeup ==
    \A t \in Tids :
        thr[t] # NULL /\ thr[t].state = "WAITING" => StillTrue(t, thr[t].cond)

=============================================================================
