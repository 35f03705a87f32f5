------------------------------- MODULE Device -------------------------------
(***************************************************************************)
(* The device manager and the device file system (device.c), the mount     *)
(* table (filesys.c), and what the drivers of the real-time clock (rtc.c)  *)
(* and of the VirtIO entropy device (viorng.c) do behind them.             *)
(*                                                                         *)
(* The boot registers the devices in the order it finds them and mounts    *)
(* the device file system and the volume.  After it the processes open     *)
(* devices and listings by name, read, write, position and close the uio   *)
(* objects they get, and leave them to a child.  Kernel code is not        *)
(* preempted, so a call is one step up to where it waits for a device: a   *)
(* transfer of a block device and a request for entropy take a step of     *)
(* their own to complete, and the calls of other processes come between.   *)
(*                                                                         *)
(* A device structure is named by the place of its record in devlist.  A   *)
(* file name is the pair of its stem and of the number its trailing digits *)
(* spell, NULL when it has none; the empty name is NULL.  What a serial    *)
(* device delivers is left out but for the entropy device, whose buffer    *)
(* holds the number of the fill it was last given.                         *)
(***************************************************************************)
EXTENDS Integers, Sequences, FiniteSets

CONSTANTS
    NULL,
    Procs,          \* the processes
    MAIN,           \* the process main becomes
    Uios,           \* the uio objects the heap can hold
    NUART,          \* the UARTs attach_devices attaches
    Machines,       \* the machines: the VirtIO slots in use, [id, features_ok] each
    BLKSZ,          \* the block size of a block device
    CAPACITY,       \* the bytes of a block device
    RTC_BLKSZ,      \* sizeof(uint64_t)
    VIORNG_BUFSZ,
    MountNames,     \* the mount point names a caller may pass
    FileNames,      \* the file names a caller may pass
    Lens,           \* the sizes a caller may pass to read
    Bufs,           \* the buffers a caller may pass to write
    Positions,      \* the positions a caller may pass to FCNTL_SETPOS
    FailedServes,   \* TRUE: a device the driver left FAILED serves its queue
    MaxCalls        \* bound: the calls the processes make

ASSUME /\ MAIN \in Procs /\ Uios \subseteq Nat /\ NUART \in Nat
       /\ BLKSZ \in Nat \ {0} /\ CAPACITY % BLKSZ = 0
       /\ FailedServes \in BOOLEAN /\ MaxCalls \in Nat
       /\ "c" \notin MountNames

VARIABLES
    virtio,     \* the VirtIO slots of this machine
    boot,       \* where main is: "attach", "cdrive", "init", "run", "halted"
    slot,       \* attach_devices: the devices probed so far
    devlist,    \* the device records, in the order of registration
    mplist,     \* the mount points, in the order of attachment
    status,     \* regs->status of each device, as the driver left it
    opened,     \* uart->opened, v->opened, vbd->is_open
    disk,       \* the bytes of each block device
    rng,        \* the queue of each entropy device: [avail, used, buf, fills],
                \* and history: given, the fills readers have got
    uio,        \* the uio objects: [kind, dev, pos, buffer], NULL when free
    held,       \* the uio objects each process has a descriptor of
    at,         \* the call a process waits in, NULL in user mode
    ret,        \* [val, data]: what the last call of a process returned
    ncalls,     \* the calls made
    clean,      \* history: no other process touched the uio of p's call
    snap        \* history: position and device contents when p's call began

vars == <<virtio, boot, slot, devlist, mplist, status, opened, disk, rng, uio, held,
          at, ret, ncalls, clean, snap>>

EINVAL  == 1
EBUSY   == 2
ENOTSUP == 3
ENOENT  == 6
EEXIST  == 15

DEV_SERIAL  == "ser"
DEV_STORAGE == "sto"

FCNTL_GETEND == 0
FCNTL_SETEND == 1
FCNTL_GETPOS == 2
FCNTL_SETPOS == 3

CMNTNAME   == "c"
DEVMNTNAME == "dev"
CDEVNAME   == "vioblk"
CDEVINST   == 0
KERNEL     == "kernel"      \* the cache, which holds the volume's device

\* the drivers, in the order attach_devices calls them
Drivers ==
    <<[id |-> "rtc", features_ok |-> TRUE]>>
        \o [i \in 1 .. NUART |-> [id |-> "uart", features_ok |-> TRUE]]
        \o virtio

DevIds == 1 .. Len(Drivers)

Least(S) == CHOOSE i \in S : \A j \in S : i <= j
MIN(a, b) == IF a < b THEN a ELSE b
ROUND_DOWN(n, k) == (n \div k) * k
Zeroed(n) == [i \in 1 .. n |-> 0]
Pattern == [i \in 1 .. CAPACITY |-> 10 + i]

File(stem, inst) == [stem |-> stem, inst |-> inst]

-----------------------------------------------------------------------------
(* The device manager                                                      *)

\* the instance number is the count of the records of that name
register_record(list, name, type) ==
    [name |-> name, type |-> type,
     instno |-> Cardinality({i \in DOMAIN list : list[i].name = name})]

register_device(list, name, type) ==
    Append(list, register_record(list, name, type))

find_device(name, type, instno) ==
    LET found == {i \in DOMAIN devlist :
                    /\ devlist[i].type = type
                    /\ devlist[i].instno = instno
                    /\ devlist[i].name = name}
    IN  IF found = {} THEN NULL ELSE Least(found)

-----------------------------------------------------------------------------
(* The mount table                                                         *)

attach_filesystem(list, mpname, fs) ==
    IF \E i \in DOMAIN list : list[i].name = mpname
    THEN [rc |-> -EEXIST, list |-> list]
    ELSE [rc |-> 0, list |-> Append(list, [name |-> mpname, fs |-> fs])]

getfs(mpname) ==
    LET found == {i \in DOMAIN mplist : mplist[i].name = mpname}
    IN  IF found = {} THEN NULL ELSE mplist[Least(found)].fs

mount_devfs(list, name) == attach_filesystem(list, name, "devfs")

-----------------------------------------------------------------------------
(* Opening by name.  An open yields [rc, obj]: the value returned and the  *)
(* uio object made, NULL when the open fails.                              *)

Refused(rc) == [rc |-> rc, obj |-> NULL]
Made(kind, d, cursor, buffer) ==
    [rc |-> 0, obj |-> [kind |-> kind, dev |-> d, pos |-> cursor, buffer |-> buffer]]

\* mutant: no driver looks at its flag
serial_open_unchecked(d) == 0

\* the clock can be opened any number of times, every other device once
rtc_open(d)            == 0
uart_serial_open(d)    == IF opened[d] THEN -EBUSY ELSE 0
viorng_serial_open(d)  == IF opened[d] THEN -EBUSY ELSE 0
vioblk_storage_open(d) == IF opened[d] THEN -EBUSY ELSE 0

serial_open(d) ==
    CASE devlist[d].name = "rtc"  -> rtc_open(d)
      [] devlist[d].name = "uart" -> uart_serial_open(d)
      [] OTHER                    -> viorng_serial_open(d)

storage_open(d) == vioblk_storage_open(d)

serial_open_uio(d) ==
    IF serial_open(d) # 0 THEN Refused(serial_open(d))
    ELSE Made("serial", d, 0, <<>>)

storage_open_uio(d) ==
    IF storage_open(d) # 0 THEN Refused(storage_open(d))
    ELSE Made("storage", d, 0, Zeroed(BLKSZ))

\* a listing starts at the head of its list
devfs_open_listing == Made("devls", NULL, 1, <<>>)
fs_open_listing    == Made("fsls", NULL, 1, <<>>)

\* the first record with the stem as its name and the digits as its number
devfs_open_file(name) ==
    LET found == {i \in DOMAIN devlist :
                    devlist[i].name = name.stem /\ devlist[i].instno = name.inst}
    IN  CASE name.inst = NULL -> Refused(-ENOENT)
          [] found = {}       -> Refused(-ENOENT)
          [] devlist[Least(found)].type = DEV_SERIAL -> serial_open_uio(Least(found))
          [] OTHER            -> storage_open_uio(Least(found))

devfs_open(name) ==
    IF name = NULL THEN devfs_open_listing ELSE devfs_open_file(name)

\* fs->open of the device file system; the volume's is ktfs_open, and no
\* caller of this module passes the volume's name
fsopen(fs, flname) == devfs_open(flname)

open_file(mpname, flname) ==
    CASE mpname = NULL        -> fs_open_listing
      [] getfs(mpname) = NULL -> Refused(-ENOENT)
      [] OTHER                -> fsopen(getfs(mpname), flname)

\* devfs has neither create nor delete
fscreate(fs) == -ENOTSUP
fsdelete(fs) == -ENOTSUP

create_file(mpname, flname) ==
    CASE mpname = NULL \/ flname = NULL -> -EINVAL
      [] getfs(mpname) = NULL           -> -ENOENT
      [] OTHER                          -> fscreate(getfs(mpname))

delete_file(mpname, flname) ==
    CASE mpname = NULL \/ flname = NULL -> -EINVAL
      [] getfs(mpname) = NULL           -> -ENOENT
      [] OTHER                          -> fsdelete(getfs(mpname))

\* the driver's flag after an open that made obj
Marked(obj) ==
    IF obj.dev # NULL /\ devlist[obj.dev].name # "rtc"
    THEN [opened EXCEPT ![obj.dev] = TRUE] ELSE opened

\* the flags after the close of a device: rtc_close does nothing
rtc_close(d)            == opened
uart_serial_close(d)    == [opened EXCEPT ![d] = FALSE]
viorng_serial_close(d)  == [opened EXCEPT ![d] = FALSE]
vioblk_storage_close(d) == [opened EXCEPT ![d] = FALSE]

serial_close(d) ==
    CASE devlist[d].name = "rtc"  -> rtc_close(d)
      [] devlist[d].name = "uart" -> uart_serial_close(d)
      [] OTHER                    -> viorng_serial_close(d)

storage_close(d) == vioblk_storage_close(d)

\* the close method of an object, which also frees it
uio_close_method(X) ==
    CASE X.kind = "serial"  -> serial_close(X.dev)
      [] X.kind = "storage" -> storage_close(X.dev)
      [] OTHER              -> opened

-----------------------------------------------------------------------------
(* The boot: attach_devices, mount_cdrive, run_init                        *)

Init ==
    /\ virtio \in Machines
    /\ boot = "attach" /\ slot = 0
    /\ devlist = <<>> /\ mplist = <<>>
    /\ status = [d \in DevIds |-> NULL]
    /\ opened = [d \in DevIds |-> FALSE]
    /\ disk = [d \in DevIds |-> <<>>]
    /\ rng = [d \in DevIds |-> NULL]
    /\ uio = [u \in Uios |-> NULL]
    /\ held = [p \in Procs |-> {}]
    /\ at = [p \in Procs |-> NULL]
    /\ ret = [p \in Procs |-> [val |-> 0, data |-> <<>>]]
    /\ ncalls = 0
    /\ clean = [p \in Procs |-> TRUE]
    /\ snap = [p \in Procs |-> NULL]

calls == <<at, ret, ncalls, clean, snap>>

\* what a call returned is written and never read
View == <<virtio, boot, slot, devlist, mplist, status, opened, disk, rng, uio,
          held, at, ncalls, clean, snap>>
objects == <<uio, held>>

\* attach_devices comes to a slot that holds a device of this kind
Probes(id) ==
    /\ boot = "attach" /\ slot < Len(Drivers) /\ Drivers[slot + 1].id = id
    /\ slot' = slot + 1
    /\ UNCHANGED <<virtio, boot, mplist, opened, objects, calls>>

New == Len(devlist) + 1     \* the device structure being attached

rtc_attach ==
    /\ Probes("rtc")
    /\ devlist' = register_device(devlist, "rtc", DEV_SERIAL)
    /\ UNCHANGED <<status, disk, rng>>

attach_uart ==
    /\ Probes("uart")
    /\ devlist' = register_device(devlist, "uart", DEV_SERIAL)
    /\ UNCHANGED <<status, disk, rng>>

\* the device is ready before it is in the table
viorng_attach ==
    /\ Probes("viorng")
    /\ IF Drivers[slot + 1].features_ok
       THEN /\ status' = [status EXCEPT ![New] = "DRIVER_OK"]
            /\ rng' = [rng EXCEPT ![New] =
                        [avail |-> 0, used |-> 0, buf |-> 0, fills |-> 0,
                         given |-> {}]]
            /\ devlist' = register_device(devlist, "viorng", DEV_SERIAL)
       ELSE UNCHANGED <<status, rng, devlist>>
    /\ UNCHANGED disk

\* what vioblk_attach makes of the number register_device returns
attach_status(instno) == IF instno # 0 THEN "FAILED" ELSE "DRIVER_OK"

vioblk_attach ==
    /\ Probes("vioblk")
    /\ IF Drivers[slot + 1].features_ok
       THEN /\ devlist' = register_device(devlist, "vioblk", DEV_STORAGE)
            /\ status' = [status EXCEPT ![New] =
                    attach_status(register_record(devlist, "vioblk", DEV_STORAGE).instno)]
            /\ disk' = [disk EXCEPT ![New] = Pattern]
       ELSE UNCHANGED <<status, disk, devlist>>
    /\ UNCHANGED rng

halt_failure == boot' = "halted"

\* the end of attach_devices
attach_devices ==
    /\ boot = "attach" /\ slot = Len(Drivers)
    /\ LET m == mount_devfs(mplist, DEVMNTNAME)
       IN  /\ mplist' = m.list
           /\ IF m.rc # 0 THEN halt_failure ELSE boot' = "cdrive"
    /\ UNCHANGED <<virtio, slot, devlist, status, opened, disk, rng, objects, calls>>

\* the cache opens the first block device and the volume is mounted on it
mount_cdrive ==
    /\ boot = "cdrive"
    /\ LET hd == find_device(CDEVNAME, DEV_STORAGE, CDEVINST)
           m  == attach_filesystem(mplist, CMNTNAME, "ktfs")
       IN  IF hd = NULL \/ storage_open(hd) # 0
           THEN halt_failure /\ UNCHANGED <<opened, mplist>>
           ELSE /\ opened' = [opened EXCEPT ![hd] = TRUE]
                /\ mplist' = m.list
                /\ IF m.rc # 0 THEN halt_failure ELSE boot' = "init"
    /\ UNCHANGED <<virtio, slot, devlist, status, disk, rng, objects, calls>>

\* the main process gets the console at its descriptors
run_init ==
    /\ boot = "init"
    /\ LET console == open_file(DEVMNTNAME, File("uart", 0))
           u       == Least(Uios)
       IN  IF console.rc # 0
           THEN halt_failure /\ UNCHANGED <<opened, objects>>
           ELSE /\ boot' = "run"
                /\ opened' = Marked(console.obj)
                /\ uio' = [uio EXCEPT ![u] = console.obj]
                /\ held' = [held EXCEPT ![MAIN] = {u}]
    /\ UNCHANGED <<virtio, slot, devlist, mplist, status, disk, rng, calls>>

-----------------------------------------------------------------------------
(* Calls that do not wait                                                  *)

\* p, in user mode, makes a call
Caller(p) ==
    /\ boot = "run" /\ at[p] = NULL
    /\ ncalls < MaxCalls /\ ncalls' = ncalls + 1

Returns(p, v, data) == ret' = [ret EXCEPT ![p] = [val |-> v, data |-> data]]

Free == {u \in Uios : uio[u] = NULL}
booted == <<virtio, boot, slot, devlist, mplist, status>>

\* p's step on u comes between the steps of every other call on u
Touched(p, u) ==
    [q \in Procs |-> clean[q] /\ (q = p \/ at[q] = NULL \/ at[q].u # u)]

Open(p, mpname, flname) ==
    /\ Caller(p)
    /\ LET o == open_file(mpname, flname)
       IN  /\ Returns(p, o.rc, <<>>)
           /\ IF o.obj = NULL THEN UNCHANGED <<opened, objects>>
              ELSE /\ Free # {}
                   /\ opened' = Marked(o.obj)
                   /\ uio' = [uio EXCEPT ![Least(Free)] = o.obj]
                   /\ held' = [held EXCEPT ![p] = @ \cup {Least(Free)}]
    /\ UNCHANGED <<booted, disk, rng, at, clean, snap>>

Create(p, mpname, flname) ==
    /\ Caller(p)
    /\ Returns(p, create_file(mpname, flname), <<>>)
    /\ UNCHANGED <<booted, opened, disk, rng, objects, at, clean, snap>>

Delete(p, mpname, flname) ==
    /\ Caller(p)
    /\ Returns(p, delete_file(mpname, flname), <<>>)
    /\ UNCHANGED <<booted, opened, disk, rng, objects, at, clean, snap>>

\* mutant: the close method runs whatever the reference count
uio_close_uncounted(p, u) ==
    /\ Caller(p) /\ u \in held[p]
    /\ held' = [held EXCEPT ![p] = @ \ {u}]
    /\ uio' = [uio EXCEPT ![u] = NULL]
    /\ opened' = uio_close_method(uio[u])
    /\ Returns(p, 0, <<>>)
    /\ UNCHANGED <<booted, disk, rng, at, clean, snap>>

\* the close method runs when the last reference goes: it closes the
\* device, if the object has one, and frees the object
uio_close(p, u) ==
    /\ Caller(p) /\ u \in held[p]
    /\ held' = [held EXCEPT ![p] = @ \ {u}]
    /\ IF \E q \in Procs \ {p} : u \in held[q]
       THEN UNCHANGED <<uio, opened>>
       ELSE /\ uio' = [uio EXCEPT ![u] = NULL]
            /\ opened' = uio_close_method(uio[u])
    /\ Returns(p, 0, <<>>)
    /\ UNCHANGED <<booted, disk, rng, at, clean, snap>>

\* process_fork: the child gets the parent's descriptors, each a reference
Inherit(p, q) ==
    /\ Caller(p) /\ q # p /\ at[q] = NULL /\ held[q] = {}
    /\ held' = [held EXCEPT ![q] = held[p]]
    /\ Returns(p, 0, <<>>)
    /\ UNCHANGED <<booted, opened, disk, rng, uio, at, clean, snap>>

\* a listing returns the name at its cursor, cut to the buffer, and moves
\* the cursor on; 0 at the end of the list
ListingRead(p, u, list, len, bufsz) ==
    /\ IF uio[u].pos > Len(list)
       THEN Returns(p, 0, <<>>) /\ UNCHANGED uio
       ELSE /\ uio' = [uio EXCEPT ![u].pos = @ + 1]
            /\ Returns(p, MIN(len, bufsz), <<list[uio[u].pos]>>)
    /\ UNCHANGED <<disk, rng, at, clean, snap>>

\* the name and the instance number, which is one digit
devfs_listing_read(p, u, bufsz) ==
    /\ uio[u].kind = "devls"
    /\ ListingRead(p, u, devlist, Len(devlist[uio[u].pos].name) + 1, bufsz)

fs_listing_read(p, u, bufsz) ==
    /\ uio[u].kind = "fsls"
    /\ ListingRead(p, u, mplist, Len(mplist[uio[u].pos].name), bufsz)

serial_blksz(d) == IF devlist[d].name = "rtc" THEN RTC_BLKSZ ELSE 1

\* what the driver's recv may return: the clock a time stamp, the UART
\* what its ring holds, a byte at least
rtc_recv(bufsz) == IF bufsz = 0 THEN {0} ELSE {RTC_BLKSZ}

uart_serial_recv(d, bufsz) ==
    CASE ~opened[d] -> {-EINVAL}
      [] bufsz = 0  -> {0}
      [] OTHER      -> 1 .. bufsz

serial_recv(d, bufsz) ==
    CASE ~(bufsz = 0 \/ serial_blksz(d) <= bufsz) -> {-EINVAL}
      [] devlist[d].name = "rtc" -> rtc_recv(ROUND_DOWN(bufsz, serial_blksz(d)))
      [] OTHER -> uart_serial_recv(d, ROUND_DOWN(bufsz, serial_blksz(d)))

\* the whole blocks go to the caller's buffer; when they came and a part of
\* a block is missing, one more block goes to the object's buffer
serial_uio_read(d, bufsz) ==
    LET aligned == ROUND_DOWN(bufsz, serial_blksz(d))
        rest(result) ==
            IF result >= 0 /\ bufsz % serial_blksz(d) # 0 /\ aligned = result
            THEN {IF more <= 0 THEN aligned ELSE bufsz :
                    more \in serial_recv(d, serial_blksz(d))}
            ELSE {result}
    IN  UNION {rest(result) : result \in serial_recv(d, aligned)}

\* the bytes go to the ring, from which the interrupts send them
uart_serial_send(d, buflen) == IF ~opened[d] THEN -EINVAL ELSE buflen

\* only the UART has a send
serial_send(d, buflen) ==
    CASE devlist[d].name # "uart"                  -> -ENOTSUP
      [] ~(buflen = 0 \/ serial_blksz(d) <= buflen) -> -EINVAL
      [] OTHER -> uart_serial_send(d, ROUND_DOWN(buflen, serial_blksz(d)))

serial_read(p, u, bufsz) ==
    /\ uio[u].kind = "serial" /\ devlist[uio[u].dev].name # "viorng"
    /\ \E v \in serial_uio_read(uio[u].dev, bufsz) : Returns(p, v, <<>>)
    /\ UNCHANGED <<uio, disk, rng, at, clean, snap>>

-----------------------------------------------------------------------------
(* The entropy device                                                      *)

\* viorng_serial_recv up to the wait: one more buffer for the device
viorng_serial_recv(p, u, bufsz) ==
    LET d == uio[u].dev
    IN  /\ uio[u].kind = "serial" /\ devlist[d].name = "viorng"
        /\ CASE ~opened[d] -> Returns(p, -EINVAL, <<>>) /\ UNCHANGED <<rng, at>>
             [] bufsz = 0  -> Returns(p, 0, <<>>) /\ UNCHANGED <<rng, at>>
             [] OTHER ->
                  /\ rng' = [rng EXCEPT ![d].avail = @ + 1]
                  /\ at' = [at EXCEPT ![p] = [op |-> "recv", u |-> u, len |-> bufsz,
                                               seen |-> rng[d].fills]]
                  /\ UNCHANGED ret
        /\ UNCHANGED <<uio, disk, clean, snap>>

\* the device fills the buffer of the next request and interrupts;
\* viorng_isr acknowledges and wakes the readers
viorng_isr(d) ==
    /\ rng[d] # NULL /\ rng[d].used # rng[d].avail
    /\ rng' = [rng EXCEPT ![d] = [@ EXCEPT !.used = @ + 1, !.fills = @ + 1,
                                            !.buf = rng[d].fills + 1]]
    /\ UNCHANGED <<booted, opened, disk, objects, calls>>

\* mutant: the reader does not wait
viorng_wait_skipped(d) == TRUE

\* the reader goes on when the device has used all it was given
viorng_wait(d) == rng[d].avail = rng[d].used

viorng_return(p) ==
    /\ at[p] # NULL /\ at[p].op = "recv"
    /\ LET d == uio[at[p].u].dev
       IN  /\ viorng_wait(d)
           /\ Returns(p, MIN(at[p].len, VIORNG_BUFSZ), <<rng[d].buf>>)
           /\ rng' = [rng EXCEPT ![d].given = @ \cup {rng[d].buf}]
    /\ at' = [at EXCEPT ![p] = NULL]
    /\ UNCHANGED <<booted, opened, disk, objects, ncalls, clean, snap>>

-----------------------------------------------------------------------------
(* Reading and writing a block device through its uio object.  A call is   *)
(* the pair of its locals F and of the object X as the call leaves it.     *)
(* F.site is the storage call the thread waits in, "ret" when the call has *)
(* returned F.val.                                                         *)

VIRTIO_BLK_T_IN  == 0
VIRTIO_BLK_T_OUT == 1

\* memcpy(dst + to, src + from, n)
memcpy(dst, to, src, from, n) ==
    [i \in DOMAIN dst |-> IF to < i /\ i <= to + n THEN src[from + i - to] ELSE dst[i]]

\* storage_fetch and storage_store, and the driver before its loop: an
\* error, nothing to move, or the bytes the device is asked to move
Asked(d, pos, cnt) ==
    CASE ~((cnt = 0 \/ BLKSZ <= cnt) /\ pos % BLKSZ = 0) -> -EINVAL
      [] ~opened[d] \/ pos >= CAPACITY                  -> 0
      [] OTHER -> ROUND_DOWN(MIN(cnt, CAPACITY - pos), BLKSZ)

Return(F, X, v) == [F |-> [F EXCEPT !.site = "ret", !.val = v], X |-> X]

RECURSIVE After(_, _, _)

\* a storage call: the thread waits when the device has bytes to move
Call(F, X, site, type, pos, cnt, mem) ==
    LET n == Asked(X.dev, pos, cnt)
        G == [F EXCEPT !.site = site]
    IN  IF n <= 0 THEN After(G, X, n)
        ELSE [F |-> [G EXCEPT !.req = [type |-> type, pos |-> pos, n |-> n, done |-> 0,
                                       mem |-> mem, served |-> FALSE, ok |-> TRUE]],
              X |-> X]

\* unaligned_fetch and unaligned_store begin with the block pos lies in
Unaligned(F, X, phase) ==
    Call(F, X, <<phase, "fetch">>, VIRTIO_BLK_T_IN, ROUND_DOWN(X.pos, BLKSZ), BLKSZ, "buffer")

\* the whole blocks, between the caller's memory and the device
WholeBlocks(F, X) ==
    IF F.len = 0 THEN Return(F, X, F.got)
    ELSE Call(F, X, <<"body", "move">>,
              IF F.op = "read" THEN VIRTIO_BLK_T_IN ELSE VIRTIO_BLK_T_OUT,
              X.pos, ROUND_DOWN(F.len, BLKSZ), "user")

TailPart(F, X) ==
    IF F.len % BLKSZ # 0 THEN Unaligned(F, X, "tail") ELSE Return(F, X, F.got)

\* storage_uio_read and storage_uio_write from their first line
Start(F, X) ==
    IF X.pos % BLKSZ # 0 THEN Unaligned(F, X, "head") ELSE WholeBlocks(F, X)

\* what the call makes of the result of unaligned_fetch or unaligned_store
Aligned(F, X, result) ==
    LET G == [F EXCEPT !.got = @ + result, !.len = @ - result]
        Y == [X EXCEPT !.pos = @ + result]
    IN  CASE F.site[1] = "tail" /\ result < 0 -> Return(F, X, F.got)
          [] F.site[1] = "tail"               -> Return(G, Y, G.got)
          [] result < 0                       -> Return(F, X, result)
          [] F.op = "read" /\ result = 0      -> Return(F, X, result)
          [] OTHER                            -> WholeBlocks(G, Y)

\* unaligned_fetch copies out of the buffer what the block holds at pos,
\* unaligned_store copies into it and stores the block
Fetched(F, X, r) ==
    LET off == X.pos % BLKSZ
        n   == MIN(BLKSZ - off, F.len)
    IN  CASE r < 0 -> Aligned(F, X, r)
          [] F.op = "read" ->
                Aligned([F EXCEPT !.out = memcpy(@, F.got, X.buffer, off, n)], X, n)
          [] OTHER ->
                Call([F EXCEPT !.n = n],
                     [X EXCEPT !.buffer = memcpy(@, off, F.buf, F.got, n)],
                     <<F.site[1], "store">>, VIRTIO_BLK_T_OUT,
                     ROUND_DOWN(X.pos, BLKSZ), BLKSZ, "buffer")

\* mutant: the position stays where it was before the whole blocks
Moved_keeps_pos(F, X, r) ==
    LET G == [F EXCEPT !.got = @ + r, !.len = @ - r]
    IN  CASE r < 0 -> Return(F, X, IF F.got > 0 THEN F.got ELSE r)
          [] r < ROUND_DOWN(F.len, BLKSZ) -> Return(F, X, F.got + r)
          [] OTHER -> TailPart(G, X)

\* storage_uio_read and storage_uio_write after the whole blocks
Moved(F, X, r) ==
    LET G == [F EXCEPT !.got = @ + r, !.len = @ - r]
        Y == [X EXCEPT !.pos = @ + r]
    IN  CASE r < 0 -> Return(F, X, IF F.got > 0 THEN F.got ELSE r)
          [] r < ROUND_DOWN(F.len, BLKSZ) -> Return(F, Y, F.got + r)
          [] OTHER -> TailPart(G, Y)

\* the thread goes on from a storage call that returned r
After(F, X, r) ==
    CASE F.site[2] = "fetch" -> Fetched(F, X, r)
      [] F.site[2] = "store" -> Aligned(F, X, IF r < 0 THEN r ELSE F.n)
      [] OTHER               -> Moved(F, X, r)

Frame(op, u, buf, len) ==
    [op |-> op, u |-> u, buf |-> buf, out |-> [i \in 1 .. len |-> NULL],
     len |-> len, len0 |-> len, got |-> 0, n |-> 0, site |-> <<"start", "">>,
     val |-> 0, req |-> NULL, refused |-> FALSE]

\* the bytes a read left in the caller's memory
Data(F) == IF F.op = "read" /\ F.val > 0 THEN SubSeq(F.out, 1, F.val) ELSE <<>>

\* the thread has come to S: it waits there, or the call has returned
Land(p, S) ==
    /\ uio' = [uio EXCEPT ![S.F.u] = S.X]
    /\ IF S.F.site = "ret"
       THEN at' = [at EXCEPT ![p] = NULL] /\ Returns(p, S.F.val, Data(S.F))
       ELSE at' = [at EXCEPT ![p] = S.F] /\ UNCHANGED ret

Begins(p, u) ==
    /\ clean' = [Touched(p, u) EXCEPT ![p] = TRUE]
    /\ snap' = [snap EXCEPT ![p] = [pos |-> uio[u].pos, disk |-> disk[uio[u].dev]]]

storage_uio_read(p, u, bufsz) ==
    /\ uio[u].kind = "storage"
    /\ Land(p, Start(Frame("read", u, <<>>, bufsz), uio[u]))
    /\ Begins(p, u)
    /\ UNCHANGED <<disk, rng>>

storage_uio_write(p, u, buf) ==
    /\ uio[u].kind = "storage"
    /\ Land(p, Start(Frame("write", u, buf, Len(buf)), uio[u]))
    /\ Begins(p, u)
    /\ UNCHANGED <<disk, rng>>

\* the device moves the block of the request p waits for, between the disk
\* and the memory the descriptor names as both are then
vioblk_serve(p) ==
    /\ at[p] # NULL /\ at[p].op \in {"read", "write"} /\ ~at[p].req.served
    /\ LET F    == at[p]
           r    == F.req
           d    == uio[F.u].dev
           from == r.pos + r.done
           mem  == CASE r.mem = "buffer"         -> [bytes |-> uio[F.u].buffer, off |-> 0]
                     [] r.type = VIRTIO_BLK_T_IN -> [bytes |-> F.out, off |-> F.got + r.done]
                     [] OTHER                    -> [bytes |-> F.buf, off |-> F.got + r.done]
           read == memcpy(mem.bytes, mem.off, disk[d], from, BLKSZ)
       IN  /\ status[d] = "DRIVER_OK" \/ FailedServes
           /\ disk' = IF r.type = VIRTIO_BLK_T_IN THEN disk
                      ELSE [disk EXCEPT ![d] = memcpy(@, from, mem.bytes, mem.off, BLKSZ)]
           /\ uio' = IF r.type = VIRTIO_BLK_T_IN /\ r.mem = "buffer"
                     THEN [uio EXCEPT ![F.u].buffer = read] ELSE uio
           /\ at' = [at EXCEPT ![p] =
                        [F EXCEPT !.req.served = TRUE,
                                  !.out = IF r.type = VIRTIO_BLK_T_IN /\ r.mem = "user"
                                          THEN read ELSE @]]
           /\ clean' = Touched(p, F.u)
    /\ UNCHANGED <<booted, opened, rng, held, ret, ncalls, snap>>

\* the device answers the request p waits for with a status other than
\* VIRTIO_BLK_S_OK and moves nothing
vioblk_refuse(p) ==
    /\ at[p] # NULL /\ at[p].op \in {"read", "write"} /\ ~at[p].req.served
    /\ status[uio[at[p].u].dev] = "DRIVER_OK" \/ FailedServes
    /\ at' = [at EXCEPT ![p].req.served = TRUE, ![p].req.ok = FALSE, ![p].refused = TRUE]
    /\ clean' = Touched(p, at[p].u)
    /\ UNCHANGED <<booted, opened, uio, disk, rng, held, ret, ncalls, snap>>

\* the thread wakes: the driver's loop counts the block the device moved and
\* asks for the next, or leaves at the first block the device refused; the
\* storage call returns the bytes counted and the call goes on
storage_resume(p) ==
    /\ at[p] # NULL /\ at[p].op \in {"read", "write"} /\ at[p].req.served
    /\ LET F    == at[p]
           done == IF F.req.ok THEN F.req.done + BLKSZ ELSE F.req.done
       IN  /\ IF F.req.ok /\ done < F.req.n
              THEN Land(p, [F |-> [F EXCEPT !.req.done = done, !.req.served = FALSE],
                            X |-> uio[F.u]])
              ELSE Land(p, After(F, uio[F.u], done))
           /\ clean' = Touched(p, F.u)
    /\ UNCHANGED <<booted, opened, disk, rng, held, ncalls, snap>>

vioblk_storage_cntl(op, arg) ==
    CASE op = FCNTL_GETEND /\ arg = NULL -> [rc |-> -EINVAL, data |-> <<>>]
      [] op = FCNTL_GETEND              -> [rc |-> 0, data |-> <<CAPACITY>>]
      [] OTHER                          -> [rc |-> -ENOTSUP, data |-> <<>>]

storage_uio_cntl(p, u, op, arg) ==
    /\ uio[u].kind = "storage"
    /\ CASE op = FCNTL_SETPOS /\ (arg = NULL \/ arg > CAPACITY) ->
                Returns(p, -EINVAL, <<>>) /\ UNCHANGED uio
         [] op = FCNTL_SETPOS ->
                Returns(p, 0, <<>>) /\ uio' = [uio EXCEPT ![u].pos = arg]
         [] op = FCNTL_GETPOS /\ arg = NULL ->
                Returns(p, -EINVAL, <<>>) /\ UNCHANGED uio
         [] op = FCNTL_GETPOS ->
                Returns(p, 0, <<uio[u].pos>>) /\ UNCHANGED uio
         [] OTHER ->
                /\ Returns(p, vioblk_storage_cntl(op, arg).rc,
                              vioblk_storage_cntl(op, arg).data)
                /\ UNCHANGED uio
    /\ clean' = Touched(p, u)
    /\ UNCHANGED <<disk, rng, at, snap>>

-----------------------------------------------------------------------------
(* The calls on a uio object, by what the object is                        *)

uio_read(p, u, bufsz) ==
    /\ Caller(p) /\ u \in held[p]
    /\ \/ devfs_listing_read(p, u, bufsz)
       \/ fs_listing_read(p, u, bufsz)
       \/ serial_read(p, u, bufsz)
       \/ viorng_serial_recv(p, u, bufsz)
       \/ storage_uio_read(p, u, bufsz)
    /\ UNCHANGED <<booted, opened, held>>

\* a listing has no write
uio_write(p, u, buf) ==
    /\ Caller(p) /\ u \in held[p]
    /\ \/ /\ uio[u].kind \in {"devls", "fsls"}
          /\ Returns(p, -ENOTSUP, <<>>)
          /\ UNCHANGED <<uio, disk, rng, at, clean, snap>>
       \/ /\ uio[u].kind = "serial"
          /\ Returns(p, serial_send(uio[u].dev, Len(buf)), <<>>)
          /\ UNCHANGED <<uio, disk, rng, at, clean, snap>>
       \/ storage_uio_write(p, u, buf)
    /\ UNCHANGED <<booted, opened, held>>

\* a listing has no cntl, and no serial driver has one
uio_cntl(p, u, op, arg) ==
    /\ Caller(p) /\ u \in held[p]
    /\ \/ /\ uio[u].kind # "storage"
          /\ Returns(p, -ENOTSUP, <<>>)
          /\ UNCHANGED <<uio, disk, rng, at, clean, snap>>
       \/ storage_uio_cntl(p, u, op, arg)
    /\ UNCHANGED <<booted, opened, held>>

Halted == boot = "halted" /\ UNCHANGED vars

Next ==
    \/ rtc_attach \/ attach_uart \/ viorng_attach \/ vioblk_attach
    \/ attach_devices \/ mount_cdrive \/ run_init \/ Halted
    \/ \E d \in DevIds : viorng_isr(d)
    \/ \E p \in Procs :
          \/ viorng_return(p) \/ vioblk_serve(p) \/ vioblk_refuse(p) \/ storage_resume(p)
          \/ \E q \in Procs : Inherit(p, q)
          \/ \E mpname \in MountNames \cup {NULL}, flname \in FileNames \cup {NULL} :
                \/ Open(p, mpname, flname)
                \/ Create(p, mpname, flname)
                \/ Delete(p, mpname, flname)
          \/ \E u \in Uios :
                \/ uio_close(p, u)
                \/ \E bufsz \in Lens : uio_read(p, u, bufsz)
                \/ \E buf \in Bufs : uio_write(p, u, buf)
                \/ \E op \in FCNTL_GETEND .. FCNTL_SETPOS, arg \in Positions \cup {NULL} :
                      uio_cntl(p, u, op, arg)

Spec == Init /\ [][Next]_vars

-----------------------------------------------------------------------------
(* Properties                                                              *)

TypeOK ==
    /\ virtio \in Machines
    /\ boot \in {"attach", "cdrive", "init", "run", "halted"}
    /\ slot \in 0 .. Len(Drivers)
    /\ \A i \in DOMAIN devlist : devlist[i].type \in {DEV_SERIAL, DEV_STORAGE}
    /\ opened \in [DevIds -> BOOLEAN]
    /\ \A u \in Uios : uio[u] # NULL =>
            uio[u].kind \in {"serial", "storage", "devls", "fsls"}
    /\ held \in [Procs -> SUBSET Uios]
    /\ \A p \in Procs : \A u \in held[p] : uio[u] # NULL
    /\ ncalls \in 0 .. MaxCalls

\* a call of p on a block device returns
Completes(p) ==
    /\ at[p] # NULL /\ at[p].op \in {"read", "write"} /\ at'[p] = NULL

\* storage_uio_read and storage_uio_write move the bytes asked for, at the
\* position the object had when the call began, whatever the alignment of
\* the position and of the length: a call that lies within the device, that
\* no other call on the object came across and of which the device refused
\* no request returns the length, leaves
\* the position behind the last byte, and has read what the device held
\* there, or changed on the device those bytes and no other.
CallMovesTheBytesAsked ==
    [][\A p \in Procs :
          (/\ Completes(p) /\ clean'[p] /\ ~at[p].refused
           /\ snap[p].pos + at[p].len0 <= CAPACITY) =>
            LET F == at[p]
                d == uio[F.u].dev
                from == snap[p].pos
            IN  /\ ret'[p].val = F.len0
                /\ uio'[F.u].pos = from + F.len0
                /\ F.op = "read" =>
                      /\ ret'[p].data = SubSeq(snap[p].disk, from + 1, from + F.len0)
                      /\ disk'[d] = snap[p].disk
                /\ F.op = "write" =>
                      disk'[d] = memcpy(snap[p].disk, from, F.buf, 0, F.len0)]_vars

\* viorng_serial_recv waits until the device has used the buffer it was
\* given: the bytes a reader gets were made by the device after the reader
\* asked for them, never the bytes of an earlier fill.
RandomBytesAreFresh ==
    [][\A p \in Procs :
          at[p] # NULL /\ at[p].op = "recv" /\ at'[p] = NULL =>
            ret'[p].data[1] > at[p].seen]_vars

\* What the descriptions of the code say and the code does not do.

\* FCNTL_SETPOS refuses a position behind the end of the device, and a read
\* at the end of a device returns 0: the position of an object never lies
\* behind the end.  unaligned_fetch and unaligned_store take the 0 the
\* driver returns at the end for a block that was moved.
PositionWithinDevice ==
    \A u \in Uios : uio[u] # NULL /\ uio[u].kind = "storage" => uio[u].pos <= CAPACITY

\* storage_uio_read returns the "number of bytes read": the bytes a call
\* returns are the bytes the device held from the position of the object on,
\* however few the device moved.  vioblk_storage_fetch leaves its loop with
\* the blocks counted so far when the device refuses one, and
\* unaligned_fetch takes every count that is not negative for its block.
WhatIsReadWasOnTheDevice ==
    [][\A p \in Procs :
          Completes(p) /\ clean'[p] /\ at[p].op = "read" /\ ret'[p].val > 0 =>
            ret'[p].data = SubSeq(snap[p].disk, snap[p].pos + 1,
                                  snap[p].pos + ret'[p].val)]_vars

\* storage_uio_write stores what its caller passes: a device holds, at
\* every place, what it held at first or a byte some caller wrote.  The
\* buffer of an object two processes hold is shared by their calls, and
\* unaligned_store stores it after the call has waited.
NothingButWhatWasWritten ==
    \A d \in DevIds : \A i \in DOMAIN disk[d] :
        disk[d][i] = Pattern[i] \/ \E buf \in Bufs : \E j \in DOMAIN buf : disk[d][i] = buf[j]

\* viorng_serial_recv requests random data of the device and copies it to
\* its caller: what one reader got no other reader gets.  The device has
\* one buffer, and readers that share the object after a fork wait for the
\* same index and copy the same fill.
EveryFillGoesToOneReader ==
    [][\A p \in Procs :
          at[p] # NULL /\ at[p].op = "recv" /\ at'[p] = NULL =>
            ret'[p].data[1] \notin rng[uio[at[p].u].dev].given]_vars

\* vioblk_attach sets DRIVER_OK when the device is registered, FAILED when
\* register_device failed: a device that can be opened is ready.
\* register_device returns the instance number, which is not 0 from the
\* second device of a name on.
RegisteredDevicesAreReady ==
    \A d \in DOMAIN devlist : devlist[d].name = "vioblk" => status[d] = "DRIVER_OK"

\* the devices there can be on a machine
AllDevs == 1 .. (NUART + 1 + Len(CHOOSE m \in Machines : \A o \in Machines : Len(o) <= Len(m)))

\* who holds device d: the processes with a descriptor of an object of d,
\* and the kernel for the device the volume is mounted on
Holders(d) ==
    {p \in Procs : \E u \in held[p] : uio[u].dev = d}
        \cup {k \in {KERNEL} : /\ boot \in {"init", "run"}
                               /\ d = find_device(CDEVNAME, DEV_STORAGE, CDEVINST)}

\* the clock serves any number of opens, every other device one
KindOf(d) ==
    CASE d \notin DOMAIN devlist -> "none"
      [] devlist[d].name = "rtc" -> "shared"
      [] OTHER                   -> "exclusive"

L == INSTANCE Lease WITH
        Clients <- Procs \cup {KERNEL},
        Devices <- AllDevs,
        kind <- [d \in AllDevs |-> KindOf(d)],
        lease <- [d \in AllDevs |-> Holders(d)],
        flag <- [d \in AllDevs |-> d \in DevIds /\ opened[d]]

\* The opens and closes of the boot, of devfs_open_file, of uio_close and
\* of the fork keep the promise of the abstract specification: the opened
\* flag of a driver is set exactly while somebody holds the device, an
\* open of a held device is refused, and a close by one of several holders
\* leaves the device open for the others.
ImplementsLease == L!Spec

=============================================================================
