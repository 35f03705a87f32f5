-------------------------------- MODULE Cache --------------------------------
(***************************************************************************)
(* The block cache (src/sys/cache.c) on top of the thread manager.         *)
(*                                                                         *)
(* Every operation takes the cache's lock mtx and keeps it until it        *)
(* returns, with two exceptions where the caller is suspended: a block     *)
(* that is pinned by another thread is waited for on any_cv with the lock  *)
(* released, and a transfer to or from the device is waited for with the   *)
(* lock held.  One step of this module is what a thread does from one      *)
(* suspension to the next; at[t] says where thread t is suspended and      *)
(* op[t] holds the arguments and locals of its call.                       *)
(*                                                                         *)
(* The callers are the environment.  They keep the contract of cache.h: a  *)
(* caller uses the pointer of its last cache_get_block until it releases   *)
(* it or calls cache_get_block again.                                      *)
(***************************************************************************)
EXTENDS Integers, Sequences, FiniteSets, SequencesExt

CONSTANTS
    NTHR,           \* slots of thrtab; all are in use, the last is idle
    NULL,
    NENT,           \* entries of the cache (64 in the kernel)
    Blocks,         \* block numbers of the device
    ValsOf(_),      \* ValsOf(b): the contents block b can have
    Faults          \* how a transfer can fail: "refused" before it has
                    \* started, "failed" after the device has written

ASSUME /\ NTHR \in Nat /\ NTHR >= 2
       /\ NENT \in Nat \ {0}
       /\ 0 \in Blocks
       /\ Faults \subseteq {"refused", "failed"}

VARIABLES
    thrtab, ready_list, wait_list, TP,      \* the thread manager's state
    lock,           \* lock["mtx"]: owner and cnt of cache->mtx
    entries,        \* cache->entries
    last_used,      \* cache->last_used
    disk,           \* the blocks on the device
    at,             \* at[t]: where t is inside a call of the cache
    op,             \* op[t]: the call t is in
    held            \* held[t]: the pointer t got from cache_get_block and
                    \* the block it asked for

vars == <<thrtab, ready_list, wait_list, TP, lock, entries, last_used, disk,
          at, op, held>>

Tids == 0 .. NTHR - 1
Vals == UNION {ValsOf(b) : b \in Blocks}
Ents == 1 .. NENT

T == INSTANCE Thread WITH
        Locks <- {"mtx"}, ExtConds <- {"any_cv", "done"}, MaxStackPages <- 0,
        MaxLockCnt <- 1, pc <- [t \in Tids |-> <<"run">>], stack_pages <- 0,
        sys <- "running"

Clients == Tids \ {T!IDLE_TID}
mtx     == "mtx"
any_cv  == T!Ext("any_cv")          \* cache->any_cv
done    == T!Ext("done")            \* the device's completion condition
Free    == [owner |-> NULL, cnt |-> 0]

Entry == [block_n : Blocks, valid : BOOLEAN, dirty : BOOLEAN,
          in_use : BOOLEAN, owner_tid : Clients \cup {NULL},
          waiters : 0 .. NTHR - 2, access_time : 0 .. NENT, data : Vals]

Call(fn, blk, idx, dirty) == [fn |-> fn, blk |-> blk, idx |-> idx, dirty |-> dirty]

\* The state as one value, so that the pieces of an operation compose.
Kernel == [S |-> T!Sched, mtx |-> lock[mtx], ent |-> entries,
           last |-> last_used, disk |-> disk, at |-> at, op |-> op,
           held |-> held]

Commit(K) ==
    /\ thrtab' = K.S.thr
    /\ ready_list' = K.S.ready
    /\ wait_list' = K.S.wait
    /\ TP' = K.S.tp
    /\ lock' = [lock EXCEPT ![mtx] = K.mtx]
    /\ entries' = K.ent
    /\ last_used' = K.last
    /\ disk' = K.disk
    /\ at' = K.at
    /\ op' = K.op
    /\ held' = K.held

-----------------------------------------------------------------------------
(* Pieces shared by the operations.                                        *)

\* lock_release(&cache->mtx) and the return to the caller.
return(K) ==
    [K EXCEPT !.S = T!lock_release_completely(@, mtx), !.mtx = Free,
              !.at[K.S.tp] = "run", !.op[K.S.tp] = NULL]

\* The caller is suspended on condition c and continues at the given place.
suspend(K, c, place) ==
    [K EXCEPT !.S = T!condition_wait(@, c), !.at[K.S.tp] = place]

\* lock_acquire(&cache->mtx), followed by the rest of the operation: the
\* caller takes a lock without owner and goes on, or waits for its release
\* and tries again from the given place.
with_mtx(K, place, rest(_)) ==
    IF K.mtx.owner = NULL
    THEN rest([K EXCEPT !.mtx = T!lock_take(K.S.tp)])
    ELSE suspend(K, T!Release(mtx), place)

\* cache->timer += 1; access_time = cache->timer.  Only the order of the
\* access times matters: they are kept renumbered 1, 2, ... in that order.
touch(E, i) ==
    LET old  == E[i].access_time
        used == {j \in Ents : E[j].access_time > 0} \cup {i}
    IN  [j \in Ents |->
            IF j = i THEN [E[j] EXCEPT !.access_time = Cardinality(used)]
            ELSE IF old > 0 /\ E[j].access_time > old
                 THEN [E[j] EXCEPT !.access_time = @ - 1]
                 ELSE E[j]]

\* The entry with the requested block, as the hit loop finds it.
lookup(E, b) ==
    LET hits == {i \in Ents : E[i].block_n = b /\ E[i].valid}
    IN  IF hits = {} THEN NULL ELSE Min(hits)

\* cache_evict_entry: the first entry that is neither valid nor pinned,
\* else the least recently used of the valid entries that are not pinned,
\* else none.
cache_evict_entry(E) ==
    LET free == {i \in Ents : ~E[i].valid /\ ~E[i].in_use}
        cand == {i \in Ents : E[i].valid /\ ~E[i].in_use}
        lru  == {i \in cand : \A j \in cand : E[i].access_time <= E[j].access_time}
    IN  IF free # {} THEN Min(free)
        ELSE IF cand = {} THEN NULL ELSE Min(lru)

-----------------------------------------------------------------------------
(* Mutated forms of the operators below.                                   *)

\* The release of the previous pin without the test for its owner.
unpin_last_of_anyone(K) ==
    IF K.last # NULL
    THEN [K EXCEPT !.ent[K.last].in_use = FALSE, !.ent[K.last].owner_tid = NULL,
                   !.S = T!condition_broadcast(@, any_cv), !.last = NULL]
    ELSE K

\* The waiter that does not count itself out when it has the lock again.
recount_forgotten(K) == K

\* The write-back that marks the victim clean without storing it.
store_skipped(K, r, v) ==
    suspend([K EXCEPT !.ent[K.op[K.S.tp].idx].dirty = FALSE], done, "fetch")

\* The miss that gives up the lock while the device works, as the hit does
\* while it waits.
miss_unlocked(K) ==
    LET t == K.S.tp
        i == cache_evict_entry(K.ent)
    IN  IF i = NULL THEN return(K)
        ELSE suspend([K EXCEPT !.op[t].idx = i,
                               !.S = T!lock_release_completely(@, mtx),
                               !.mtx = Free],
                     done,
                     IF K.ent[i].valid /\ K.ent[i].dirty THEN "store" ELSE "fetch")

-----------------------------------------------------------------------------
(* cache_get_block                                                         *)

\* The entry pinned by the caller's previous cache_get_block is released,
\* if last_used still names it.
unpin_last(K) ==
    IF K.last # NULL /\ K.ent[K.last].owner_tid = K.S.tp
    THEN [K EXCEPT !.ent[K.last].in_use = FALSE, !.ent[K.last].owner_tid = NULL,
                   !.S = T!condition_broadcast(@, any_cv), !.last = NULL]
    ELSE K

\* Entry i is pinned for the caller and returned.
pin(K, i) ==
    LET t == K.S.tp IN
    return([K EXCEPT !.ent = touch([@ EXCEPT ![i].in_use = TRUE,
                                             ![i].owner_tid = t], i),
                     !.last = i,
                     !.held[t] = [idx |-> i, blk |-> K.op[t].blk]])

\* The hit: while entry i is pinned by another thread the caller counts
\* itself as a waiter, releases the lock and waits on any_cv; otherwise it
\* takes the entry.
hit(K, i) ==
    LET t == K.S.tp IN
    IF K.ent[i].in_use /\ K.ent[i].owner_tid # t
    THEN suspend([K EXCEPT !.ent[i].waiters = @ + 1, !.op[t].idx = i,
                           !.S = T!lock_release_completely(@, mtx),
                           !.mtx = Free],
                 any_cv, "wait")
    ELSE pin(K, i)

\* The miss: -EBUSY if every entry is pinned; a dirty victim is stored
\* first; then the block is fetched into the victim.
miss(K) ==
    LET t == K.S.tp
        i == cache_evict_entry(K.ent)
    IN  IF i = NULL THEN return(K)
        ELSE suspend([K EXCEPT !.op[t].idx = i], done,
                     IF K.ent[i].valid /\ K.ent[i].dirty THEN "store" ELSE "fetch")

\* cache_get_block once it has the lock.
get_locked(K) ==
    LET U == unpin_last(K)
        i == lookup(U.ent, U.op[U.S.tp].blk)
    IN  IF i # NULL THEN hit(U, i) ELSE miss(U)

\* The waiter has the lock again: it counts itself out and tests the entry
\* it waited for once more.
recount(K) == [K EXCEPT !.ent[K.op[K.S.tp].idx].waiters = @ - 1]

rewake(K) == hit(recount(K), K.op[K.S.tp].idx)

\* storage_store of the victim has returned: the victim is clean and the
\* block is fetched, or the error is returned and the victim stays dirty;
\* after a transfer that failed the block on the device has any contents.
stored(K, r, v) ==
    LET i == K.op[K.S.tp].idx
        b == K.ent[i].block_n
    IN  CASE r = "ok" ->
                suspend([K EXCEPT !.disk[b] = K.ent[i].data, !.ent[i].dirty = FALSE],
                        done, "fetch")
          [] r = "refused" -> return(K)
          [] r = "failed" -> return([K EXCEPT !.disk[b] = v])

\* storage_fetch has returned: the entry is tagged, pinned and returned, or
\* the error is returned and the entry keeps its tag; after a transfer that
\* failed its buffer has any contents.
fetched(K, r, v) ==
    LET t == K.S.tp
        i == K.op[t].idx
        b == K.op[t].blk
    IN  CASE r = "ok" ->
                pin([K EXCEPT !.ent[i].block_n = b, !.ent[i].valid = TRUE,
                              !.ent[i].dirty = FALSE, !.ent[i].data = K.disk[b]], i)
          [] r = "refused" -> return(K)
          [] r = "failed" -> return([K EXCEPT !.ent[i].data = v])

-----------------------------------------------------------------------------
(* cache_release_block and cache_flush                                     *)

\* The entry the pointer belongs to is marked and unpinned, whoever owns
\* it; a pointer that belongs to no valid entry is ignored.
release_locked(K) ==
    LET c == K.op[K.S.tp] IN
    IF K.ent[c.idx].valid
    THEN return([K EXCEPT !.ent[c.idx].dirty = @ \/ c.dirty,
                          !.ent[c.idx].in_use = FALSE,
                          !.ent[c.idx].owner_tid = NULL,
                          !.S = T!condition_broadcast(@, any_cv)])
    ELSE return(K)

\* The loop of cache_flush from entry number from: the next entry that is
\* valid and dirty is stored; after the last one the call returns.
flush_from(K, from) ==
    LET todo == {i \in from .. NENT : K.ent[i].valid /\ K.ent[i].dirty} IN
    IF todo = {} THEN return(K)
    ELSE suspend([K EXCEPT !.op[K.S.tp].idx = Min(todo)], done, "flush")

flush_locked(K) == flush_from(K, 1)

\* storage_store of entry i has returned: the loop goes on behind i, or
\* the error ends the call.
flushed(K, r, v) ==
    LET i == K.op[K.S.tp].idx
        b == K.ent[i].block_n
    IN  CASE r = "ok" ->
                flush_from([K EXCEPT !.disk[b] = K.ent[i].data,
                                     !.ent[i].dirty = FALSE], i + 1)
          [] r = "refused" -> return(K)
          [] r = "failed" -> return([K EXCEPT !.disk[b] = v])

\* The operation the caller is in, from the point where it has the lock.
locked(K) ==
    CASE K.op[K.S.tp].fn = "get"     -> get_locked(K)
      [] K.op[K.S.tp].fn = "release" -> release_locked(K)
      [] K.op[K.S.tp].fn = "flush"   -> flush_locked(K)

-----------------------------------------------------------------------------
Init ==
    /\ thrtab = [t \in Tids |->
                    IF t = T!MAIN_TID THEN T!Thread("SELF", NULL)
                    ELSE T!Thread("READY", T!MAIN_TID)]
    /\ ready_list = <<T!IDLE_TID>> \o [i \in 1 .. NTHR - 2 |-> i]
    /\ wait_list = [c \in T!Conds |-> <<>>]
    /\ TP = T!MAIN_TID
    /\ lock = [l \in {mtx} |-> Free]
    /\ entries = [i \in Ents |->
                    [block_n |-> 0, valid |-> FALSE, dirty |-> FALSE,
                     in_use |-> FALSE, owner_tid |-> NULL, waiters |-> 0,
                     access_time |-> 0, data |-> CHOOSE v \in ValsOf(0) : TRUE]]
    /\ last_used = NULL
    /\ disk = [b \in Blocks |-> CHOOSE v \in ValsOf(b) : TRUE]
    /\ at = [t \in Tids |-> "run"]
    /\ op = [t \in Tids |-> NULL]
    /\ held = [t \in Tids |-> NULL]

\* t is running its own code.
Caller(t) == T!Running(t) /\ t \in Clients /\ at[t] = "run"

\* A caller asks for block b; the pointer it had is dead from here on.
cache_get_block(t, b) ==
    /\ Caller(t)
    /\ Commit(with_mtx([Kernel EXCEPT !.op[t] = Call("get", b, NULL, FALSE),
                                      !.held[t] = NULL],
                       "lock", locked))

\* A caller releases the block it holds; if it says dirty it has written v
\* to the block through the pointer.
cache_release_block(t, dirty, v) ==
    /\ Caller(t) /\ held[t] # NULL
    /\ v \in ValsOf(entries[held[t].idx].block_n)
    /\ ~dirty => v = entries[held[t].idx].data
    /\ Commit(with_mtx([Kernel EXCEPT
                            !.op[t] = Call("release", NULL, held[t].idx, dirty),
                            !.ent[held[t].idx].data = IF dirty THEN v ELSE @,
                            !.held[t] = NULL],
                       "lock", locked))

cache_flush(t) ==
    /\ Caller(t)
    /\ Commit(with_mtx([Kernel EXCEPT !.op[t] = Call("flush", NULL, NULL, FALSE)],
                       "lock", locked))

\* A thread that waited for the lock at the start of its call runs again.
lock_retry(t) ==
    /\ T!Running(t) /\ at[t] = "lock"
    /\ Commit(with_mtx(Kernel, "lock", locked))

\* A thread that waited on any_cv runs again and takes the lock, which it
\* may have to wait for.
wait_return(t) ==
    /\ T!Running(t) /\ at[t] \in {"wait", "relock"}
    /\ Commit(with_mtx(Kernel, "relock", rewake))

\* The results a transfer can have: r is how it ended and v what a failed
\* transfer left behind.
Results == {<<r, v>> \in ({"ok"} \cup Faults) \X Vals :
                r # "failed" => v = CHOOSE w \in Vals : TRUE}

\* A thread that waited for the device runs again.
store_return(t) ==
    /\ T!Running(t) /\ at[t] = "store"
    /\ \E x \in Results : Commit(stored(Kernel, x[1], x[2]))

fetch_return(t) ==
    /\ T!Running(t) /\ at[t] = "fetch"
    /\ \E x \in Results : Commit(fetched(Kernel, x[1], x[2]))

flush_return(t) ==
    /\ T!Running(t) /\ at[t] = "flush"
    /\ \E x \in Results : Commit(flushed(Kernel, x[1], x[2]))

\* The device's interrupt handler reports the transfer complete.
transfer_complete ==
    /\ wait_list[done] # <<>>
    /\ Commit([Kernel EXCEPT !.S = T!condition_broadcast(@, done)])

\* A caller gives up the hart between two calls (it is preempted in U mode,
\* or waits for something else).
running_thread_yield(t) ==
    /\ Caller(t)
    /\ Commit([Kernel EXCEPT !.S = T!running_thread_suspend(@)])

\* The idle thread yields while a thread is ready, and otherwise waits for
\* an interrupt.
idle_thread_func ==
    /\ T!Running(T!IDLE_TID)
    /\ \/ ready_list # <<>> /\ Commit([Kernel EXCEPT !.S = T!running_thread_suspend(@)])
       \/ ready_list = <<>> /\ UNCHANGED vars

ThreadStep(t) ==
    \/ \E b \in Blocks : cache_get_block(t, b)
    \/ \E dirty \in BOOLEAN, v \in Vals : cache_release_block(t, dirty, v)
    \/ cache_flush(t)
    \/ lock_retry(t) \/ wait_return(t)
    \/ store_return(t) \/ fetch_return(t) \/ flush_return(t)
    \/ running_thread_yield(t)

Next ==
    \/ \E t \in Clients : ThreadStep(t)
    \/ transfer_complete
    \/ idle_thread_func

Spec == Init /\ [][Next]_vars

-----------------------------------------------------------------------------
(* Properties.                                                             *)

TypeOK ==
    /\ thrtab \in [Tids -> [state : {"WAITING", "SELF", "READY", "EXITED"},
                            parent : Tids \cup {NULL},
                            wait_cond : T!Conds \cup {NULL}]]
    /\ ready_list \in Seq(Tids)
    /\ wait_list \in [T!Conds -> Seq(Tids)]
    /\ TP \in Tids
    /\ lock \in [{mtx} -> {Free} \cup [owner : Clients, cnt : {1}]]
    /\ entries \in [Ents -> Entry]
    /\ last_used \in Ents \cup {NULL}
    /\ disk \in [Blocks -> Vals]
    /\ at \in [Tids -> {"run", "lock", "wait", "relock", "store", "fetch", "flush"}]
    /\ op \in [Tids -> {NULL} \cup [fn : {"get", "release", "flush"},
                                    blk : Blocks \cup {NULL},
                                    idx : Ents \cup {NULL}, dirty : BOOLEAN]]
    /\ held \in [Tids -> {NULL} \cup [idx : Ents, blk : Blocks]]

\* What block b reads as: the buffer of the entry that holds it, or the
\* block on the device.
Contents ==
    [b \in Blocks |->
        LET i == lookup(entries, b)
        IN  IF i = NULL THEN disk[b] ELSE entries[i].data]

\* The pointer a caller uses belongs to an entry that is pinned for that
\* caller: between cache_get_block and the release no other thread's
\* cache_get_block, with its release of last_used and its eviction, and no
\* other thread's wake-up from any_cv takes the entry away.
PinnedForHolder ==
    \A t \in Clients :
        held[t] # NULL =>
            /\ entries[held[t].idx].in_use
            /\ entries[held[t].idx].owner_tid = t
            /\ entries[held[t].idx].valid

\* No block is in two entries.  cache_get_block looks the block up and
\* fills a victim in one critical section of mtx that spans the transfer,
\* so two threads that miss the same block cannot both fill an entry.
UniqueBlock ==
    \A i, j \in Ents :
        entries[i].valid /\ entries[j].valid /\ entries[i].block_n = entries[j].block_n
            => i = j

\* Write-back: what a block reads as changes only in a step of the thread
\* the block's entry is pinned for.  Eviction, the store of a dirty victim,
\* the fetch into it and cache_flush never change it, however the steps of
\* the callers interleave, as long as no transfer fails half-way.
OnlyHolderWrites ==
    [][\A b \in Blocks :
          Contents'[b] # Contents[b] =>
              \E i \in Ents : /\ entries[i].valid /\ entries[i].block_n = b
                              /\ entries[i].in_use /\ entries[i].owner_tid = TP]_vars

\* The cache implements BlockStore: a caller that asked for block b has b
\* pinned until it releases the pointer or asks again, and what it writes
\* through the pointer is written to b.  This is what cache.h promises of
\* cache_get_block; it fails when the thread that waited for a pinned entry
\* in the hit loop finds the entry free again and takes it without looking
\* at its block number.
BS == INSTANCE BlockStore WITH
        store <- Contents,
        pinned <- [t \in Clients |-> IF held[t] = NULL THEN NULL ELSE held[t].blk]

ImplementsBlockStore == BS!Spec

=============================================================================
