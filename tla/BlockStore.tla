----------------------------- MODULE BlockStore -----------------------------
(***************************************************************************)
(* What the block cache promises its callers (src/sys/cache.h): a store of *)
(* blocks in which a caller pins one block at a time, no block is pinned   *)
(* by two callers, and the contents of a block change only when the caller *)
(* that has it pinned releases it as dirty.  Eviction, write-back, fetch   *)
(* and flush are not visible here: they must not change what a block reads *)
(* as.                                                                     *)
(***************************************************************************)
CONSTANTS
    Clients,        \* the threads that call the cache
    Blocks,         \* block numbers
    Vals,           \* contents of a block
    NULL

VARIABLES
    store,          \* store[b]: what block b reads as
    pinned             \* pinned[t]: the block caller t has pinned, or NULL

bvars == <<store, pinned>>

Init ==
    /\ store \in [Blocks -> Vals]
    /\ pinned = [t \in Clients |-> NULL]

\* cache_get_block returns block b to t.
Get(t, b) ==
    /\ \A u \in Clients \ {t} : pinned[u] # b
    /\ pinned' = [pinned EXCEPT ![t] = b]
    /\ UNCHANGED store

\* cache_release_block of a block that was not written, or the release that
\* the caller's next cache_get_block implies.
Unpin(t) ==
    /\ pinned[t] # NULL
    /\ pinned' = [pinned EXCEPT ![t] = NULL]
    /\ UNCHANGED store

\* cache_release_block of a block the caller has written v to.
Write(t, v) ==
    /\ pinned[t] # NULL
    /\ store' = [store EXCEPT ![pinned[t]] = v]
    /\ pinned' = [pinned EXCEPT ![t] = NULL]

Next ==
    \E t \in Clients :
        \/ \E b \in Blocks : Get(t, b)
        \/ Unpin(t)
        \/ \E v \in Vals : Write(t, v)

Spec == Init /\ [][Next]_bvars

=============================================================================
