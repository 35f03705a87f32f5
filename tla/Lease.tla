------------------------------- MODULE Lease -------------------------------
(***************************************************************************)
(* What the device file system promises of an open.  A device is known     *)
(* from its registration on, as one that serves one open at a time or as   *)
(* one that serves any number.  A device of the first kind is open for the *)
(* client that opened it and for those that inherited the open from it,    *)
(* and for nobody else until the last of them has closed it.  A device of  *)
(* the second kind can be opened by anybody at any time and never counts   *)
(* as open.                                                                *)
(***************************************************************************)
CONSTANTS
    Clients,        \* who can hold a device: the processes and the kernel
    Devices

VARIABLES
    kind,           \* kind[d]: "none" before d is registered
    lease,          \* lease[d]: the clients that hold d
    flag            \* flag[d]: d counts as open

vars == <<kind, lease, flag>>

Init ==
    /\ kind = [d \in Devices |-> "none"]
    /\ lease = [d \in Devices |-> {}]
    /\ flag = [d \in Devices |-> FALSE]

\* a call that opens and closes nothing
Other == UNCHANGED vars

Register(d) ==
    /\ kind[d] = "none"
    /\ \E k \in {"shared", "exclusive"} : kind' = [kind EXCEPT ![d] = k]
    /\ UNCHANGED <<lease, flag>>

\* c opens d; an exclusive device must be free
Acquire(c, d) ==
    /\ kind[d] # "none"
    /\ kind[d] = "exclusive" => lease[d] = {} /\ ~flag[d]
    /\ lease' = [lease EXCEPT ![d] = @ \cup {c}]
    /\ flag' = [flag EXCEPT ![d] = kind[d] = "exclusive"]
    /\ UNCHANGED kind

\* c closes d; the last close frees the device
Release(c, d) ==
    /\ c \in lease[d]
    /\ lease' = [lease EXCEPT ![d] = @ \ {c}]
    /\ flag' = [flag EXCEPT ![d] = @ /\ lease[d] # {c}]
    /\ UNCHANGED kind

\* c2, which holds nothing, inherits what c1 holds
Inherit(c1, c2) ==
    /\ c1 # c2
    /\ \A d \in Devices : c2 \notin lease[d]
    /\ lease' = [d \in Devices |->
                    IF c1 \in lease[d] THEN lease[d] \cup {c2} ELSE lease[d]]
    /\ UNCHANGED <<kind, flag>>

Next ==
    \/ Other
    \/ \E d \in Devices : Register(d)
    \/ \E c \in Clients :
        \/ \E d \in Devices : Acquire(c, d) \/ Release(c, d)
        \/ \E c2 \in Clients : Inherit(c, c2)

Spec == Init /\ [][Next]_vars

=============================================================================
