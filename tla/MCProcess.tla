----------------------------- MODULE MCProcess -----------------------------
(***************************************************************************)
(* Process for TLC: main, one further thread slot and idle; two            *)
(* descriptors a process; a pipe of two bytes or a file of at most two.    *)
(***************************************************************************)
EXTENDS Process

MCBufs == {<<1>>, <<2, 1>>}

\* a0 and umem are what a call hands to its caller; no call reads them, so
\* two states that differ only there have the same future
Kernel == <<thr, proctab, uiotab, refcnt, pipe, file, fdata, image, call,
            halted, sent, rcvd>>

MCNoBufs == {}

MCValid == {0, -EACCESS}

MCInitFiles == [f \in Files |-> IF f \in Executables THEN <<1>> ELSE NULL]

=============================================================================
