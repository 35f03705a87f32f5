------------------------------ MODULE MCVioblk ------------------------------
(***************************************************************************)
(* The VirtIO block driver for model checking.                             *)
(***************************************************************************)
EXTENDS Vioblk

\* The descriptors of the chains in flight, and the heads whose header and
\* status byte somebody still reads.
LiveIds == UNION {{r.header, r.data, r.status} : r \in Range(req_desc) \ {NONE}}
LiveHeads == {r.header : r \in Range(req_desc) \ {NONE}}
                \cup {loc[t].head : t \in {u \in Tids : at[u] \notin {"run", "alarm"}}}

Masked(f, live, blank) == [i \in DOMAIN f |-> IF i \in live THEN f[i] ELSE blank]

\* The states TLC tells apart.  What a free descriptor, and the header and
\* status byte of a request that is over, still hold is left out: the
\* driver writes all of it before it publishes the next request that uses
\* them.  So is the value of the last return, which no step reads.
View ==
    <<tvars, cpu, boot, driver, hw, mem, call,
      nreq, avail, used,
      Masked(desc, LiveIds, 0), Masked(header_pool, LiveHeads, 0),
      Masked(status_pool, LiveHeads, 0)>>

=============================================================================
