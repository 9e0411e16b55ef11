----------------------------- MODULE MCPthread -----------------------------
(***************************************************************************)
(* Pthread for TLC: the keys, and two choices of ftx_hash.                 *)
(***************************************************************************)
EXTENDS Pthread, TLC

MCKeys == Mutexes \cup Conds \cup Pool

\* Every key has a bucket of its own.
MCBucketsApart == MCKeys
MCHashApart == [k \in MCKeys |-> k]

\* All keys share one bucket.
MCBucketOne == {1}
MCHashOne == [k \in MCKeys |-> 1]
=============================================================================
