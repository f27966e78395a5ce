----------------------------- MODULE MCBucketMap -----------------------------
(* The instance of BucketMap that TLC checks: three indices, two of which   *)
(* share a bucket, so that the threads contend for a mutex and for an entry. *)
EXTENDS BucketMap

MCThreads == 0 .. 1
MCIndices == {0, 1, 2}
=============================================================================
