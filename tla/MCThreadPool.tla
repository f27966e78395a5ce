---------------------------- MODULE MCThreadPool ----------------------------
(* The instance of ThreadPool for TLC. *)
EXTENDS ThreadPool
=============================================================================
