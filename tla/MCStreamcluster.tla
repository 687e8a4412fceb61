-------------------------- MODULE MCStreamcluster ---------------------------
EXTENDS Streamcluster
(* nproc threads, numbered from 0. *)
MCThreads == 0 .. Parties - 1
=============================================================================
