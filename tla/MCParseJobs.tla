---------------------------- MODULE MCParseJobs -----------------------------
(***************************************************************************)
(* TLC instances of ParseJobs: three jobs are one in the worker's hands, one *)
(* behind it and one submitted around the death of the worker.              *)
(***************************************************************************)
EXTENDS ParseJobs

=============================================================================
