------------------------- MODULE MCDecodeScheduler --------------------------
(***************************************************************************)
(* TLC instances of DecodeScheduler: three jobs make a queue behind a       *)
(* running worker, a replacement and a request that repeats one of them.    *)
(***************************************************************************)
EXTENDS DecodeScheduler, TLC

JobSymmetry == Permutations(Jobs)

=============================================================================
