------------------------- MODULE MCFileServiceWorkers -------------------------
(***************************************************************************)
(* TLC instances of FileServiceWorkers.                                      *)
(***************************************************************************)
EXTENDS FileServiceWorkers

=============================================================================
