------------------------------ MODULE TextImport ------------------------------
(***************************************************************************)
(* Logs as text: a BLF log converted into parts (BlfConverter), and files of *)
(* any type loaded one after the other with one parser object (LogLoader).   *)
(* One thread does both, and neither hands anything to the other.            *)
(***************************************************************************)
EXTENDS LogLoader, BlfConverter

vars == <<loaderVars, converterVars>>

Init == LoaderInit /\ ConverterInit

LoadFile == /\ converting # "writing"
            /\ \E f \in Files : LoadLogFile(f)
            /\ UNCHANGED converterVars

Next == \/ LoadFile
        \/ Loads /\ UNCHANGED converterVars
        \/ loading = "no" /\ Converts /\ UNCHANGED loaderVars

Spec == Init /\ [][Next]_vars

=============================================================================
