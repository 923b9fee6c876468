---------------------------- MODULE MCDecodeReader ----------------------------
(***************************************************************************)
(* TLC instance of DecodeReader.                                             *)
(***************************************************************************)
EXTENDS DecodeReader

(* Signal 1 is in two messages, in one layout with a signal without samples    *)
(* between them.  Rows are in one file, fill a segment, or need one more than  *)
(* is numbered.                                                              *)
Signal(can, signal, samples, changed) ==
  [can |-> can, signal |-> signal, samples |-> samples, changed |-> changed]

MCFamilies == {"value", "changed", "row_index"}
MCQueries == {[family |-> "value", signal |-> 1, can |-> 2],
              [family |-> "changed", signal |-> 1, can |-> Unasked]}
MCLayouts == {<<Signal(1, 1, 1, 0), Signal(2, 1, 1, 1)>>,
              <<Signal(1, 1, 1, 0), Signal(2, 2, 0, 0), Signal(2, 1, 4, 0)>>}

=============================================================================
