--------------------------- MODULE MCParsedIndexes ---------------------------
(***************************************************************************)
(* TLC instance of ParsedIndexes: logs over three ids, two channels and the *)
(* two directions.                                                          *)
(***************************************************************************)
EXTENDS ParsedIndexes

Row(id, channel, direction, changed) ==
  [id |-> id, channel |-> channel, direction |-> direction, changed |-> changed]

LogRows == {Row(1, 0, 0, FALSE), Row(1, 1, 1, TRUE), Row(2, 0, 1, TRUE),
            Row(3, 2, 0, FALSE)}

=============================================================================
