-------------------------- MODULE MCSegmentedParser --------------------------
(***************************************************************************)
(* TLC instance of SegmentedParser: every text of up to MaxSize bytes over  *)
(* four kinds of lines and the newline.  Two kinds share an id and differ   *)
(* in their data; one is of the other format, with an id beyond the table   *)
(* of timestamps; one is no entry in any format.                            *)
(***************************************************************************)
EXTENDS SegmentedParser

Kind(formats, id, data, channel, direction) ==
  [formats |-> formats, id |-> id, data |-> data, channel |-> channel,
   direction |-> direction]

LineKinds == {Kind({1, 2}, 1, 0, "a", 0), Kind({1}, 1, 1, "b", 1),
              Kind({2}, 7, 0, "c", 0), Kind({}, 1, 0, "a", 0)}

=============================================================================
