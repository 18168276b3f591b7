----------------------------- MODULE MCDisplay ------------------------------
(***************************************************************************)
(* A text for SegmentDisplay: A, F and E share segments, F has only such   *)
(* as E has too, 'f' is a small letter, and the device does not know '5'.  *)
(***************************************************************************)
EXTENDS SegmentDisplay

Word == <<"A", "5", "f", "E">>
=============================================================================
