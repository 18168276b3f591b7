------------------------------ MODULE MCKeypad ------------------------------
(***************************************************************************)
(* Values for KeypadLot: the plates 1, 10 and 11, and 0, typed with four   *)
(* digits or fewer.                                                        *)
(***************************************************************************)
EXTENDS KeypadLot

Digits == <<{0}, {0}, {0, 1}, {0, 1}>>
=============================================================================
