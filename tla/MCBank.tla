------------------------------- MODULE MCBank -------------------------------
(***************************************************************************)
(* Values for the constants of BankServer: a deposit, a withdrawal and a   *)
(* connection that sends an unknown letter.                                *)
(***************************************************************************)
EXTENDS BankServer

CONSTANTS c1, c2, c3

AllLetters ==
    [c \in {c1, c2, c3} |->
       CASE c = c1 -> [op |-> "D", amount |-> 1]
         [] c = c2 -> [op |-> "W", amount |-> 2]
         [] c = c3 -> [op |-> "other", amount |-> 1]]
=============================================================================
