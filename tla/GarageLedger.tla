---------------------------- MODULE GarageLedger ----------------------------
(***************************************************************************)
(* What the parking lot of homework 2 promises, without sockets, menus or  *)
(* a record cache: a vehicle holds at most one spot and a spot at most one *)
(* vehicle, and a spot is given up only against its fee or for another.    *)
(***************************************************************************)
EXTENDS Integers

CONSTANTS
    Vehicle,    \* licence plates
    Spot,       \* the grids of all lots
    Charge      \* Charge[kind]: what is charged for giving up a spot

VARIABLES
    held,       \* held[v]: the spot vehicle v holds and how it holds it
    income      \* all fees charged so far

ledgerVars == <<held, income>>

Kind == DOMAIN Charge
Occupied == {held[v].spot : v \in DOMAIN held}

Init ==
    /\ held = [v \in {} |-> 0]
    /\ income = 0

(* v takes the free spot s; a spot it held before becomes free.            *)
Take(v, s, k) ==
    /\ s \notin Occupied
    /\ held' = [w \in DOMAIN held \union {v} |->
                  IF w = v THEN [spot |-> s, kind |-> k] ELSE held[w]]
    /\ UNCHANGED income

(* The vehicle arrives at the spot it reserved.                            *)
Arrive(v) ==
    /\ held[v].kind = "RESERVED"
    /\ held' = [held EXCEPT ![v].kind = "PARKED"]
    /\ UNCHANGED income

(* Cancelling or picking up: the spot is paid for and given up.            *)
Settle(v) ==
    /\ held' = [w \in DOMAIN held \ {v} |-> held[w]]
    /\ income' = income + Charge[held[v].kind]

Next ==
    \/ \E v \in Vehicle, s \in Spot, k \in Kind : Take(v, s, k)
    \/ \E v \in DOMAIN held : Arrive(v) \/ Settle(v)

Spec == Init /\ [][Next]_ledgerVars
=============================================================================
