------------------------------ MODULE KeypadLot ------------------------------
(***************************************************************************)
(* The parking lot of homework 1: one program at one keypad.  mode says    *)
(* which loop of main() reads the next key; there is one action per key    *)
(* that leaves a loop or changes a variable.  What the LCD, the LEDs and   *)
(* the seven-segment digits show is left out, except the fee.              *)
(***************************************************************************)
EXTENDS Integers

CONSTANTS
    NumLots,        \* 3 in the code
    NumGrids,       \* 8 in the code
    DigitAt         \* bound: the digits people type at each place of a plate

Lots == 1..NumLots
Grids == 1..NumGrids
Spots == Lots \X Grids
Places == 1..4

ASSUME KeypadSizes == NumLots \in Nat /\ NumGrids \in Nat
ASSUME DigitAssumption == DigitAt \in [Places -> SUBSET (0..9)]

input_number(in) == in[1] * 1000 + in[2] * 100 + in[3] * 10 + in[4]

Inputs == {in \in [Places -> 0..9] : \A p \in Places : in[p] \in DigitAt[p] \union {0}}
Plate == {input_number(in) : in \in Inputs} \ {0}

VARIABLES
    mode,       \* the loop that reads: "plate", "menu", "lot", "grid", "again"
    number,     \* number[s]: 0, the plate parked at s, or minus the plate
                \* it is reserved for
    reserve,    \* reserve[s]: 1 once s has been reserved
    input,      \* the four digits of the input buffer
    index,      \* how many of them were typed for this plate
    value,      \* the plate entered
    status,     \* its status: "N"ot here, re"S"erved, "P"arked
    at,         \* <<i, j>>, where the search for it stopped
    choice,     \* what the lot and grid loops were entered for
    lot,        \* the lot chosen
    stay,       \* history: how the present holder of s took it
    bill        \* history: the last fee shown, and the fee that stay costs

choiceVars == <<choice, lot>>
inputVars == <<input, index>>
vehicleVars == <<value, status, at>>
gridVars == <<number, reserve, stay>>
vars == <<mode, gridVars, inputVars, vehicleVars, choiceVars, bill>>

Nowhere == <<NumLots + 1, NumGrids + 1>>

TypeOK ==
    /\ mode \in {"plate", "menu", "lot", "grid", "again"}
    /\ number \in [Spots -> {0} \union Plate \union {-plate : plate \in Plate}]
    /\ reserve \in [Spots -> {0, 1}]
    /\ input \in Inputs
    /\ index \in 0..4
    /\ value \in Plate \union {0}
    /\ status \in {"N", "S", "P"}
    /\ at \in Spots \union {Nowhere}
    /\ choice \in {"reserve", "check-in"}
    /\ lot \in Lots \union {0}
    /\ stay \in [Spots -> {"none", "reserved", "direct"}]
    /\ bill \in [plate : Nat, shown : Nat, due : Nat]

Init ==
    /\ mode = "plate"
    /\ number = [s \in Spots |-> 0]
    /\ reserve = [s \in Spots |-> 0]
    /\ input = [p \in Places |-> 0]
    /\ index = 0
    /\ value = 0
    /\ status = "N"
    /\ at = Nowhere
    /\ choice = "reserve"
    /\ lot = 0
    /\ stay = [s \in Spots |-> "none"]
    /\ bill = [plate |-> 0, shown |-> 0, due |-> 0]

-----------------------------------------------------------------------------
(* Entering a plate *)

(* Mutant of DigitKey: one place more than the buffer has.                 *)
DigitKeyPastEnd(d) ==
    /\ mode = "plate"
    /\ index <= 4
    /\ input' = [input EXCEPT ![index + 1] = d]
    /\ index' = index + 1
    /\ UNCHANGED <<mode, gridVars, vehicleVars, choiceVars, bill>>

(* A fifth digit would be written past the buffer: it is not modelled.     *)
DigitKey(d) ==
    /\ mode = "plate"
    /\ index < 4 /\ d \in DigitAt[index + 1]
    /\ input' = [input EXCEPT ![index + 1] = d]
    /\ index' = index + 1
    /\ UNCHANGED <<mode, gridVars, vehicleVars, choiceVars, bill>>

(* Mutant of Matches: without abs().                                       *)
MatchesParked(plate) == {s \in Spots : number[s] = plate}

Matches(plate) == {s \in Spots : number[s] = plate \/ number[s] = -plate}

(* The first of the matches: lots in the outer loop, grids in the inner.   *)
FirstOf(spots) ==
    {s \in spots : \A t \in spots : s[1] < t[1] \/ (s[1] = t[1] /\ s[2] <= t[2])}

(* Mutant of Search: without the goto, the last grid decides.              *)
SearchWithoutGoto(plate) ==
    \E s \in Spots :
        /\ \A t \in Spots : t[1] < s[1] \/ (s[1] = t[1] /\ t[2] <= s[2])
        /\ at' = s
        /\ status' = IF s \notin Matches(plate) THEN "N"
                     ELSE IF number[s] < 0 THEN "S" ELSE "P"

Search(plate) ==
    \/ /\ Matches(plate) = {}
       /\ at' = Nowhere
       /\ status' = "N"
    \/ \E s \in FirstOf(Matches(plate)) :
         /\ at' = s
         /\ status' = IF number[s] < 0 THEN "S" ELSE "P"

(* '#'.  Places not typed keep the digits of an earlier plate.             *)
HashKey ==
    /\ mode = "plate"
    /\ value' = input_number(input)
    /\ index' = 0
    /\ Search(input_number(input))
    /\ mode' = "menu"
    /\ UNCHANGED <<gridVars, input, choiceVars, bill>>

-----------------------------------------------------------------------------
(* The menus.  "show", and keys without a meaning, change nothing.         *)

ChooseKey(c) ==
    /\ mode = "menu" /\ status = "N"
    /\ choice' = c
    /\ mode' = "lot"
    /\ UNCHANGED <<gridVars, inputVars, vehicleVars, lot, bill>>

LotKey(l) ==
    /\ mode = "lot"
    /\ lot' = l
    /\ mode' = "grid"
    /\ UNCHANGED <<gridVars, inputVars, vehicleVars, choice, bill>>

(* Mutant of Reserve: number[lot][grid] is not looked at.                  *)
ReserveTaken(s) ==
    /\ mode = "grid" /\ choice = "reserve"
    /\ number' = [number EXCEPT ![s] = -value]
    /\ reserve' = [reserve EXCEPT ![s] = 1]
    /\ stay' = [stay EXCEPT ![s] = "reserved"]
    /\ mode' = "again"
    /\ UNCHANGED <<inputVars, vehicleVars, choiceVars, bill>>

Reserve(s) ==
    /\ mode = "grid" /\ choice = "reserve"
    /\ number[s] = 0
    /\ number' = [number EXCEPT ![s] = -value]
    /\ reserve' = [reserve EXCEPT ![s] = 1]
    /\ stay' = [stay EXCEPT ![s] = "reserved"]
    /\ mode' = "again"
    /\ UNCHANGED <<inputVars, vehicleVars, choiceVars, bill>>

CheckIn(s) ==
    /\ mode = "grid" /\ choice = "check-in"
    /\ number[s] = 0
    /\ number' = [number EXCEPT ![s] = value]
    /\ stay' = [stay EXCEPT ![s] = "direct"]
    /\ mode' = "again"
    /\ UNCHANGED <<reserve, inputVars, vehicleVars, choiceVars, bill>>

GridTaken(s) ==
    /\ mode = "grid"
    /\ number[s] # 0
    /\ mode' = "again"
    /\ UNCHANGED <<gridVars, inputVars, vehicleVars, choiceVars, bill>>

ExitKey ==
    /\ mode = "menu" /\ status \in {"N", "S"}
    /\ mode' = "again"
    /\ UNCHANGED <<gridVars, inputVars, vehicleVars, choiceVars, bill>>

(* The grid the search stopped at is given up for the fee shown.           *)
Leave(fee, due) ==
    /\ number' = [number EXCEPT ![at] = 0]
    /\ stay' = [stay EXCEPT ![at] = "none"]
    /\ bill' = [plate |-> value, shown |-> fee, due |-> due]
    /\ mode' = "again"
    /\ UNCHANGED <<reserve, inputVars, vehicleVars, choiceVars>>

CancelKey == mode = "menu" /\ status = "S" /\ Leave(20, 20)

(* Mutant of CheckInKey: the reservation is used up by arriving.           *)
CheckInKeyClears ==
    /\ mode = "menu" /\ status = "S"
    /\ number' = [number EXCEPT ![at] = value]
    /\ reserve' = [reserve EXCEPT ![at] = 0]
    /\ mode' = "again"
    /\ UNCHANGED <<stay, inputVars, vehicleVars, choiceVars, bill>>

CheckInKey ==
    /\ mode = "menu" /\ status = "S"
    /\ number' = [number EXCEPT ![at] = value]
    /\ mode' = "again"
    /\ UNCHANGED <<reserve, stay, inputVars, vehicleVars, choiceVars, bill>>

StayFee == [none |-> 0, reserved |-> 30, direct |-> 40]

PickUpKey ==
    /\ mode = "menu" /\ status = "P"
    /\ Leave(IF reserve[at] = 1 THEN 30 ELSE 40, StayFee[stay[at]])

(* get(): whatever key comes next only starts the next plate.              *)
AnyKey ==
    /\ mode = "again"
    /\ mode' = "plate"
    /\ UNCHANGED <<gridVars, inputVars, vehicleVars, choiceVars, bill>>

Next ==
    \/ \E d \in 0..9 : DigitKey(d)
    \/ HashKey \/ ExitKey \/ CancelKey \/ CheckInKey \/ PickUpKey \/ AnyKey
    \/ \E c \in {"reserve", "check-in"} : ChooseKey(c)
    \/ \E l \in Lots : LotKey(l)
    \/ \E g \in Grids : Reserve(<<lot, g>>) \/ CheckIn(<<lot, g>>) \/ GridTaken(<<lot, g>>)

Spec == Init /\ [][Next]_vars

-----------------------------------------------------------------------------
(* Properties *)

(* number[3][8] is the only record of who is where, and a search stops at  *)
(* the first match: a plate found at two grids could pay for one of them   *)
(* only.  However plates are typed, no plate is ever at two grids.         *)
NoTwoPlaces ==
    \A s, t \in Spots : (number[s] # 0 /\ t \in Matches(number[s])) => s = t

(* i and j outlive the loop that set them: as long as a menu is open, its  *)
(* status still says what the grid they point at holds, and "N" that no    *)
(* grid is held.                                                           *)
MenuIsCurrent ==
    /\ mode = "menu" /\ status = "S" => number[at] = -value
    /\ mode = "menu" /\ status = "P" => number[at] = value
    /\ mode \in {"lot", "grid"} \/ (mode = "menu" /\ status = "N") => Matches(value) = {}

(* reserve is never cleared, so it can make a stay cheaper than it should  *)
(* be; it never makes one dearer.  Plate 0, which the code takes for an    *)
(* empty grid, is shown a fee without having parked.                       *)
NobodyOvercharged == bill.plate # 0 => bill.shown <= bill.due

(* "0 = no reserve" says the comment at the declaration: a vehicle that    *)
(* parked without a reservation stands at a grid whose mark is 0.          *)
MarkedOnlyWhenReserved == \A s \in Spots : stay[s] = "direct" => reserve[s] = 0

(* The ledger of homework 2, fees aside: a plate takes a free grid,        *)
(* arrives at it, and only its own plate gives it up.                      *)
Held == {plate \in Plate : Matches(plate) # {}}
SpotOf(plate) == CHOOSE s \in Spots : s \in Matches(plate)
Ledger == INSTANCE GarageLedger WITH
    Vehicle <- Plate,
    Spot <- Spots,
    Charge <- [kind \in {"RESERVED", "PARKED"} |-> 0],
    held <- [plate \in Held |->
              [spot |-> SpotOf(plate),
               kind |-> IF number[SpotOf(plate)] < 0 THEN "RESERVED" ELSE "PARKED"]],
    income <- 0
ImplementsLedger == Ledger!Spec
=============================================================================
