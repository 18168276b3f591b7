---------------------------- MODULE KeypadProofs -----------------------------
(***************************************************************************)
(* Theorems about the keypad parking lot of homework 1, for any number of  *)
(* lots and grids and any digits typed.                                    *)
(***************************************************************************)
EXTENDS KeypadLot, TLAPS

LEMMA PlatesArePositive ==
    /\ \A in \in Inputs : input_number(in) \in Nat
    /\ \A in \in Inputs : input_number(in) \in Plate \union {0}
    /\ \A plate \in Plate : plate \in Nat /\ plate > 0
<1>1. \A in \in Inputs : input_number(in) \in Nat
  <2> SUFFICES ASSUME NEW in \in Inputs PROVE input_number(in) \in Nat
    OBVIOUS
  <2>1. in[1] \in Nat /\ in[2] \in Nat /\ in[3] \in Nat /\ in[4] \in Nat
    BY DEF Inputs, Places
  <2> QED
    BY <2>1, SMT DEF input_number
<1>2. \A in \in Inputs : input_number(in) \in Plate \union {0}
  BY DEF Plate
<1>3. \A plate \in Plate : plate \in Nat /\ plate > 0
  BY <1>1, SMT DEF Plate
<1> QED
  BY <1>1, <1>2, <1>3

(* The invariant.  A menu's status says what the grid it points at holds,  *)
(* and a stay that began with a reservation left its mark.                 *)
PointsAtGrid ==
    mode = "menu" /\ status \in {"S", "P"} => at \in Spots

LotIsChosen == mode = "grid" => lot \in Lots

ReservedIsNotZero == mode = "menu" /\ status = "S" => value # 0

StayIsKnown ==
    \A s \in Spots :
        /\ number[s] # 0 => stay[s] # "none"
        /\ stay[s] = "reserved" => reserve[s] = 1

KeypadInv ==
    /\ NoTwoPlaces
    /\ MenuIsCurrent
    /\ PointsAtGrid
    /\ LotIsChosen
    /\ ReservedIsNotZero
    /\ StayIsKnown
    /\ NobodyOvercharged

LEMMA InitKeypad == Init => TypeOK /\ KeypadInv
<1> SUFFICES ASSUME Init PROVE TypeOK /\ KeypadInv
  OBVIOUS
<1>1. input \in Inputs
  BY DigitAssumption DEF Init, Inputs, Places
<1>2. TypeOK
  <2>1. number \in [Spots -> {0} \union Plate \union {-plate : plate \in Plate}]
    BY DEF Init
  <2>2. reserve \in [Spots -> {0, 1}] /\ stay \in [Spots -> {"none", "reserved", "direct"}]
    BY DEF Init
  <2>3. bill \in [plate : Nat, shown : Nat, due : Nat]
    BY DEF Init
  <2> QED
    BY <1>1, <2>1, <2>2, <2>3 DEF Init, TypeOK
<1>3. KeypadInv
  BY DEF Init, KeypadInv, NoTwoPlaces, MenuIsCurrent, PointsAtGrid, LotIsChosen,
         ReservedIsNotZero, StayIsKnown, NobodyOvercharged
<1> QED
  BY <1>2, <1>3

LEMMA NumberIsInt ==
    ASSUME TypeOK
    PROVE  /\ \A s \in Spots : number[s] \in Int
           /\ value \in Nat
<1>1. value \in Nat
  BY PlatesArePositive DEF TypeOK
<1>2. \A s \in Spots : number[s] \in {0} \union Plate \union {-plate : plate \in Plate}
  BY DEF TypeOK
<1>3. \A plate \in Plate : plate \in Int /\ -plate \in Int
  BY PlatesArePositive, SMT
<1> QED
  BY <1>1, <1>2, <1>3

LEMMA DigitKeeps ==
    ASSUME TypeOK, KeypadInv, NEW d, DigitKey(d)
    PROVE  TypeOK' /\ KeypadInv'
<1>1. input' \in Inputs /\ index' \in 0..4
  <2>1. index + 1 \in Places /\ d \in DigitAt[index + 1] /\ d \in 0..9
    BY DigitAssumption DEF DigitKey, TypeOK, Places
  <2>2. input \in [Places -> 0..9] /\ \A p \in Places : input[p] \in DigitAt[p] \union {0}
    BY DEF TypeOK, Inputs
  <2>3. input' = [input EXCEPT ![index + 1] = d] /\ index' = index + 1
    BY DEF DigitKey
  <2>4. input' \in [Places -> 0..9]
    BY <2>1, <2>2, <2>3
  <2>5. \A p \in Places : input'[p] \in DigitAt[p] \union {0}
    BY <2>1, <2>2, <2>3
  <2>6. index' \in 0..4
    BY <2>1, <2>3 DEF Places
  <2> QED
    BY <2>4, <2>5, <2>6 DEF Inputs
<1>2. TypeOK'
  BY <1>1 DEF DigitKey, gridVars, vehicleVars, choiceVars, TypeOK
<1>3. KeypadInv'
  BY DEF DigitKey, gridVars, vehicleVars, choiceVars, KeypadInv, NoTwoPlaces, Matches,
         MenuIsCurrent, PointsAtGrid, LotIsChosen, ReservedIsNotZero, StayIsKnown,
         NobodyOvercharged
<1> QED
  BY <1>2, <1>3

LEMMA HashKeeps ==
    ASSUME TypeOK, KeypadInv, HashKey
    PROVE  TypeOK' /\ KeypadInv'
<1>1. /\ mode = "plate" /\ mode' = "menu" /\ index' = 0
      /\ value' = input_number(input) /\ Search(value')
      /\ UNCHANGED <<number, reserve, stay, input, choice, lot, bill>>
  BY DEF HashKey, gridVars, choiceVars
<1>2. value' \in Plate \union {0} /\ value' \in Nat
  BY <1>1, PlatesArePositive DEF TypeOK
<1>3. \/ Matches(value') = {} /\ at' = Nowhere /\ status' = "N"
      \/ /\ at' \in Spots /\ at' \in Matches(value')
         /\ status' = IF number[at'] < 0 THEN "S" ELSE "P"
  BY <1>1 DEF Search, FirstOf, Matches
<1>4. at' \in Spots \union {Nowhere} /\ status' \in {"N", "S", "P"}
  BY <1>3
<1>5. /\ status' = "S" => number[at'] = -value' /\ value' # 0 /\ at' \in Spots
      /\ status' = "P" => number[at'] = value' /\ at' \in Spots
      /\ status' = "N" => Matches(value') = {}
  <2>1. CASE Matches(value') = {} /\ at' = Nowhere /\ status' = "N"
    BY <2>1
  <2>2. CASE /\ at' \in Spots /\ at' \in Matches(value')
             /\ status' = IF number[at'] < 0 THEN "S" ELSE "P"
    <3>1. number[at'] \in Int
      BY <2>2, NumberIsInt
    <3>2. number[at'] = value' \/ number[at'] = -value'
      BY <2>2 DEF Matches
    <3> QED
      BY <2>2, <3>1, <3>2, <1>2, SMT
  <2> QED
    BY <1>3, <2>1, <2>2
<1>6. TypeOK'
  BY <1>1, <1>2, <1>4 DEF TypeOK
<1>7. \A plate : Matches(plate)' = Matches(plate)
  BY <1>1 DEF Matches
<1>8. MenuIsCurrent' /\ PointsAtGrid' /\ LotIsChosen' /\ ReservedIsNotZero'
  <2>1. Matches(value)' = {} \/ status' # "N"
    BY <1>1, <1>5 DEF Matches
  <2> QED
    BY <1>1, <1>5, <2>1 DEF MenuIsCurrent, PointsAtGrid, LotIsChosen, ReservedIsNotZero
<1>9. NoTwoPlaces' /\ StayIsKnown' /\ NobodyOvercharged'
  BY <1>1, <1>7 DEF KeypadInv, NoTwoPlaces, Matches, StayIsKnown, NobodyOvercharged
<1> QED
  BY <1>6, <1>8, <1>9 DEF KeypadInv

LEMMA MenuKeeps ==
    ASSUME TypeOK, KeypadInv,
           \/ \E c \in {"reserve", "check-in"} : ChooseKey(c)
           \/ \E l \in Lots : LotKey(l)
           \/ \E s : GridTaken(s)
           \/ ExitKey \/ AnyKey \/ UNCHANGED vars
    PROVE  TypeOK' /\ KeypadInv'
<1>1. UNCHANGED <<gridVars, inputVars, vehicleVars, bill>>
  BY DEF ChooseKey, LotKey, GridTaken, ExitKey, AnyKey, choiceVars, vars, inputVars
<1>2. /\ mode' \in {"plate", "menu", "lot", "grid", "again"}
      /\ choice' \in {"reserve", "check-in"} /\ lot' \in Lots \union {0}
  BY DEF ChooseKey, LotKey, GridTaken, ExitKey, AnyKey, choiceVars, vars, TypeOK
<1>3. TypeOK'
  BY <1>1, <1>2 DEF TypeOK, gridVars, inputVars, vehicleVars
<1>4. \A plate : Matches(plate)' = Matches(plate)
  BY <1>1 DEF Matches, gridVars
<1>5. NoTwoPlaces' /\ StayIsKnown' /\ NobodyOvercharged'
  BY <1>1, <1>4 DEF KeypadInv, NoTwoPlaces, Matches, StayIsKnown, NobodyOvercharged, gridVars
<1>6. /\ mode' = "menu" => mode = "menu"
      /\ mode' \in {"lot", "grid"} => mode \in {"lot", "grid"} \/ (mode = "menu" /\ status = "N")
  BY DEF ChooseKey, LotKey, GridTaken, ExitKey, AnyKey, vars
<1>7. MenuIsCurrent' /\ PointsAtGrid' /\ ReservedIsNotZero'
  <2>1. UNCHANGED <<number, value, status, at>>
    BY <1>1 DEF gridVars, vehicleVars
  <2> QED
    BY <1>6, <2>1 DEF KeypadInv, MenuIsCurrent, PointsAtGrid, ReservedIsNotZero, Matches
<1>8. LotIsChosen'
  BY DEF ChooseKey, LotKey, GridTaken, ExitKey, AnyKey, vars, choiceVars, KeypadInv, LotIsChosen
<1> QED
  BY <1>3, <1>5, <1>7, <1>8 DEF KeypadInv

(* A free grid is taken for a plate that was at none.                      *)
LEMMA TakingKeeps ==
    ASSUME TypeOK, KeypadInv, NEW s \in Spots, Reserve(s) \/ CheckIn(s)
    PROVE  TypeOK' /\ KeypadInv'
<1> DEFINE n == IF choice = "reserve" THEN -value ELSE value
<1>1. /\ mode = "grid" /\ mode' = "again" /\ number[s] = 0
      /\ number' = [number EXCEPT ![s] = n]
      /\ UNCHANGED <<input, index, value, status, at, choice, lot, bill>>
  BY DEF Reserve, CheckIn, inputVars, vehicleVars, choiceVars
<1>2. Matches(value) = {} /\ value \in Plate /\ value \in Nat
  <2>1. Matches(value) = {}
    BY <1>1 DEF KeypadInv, MenuIsCurrent
  <2>2. value # 0
    BY <1>1, <2>1 DEF Matches
  <2> QED
    BY <2>1, <2>2, NumberIsInt DEF TypeOK
<1>3. n = value \/ n = -value
  OBVIOUS
<1> HIDE DEF n
<1>4. number' \in [Spots -> {0} \union Plate \union {-plate : plate \in Plate}]
  BY <1>1, <1>2, <1>3 DEF TypeOK
<1>5. /\ reserve' \in [Spots -> {0, 1}]
      /\ stay' \in [Spots -> {"none", "reserved", "direct"}]
  BY DEF Reserve, CheckIn, TypeOK
<1>6. TypeOK'
  BY <1>1, <1>4, <1>5 DEF TypeOK
<1>7. /\ number'[s] = n
      /\ \A t \in Spots : t # s => number'[t] = number[t]
      /\ \A t \in Spots : number[t] # value /\ number[t] # -value /\ number[t] \in Int
  BY <1>1, <1>2, NumberIsInt DEF TypeOK, Matches
<1>8. NoTwoPlaces'
  <2> SUFFICES ASSUME NEW t \in Spots, NEW u \in Spots, number'[t] # 0,
                      number'[u] = number'[t] \/ number'[u] = -number'[t]
               PROVE  t = u
    BY DEF NoTwoPlaces, Matches
  <2>1. CASE t # s /\ u # s
    BY <1>7, <2>1 DEF KeypadInv, NoTwoPlaces, Matches
  <2>2. CASE t = s /\ u # s
    BY <1>2, <1>3, <1>7, <2>2, SMT
  <2>3. CASE t # s /\ u = s
    BY <1>2, <1>3, <1>7, <2>3, SMT
  <2> QED
    BY <2>1, <2>2, <2>3
<1>9. StayIsKnown'
  BY <1>1, <1>7 DEF Reserve, CheckIn, TypeOK, KeypadInv, StayIsKnown
<1>10. MenuIsCurrent' /\ PointsAtGrid' /\ LotIsChosen' /\ ReservedIsNotZero' /\ NobodyOvercharged'
  BY <1>1 DEF MenuIsCurrent, PointsAtGrid, LotIsChosen, ReservedIsNotZero, NobodyOvercharged,
              KeypadInv
<1> QED
  BY <1>6, <1>8, <1>9, <1>10 DEF KeypadInv

LEMMA CheckInKeyKeeps ==
    ASSUME TypeOK, KeypadInv, CheckInKey
    PROVE  TypeOK' /\ KeypadInv'
<1>1. /\ mode = "menu" /\ status = "S" /\ mode' = "again"
      /\ number' = [number EXCEPT ![at] = value]
      /\ UNCHANGED <<reserve, stay, input, index, value, status, at, choice, lot, bill>>
  BY DEF CheckInKey, inputVars, vehicleVars, choiceVars
<1>2. at \in Spots /\ number[at] = -value /\ value # 0 /\ value \in Nat /\ value \in Plate
  BY <1>1, NumberIsInt DEF KeypadInv, PointsAtGrid, MenuIsCurrent, ReservedIsNotZero, TypeOK
<1>3. number' \in [Spots -> {0} \union Plate \union {-plate : plate \in Plate}]
  BY <1>1, <1>2 DEF TypeOK
<1>4. TypeOK'
  BY <1>1, <1>3 DEF TypeOK
<1>5. /\ number'[at] = value
      /\ \A t \in Spots : t # at => number'[t] = number[t]
      /\ \A t \in Spots : number[t] \in Int
  BY <1>1, <1>2, NumberIsInt DEF TypeOK
<1>6. \A t \in Spots : number'[t] = number[t] \/ number'[t] = -number[t]
  BY <1>2, <1>5, SMT
<1>7. NoTwoPlaces'
  <2> SUFFICES ASSUME NEW t \in Spots, NEW u \in Spots, number'[t] # 0,
                      number'[u] = number'[t] \/ number'[u] = -number'[t]
               PROVE  t = u
    BY DEF NoTwoPlaces, Matches
  <2>1. number[t] # 0 /\ (number[u] = number[t] \/ number[u] = -number[t])
    BY <1>5, <1>6, SMT
  <2> QED
    BY <2>1 DEF KeypadInv, NoTwoPlaces, Matches
<1>8. StayIsKnown'
  <2>1. \A t \in Spots : number'[t] # 0 => number[t] # 0
    BY <1>5, <1>6, SMT
  <2> QED
    BY <1>1, <2>1 DEF KeypadInv, StayIsKnown
<1>9. MenuIsCurrent' /\ PointsAtGrid' /\ LotIsChosen' /\ ReservedIsNotZero' /\ NobodyOvercharged'
  BY <1>1 DEF MenuIsCurrent, PointsAtGrid, LotIsChosen, ReservedIsNotZero, NobodyOvercharged,
              KeypadInv
<1> QED
  BY <1>4, <1>7, <1>8, <1>9 DEF KeypadInv

LEMMA LeavingKeeps ==
    ASSUME TypeOK, KeypadInv, CancelKey \/ PickUpKey
    PROVE  TypeOK' /\ KeypadInv'
<1>1. /\ mode = "menu" /\ status \in {"S", "P"} /\ mode' = "again"
      /\ number' = [number EXCEPT ![at] = 0]
      /\ stay' = [stay EXCEPT ![at] = "none"]
      /\ UNCHANGED <<reserve, input, index, value, status, at, choice, lot>>
  BY DEF CancelKey, PickUpKey, Leave, inputVars, vehicleVars, choiceVars
<1>2. at \in Spots /\ value \in Nat /\ stay[at] \in {"none", "reserved", "direct"}
  BY <1>1, NumberIsInt DEF KeypadInv, PointsAtGrid, TypeOK
<1>3. bill' \in [plate : Nat, shown : Nat, due : Nat]
  <2>1. CASE CancelKey
    BY <2>1, <1>2 DEF CancelKey, Leave
  <2>2. CASE PickUpKey
    BY <2>2, <1>2 DEF PickUpKey, Leave, StayFee
  <2> QED
    BY <2>1, <2>2
<1>4. TypeOK'
  BY <1>1, <1>2, <1>3 DEF TypeOK
<1>5. /\ number'[at] = 0 /\ stay'[at] = "none"
      /\ \A t \in Spots : t # at => number'[t] = number[t] /\ stay'[t] = stay[t]
      /\ \A t \in Spots : number[t] \in Int
  BY <1>1, <1>2, NumberIsInt DEF TypeOK
<1>6. NoTwoPlaces'
  <2> SUFFICES ASSUME NEW t \in Spots, NEW u \in Spots, number'[t] # 0,
                      number'[u] = number'[t] \/ number'[u] = -number'[t]
               PROVE  t = u
    BY DEF NoTwoPlaces, Matches
  <2>1. t # at /\ u # at
    BY <1>5, SMT
  <2> QED
    BY <1>5, <2>1 DEF KeypadInv, NoTwoPlaces, Matches
<1>7. StayIsKnown'
  BY <1>1, <1>5 DEF KeypadInv, StayIsKnown
<1>8. NobodyOvercharged'
  <2>1. CASE CancelKey
    BY <2>1 DEF CancelKey, Leave, NobodyOvercharged
  <2>2. ASSUME PickUpKey, value # 0
        PROVE  NobodyOvercharged'
    <3>1. number[at] = value /\ stay[at] # "none" /\ (stay[at] = "reserved" => reserve[at] = 1)
      BY <1>2, <2>2 DEF PickUpKey, KeypadInv, MenuIsCurrent, StayIsKnown
    <3>2. bill'.shown = (IF reserve[at] = 1 THEN 30 ELSE 40) /\ bill'.due = StayFee[stay[at]]
      BY <2>2 DEF PickUpKey, Leave
    <3> QED
      BY <1>2, <3>1, <3>2 DEF NobodyOvercharged, StayFee
  <2>3. ASSUME PickUpKey, value = 0
        PROVE  NobodyOvercharged'
    BY <2>3 DEF PickUpKey, Leave, NobodyOvercharged
  <2> QED
    BY <2>1, <2>2, <2>3
<1>9. MenuIsCurrent' /\ PointsAtGrid' /\ LotIsChosen' /\ ReservedIsNotZero'
  BY <1>1 DEF MenuIsCurrent, PointsAtGrid, LotIsChosen, ReservedIsNotZero, KeypadInv
<1> QED
  BY <1>4, <1>6, <1>7, <1>8, <1>9 DEF KeypadInv

LEMMA NextKeypad == TypeOK /\ KeypadInv /\ [Next]_vars => TypeOK' /\ KeypadInv'
<1> SUFFICES ASSUME TypeOK, KeypadInv, [Next]_vars PROVE TypeOK' /\ KeypadInv'
  OBVIOUS
<1>1. ASSUME NEW d \in 0..9, DigitKey(d) PROVE TypeOK' /\ KeypadInv'
  BY <1>1, DigitKeeps
<1>2. CASE HashKey
  BY <1>2, HashKeeps
<1>3. CASE ExitKey \/ AnyKey \/ UNCHANGED vars \/ \E c \in {"reserve", "check-in"} : ChooseKey(c)
  BY <1>3, MenuKeeps
<1>4. CASE \E l \in Lots : LotKey(l)
  BY <1>4, MenuKeeps
<1>5. CASE CancelKey \/ PickUpKey
  BY <1>5, LeavingKeeps
<1>6. CASE CheckInKey
  BY <1>6, CheckInKeyKeeps
<1>7. ASSUME NEW g \in Grids, Reserve(<<lot, g>>) \/ CheckIn(<<lot, g>>)
      PROVE  TypeOK' /\ KeypadInv'
  <2>1. <<lot, g>> \in Spots
    BY <1>7 DEF Reserve, CheckIn, KeypadInv, LotIsChosen, Spots
  <2> QED
    BY <1>7, <2>1, TakingKeeps
<1>8. ASSUME NEW g \in Grids, GridTaken(<<lot, g>>)
      PROVE  TypeOK' /\ KeypadInv'
  <2>1. \E s : GridTaken(s)
    BY <1>8
  <2> QED
    BY <2>1, MenuKeeps
<1> QED
  BY <1>1, <1>2, <1>3, <1>4, <1>5, <1>6, <1>7, <1>8 DEF Next

(* Every variable of homework 1 keeps its type, whatever keys come.        *)
THEOREM TypesCorrect == Spec => []TypeOK
<1> QED
  BY InitKeypad, NextKeypad, PTL DEF Spec

(* No plate is ever at two grids; the status of the menu that is open      *)
(* agrees with the grid it will write; and no fee shown exceeds what the   *)
(* stay costs.                                                             *)
THEOREM Keys == Spec => [](NoTwoPlaces /\ MenuIsCurrent /\ NobodyOvercharged)
<1>1. KeypadInv => NoTwoPlaces /\ MenuIsCurrent /\ NobodyOvercharged
  BY DEF KeypadInv
<1> QED
  BY <1>1, InitKeypad, NextKeypad, PTL DEF Spec

-----------------------------------------------------------------------------
(* The refinement: what the ledger sees of number. *)

Entry(plate) ==
    [spot |-> SpotOf(plate),
     kind |-> IF number[SpotOf(plate)] < 0 THEN "RESERVED" ELSE "PARKED"]
HeldBy == [plate \in Held |-> Entry(plate)]

LEMMA FoundAt ==
    ASSUME NEW plate \in Held
    PROVE  SpotOf(plate) \in Spots /\ SpotOf(plate) \in Matches(plate)
BY DEF SpotOf, Held, Matches

(* A write to a grid that neither was nor becomes a plate's leaves what    *)
(* the ledger sees of that plate.                                          *)
LEMMA OthersStay ==
    ASSUME TypeOK, NEW s \in Spots, NEW m, number' = [number EXCEPT ![s] = m],
           NEW plate \in Plate,
           number[s] # plate, number[s] # -plate, m # plate, m # -plate
    PROVE  /\ plate \in Held' <=> plate \in Held
           /\ plate \in Held => Entry(plate)' = Entry(plate)
<1>1. Matches(plate)' = Matches(plate) /\ s \notin Matches(plate)
  BY DEF Matches, TypeOK
<1>2. plate \in Held' <=> plate \in Held
  BY <1>1 DEF Held
<1>3. SpotOf(plate)' = SpotOf(plate)
  BY <1>1 DEF SpotOf
<1>4. ASSUME plate \in Held PROVE number'[SpotOf(plate)] = number[SpotOf(plate)]
  BY <1>1, <1>4, FoundAt DEF TypeOK
<1> QED
  BY <1>2, <1>3, <1>4 DEF Entry

(* A plate at exactly one grid is found there.                             *)
LEMMA FoundOnly ==
    ASSUME NEW plate \in Plate, NEW s \in Spots, Matches(plate) = {s}
    PROVE  plate \in Held /\ SpotOf(plate) = s
BY DEF SpotOf, Held

LEMMA FoundOnlyThen ==
    ASSUME NEW plate \in Plate, NEW s \in Spots, Matches(plate)' = {s}
    PROVE  plate \in Held' /\ SpotOf(plate)' = s
BY DEF SpotOf, Held

LEMMA OnlyMatch ==
    ASSUME TypeOK, NoTwoPlaces, NEW plate \in Plate, NEW s \in Matches(plate)
    PROVE  Matches(plate) = {s}
<1>1. plate \in Nat /\ plate > 0 /\ s \in Spots /\ number[s] \in Int
  BY PlatesArePositive, NumberIsInt DEF Matches
<1>2. number[s] = plate \/ number[s] = -plate
  BY DEF Matches
<1>3. number[s] # 0
  BY <1>1, <1>2, SMT
<1>4. ASSUME NEW t \in Matches(plate) PROVE t = s
  <2>1. t \in Spots /\ (number[t] = plate \/ number[t] = -plate)
    BY <1>4 DEF Matches
  <2>2. number[t] = number[s] \/ number[t] = -number[s]
    BY <1>1, <1>2, <2>1, NumberIsInt, SMT
  <2> QED
    BY <1>1, <1>3, <2>1, <2>2 DEF NoTwoPlaces, Matches
<1> QED
  BY <1>4

LEMMA Invisible ==
    ASSUME UNCHANGED number
    PROVE  UNCHANGED Ledger!ledgerVars
<1>1. \A plate : Matches(plate)' = Matches(plate)
  BY DEF Matches
<1>2. Held' = Held /\ \A plate : SpotOf(plate)' = SpotOf(plate)
  BY <1>1 DEF Held, SpotOf
<1>3. HeldBy' = HeldBy
  BY <1>2 DEF HeldBy, Entry
<1> QED
  BY <1>3 DEF Ledger!ledgerVars, HeldBy, Entry

(* Taking a free grid for a plate at none is a Take of the ledger.         *)
LEMMA TakingTakes ==
    ASSUME TypeOK, KeypadInv, NEW s \in Spots, Reserve(s) \/ CheckIn(s)
    PROVE  Ledger!Next
<1> DEFINE n == IF choice = "reserve" THEN -value ELSE value
           k == IF choice = "reserve" THEN "RESERVED" ELSE "PARKED"
<1>1. /\ mode = "grid" /\ number[s] = 0
      /\ number' = [number EXCEPT ![s] = n]
  BY DEF Reserve, CheckIn
<1>2. PICK plate \in Plate : plate = value /\ Matches(plate) = {} /\ plate \in Nat /\ plate > 0
  <2>1. Matches(value) = {}
    BY <1>1 DEF KeypadInv, MenuIsCurrent
  <2>2. value # 0
    BY <1>1, <2>1 DEF Matches
  <2> QED
    BY <2>1, <2>2, PlatesArePositive DEF TypeOK
<1>3. \/ n = plate /\ k = "PARKED"
      \/ n = -plate /\ k = "RESERVED"
  BY <1>2
<1> HIDE DEF n, k
<1>4. number'[s] = n /\ \A t \in Spots : t # s => number'[t] = number[t]
  BY <1>1 DEF TypeOK
<1>5. Matches(plate)' = {s}
  BY <1>2, <1>3, <1>4 DEF Matches
<1>6. plate \in Held' /\ SpotOf(plate)' = s /\ plate \notin Held
  BY <1>2, <1>5, FoundOnlyThen DEF Held
<1>7. Entry(plate)' = [spot |-> s, kind |-> k]
  <2>1. number'[s] < 0 <=> k = "RESERVED"
    BY <1>2, <1>3, <1>4, SMT
  <2> QED
    BY <1>3, <1>6, <2>1 DEF Entry
<1>8. ASSUME NEW other \in Plate, other # plate
      PROVE  /\ other \in Held' <=> other \in Held
             /\ other \in Held => Entry(other)' = Entry(other)
  <2>1. other \in Nat /\ other > 0
    BY PlatesArePositive
  <2>2. number[s] # other /\ number[s] # -other /\ n # other /\ n # -other
    BY <1>1, <1>2, <1>3, <1>8, <2>1, SMT
  <2> QED
    BY <1>1, <2>2, OthersStay
<1>9. Held' = Held \union {plate}
  BY <1>2, <1>6, <1>8 DEF Held
<1>10. HeldBy' = [w \in DOMAIN HeldBy \union {plate} |->
                    IF w = plate THEN [spot |-> s, kind |-> k] ELSE HeldBy[w]]
  <2>1. DOMAIN HeldBy = Held /\ Held \subseteq Plate
    BY DEF HeldBy, Held
  <2>2. \A w \in Held : w # plate /\ HeldBy[w] = Entry(w) /\ Entry(w)' = Entry(w)
    BY <1>6, <1>8, <2>1 DEF HeldBy
  <2> QED
    BY <1>7, <1>9, <2>1, <2>2 DEF HeldBy
<1>11. \A w \in DOMAIN HeldBy : HeldBy[w].spot # s
  <2> SUFFICES ASSUME NEW w \in Held PROVE SpotOf(w) # s
    BY DEF HeldBy, Entry
  <2>1. w \in Plate /\ w > 0 /\ w \in Nat
    BY PlatesArePositive DEF Held
  <2>2. number[SpotOf(w)] = w \/ number[SpotOf(w)] = -w
    BY FoundAt DEF Matches
  <2> QED
    BY <1>1, <2>1, <2>2, SMT
<1>12. Ledger!Take(plate, s, k)
  BY <1>10, <1>11 DEF Ledger!Take, Ledger!Occupied, HeldBy, Entry
<1>13. plate \in Plate /\ s \in Spots /\ k \in Ledger!Kind
  BY <1>2, <1>3 DEF Ledger!Kind
<1> QED
  BY <1>12, <1>13, Zenon DEF Ledger!Next

LEMMA CheckInArrives ==
    ASSUME TypeOK, KeypadInv, CheckInKey
    PROVE  Ledger!Next
<1>1. /\ mode = "menu" /\ status = "S"
      /\ number' = [number EXCEPT ![at] = value]
  BY DEF CheckInKey
<1>2. PICK plate \in Plate, s \in Spots :
        /\ plate = value /\ s = at /\ number[s] = -plate
        /\ plate \in Nat /\ plate > 0
        /\ number' = [number EXCEPT ![s] = plate]
  BY <1>1, PlatesArePositive
     DEF KeypadInv, PointsAtGrid, MenuIsCurrent, ReservedIsNotZero, TypeOK
<1>3. Matches(plate) = {s}
  BY <1>2, OnlyMatch DEF Matches, KeypadInv
<1>4. Matches(plate)' = {s}
  <2>1. number'[s] = plate /\ \A t \in Spots : t # s => number'[t] = number[t]
    BY <1>2 DEF TypeOK
  <2> QED
    BY <1>3, <2>1 DEF Matches
<1>5. /\ plate \in Held /\ SpotOf(plate) = s
      /\ plate \in Held' /\ SpotOf(plate)' = s
  BY <1>3, <1>4, FoundOnly, FoundOnlyThen
<1>6. /\ Entry(plate) = [spot |-> s, kind |-> "RESERVED"]
      /\ Entry(plate)' = [spot |-> s, kind |-> "PARKED"]
  <2>1. number[s] < 0 /\ ~(number'[s] < 0)
    <3>1. number'[s] = plate
      BY <1>2 DEF TypeOK
    <3> QED
      BY <1>2, <3>1, SMT
  <2> QED
    BY <1>5, <2>1 DEF Entry
<1>7. ASSUME NEW other \in Plate, other # plate
      PROVE  /\ other \in Held' <=> other \in Held
             /\ other \in Held => Entry(other)' = Entry(other)
  <2>1. other \in Nat /\ other > 0
    BY PlatesArePositive
  <2>2. number[s] # other /\ number[s] # -other /\ plate # other /\ plate # -other
    BY <1>2, <1>7, <2>1, SMT
  <2> QED
    BY <1>2, <2>2, OthersStay
<1>8. Held' = Held /\ Held \subseteq Plate
  BY <1>5, <1>7 DEF Held
<1>9. HeldBy' = [HeldBy EXCEPT ![plate].kind = "PARKED"] /\ HeldBy[plate].kind = "RESERVED"
  <2>1. DOMAIN HeldBy = Held /\ \A w \in Held : HeldBy[w] = Entry(w)
    BY DEF HeldBy
  <2>2. HeldBy' = [w \in Held |-> Entry(w)']
    BY <1>8 DEF HeldBy
  <2>3. HeldBy' = [w \in Held |-> IF w = plate THEN [spot |-> s, kind |-> "PARKED"] ELSE HeldBy[w]]
    BY <1>6, <1>7, <1>8, <2>1, <2>2
  <2>4. HeldBy[plate] = [spot |-> s, kind |-> "RESERVED"]
    BY <1>5, <1>6, <2>1
  <2>5. [HeldBy[plate] EXCEPT !.kind = "PARKED"] = [spot |-> s, kind |-> "PARKED"]
    BY <2>4
  <2>6. [HeldBy EXCEPT ![plate].kind = "PARKED"]
          = [w \in Held |-> IF w = plate THEN [HeldBy[plate] EXCEPT !.kind = "PARKED"]
                            ELSE HeldBy[w]]
    BY <1>5, <2>1
  <2> QED
    BY <2>3, <2>4, <2>5, <2>6
<1>10. Ledger!Arrive(plate)
  BY <1>9 DEF Ledger!Arrive, HeldBy, Entry
<1>11. plate \in DOMAIN HeldBy
  BY <1>5 DEF HeldBy
<1> QED
  BY <1>10, <1>11, Zenon DEF Ledger!Next, HeldBy, Entry

(* Leaving settles the plate's account; "pick up" for plate 0, which is    *)
(* "found" at a free grid, changes nothing the ledger sees.                *)
LEMMA LeavingSettles ==
    ASSUME TypeOK, KeypadInv, CancelKey \/ PickUpKey
    PROVE  Ledger!Next \/ UNCHANGED Ledger!ledgerVars
<1>1. /\ mode = "menu" /\ status \in {"S", "P"}
      /\ number' = [number EXCEPT ![at] = 0]
  BY DEF CancelKey, PickUpKey, Leave
<1>2. /\ at \in Spots /\ value \in Nat
      /\ number[at] = value \/ number[at] = -value
  BY <1>1, NumberIsInt DEF KeypadInv, PointsAtGrid, MenuIsCurrent
<1>3. CASE value = 0
  <2>1. number[at] = 0
    BY <1>2, <1>3, SMT
  <2>2. number' = number
    BY <1>1, <1>2, <2>1 DEF TypeOK
  <2> QED
    BY <2>2, Invisible
<1>4. CASE value # 0
  <2>1. PICK plate \in Plate, s \in Spots :
          /\ plate = value /\ s = at /\ plate \in Nat /\ plate > 0
          /\ number[s] = plate \/ number[s] = -plate
          /\ number' = [number EXCEPT ![s] = 0]
    BY <1>1, <1>2, <1>4, PlatesArePositive DEF TypeOK
  <2>2. Matches(plate) = {s}
    BY <2>1, OnlyMatch DEF Matches, KeypadInv
  <2>3. number'[s] = 0 /\ \A t \in Spots : t # s => number'[t] = number[t]
    BY <2>1 DEF TypeOK
  <2>4. Matches(plate)' = {}
    <3> SUFFICES ASSUME NEW t \in Spots, number'[t] = plate \/ number'[t] = -plate
                 PROVE  FALSE
      BY DEF Matches
    <3>1. t # s
      BY <2>1, <2>3, SMT
    <3> QED
      BY <2>2, <2>3, <3>1 DEF Matches
  <2>5. plate \in Held /\ plate \notin Held'
    BY <2>2, <2>4, FoundOnly DEF Held
  <2>6. ASSUME NEW other \in Plate, other # plate
        PROVE  /\ other \in Held' <=> other \in Held
               /\ other \in Held => Entry(other)' = Entry(other)
    <3>1. other \in Nat /\ other > 0
      BY PlatesArePositive
    <3>2. number[s] # other /\ number[s] # -other /\ 0 # other /\ 0 # -other
      BY <2>1, <2>6, <3>1, SMT
    <3> QED
      BY <2>1, <3>2, OthersStay
  <2>7. Held' = Held \ {plate} /\ Held \subseteq Plate
    BY <2>5, <2>6 DEF Held
  <2>8. HeldBy' = [w \in DOMAIN HeldBy \ {plate} |-> HeldBy[w]]
    <3>1. \A w \in Held \ {plate} : HeldBy[w] = Entry(w) /\ Entry(w)' = Entry(w)
      BY <2>6, <2>7 DEF HeldBy
    <3>2. DOMAIN HeldBy = Held
      BY DEF HeldBy
    <3> QED
      BY <2>7, <3>1, <3>2 DEF HeldBy
  <2>9. HeldBy[plate].kind \in {"RESERVED", "PARKED"}
    BY <2>5 DEF HeldBy, Entry
  <2>10. Ledger!Settle(plate)
    BY <2>8, <2>9 DEF Ledger!Settle, HeldBy, Entry
  <2>11. plate \in DOMAIN HeldBy
    BY <2>5 DEF HeldBy
  <2> QED
    BY <2>10, <2>11, Zenon DEF Ledger!Next, HeldBy, Entry
<1> QED
  BY <1>3, <1>4

(* Homework 1 implements the ledger of homework 2, fees aside.             *)
THEOREM Refinement == Spec => ImplementsLedger
<1>1. Init => Ledger!Init
  <2> SUFFICES ASSUME Init PROVE Ledger!Init
    OBVIOUS
  <2>1. Held = {}
    <3> SUFFICES ASSUME NEW plate \in Plate, NEW s \in Spots PROVE s \notin Matches(plate)
      BY DEF Held, Matches
    <3>1. plate \in Nat /\ plate > 0 /\ number[s] = 0
      BY PlatesArePositive DEF Init
    <3> QED
      BY <3>1, SMT DEF Matches
  <2> QED
    BY <2>1 DEF Ledger!Init
<1>2. TypeOK /\ KeypadInv /\ [Next]_vars => [Ledger!Next]_(Ledger!ledgerVars)
  <2> SUFFICES ASSUME TypeOK, KeypadInv, [Next]_vars
               PROVE  Ledger!Next \/ UNCHANGED Ledger!ledgerVars
    OBVIOUS
  <2>1. CASE UNCHANGED number
    BY <2>1, Invisible
  <2>2. CASE CancelKey \/ PickUpKey
    BY <2>2, LeavingSettles
  <2>3. CASE CheckInKey
    BY <2>3, CheckInArrives
  <2>4. ASSUME NEW g \in Grids, Reserve(<<lot, g>>) \/ CheckIn(<<lot, g>>)
        PROVE  Ledger!Next
    <3>1. <<lot, g>> \in Spots
      BY <2>4 DEF Reserve, CheckIn, KeypadInv, LotIsChosen, Spots
    <3> QED
      BY <2>4, <3>1, TakingTakes
  <2>5. ASSUME \/ \E d \in 0..9 : DigitKey(d)
               \/ HashKey \/ ExitKey \/ AnyKey \/ UNCHANGED vars
               \/ \E c \in {"reserve", "check-in"} : ChooseKey(c)
               \/ \E l \in Lots : LotKey(l)
               \/ \E g \in Grids : GridTaken(<<lot, g>>)
        PROVE  UNCHANGED number
    BY <2>5 DEF DigitKey, HashKey, ExitKey, AnyKey, vars, ChooseKey, LotKey, GridTaken, gridVars
  <2> QED
    BY <2>1, <2>2, <2>3, <2>4, <2>5 DEF Next
<1> QED
  BY <1>1, <1>2, InitKeypad, NextKeypad, PTL DEF Spec, ImplementsLedger, Ledger!Spec
=============================================================================
