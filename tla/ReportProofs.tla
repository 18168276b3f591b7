---------------------------- MODULE ReportProofs ----------------------------
(***************************************************************************)
(* Proofs about the report thread of homework 2: what it writes while the  *)
(* server thread changes the records under it.                             *)
(***************************************************************************)
EXTENDS ParkingProofs

-----------------------------------------------------------------------------
(* The records, as the report thread finds them in the map *)

(* What the copy and the map have in common between the two stores of a    *)
(* record, and between the charging and the giving up of one.              *)
HalfStored ==
    pc \in {"store", "settle"} =>
        LET id == currentVehicle.first IN
        /\ id \in DOMAIN vehList
        /\ currentVehicle.second.lot = vehList[id].lot
        /\ pc = "store" => /\ currentVehicle.second.state # "INIT"
                           /\ vehList[id].state # "INIT"
        /\ pc = "settle" => currentVehicle.second.state = "INIT"

RecordedLots ==
    \A v \in DOMAIN vehList : vehList[v].state # "INIT" => vehList[v].lot \in Lots

RecordInv == HalfStored /\ RecordedLots

(* What a step of the server thread may do to the records: a lot that      *)
(* exists stays one that exists, and a vehicle gives up its grid only by   *)
(* paying.                                                                 *)
Effect ==
    /\ RecordInv'
    /\ \A v \in DOMAIN vehList :
         /\ v \in DOMAIN vehList'
         /\ vehList[v].lot \in Lots => vehList'[v].lot \in Lots
    /\ \A v \in Holding : v \in Holding' \/ (balance' # balance /\ v = currentVehicle.first)

(* A vehicle that holds a grid is found holding it in the map.             *)
LEMMA HoldingRecorded ==
    ASSUME RecordInv, NEW v \in Holding
    PROVE  v \in DOMAIN vehList /\ vehList[v].state # "INIT"
<1>1. CASE pc \in {"store", "settle"}
  <2>1. Registry = Stored(currentVehicle.first, currentVehicle.second)
    BY <1>1 DEF Registry
  <2>2. CASE v = currentVehicle.first
    <3>1. Registry[v] = currentVehicle.second
      BY <2>1, <2>2 DEF Stored
    <3> QED
      BY <1>1, <2>2, <3>1 DEF RecordInv, HalfStored, Holding
  <2>3. CASE v # currentVehicle.first
    BY <2>1, <2>3 DEF Holding, Stored
  <2> QED
    BY <2>2, <2>3
<1>2. CASE pc \notin {"store", "settle"}
  BY <1>2 DEF Holding, Registry
<1> QED
  BY <1>1, <1>2

LEMMA QuietEffect ==
    ASSUME RecordInv, UNCHANGED <<vehList, currentVehicle>>,
           pc \in {"top", "loop"}, pc' \in {"top", "loop"}
    PROVE  Effect
<1>1. Holding' = Holding
  BY SameRecords
<1>2. RecordInv'
  BY DEF RecordInv, HalfStored, RecordedLots, Lots
<1> QED
  BY <1>1, <1>2 DEF Effect, Lots

LEMMA SelectFreeEffect ==
    ASSUME TypeOK, RecordInv, NEW n, NEW residue, SelectFree(n, residue)
    PROVE  Effect
<1> DEFINE args == Text!Args(Message(n))
           state == IF Text!Word(Message(n)) = "reserve" THEN "RESERVED" ELSE "PARKED"
           spot == <<args[1], args[2]>>
           info == [state |-> state, lot |-> args[1], grid |-> args[2]]
           half == [info EXCEPT !.grid = Lookup(currentVehicle.first).grid]
           id == currentVehicle.first
<1>1. /\ pc = "loop" /\ pc' = "store"
      /\ spot \in Spots
      /\ currentVehicle' = [currentVehicle EXCEPT !.second = info]
      /\ vehList' = Stored(id, half)
  BY DEF SelectFree, InMenu
<1>2. args[1] \in Lots
  BY <1>1 DEF Spots
<1>3. half.state = state /\ half.lot = args[1] /\ state # "INIT"
  OBVIOUS
<1> HIDE DEF args, half, state
<1>4. currentVehicle'.first = id /\ currentVehicle'.second = info
  BY <1>1 DEF TypeOK
<1>5. /\ DOMAIN vehList' = DOMAIN vehList \union {id}
      /\ vehList'[id] = half
      /\ \A v \in DOMAIN vehList : v # id => vehList'[v] = vehList[v]
  BY <1>1 DEF Stored
<1>6. RecordedLots'
  BY <1>2, <1>3, <1>5 DEF RecordInv, RecordedLots, Lots
<1>7. HalfStored'
  BY <1>1, <1>3, <1>4, <1>5 DEF HalfStored
<1>8. Registry = vehList
  BY <1>1 DEF Registry
<1>9. /\ DOMAIN Registry' = DOMAIN vehList \union {id}
      /\ Registry'[id] = info
      /\ \A v \in DOMAIN vehList : v # id => Registry'[v] = vehList[v]
  BY <1>1, <1>4, <1>5 DEF Registry, Stored
<1>10. \A v \in Holding : v \in Holding'
  BY <1>3, <1>8, <1>9 DEF Holding
<1> QED
  BY <1>2, <1>3, <1>5, <1>6, <1>7, <1>10 DEF Effect, RecordInv, Lots

(* The second store finishes the copy; what the ledger sees stays.         *)
LEMMA FinishEffect ==
    ASSUME TypeOK, RecordInv, StoreGrid \/ PaySettle
    PROVE  Effect
<1> DEFINE id == currentVehicle.first
<1>1. /\ pc \in {"store", "settle"} /\ pc' = "top"
      /\ vehList' = Stored(id, currentVehicle.second)
  BY SayState DEF StoreGrid, PaySettle
<1>2. /\ DOMAIN vehList' = DOMAIN vehList /\ id \in DOMAIN vehList
      /\ vehList'[id] = currentVehicle.second
      /\ vehList'[id].lot = vehList[id].lot
      /\ \A v \in DOMAIN vehList : v # id => vehList'[v] = vehList[v]
  BY <1>1 DEF Stored, RecordInv, HalfStored
<1>3. vehList'[id].state # "INIT" => vehList[id].state # "INIT"
  BY <1>1, <1>2 DEF RecordInv, HalfStored
<1>4. RecordInv'
  BY <1>1, <1>2, <1>3 DEF RecordInv, HalfStored, RecordedLots, Lots
<1>5. Registry' = Registry
  BY <1>1 DEF Registry
<1>6. Holding' = Holding
  BY <1>5 DEF Holding
<1> QED
  BY <1>2, <1>4, <1>6 DEF Effect, Lots

LEMMA ReservedCheckInEffect ==
    ASSUME TypeOK, BookingInv, RecordInv, NEW n, ReservedCheckIn(n)
    PROVE  Effect
<1> DEFINE id == currentVehicle.first
           info == [currentVehicle.second EXCEPT !.state = "PARKED"]
<1>1. /\ sysState = "MENU_RESERVED" /\ pc = "loop" /\ pc' = "top"
      /\ vehList' = Stored(id, info)
  BY SayState DEF ReservedCheckIn, InMenu
<1>2. /\ id \in DOMAIN vehList
      /\ currentVehicle.second = vehList[id]
      /\ vehList[id].state = "RESERVED"
      /\ vehList[id] \in VehicleInfo
  BY <1>1 DEF BookingInv, CopyIsCurrent, Menus, TypeOK
<1>3. info.state = "PARKED" /\ info.lot = vehList[id].lot
  BY <1>2 DEF VehicleInfo
<1> HIDE DEF info
<1>4. /\ DOMAIN vehList' = DOMAIN vehList
      /\ vehList'[id] = info
      /\ \A v \in DOMAIN vehList : v # id => vehList'[v] = vehList[v]
  BY <1>1, <1>2 DEF Stored
<1>5. RecordInv'
  BY <1>1, <1>2, <1>3, <1>4 DEF RecordInv, HalfStored, RecordedLots, Lots
<1>6. Registry = vehList /\ Registry' = vehList'
  BY <1>1 DEF Registry
<1>7. \A v \in Holding : v \in Holding'
  BY <1>2, <1>3, <1>4, <1>6 DEF Holding
<1> QED
  BY <1>2, <1>3, <1>4, <1>5, <1>7 DEF Effect, Lots

(* The only step by which a vehicle gives up its grid costs a fee.         *)
LEMMA PayFeeEffect ==
    ASSUME TypeOK, BookingInv, RecordInv, PayFee
    PROVE  Effect
<1> DEFINE id == currentVehicle.first
           info == [currentVehicle.second EXCEPT !.state = "INIT"]
<1>1. /\ sysState = "PAY" /\ pc = "top" /\ pc' = "settle" /\ vehList' = vehList
      /\ currentVehicle'.first = id /\ currentVehicle'.second = info
      /\ balance' = balance + Fee(currentVehicle.second.state)
  BY DEF PayFee, TypeOK
<1>2. /\ id \in DOMAIN vehList
      /\ currentVehicle.second = vehList[id] /\ vehList[id] \in VehicleInfo
      /\ currentVehicle.second.state # "INIT"
  BY <1>1 DEF BookingInv, CopyIsCurrent, TypeOK
<1>3. info.state = "INIT" /\ info.lot = vehList[id].lot
  BY <1>2 DEF VehicleInfo
<1> HIDE DEF info
<1>4. currentVehicle.second.state \in {"RESERVED", "PARKED"}
  BY <1>2 DEF VehicleInfo
<1>5. Fee("RESERVED") = 20 /\ Fee("PARKED") = 30
  BY Zenon DEF Fee
<1>6. balance' # balance
  BY <1>1, <1>4, <1>5 DEF TypeOK
<1>7. RecordInv'
  BY <1>1, <1>2, <1>3 DEF RecordInv, HalfStored, RecordedLots, Lots
<1>8. Registry = vehList /\ Registry' = Stored(id, info)
  BY <1>1 DEF Registry, Stored
<1>9. \A v \in Holding : v # id => v \in Holding'
  BY <1>8 DEF Holding, Stored
<1> QED
  BY <1>1, <1>6, <1>7, <1>9 DEF Effect, Lots

LEMMA ShowWelcomeEffect ==
    ASSUME TypeOK, BookingInv, RecordInv, NEW n, ShowWelcome(n)
    PROVE  Effect
<1> DEFINE id == Text!Number(Message(n))
<1>1. /\ sysState = "WELCOME" /\ pc' = "top"
      /\ vehList' = Stored(id, Lookup(id))
  BY DEF ShowWelcome
<1> HIDE DEF id
<1>2. pc = "top"
  BY <1>1 DEF BookingInv, PointMatchesState, Menus, TypeOK, Point
<1>3. Registry = vehList /\ Registry' = vehList'
  BY <1>1, <1>2 DEF Registry
<1>4. /\ DOMAIN vehList' = DOMAIN vehList \union {id}
      /\ vehList'[id] = Lookup(id)
      /\ \A v \in DOMAIN vehList : vehList'[v] = vehList[v]
  BY <1>1 DEF Stored, Lookup
<1>5. id \notin DOMAIN vehList => Lookup(id).state = "INIT"
  BY DEF Lookup, Blank
<1>6. RecordInv'
  BY <1>1, <1>4, <1>5 DEF RecordInv, HalfStored, RecordedLots, Lots
<1>7. \A v \in Holding : v \in Holding'
  BY <1>3, <1>4 DEF Holding
<1> QED
  BY <1>4, <1>6, <1>7 DEF Effect, Lots

LEMMA ServerEffect == TypeOK /\ BookingInv /\ RecordInv /\ Server => Effect
<1> SUFFICES ASSUME TypeOK, BookingInv, RecordInv, Server
             PROVE  Effect
  OBVIOUS
<1>1. CASE ShowWait \/ EnterMenu \/ HangUp \/ ReadError
  <2>1. UNCHANGED <<vehList, currentVehicle>>
    BY <1>1 DEF ShowWait, EnterMenu, HangUp, ReadError, recordVars
  <2>2. pc \in {"top", "loop"} /\ pc' \in {"top", "loop"}
    BY <1>1, SayState DEF ShowWait, EnterMenu, HangUp, ReadError, Reading, BookingInv,
                          PointMatchesState, TypeOK, Point
  <2> QED
    BY <2>1, <2>2, QuietEffect
<1>2. ASSUME NEW n, NEW s, NEW p \in {"top", "loop"}, Answer(n, s, p) \/ Return(n, s),
             pc = "loop"
      PROVE  Effect
  <2>1. UNCHANGED <<vehList, currentVehicle>> /\ pc' \in {"top", "loop"}
    BY <1>2, SayState DEF Answer, Return, recordVars
  <2> QED
    BY <1>2, <2>1, QuietEffect
<1>3. CASE StoreGrid \/ PayFee \/ PaySettle
  BY <1>3, FinishEffect, PayFeeEffect
<1>4. ASSUME NEW n \in Available, ShowWelcome(n)
      PROVE  Effect
  BY <1>4, ShowWelcomeEffect
<1>5. ASSUME NEW n \in Available, NotReservedCommand(n)
      PROVE  Effect
  <2>1. CASE NotReservedShow(n) \/ NotReservedExit(n) \/ NotReservedInvalid(n)
             \/ NotReservedEmptyLine(n)
    BY <1>2, <2>1
       DEF NotReservedShow, NotReservedExit, NotReservedInvalid, NotReservedEmptyLine, InMenu
  <2>2. ASSUME NEW residue \in HeapResidue, SelectTaken(n, residue)
        PROVE  Effect
    BY <1>2, <2>2 DEF SelectTaken, InMenu
  <2>3. ASSUME NEW residue \in HeapResidue, SelectFree(n, residue)
        PROVE  Effect
    BY <2>3, SelectFreeEffect
  <2> QED
    BY <1>5, <2>1, <2>2, <2>3 DEF NotReservedCommand
<1>6. ASSUME NEW n \in Available, ReservedCommand(n)
      PROVE  Effect
  <2>1. CASE ReservedShow(n) \/ ReservedInvalid(n) \/ ReservedCancel(n) \/ ReservedExit(n)
    BY <1>2, <2>1 DEF ReservedShow, ReservedInvalid, ReservedCancel, ReservedExit, InMenu
  <2>2. CASE ReservedCheckIn(n)
    BY <2>2, ReservedCheckInEffect
  <2> QED
    BY <1>6, <2>1, <2>2 DEF ReservedCommand
<1>7. ASSUME NEW n \in Available, ParkedCommand(n)
      PROVE  Effect
  BY <1>2, <1>7 DEF ParkedCommand, ParkedShow, ParkedExit, ParkedInvalid, ParkedPickUp, InMenu
<1> QED
  BY <1>1, <1>3, <1>4, <1>5, <1>6, <1>7 DEF Server

-----------------------------------------------------------------------------
(* The walk *)

(* A non-empty set of plates has a least one: plates are ints.             *)
LEMMA LeastPlate ==
    ASSUME NEW keys \in SUBSET Plate, keys # {}
    PROVE  First(keys) # {}
<1> DEFINE shifted == {k - MinInt : k \in keys}
<1>1. MinInt \in Int
  BY SMT DEF MinInt
<1>2. \A k \in keys : k \in Int /\ k >= MinInt
  BY PlateAssumption, WidthAssumption
<1>3. shifted \subseteq Nat /\ shifted # {}
  BY <1>1, <1>2
<1>4. PICK i \in shifted : \A j \in shifted : i <= j
  BY <1>3, LeastElement
<1>5. PICK k \in keys : i = k - MinInt
  BY <1>4
<1>6. ASSUME NEW other \in keys
      PROVE  k <= other
  <2>1. k - MinInt <= other - MinInt
    BY <1>4, <1>5
  <2> QED
    BY <1>1, <1>2, <2>1
<1>7. k \in First(keys)
  BY <1>6 DEF First
<1> QED
  BY <1>7

(* The row being composed is that of a record with an existing lot.        *)
RowInv ==
    /\ logPc \in {"grid", "lot"} => logAt \in DOMAIN vehList /\ vehList[logAt].lot \in Lots
    /\ ReportedLotsExist

Listed(v) == \E i \in DOMAIN rows : rows[i].plate = v

(* The iterator has yet to come to the record of v.                        *)
Ahead(v) ==
    \/ logPc \in {"test", "grid", "lot"} /\ v >= logAt
    \/ logPc = "next" /\ v > logAt

(* Nobody is lost during the walk: who was present has been listed, or has *)
(* paid, or still holds a grid and is ahead.                               *)
WalkInv ==
    logPc # "idle" /\ race = "no" =>
        \A v \in present :
            v \in paid \/ Listed(v) \/ (v \in Holding /\ Ahead(v))

(* While rows are written, what was charged is what the balance has grown. *)
IncomeInv ==
    /\ logPc = "idle" => charged = 0
    /\ Scanning => charged = balance - before
    /\ logPc = "done" => total = before + charged

WatchInv == RecordInv /\ RowInv /\ WalkInv /\ IncomeInv

LEMMA RowsGrow ==
    ASSUME ReportTypeOK, NEW line, rows' = Append(rows, line)
    PROVE  /\ \A v : Listed(v) \/ line.plate = v => Listed(v)'
           /\ \A i \in DOMAIN rows' : rows'[i] = line \/ \E j \in DOMAIN rows : rows'[i] = rows[j]
<1>1. rows \in Seq([plate : Plate, lot : Int, grid : Int])
  BY DEF ReportTypeOK
<1>2. /\ Len(rows) \in Nat /\ DOMAIN rows = 1..Len(rows)
      /\ DOMAIN rows' = 1..(Len(rows) + 1)
      /\ rows'[Len(rows) + 1] = line
      /\ \A i \in 1..Len(rows) : rows'[i] = rows[i]
  BY <1>1
<1>3. \A i \in DOMAIN rows : i \in DOMAIN rows' /\ rows'[i] = rows[i]
  BY <1>2
<1>4. Len(rows) + 1 \in DOMAIN rows'
  BY <1>2
<1>5. \A i \in DOMAIN rows' : i = Len(rows) + 1 \/ i \in DOMAIN rows
  BY <1>2
<1>6. \A v : Listed(v) \/ line.plate = v => Listed(v)'
  BY <1>2, <1>3, <1>4 DEF Listed
<1> QED
  BY <1>2, <1>3, <1>5, <1>6

-----------------------------------------------------------------------------
(* Each thread keeps the invariant *)

LEMMA InitWatch == Init => WatchInv
<1> SUFFICES ASSUME Init PROVE WatchInv
  OBVIOUS
<1>1. RecordInv
  BY DEF Init, ServerInit, RecordInv, HalfStored, RecordedLots
<1>2. RowInv /\ WalkInv /\ IncomeInv
  BY DEF Init, ReportInit, RowInv, WalkInv, IncomeInv, Scanning, ReportedLotsExist
<1> QED
  BY <1>1, <1>2 DEF WatchInv

(* Whoever pays while the report is written is noted in paid.              *)
LEMMA ServerWatch ==
    ASSUME TypeOK, ReportTypeOK, IteratorValid, BookingInv, WatchInv,
           Server, Watched
    PROVE  WatchInv'
<1>1. Effect
  BY ServerEffect DEF WatchInv
<1>2. RecordInv'
  BY <1>1 DEF Effect
<1>3. UNCHANGED <<logPc, logAt, logGrid, rows, total, present, before>>
  BY DEF Watched
<1>4. RowInv'
  BY <1>1, <1>3 DEF WatchInv, RowInv, IteratorValid, ReportedLotsExist, Effect, Lots
<1>5. WalkInv'
  <2> SUFFICES ASSUME logPc # "idle", race' = "no", NEW v \in present
               PROVE  v \in paid' \/ Listed(v)' \/ (v \in Holding' /\ Ahead(v)')
    BY <1>3 DEF WalkInv, Listed, Ahead
  <2>1. race = "no" /\ paid \subseteq paid'
    BY DEF Watched
  <2>2. CASE v \in paid \/ Listed(v)
    BY <1>3, <2>1, <2>2 DEF Listed
  <2>3. CASE v \in Holding /\ Ahead(v)
    <3>1. Ahead(v)' /\ Scanning
      BY <1>3, <2>3 DEF Ahead, Scanning
    <3>2. v \in Holding' \/ (balance' # balance /\ v = currentVehicle.first)
      BY <1>1, <2>3 DEF Effect
    <3> QED
      BY <3>1, <3>2 DEF Watched
  <2> QED
    BY <2>1, <2>2, <2>3 DEF WatchInv, WalkInv
<1>6. IncomeInv'
  <2>1. balance \in Int /\ balance' \in Int /\ before \in Int /\ charged \in Int
    BY ServerType DEF TypeOK, ReportTypeOK
  <2>2. charged' = IF Scanning THEN charged + (balance' - balance) ELSE charged
    BY DEF Watched
  <2>3. Scanning' = Scanning
    BY <1>3 DEF Scanning
  <2>4. CASE Scanning
    <3>1. charged = balance - before /\ charged' = charged + (balance' - balance)
      BY <2>2, <2>4 DEF WatchInv, IncomeInv
    <3>2. charged' = balance' - before
      BY <2>1, <3>1
    <3> QED
      BY <1>3, <2>4, <3>2 DEF IncomeInv, Scanning
  <2>5. CASE ~Scanning
    BY <1>3, <2>2, <2>3, <2>5 DEF WatchInv, IncomeInv
  <2> QED
    BY <2>4, <2>5
<1> QED
  BY <1>2, <1>4, <1>5, <1>6 DEF WatchInv

(* The walk begins before every vehicle that holds a grid, and from a      *)
(* listed plate it steps to the next one of the map.                       *)
LEMMA LoggerWatch ==
    ASSUME TypeOK, ReportTypeOK, IteratorValid, WatchInv, Logger
    PROVE  WatchInv'
<1>1. UNCHANGED <<sysState, pc, currentVehicle, vehList, balance>>
  BY DEF Logger, serverVars, recordVars
<1>2. Holding' = Holding
  BY <1>1 DEF Holding, Registry, Stored
<1>3. RecordInv'
  BY <1>1 DEF WatchInv, RecordInv, HalfStored, RecordedLots, Lots
<1>4. \A v \in Holding : v \in DOMAIN vehList /\ vehList[v].state # "INIT"
  BY HoldingRecorded DEF WatchInv
<1>5. DOMAIN vehList \subseteq Int /\ logAt \in Int
  BY PlateAssumption DEF TypeOK, ReportTypeOK
<1>6. ASSUME UNCHANGED rows, logPc' \notin {"grid", "lot"}
      PROVE  RowInv'
  BY <1>6 DEF WatchInv, RowInv, ReportedLotsExist, Lots
<1>7. ASSUME UNCHANGED incomeVars, Scanning, Scanning'
      PROVE  IncomeInv'
  BY <1>1, <1>7 DEF WatchInv, IncomeInv, Scanning, incomeVars
<1>8. CASE LogStart
  <2> DEFINE keys == DOMAIN vehList
  <2>1. MoveTo(First(keys)) /\ present' = Holding
    BY <1>8 DEF LogStart
  <2>2. First(keys) = {} => keys = {}
    BY LeastPlate DEF TypeOK
  <2>3. logPc' \in {"test", "total"}
    BY <2>1 DEF MoveTo
  <2>4. RowInv'
    BY <1>6, <1>8, <2>3 DEF LogStart
  <2>5. \A v \in Holding : Ahead(v)'
    BY <1>4, <1>5, <2>1, <2>2 DEF MoveTo, First, Ahead
  <2>6. WalkInv'
    BY <1>2, <2>1, <2>5 DEF WalkInv
  <2>7. IncomeInv'
    BY <1>1, <1>8, <2>3 DEF LogStart, WatchInv, IncomeInv, Scanning, TypeOK
  <2> QED
    BY <1>3, <2>4, <2>6, <2>7 DEF WatchInv
<1>9. CASE LogTest
  <2>1. logPc = "test" /\ UNCHANGED <<logAt, rows, race, present, incomeVars>>
    BY <1>9 DEF LogTest
  <2>2. vehList[logAt].state # "INIT" => logPc' = "grid" /\ vehList[logAt].lot \in Lots
    BY <1>9 DEF LogTest, IteratorValid, WatchInv, RecordInv, RecordedLots
  <2>3. vehList[logAt].state = "INIT" => logPc' = "next"
    BY <1>9 DEF LogTest
  <2>4. RowInv'
    BY <1>1, <2>1, <2>2, <2>3 DEF WatchInv, RowInv, ReportedLotsExist, IteratorValid, Lots
  <2>5. \A v \in Holding : Ahead(v) => Ahead(v)'
    BY <1>4, <1>5, <2>1, <2>2, <2>3 DEF Ahead
  <2>6. WalkInv'
    BY <1>2, <2>1, <2>5 DEF WalkInv, WatchInv, Listed, incomeVars
  <2>7. IncomeInv'
    BY <1>7, <2>1, <2>2, <2>3 DEF Scanning
  <2> QED
    BY <1>3, <2>4, <2>6, <2>7 DEF WatchInv
<1>10. CASE LogGrid
  <2>1. /\ logPc = "grid" /\ logPc' = "lot"
        /\ UNCHANGED <<logAt, rows, race, present, incomeVars>>
    BY <1>10 DEF LogGrid
  <2>2. RowInv'
    BY <1>1, <2>1 DEF WatchInv, RowInv, ReportedLotsExist, Lots
  <2>3. WalkInv'
    BY <1>2, <2>1 DEF WalkInv, WatchInv, Listed, Ahead, incomeVars
  <2>4. IncomeInv'
    BY <1>7, <2>1 DEF Scanning
  <2> QED
    BY <1>3, <2>2, <2>3, <2>4 DEF WatchInv
<1>11. CASE LogLot
  <2> DEFINE line == [plate |-> logAt, lot |-> vehList[logAt].lot, grid |-> logGrid]
  <2>1. /\ logPc = "lot" /\ logPc' = "next" /\ rows' = Append(rows, line)
        /\ UNCHANGED <<logAt, race, present, incomeVars>>
    BY <1>11 DEF LogLot
  <2>2. line.plate = logAt /\ line.lot \in Lots
    BY <2>1 DEF WatchInv, RowInv
  <2> HIDE DEF line
  <2>3. /\ \A v : Listed(v) \/ line.plate = v => Listed(v)'
        /\ \A i \in DOMAIN rows' : rows'[i] = line \/ \E j \in DOMAIN rows : rows'[i] = rows[j]
    BY <2>1, RowsGrow
  <2>4. RowInv'
    BY <2>1, <2>2, <2>3 DEF WatchInv, RowInv, ReportedLotsExist, Lots
  <2>5. \A v \in Holding : Ahead(v) => v = logAt \/ Ahead(v)'
    BY <1>4, <1>5, <2>1 DEF Ahead
  <2>6. WalkInv'
    BY <1>2, <2>1, <2>2, <2>3, <2>5 DEF WalkInv, WatchInv, incomeVars
  <2>7. IncomeInv'
    BY <1>7, <2>1 DEF Scanning
  <2> QED
    BY <1>3, <2>4, <2>6, <2>7 DEF WatchInv
<1>12. CASE LogNext
  <2> DEFINE keys == {k \in DOMAIN vehList : k > logAt}
  <2>1. logPc = "next" /\ UNCHANGED <<rows, present, incomeVars>>
    BY <1>12 DEF LogNext
  <2>2. logPc' \in {"test", "total"}
    BY <1>12 DEF LogNext, MoveTo
  <2>3. RowInv'
    BY <1>6, <2>1, <2>2
  <2>4. WalkInv'
    <3> SUFFICES ASSUME race' = "no" PROVE WalkInv'
      BY DEF WalkInv
    <3>1. race = "no" /\ MoveTo(First(keys))
      BY <1>12 DEF LogNext, After
    <3>2. First(keys) = {} => keys = {}
      BY LeastPlate DEF TypeOK
    <3>3. \A v \in Holding : Ahead(v) => v \in keys
      BY <1>4, <2>1 DEF Ahead
    <3>4. \A v \in Holding : Ahead(v) => Ahead(v)'
      BY <1>5, <3>1, <3>2, <3>3 DEF MoveTo, First, Ahead
    <3> QED
      BY <1>2, <2>1, <3>1, <3>4 DEF WalkInv, WatchInv, Listed, incomeVars
  <2>5. IncomeInv'
    BY <1>7, <2>1, <2>2 DEF Scanning
  <2> QED
    BY <1>3, <2>3, <2>4, <2>5 DEF WatchInv
<1>13. CASE LogTotal
  <2>1. /\ logPc = "total" /\ logPc' = "done" /\ total' = balance
        /\ UNCHANGED <<rows, race, present, incomeVars>>
    BY <1>13 DEF LogTotal
  <2>2. RowInv'
    BY <1>6, <2>1
  <2>3. WalkInv'
    BY <1>2, <2>1 DEF WalkInv, WatchInv, Listed, Ahead, incomeVars
  <2>4. IncomeInv'
    BY <2>1 DEF WatchInv, IncomeInv, Scanning, incomeVars, TypeOK, ReportTypeOK
  <2> QED
    BY <1>3, <2>2, <2>3, <2>4 DEF WatchInv
<1> QED
  BY <1>8, <1>9, <1>10, <1>11, <1>12, <1>13 DEF Logger

LEMMA OthersWatch ==
    ASSUME WatchInv, UNCHANGED <<sysState, pc, currentVehicle, vehList, balance, reportVars>>
    PROVE  WatchInv'
<1>1. Holding' = Holding
  BY DEF Holding, Registry, Stored
<1>2. RecordInv'
  BY DEF WatchInv, RecordInv, HalfStored, RecordedLots, Lots
<1>3. RowInv'
  BY DEF WatchInv, RowInv, ReportedLotsExist, Lots, reportVars
<1>4. WalkInv'
  BY <1>1 DEF WatchInv, WalkInv, Listed, Ahead, reportVars, incomeVars
<1>5. IncomeInv'
  BY DEF WatchInv, IncomeInv, Scanning, reportVars, incomeVars
<1> QED
  BY <1>2, <1>3, <1>4, <1>5 DEF WatchInv

LEMMA NextWatch ==
    SystemTypeOK /\ IteratorValid /\ BookingInv /\ WatchInv /\ [Next]_vars => WatchInv'
<1> SUFFICES ASSUME SystemTypeOK, IteratorValid, BookingInv, WatchInv, [Next]_vars
             PROVE  WatchInv'
  OBVIOUS
<1>1. TypeOK /\ ReportTypeOK
  BY DEF SystemTypeOK
<1>2. CASE ServerThread
  BY <1>1, <1>2, ServerWatch DEF ServerThread
<1>3. CASE ReportThread
  BY <1>1, <1>3, LoggerWatch DEF ReportThread
<1>4. CASE Clients
  BY <1>4, OthersWatch DEF Clients, recordVars
<1>5. CASE UNCHANGED vars
  BY <1>5, OthersWatch DEF vars, serverVars, recordVars
<1> QED
  BY <1>2, <1>3, <1>4, <1>5 DEF Next

-----------------------------------------------------------------------------
(* Whatever the server thread does to the map under the iterator, short of *)
(* an insertion in the middle of a step of it, the report misses nobody: a *)
(* vehicle that held a grid when logStatus began is listed, or its fee was *)
(* charged while the report was written.  The total has all those fees in  *)
(* any case, and no row names a lot that does not exist.                   *)
THEOREM Reports == Spec => [](ReportIsComplete /\ ReportedLotsExist)
<1>1. WatchInv => ReportIsComplete /\ ReportedLotsExist
  BY DEF WatchInv, RowInv, WalkInv, IncomeInv, ReportIsComplete, Listed, Ahead
<1>2. TypeInv => SystemTypeOK /\ IteratorValid /\ TypeOK
  BY DEF TypeInv, SystemTypeOK
<1> QED
  BY <1>1, <1>2, InitTypes, NextTypes, InitBookings, NextBookings, InitWatch, NextWatch,
     PTL DEF Spec
=============================================================================
