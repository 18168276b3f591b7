---------------------------- MODULE ParkingProofs ---------------------------
(***************************************************************************)
(* Proofs about homework 2, for any clients, plates, lines, garage size    *)
(* and heap residue.                                                       *)
(***************************************************************************)
EXTENDS ParkingSystem, SequenceTheorems, WellFoundedInduction, TLAPS

-----------------------------------------------------------------------------
(* Lemmas about the operators *)

LEMMA LeastElement ==
    ASSUME NEW S, S \subseteq Nat, S # {}
    PROVE  \E i \in S : \A j \in S : i <= j
<1>1. PICK i \in S : \A j \in S : <<j, i>> \notin OpToRel(<, Nat)
  BY WFMin, NatLessThanWellFounded, Zenon
<1>2. \A j \in S : ~ (j < i)
  BY <1>1, Zenon DEF OpToRel
<1>3. \A j \in S : i <= j
  BY <1>2
<1> QED
  BY <1>3

LEMMA NumberIsPlate ==
    ASSUME NEW msg \in Seq(Line)
    PROVE  Text!Number(msg) \in Plate
<1> DEFINE filled == {i \in DOMAIN msg : msg[i].word # ""}
<1>0. msg \in [1..Len(msg) -> Line] /\ DOMAIN msg = 1..Len(msg) /\ Len(msg) \in Nat
  BY LenProperties
<1>1. CASE filled = {}
  BY <1>1, PlateAssumption DEF Text!Number
<1>2. CASE filled # {}
  <2>0. \A i \in 1..Len(msg) : i \in Nat
    BY <1>0
  <2>1. filled \subseteq Nat
    BY <1>0, <2>0, Zenon DEF filled
  <2>2. \E i \in filled : \A j \in filled : i <= j
    BY <1>2, <2>1, LeastElement, Zenon
  <2>3. (CHOOSE i \in filled : \A j \in filled : i <= j) \in filled
    BY <2>2, Zenon
  <2>4. \A i \in filled : msg[i] \in Line
    BY <1>0 DEF filled
  <2>5. \A i \in filled : msg[i].num \in Plate
    BY <2>4, PlateAssumption
  <2> QED
    BY <1>2, <2>3, <2>5 DEF Text!Number
<1> QED
  BY <1>1, <1>2

LEMMA MessageIsLines ==
    ASSUME TypeOK, NEW n \in Available
    PROVE  Message(n) \in Seq(Line)
<1>1. conn \in Client /\ inbox[conn] \in Seq(Line) /\ n \in 1..Len(inbox[conn])
  BY DEF TypeOK, Available
<1>2. \A i \in 1..n : inbox[conn][i] \in Line
  BY <1>1, LenProperties
<1> QED
  BY <1>1, <1>2, SubSeqProperties DEF Message

LEMMA ConsumeType ==
    ASSUME TypeOK, NEW n \in Available, Consume(n)
    PROVE  inbox' \in [Client -> Seq(Line)]
<1> DEFINE rest == SubSeq(inbox[conn], n + 1, Len(inbox[conn]))
<1>1. conn \in Client /\ inbox[conn] \in Seq(Line) /\ n \in 1..Len(inbox[conn])
  BY DEF TypeOK, Available
<1>2. Len(inbox[conn]) \in Nat /\ \A i \in 1..Len(inbox[conn]) : inbox[conn][i] \in Line
  BY <1>1, LenProperties
<1>3. \A i \in (n + 1)..Len(inbox[conn]) : inbox[conn][i] \in Line
  BY <1>1, <1>2
<1>4. rest \in Seq(Line)
  BY <1>1, <1>2, <1>3, SubSeqProperties
<1>5. inbox' = [inbox EXCEPT ![conn] = rest]
  BY DEF Consume
<1> QED
  BY <1>4, <1>5 DEF TypeOK

LEMMA BlankType == Blank \in VehicleInfo
BY DEF Blank, VehicleInfo

LEMMA LookupType ==
    ASSUME TypeOK, NEW id
    PROVE  Lookup(id) \in VehicleInfo
BY BlankType DEF Lookup, TypeOK

LEMMA StoredType ==
    ASSUME TypeOK, NEW id \in Plate, NEW info \in VehicleInfo,
           vehList' = Stored(id, info)
    PROVE  /\ DOMAIN vehList' \subseteq Plate
           /\ vehList' \in [DOMAIN vehList' -> VehicleInfo]
           /\ DOMAIN vehList' = DOMAIN vehList \union {id}
BY DEF Stored, TypeOK

LEMMA FeeType == \A state : Fee(state) \in Nat /\ AnnouncedFee(state) \in Nat
BY DEF Fee, AnnouncedFee

LEMMA MenuForType == \A state : MenuFor(state) \in Menus
BY DEF MenuFor, Menus

LEMMA SayType ==
    ASSUME TypeOK, NEW s \in SysState, NEW p \in Point, Say(s, p)
    PROVE  /\ sysState' \in SysState
           /\ pc' \in Point
           /\ link' \in [Client -> LinkState]
           /\ unread' \in [Client -> BOOLEAN]
BY DEF Say, TypeOK, SysState, Point, LinkState

-----------------------------------------------------------------------------
(* Type correctness *)

LEMMA AnswerType ==
    ASSUME TypeOK, NEW n \in Available, NEW s \in SysState, NEW p \in Point,
           Answer(n, s, p)
    PROVE  TypeOK'
<1>1. inbox' \in [Client -> Seq(Line)]
  BY ConsumeType DEF Answer
<1>2. /\ sysState' \in SysState /\ pc' \in Point
      /\ link' \in [Client -> LinkState] /\ unread' \in [Client -> BOOLEAN]
  BY SayType DEF Answer
<1> QED
  BY <1>1, <1>2 DEF TypeOK, Answer, recordVars

LEMMA ReturnType ==
    ASSUME TypeOK, NEW n \in Available, NEW s \in SysState, Return(n, s)
    PROVE  TypeOK'
<1>1. inbox' \in [Client -> Seq(Line)]
  BY ConsumeType DEF Return
<1> QED
  BY <1>1 DEF TypeOK, Return, recordVars, Point

LEMMA CommandType ==
    ASSUME TypeOK, NEW n \in Available,
           NotReservedCommand(n) \/ ReservedCommand(n) \/ ParkedCommand(n)
    PROVE  TypeOK'
<1> USE DEF SysState, Point, Menus
<1>1. CASE NotReservedShow(n) \/ ReservedShow(n) \/ ParkedShow(n)
  BY <1>1, AnswerType DEF NotReservedShow, ReservedShow, ParkedShow
<1>2. CASE NotReservedInvalid(n) \/ ReservedInvalid(n) \/ ParkedInvalid(n)
  BY <1>2, AnswerType DEF NotReservedInvalid, ReservedInvalid, ParkedInvalid
<1>3. CASE NotReservedExit(n) \/ ParkedExit(n)
  BY <1>3, AnswerType DEF NotReservedExit, ParkedExit
<1>4. CASE NotReservedEmptyLine(n) \/ ReservedCancel(n) \/ ReservedExit(n) \/ ParkedPickUp(n)
  BY <1>4, ReturnType
     DEF NotReservedEmptyLine, ReservedCancel, ReservedExit, ParkedPickUp
<1>5. CASE \E residue \in HeapResidue : SelectTaken(n, residue)
  BY <1>5, AnswerType DEF SelectTaken
<1>6. CASE \E residue \in HeapResidue : SelectFree(n, residue)
  <2> DEFINE args == Text!Args(Message(n))
             state == IF Text!Word(Message(n)) = "reserve" THEN "RESERVED" ELSE "PARKED"
             info == [state |-> state, lot |-> args[1], grid |-> args[2]]
             half == [info EXCEPT !.grid = Lookup(currentVehicle.first).grid]
  <2>1. /\ Consume(n)
        /\ <<args[1], args[2]>> \in Spots
        /\ currentVehicle' = [currentVehicle EXCEPT !.second = info]
        /\ vehList' = Stored(currentVehicle.first, half)
        /\ pc' = "store"
        /\ UNCHANGED <<sysState, conn, balance, billed, backlog, link, unread>>
    BY <1>6 DEF SelectFree
  <2> HIDE DEF args
  <2>2. args[1] \in Int /\ args[2] \in Int
    BY <2>1, SizeAssumption DEF Spots, Lots, Grids
  <2>3. info \in VehicleInfo
    BY <2>2 DEF VehicleInfo
  <2>4. half = [state |-> state, lot |-> args[1], grid |-> Lookup(currentVehicle.first).grid]
    OBVIOUS
  <2>5. half \in VehicleInfo
    BY <2>2, <2>4, LookupType DEF VehicleInfo
  <2>6. currentVehicle' \in [first : Plate, second : VehicleInfo]
    BY <2>1, <2>3 DEF TypeOK
  <2>7. DOMAIN vehList' \subseteq Plate /\ vehList' \in [DOMAIN vehList' -> VehicleInfo]
    BY <2>1, <2>5, StoredType DEF TypeOK
  <2>8. inbox' \in [Client -> Seq(Line)]
    BY <2>1, ConsumeType
  <2> QED
    BY <2>1, <2>6, <2>7, <2>8 DEF TypeOK
<1>7. CASE ReservedCheckIn(n)
  <2> DEFINE info == [currentVehicle.second EXCEPT !.state = "PARKED"]
  <2>1. info \in VehicleInfo
    BY DEF TypeOK, VehicleInfo
  <2>2. currentVehicle' \in [first : Plate, second : VehicleInfo]
    BY <1>7, <2>1 DEF TypeOK, ReservedCheckIn
  <2>3. DOMAIN vehList' \subseteq Plate /\ vehList' \in [DOMAIN vehList' -> VehicleInfo]
    BY <1>7, <2>1, StoredType DEF TypeOK, ReservedCheckIn
  <2>4. inbox' \in [Client -> Seq(Line)]
    BY <1>7, ConsumeType DEF ReservedCheckIn
  <2>5. /\ sysState' \in SysState /\ pc' \in Point
        /\ link' \in [Client -> LinkState] /\ unread' \in [Client -> BOOLEAN]
    BY <1>7, SayType DEF ReservedCheckIn
  <2> QED
    BY <1>7, <2>2, <2>3, <2>4, <2>5 DEF TypeOK, ReservedCheckIn
<1> QED
  BY <1>1, <1>2, <1>3, <1>4, <1>5, <1>6, <1>7
     DEF NotReservedCommand, ReservedCommand, ParkedCommand

LEMMA ServerType == TypeOK /\ Server => TypeOK'
<1> SUFFICES ASSUME TypeOK, Server
             PROVE  TypeOK'
  OBVIOUS
<1> USE DEF SysState, Point, Menus
<1>1. CASE ShowWait
  <2>1. backlog \in Seq(Client) /\ backlog # <<>>
    BY <1>1 DEF ShowWait, TypeOK
  <2>2. Head(backlog) \in Client /\ Tail(backlog) \in Seq(Client)
    BY <2>1, HeadTailProperties
  <2> QED
    BY <1>1, <2>2 DEF ShowWait, TypeOK, recordVars
<1>2. CASE EnterMenu
  <2>1. /\ sysState' \in SysState /\ pc' \in Point
        /\ link' \in [Client -> LinkState] /\ unread' \in [Client -> BOOLEAN]
    BY <1>2, SayType DEF EnterMenu
  <2> QED
    BY <1>2, <2>1 DEF EnterMenu, TypeOK, recordVars
<1>3. CASE HangUp
  BY <1>3 DEF HangUp, TypeOK, recordVars, LinkState
<1>4. CASE ReadError
  BY <1>4 DEF ReadError, TypeOK, recordVars, socketVars
<1>5. CASE StoreGrid
  <2>1. /\ sysState' \in SysState /\ pc' \in Point
        /\ link' \in [Client -> LinkState] /\ unread' \in [Client -> BOOLEAN]
    BY <1>5, SayType DEF StoreGrid
  <2>2. DOMAIN vehList' \subseteq Plate /\ vehList' \in [DOMAIN vehList' -> VehicleInfo]
    BY <1>5, StoredType DEF StoreGrid, TypeOK
  <2> QED
    BY <1>5, <2>1, <2>2 DEF StoreGrid, TypeOK
<1>6. CASE PayFee
  <2>1. currentVehicle' \in [first : Plate, second : VehicleInfo]
    BY <1>6 DEF PayFee, TypeOK, VehicleInfo
  <2> QED
    BY <1>6, <2>1, FeeType DEF PayFee, TypeOK, socketVars
<1>7. CASE PaySettle
  <2>1. /\ sysState' \in SysState /\ pc' \in Point
        /\ link' \in [Client -> LinkState] /\ unread' \in [Client -> BOOLEAN]
    BY <1>7, SayType DEF PaySettle
  <2>2. DOMAIN vehList' \subseteq Plate /\ vehList' \in [DOMAIN vehList' -> VehicleInfo]
    BY <1>7, StoredType DEF PaySettle, TypeOK
  <2> QED
    BY <1>7, <2>1, <2>2 DEF PaySettle, TypeOK
<1>8. ASSUME NEW n \in Available, ShowWelcome(n)
      PROVE  TypeOK'
  <2> DEFINE id == Text!Number(Message(n))
  <2>1. id \in Plate
    BY MessageIsLines, NumberIsPlate
  <2> HIDE DEF id
  <2>2. /\ Consume(n)
        /\ currentVehicle' = [first |-> id, second |-> Lookup(id)]
        /\ vehList' = Stored(id, Lookup(id))
        /\ sysState' = MenuFor(Lookup(id).state) /\ pc' = "top"
        /\ UNCHANGED <<conn, balance, billed, backlog, link, unread>>
    BY <1>8 DEF ShowWelcome, id
  <2>3. Lookup(id) \in VehicleInfo
    BY LookupType
  <2>4. DOMAIN vehList' \subseteq Plate /\ vehList' \in [DOMAIN vehList' -> VehicleInfo]
    BY <2>1, <2>2, <2>3, StoredType
  <2>5. inbox' \in [Client -> Seq(Line)]
    BY <2>2, ConsumeType
  <2>6. sysState' \in SysState
    BY <2>2, MenuForType
  <2> QED
    BY <2>1, <2>2, <2>3, <2>4, <2>5, <2>6 DEF TypeOK
<1>9. ASSUME NEW n \in Available,
             NotReservedCommand(n) \/ ReservedCommand(n) \/ ParkedCommand(n)
      PROVE  TypeOK'
  BY <1>9, CommandType
<1> QED
  BY <1>1, <1>2, <1>3, <1>4, <1>5, <1>6, <1>7, <1>8, <1>9 DEF Server

LEMMA ClientsType == TypeOK /\ ClientTypeOK /\ Clients => TypeOK' /\ ClientTypeOK'
<1> SUFFICES ASSUME TypeOK, ClientTypeOK, Clients
             PROVE  TypeOK' /\ ClientTypeOK'
  OBVIOUS
<1>1. UNCHANGED <<sysState, pc, conn, currentVehicle, vehList, balance, billed>>
  BY DEF Clients, recordVars
<1>2. ASSUME NEW c \in Client, Connect(c)
      PROVE  TypeOK' /\ ClientTypeOK'
  <2>1. backlog \in Seq(Client)
    BY DEF TypeOK
  <2>2. Append(backlog, c) \in Seq(Client)
    BY <2>1, AppendProperties
  <2> QED
    BY <1>1, <1>2, <2>2 DEF Connect, TypeOK, ClientTypeOK, LinkState
<1>3. ASSUME NEW c \in Client, NEW line \in Line, Send(c, line)
      PROVE  TypeOK' /\ ClientTypeOK'
  <2>1. inbox[c] \in Seq(Line)
    BY DEF TypeOK
  <2>2. Append(inbox[c], line) \in Seq(Line)
    BY <2>1, AppendProperties
  <2> QED
    BY <1>1, <1>3, <2>2 DEF Send, TypeOK, ClientTypeOK
<1>4. ASSUME NEW c \in Client, Receive(c) \/ Close(c)
      PROVE  TypeOK' /\ ClientTypeOK'
  BY <1>1, <1>4 DEF Receive, Close, TypeOK, ClientTypeOK, LinkState
<1> QED
  BY <1>2, <1>3, <1>4 DEF Clients

(* The iterator of the report stands on a record: setVehState never        *)
(* removes one.                                                            *)
IteratorValid ==
    logPc \in {"test", "grid", "lot", "next"} => logAt \in DOMAIN vehList

LEMMA RecordsStay ==
    Server => DOMAIN vehList \subseteq DOMAIN vehList'
BY DEF Server, ShowWait, EnterMenu, HangUp, ReadError, StoreGrid, PayFee, PaySettle,
       ShowWelcome, NotReservedCommand, ReservedCommand, ParkedCommand,
       NotReservedShow, NotReservedExit, NotReservedInvalid, NotReservedEmptyLine,
       SelectTaken, SelectFree, ReservedShow, ReservedCancel, ReservedCheckIn,
       ReservedExit, ReservedInvalid, ParkedShow, ParkedPickUp, ParkedExit,
       ParkedInvalid, Answer, Return, Stored, recordVars

LEMMA ReportType ==
    TypeOK /\ ReportTypeOK /\ IteratorValid /\ Logger => ReportTypeOK' /\ IteratorValid'
<1> SUFFICES ASSUME TypeOK, ReportTypeOK, IteratorValid, Logger
             PROVE  ReportTypeOK' /\ IteratorValid'
  OBVIOUS
<1>0. UNCHANGED vehList
  BY DEF Logger, serverVars, recordVars
<1>1. DOMAIN vehList \subseteq Plate /\ vehList \in [DOMAIN vehList -> VehicleInfo]
  BY DEF TypeOK
<1>2. ASSUME NEW keys \in SUBSET DOMAIN vehList, MoveTo(keys),
             UNCHANGED <<logGrid, rows, total, paid, charged>>,
             race' \in {"no", "now", "was"}, present' \subseteq Plate, before' \in Nat
      PROVE  ReportTypeOK' /\ IteratorValid'
  BY <1>0, <1>1, <1>2 DEF MoveTo, ReportTypeOK, IteratorValid
<1>3. CASE LogStart
  <2>1. Holding \subseteq Plate
    BY <1>1 DEF Holding, Registry, Stored, TypeOK
  <2> QED
    BY <1>2, <1>3, <2>1 DEF LogStart, First, ReportTypeOK, TypeOK
<1>4. CASE LogTest
  BY <1>0, <1>4 DEF LogTest, incomeVars, ReportTypeOK, IteratorValid
<1>5. CASE LogGrid
  BY <1>0, <1>1, <1>5 DEF LogGrid, incomeVars, ReportTypeOK, IteratorValid, VehicleInfo
<1>6. CASE LogLot
  <2> DEFINE line == [plate |-> logAt, lot |-> vehList[logAt].lot, grid |-> logGrid]
             Row == [plate : Plate, lot : Int, grid : Int]
  <2>1. line \in Row
    BY <1>1, <1>6 DEF LogLot, ReportTypeOK, IteratorValid, VehicleInfo
  <2>2. rows \in Seq(Row)
    BY DEF ReportTypeOK
  <2> HIDE DEF line
  <2>3. Append(rows, line) \in Seq(Row)
    BY <2>1, <2>2, AppendProperties
  <2>4. rows' = Append(rows, line)
    BY <1>6 DEF LogLot, line
  <2> QED
    BY <1>0, <1>6, <2>3, <2>4 DEF LogLot, incomeVars, ReportTypeOK, IteratorValid
<1>7. CASE LogNext
  <2>1. After(logAt) \subseteq DOMAIN vehList
    BY DEF After, First
  <2>2. PICK keys \in SUBSET DOMAIN vehList : MoveTo(keys)
    BY <1>7, <2>1 DEF LogNext
  <2> QED
    BY <1>2, <1>7, <2>2 DEF LogNext, incomeVars, ReportTypeOK
<1>8. CASE LogTotal
  BY <1>0, <1>8 DEF LogTotal, incomeVars, ReportTypeOK, IteratorValid, TypeOK
<1> QED
  BY <1>3, <1>4, <1>5, <1>6, <1>7, <1>8 DEF Logger

(* What TypesCorrect rests on.                                             *)
TypeInv == SystemTypeOK /\ IteratorValid

LEMMA InitTypes == Init => TypeInv
<1> SUFFICES ASSUME Init PROVE TypeInv
  OBVIOUS
<1>1. TypeOK
  BY BlankType, PlateAssumption, EmptySeq
     DEF Init, ServerInit, TypeOK, SysState, Point, LinkState
<1>2. ReportTypeOK /\ IteratorValid
  BY PlateAssumption, EmptySeq DEF Init, ReportInit, ReportTypeOK, IteratorValid
<1>3. ClientTypeOK
  BY DEF Init, ClientTypeOK
<1> QED
  BY <1>1, <1>2, <1>3 DEF TypeInv, SystemTypeOK

LEMMA NextTypes == TypeInv /\ [Next]_vars => TypeInv'
<1> SUFFICES ASSUME TypeInv, [Next]_vars
             PROVE  TypeInv'
  OBVIOUS
<1> USE DEF TypeInv, SystemTypeOK
<1>1. CASE ServerThread
  <2>1. TypeOK'
    BY <1>1, ServerType DEF ServerThread
  <2>2. ReportTypeOK'
    <3>1. Watched
      BY <1>1 DEF ServerThread
    <3>2. race' \in {"no", "now", "was"}
      BY <3>1 DEF Watched, ReportTypeOK
    <3>3. paid' \subseteq Plate
      BY <3>1 DEF Watched, ReportTypeOK, TypeOK
    <3>4. charged' \in Int
      <4>1. balance \in Int /\ balance' \in Int /\ charged \in Int
        BY <2>1 DEF TypeOK, ReportTypeOK
      <4> QED
        BY <3>1, <4>1 DEF Watched
    <3> QED
      BY <3>1, <3>2, <3>3, <3>4 DEF Watched, ReportTypeOK
  <2>3. IteratorValid'
    BY <1>1, RecordsStay DEF ServerThread, Watched, IteratorValid
  <2>4. ClientTypeOK'
    BY <1>1 DEF ServerThread, clientVars, ClientTypeOK
  <2> QED
    BY <2>1, <2>2, <2>3, <2>4
<1>2. CASE ReportThread
  <2>1. ReportTypeOK' /\ IteratorValid'
    BY <1>2, ReportType DEF ReportThread
  <2>2. TypeOK'
    BY <1>2 DEF ReportThread, Logger, serverVars, recordVars, socketVars, TypeOK
  <2>3. ClientTypeOK'
    BY <1>2 DEF ReportThread, clientVars, ClientTypeOK
  <2> QED
    BY <2>1, <2>2, <2>3
<1>3. CASE Clients
  <2>1. TypeOK' /\ ClientTypeOK'
    BY <1>3, ClientsType
  <2>2. ReportTypeOK' /\ IteratorValid'
    BY <1>3 DEF Clients, recordVars, reportVars, incomeVars, ReportTypeOK, IteratorValid
  <2> QED
    BY <2>1, <2>2
<1>4. CASE UNCHANGED vars
  BY <1>4 DEF vars, serverVars, recordVars, socketVars, reportVars, incomeVars, clientVars,
              TypeOK, ReportTypeOK, ClientTypeOK, IteratorValid
<1> QED
  BY <1>1, <1>2, <1>3, <1>4 DEF Next

(* Every variable keeps its type, whatever lines the clients send and      *)
(* however the threads interleave; in particular the map iterator of       *)
(* logStatus never stands on a plate that is not in the map.               *)
THEOREM TypesCorrect == Spec => []SystemTypeOK
<1>1. TypeInv => SystemTypeOK
  BY DEF TypeInv
<1> QED
  BY <1>1, InitTypes, NextTypes, PTL DEF Spec

-----------------------------------------------------------------------------
(* Bookings *)

(* Where in which state function the thread can be.                        *)
PointMatchesState ==
    /\ pc = "loop" => sysState \in Menus
    /\ pc = "store" => sysState = "MENU_NOT_RESERVED"
    /\ pc = "settle" => sysState = "PAY"

(* NoDoubleBooking is not inductive alone: that selectGrid sees every      *)
(* booking in the map needs the copy to be current, and that a check-in    *)
(* from the reserved menu moves nothing needs the menu to match the copy.  *)
BookingInv ==
    /\ PointMatchesState
    /\ CopyIsCurrent
    /\ HeldSpotsExist
    /\ NoDoubleBooking

LEMMA SayState ==
    ASSUME NEW s, NEW p, Say(s, p)
    PROVE  (sysState' = s /\ pc' = p) \/ (sysState' = "KILLED" /\ pc' = "top")
BY DEF Say

(* Only the bookings count: records without a grid may come and go.        *)
LEMMA SameBookings ==
    ASSUME Holding' = Holding, \A v \in Holding : SpotOf(v)' = SpotOf(v),
           HeldSpotsExist, NoDoubleBooking
    PROVE  HeldSpotsExist' /\ NoDoubleBooking'
BY DEF HeldSpotsExist, NoDoubleBooking, Spots, Lots, Grids

LEMMA SameRecords ==
    ASSUME UNCHANGED <<vehList, currentVehicle>>,
           pc \in {"top", "loop"}, pc' \in {"top", "loop"}
    PROVE  Holding' = Holding /\ Registry' = Registry
BY DEF Registry, Holding

LEMMA AnswerKeeps ==
    ASSUME BookingInv, NEW n, NEW s, NEW p \in {"top", "loop"}, Answer(n, s, p),
           pc = "loop", p = "loop" => s \in Menus,
           s = "MENU_NOT_RESERVED" \/ s = sysState \/ s = "WELCOME"
    PROVE  BookingInv'
<1>1. UNCHANGED <<vehList, currentVehicle>>
  BY DEF Answer, recordVars
<1>2. (sysState' = s /\ pc' = p) \/ (sysState' = "KILLED" /\ pc' = "top")
  BY SayState DEF Answer
<1>3. HeldSpotsExist' /\ NoDoubleBooking'
  BY <1>1, <1>2, SameRecords, SameBookings DEF BookingInv, SpotOf
<1>4. PointMatchesState' /\ CopyIsCurrent'
  BY <1>1, <1>2 DEF BookingInv, PointMatchesState, CopyIsCurrent, Menus
<1> QED
  BY <1>3, <1>4 DEF BookingInv

LEMMA ReturnKeeps ==
    ASSUME BookingInv, NEW n, NEW s, Return(n, s), pc = "loop",
           s \notin Menus, s = "PAY" => sysState \in {"MENU_RESERVED", "MENU_PARKED"}
    PROVE  BookingInv'
<1>1. UNCHANGED <<vehList, currentVehicle>> /\ sysState' = s /\ pc' = "top"
  BY DEF Return, recordVars
<1>2. HeldSpotsExist' /\ NoDoubleBooking'
  BY <1>1, SameRecords, SameBookings DEF BookingInv, SpotOf
<1>3. PointMatchesState' /\ CopyIsCurrent'
  BY <1>1 DEF BookingInv, PointMatchesState, CopyIsCurrent, Menus
<1> QED
  BY <1>2, <1>3 DEF BookingInv

(* selectGrid: the grid it accepts is held by nobody.                      *)
LEMMA SelectFreeKeeps ==
    ASSUME TypeOK, BookingInv, NEW n, NEW residue, SelectFree(n, residue)
    PROVE  BookingInv'
<1> DEFINE args == Text!Args(Message(n))
           state == IF Text!Word(Message(n)) = "reserve" THEN "RESERVED" ELSE "PARKED"
           spot == <<args[1], args[2]>>
           info == [state |-> state, lot |-> args[1], grid |-> args[2]]
           half == [info EXCEPT !.grid = Lookup(currentVehicle.first).grid]
           id == currentVehicle.first
<1>1. /\ sysState = "MENU_NOT_RESERVED" /\ pc = "loop"
      /\ spot \in Spots \ Marked
      /\ currentVehicle' = [currentVehicle EXCEPT !.second = info]
      /\ vehList' = Stored(id, half)
      /\ pc' = "store" /\ sysState' = sysState
  BY DEF SelectFree, InMenu
<1> HIDE DEF args, half
<1>2. currentVehicle'.first = id /\ currentVehicle'.second = info
  BY <1>1 DEF TypeOK
<1>3. DOMAIN vehList' = DOMAIN vehList \union {id}
      /\ \A v \in DOMAIN vehList : v # id => vehList'[v] = vehList[v]
  BY <1>1 DEF Stored
<1>4. Registry = vehList
  BY <1>1 DEF Registry
<1>5. /\ DOMAIN Registry' = DOMAIN vehList \union {id}
      /\ Registry'[id] = info
      /\ \A v \in DOMAIN vehList : v # id => Registry'[v] = vehList[v]
  BY <1>1, <1>2, <1>3 DEF Registry, Stored
<1>6. \A v \in Holding' : v # id => v \in Holding /\ SpotOf(v)' = SpotOf(v)
  BY <1>4, <1>5 DEF Holding, SpotOf
<1>7. \A v \in Holding : SpotOf(v) # spot
  BY <1>1, <1>4 DEF Holding, SpotOf, Marked
<1>8. \A v : v = id => SpotOf(v)' = spot
  BY <1>5 DEF SpotOf
<1>9. HeldSpotsExist'
  BY <1>1, <1>6, <1>8 DEF BookingInv, HeldSpotsExist, Spots, Lots, Grids
<1>10. NoDoubleBooking'
  BY <1>6, <1>7, <1>8 DEF BookingInv, NoDoubleBooking
<1>11. PointMatchesState' /\ CopyIsCurrent'
  BY <1>1 DEF PointMatchesState, CopyIsCurrent
<1> QED
  BY <1>9, <1>10, <1>11 DEF BookingInv

LEMMA StoreGridKeeps ==
    ASSUME TypeOK, BookingInv, StoreGrid
    PROVE  BookingInv'
<1>1. /\ vehList' = Registry /\ UNCHANGED currentVehicle
      /\ pc' = "top" /\ sysState' \in {"WELCOME", "KILLED"}
  BY SayState DEF StoreGrid, Registry
<1>2. Registry' = Registry
  BY <1>1 DEF Registry
<1>3. HeldSpotsExist' /\ NoDoubleBooking'
  BY <1>2, SameBookings DEF BookingInv, Holding, SpotOf
<1>4. PointMatchesState' /\ CopyIsCurrent'
  BY <1>1 DEF PointMatchesState, CopyIsCurrent, Menus
<1> QED
  BY <1>3, <1>4 DEF BookingInv

(* The reserved grid is kept: only the state of the record changes.        *)
LEMMA ReservedCheckInKeeps ==
    ASSUME TypeOK, BookingInv, NEW n, ReservedCheckIn(n)
    PROVE  BookingInv'
<1> DEFINE id == currentVehicle.first
           info == [currentVehicle.second EXCEPT !.state = "PARKED"]
<1>1. /\ sysState = "MENU_RESERVED" /\ pc = "loop"
      /\ vehList' = Stored(id, info)
      /\ pc' = "top" /\ sysState' \in {"WELCOME", "KILLED"}
  BY SayState DEF ReservedCheckIn, InMenu
<1>2. /\ id \in DOMAIN vehList
      /\ currentVehicle.second = vehList[id]
      /\ vehList[id].state = "RESERVED"
      /\ vehList[id] \in VehicleInfo
  BY <1>1 DEF BookingInv, CopyIsCurrent, Menus, TypeOK
<1>3. info.state = "PARKED" /\ info.lot = vehList[id].lot /\ info.grid = vehList[id].grid
  BY <1>2 DEF VehicleInfo
<1>4. /\ Registry = vehList
      /\ Registry' = vehList'
  BY <1>1 DEF Registry
<1>5. Holding' = Holding /\ \A v \in Holding : SpotOf(v)' = SpotOf(v)
  BY <1>1, <1>2, <1>3, <1>4 DEF Holding, SpotOf, Stored
<1>6. HeldSpotsExist' /\ NoDoubleBooking'
  BY <1>5, SameBookings DEF BookingInv
<1>7. PointMatchesState' /\ CopyIsCurrent'
  BY <1>1 DEF PointMatchesState, CopyIsCurrent, Menus
<1> QED
  BY <1>6, <1>7 DEF BookingInv

LEMMA PayFeeKeeps ==
    ASSUME TypeOK, BookingInv, PayFee
    PROVE  BookingInv'
<1> DEFINE id == currentVehicle.first
           info == [currentVehicle.second EXCEPT !.state = "INIT"]
<1>1. /\ sysState = "PAY" /\ pc = "top" /\ pc' = "settle" /\ sysState' = "PAY"
      /\ vehList' = vehList
      /\ currentVehicle'.first = id /\ currentVehicle'.second = info
  BY DEF PayFee, TypeOK
<1>2. id \in DOMAIN vehList
  BY <1>1 DEF BookingInv, CopyIsCurrent
<1>3. Registry = vehList /\ Registry' = Stored(id, info)
  BY <1>1 DEF Registry, Stored
<1>4. info.state = "INIT"
  BY DEF TypeOK, VehicleInfo
<1>5. \A v \in Holding' : v \in Holding /\ SpotOf(v)' = SpotOf(v)
  BY <1>2, <1>3, <1>4 DEF Holding, SpotOf, Stored
<1>6. HeldSpotsExist' /\ NoDoubleBooking'
  BY <1>5 DEF BookingInv, HeldSpotsExist, NoDoubleBooking, Spots, Lots, Grids
<1>7. PointMatchesState' /\ CopyIsCurrent'
  BY <1>1 DEF PointMatchesState, CopyIsCurrent
<1> QED
  BY <1>6, <1>7 DEF BookingInv

LEMMA PaySettleKeeps ==
    ASSUME TypeOK, BookingInv, PaySettle
    PROVE  BookingInv'
<1>1. /\ vehList' = Registry /\ UNCHANGED currentVehicle
      /\ pc' = "top" /\ sysState' \in {"WELCOME", "KILLED"}
  BY SayState DEF PaySettle, Registry
<1>2. Registry' = Registry
  BY <1>1 DEF Registry
<1>3. HeldSpotsExist' /\ NoDoubleBooking'
  BY <1>2, SameBookings DEF BookingInv, Holding, SpotOf
<1>4. PointMatchesState' /\ CopyIsCurrent'
  BY <1>1 DEF PointMatchesState, CopyIsCurrent, Menus
<1> QED
  BY <1>3, <1>4 DEF BookingInv

(* Logging in books nothing: a new plate gets a record without a grid.     *)
LEMMA ShowWelcomeKeeps ==
    ASSUME TypeOK, BookingInv, NEW n, ShowWelcome(n)
    PROVE  BookingInv'
<1> DEFINE id == Text!Number(Message(n))
<1>1. /\ sysState = "WELCOME" /\ pc' = "top" /\ sysState' = MenuFor(Lookup(id).state)
      /\ vehList' = Stored(id, Lookup(id))
      /\ currentVehicle' = [first |-> id, second |-> Lookup(id)]
  BY DEF ShowWelcome
<1> HIDE DEF id
<1>2. pc = "top"
  BY <1>1 DEF BookingInv, PointMatchesState, Menus, TypeOK, Point
<1>3. Registry = vehList /\ Registry' = vehList'
  BY <1>1, <1>2 DEF Registry
<1>4. /\ DOMAIN vehList' = DOMAIN vehList \union {id}
      /\ vehList'[id] = Lookup(id)
      /\ \A v \in DOMAIN vehList : vehList'[v] = vehList[v]
  BY <1>1 DEF Stored, Lookup
<1>5. id \notin DOMAIN vehList => Lookup(id).state = "INIT"
  BY DEF Lookup, Blank
<1>6. Holding' = Holding /\ \A v \in Holding : SpotOf(v)' = SpotOf(v)
  BY <1>3, <1>4, <1>5 DEF Holding, SpotOf
<1>7. HeldSpotsExist' /\ NoDoubleBooking'
  BY <1>6, SameBookings DEF BookingInv
<1>8. Lookup(id).state \in {"INIT", "RESERVED", "PARKED"}
  BY LookupType DEF VehicleInfo
<1>9. PointMatchesState' /\ CopyIsCurrent'
  BY <1>1, <1>4, <1>8 DEF PointMatchesState, CopyIsCurrent, Menus, MenuFor
<1> QED
  BY <1>7, <1>9 DEF BookingInv

LEMMA QuietKeeps ==
    ASSUME TypeOK, BookingInv, ShowWait \/ EnterMenu \/ HangUp \/ ReadError
    PROVE  BookingInv'
<1>1. UNCHANGED <<vehList, currentVehicle>>
  BY DEF ShowWait, EnterMenu, HangUp, ReadError, recordVars
<1>2. pc \in {"top", "loop"} /\ pc' \in {"top", "loop"}
  BY SayState DEF ShowWait, EnterMenu, HangUp, ReadError, Reading, BookingInv,
                  PointMatchesState, TypeOK, Point
<1>3. HeldSpotsExist' /\ NoDoubleBooking'
  BY <1>1, <1>2, SameRecords, SameBookings DEF BookingInv, SpotOf
<1>4. CASE EnterMenu
  <2>1. \/ sysState' = sysState /\ pc' = "loop" /\ sysState \in Menus /\ pc = "top"
        \/ sysState' = "KILLED" /\ pc' = "top"
    BY <1>4, SayState DEF EnterMenu
  <2> QED
    BY <1>1, <1>3, <2>1 DEF BookingInv, PointMatchesState, CopyIsCurrent, Menus
<1>5. CASE ShowWait \/ HangUp \/ ReadError
  <2>1. sysState' \in {"WELCOME", "WAIT_CONNECTION", "KILLED"} /\ pc' = "top"
    BY <1>5 DEF ShowWait, HangUp, ReadError
  <2> QED
    BY <1>3, <2>1 DEF BookingInv, PointMatchesState, CopyIsCurrent, Menus
<1> QED
  BY <1>4, <1>5

LEMMA ServerKeeps == TypeOK /\ BookingInv /\ Server => BookingInv'
<1> SUFFICES ASSUME TypeOK, BookingInv, Server
             PROVE  BookingInv'
  OBVIOUS
<1>1. CASE ShowWait \/ EnterMenu \/ HangUp \/ ReadError
  BY <1>1, QuietKeeps
<1>2. CASE StoreGrid \/ PayFee \/ PaySettle
  BY <1>2, StoreGridKeeps, PayFeeKeeps, PaySettleKeeps
<1>3. ASSUME NEW n \in Available, ShowWelcome(n)
      PROVE  BookingInv'
  BY <1>3, ShowWelcomeKeeps
<1>4. ASSUME NEW n \in Available, NotReservedCommand(n)
      PROVE  BookingInv'
  <2>1. CASE NotReservedShow(n) \/ NotReservedExit(n) \/ NotReservedInvalid(n)
    BY <2>1, AnswerKeeps
       DEF NotReservedShow, NotReservedExit, NotReservedInvalid, InMenu, Menus
  <2>2. CASE NotReservedEmptyLine(n)
    BY <2>2, ReturnKeeps DEF NotReservedEmptyLine, InMenu, Menus
  <2>3. ASSUME NEW residue \in HeapResidue, SelectTaken(n, residue)
        PROVE  BookingInv'
    BY <2>3, AnswerKeeps DEF SelectTaken, InMenu, Menus
  <2>4. ASSUME NEW residue \in HeapResidue, SelectFree(n, residue)
        PROVE  BookingInv'
    BY <2>4, SelectFreeKeeps
  <2> QED
    BY <1>4, <2>1, <2>2, <2>3, <2>4 DEF NotReservedCommand
<1>5. ASSUME NEW n \in Available, ReservedCommand(n)
      PROVE  BookingInv'
  <2>1. CASE ReservedShow(n) \/ ReservedInvalid(n)
    BY <2>1, AnswerKeeps DEF ReservedShow, ReservedInvalid, InMenu, Menus
  <2>2. CASE ReservedCancel(n) \/ ReservedExit(n)
    BY <2>2, ReturnKeeps DEF ReservedCancel, ReservedExit, InMenu, Menus
  <2>3. CASE ReservedCheckIn(n)
    BY <2>3, ReservedCheckInKeeps
  <2> QED
    BY <1>5, <2>1, <2>2, <2>3 DEF ReservedCommand
<1>6. ASSUME NEW n \in Available, ParkedCommand(n)
      PROVE  BookingInv'
  <2>1. CASE ParkedShow(n) \/ ParkedExit(n) \/ ParkedInvalid(n)
    BY <2>1, AnswerKeeps DEF ParkedShow, ParkedExit, ParkedInvalid, InMenu, Menus
  <2>2. CASE ParkedPickUp(n)
    BY <2>2, ReturnKeeps DEF ParkedPickUp, InMenu, Menus
  <2> QED
    BY <1>6, <2>1, <2>2 DEF ParkedCommand
<1> QED
  BY <1>1, <1>2, <1>3, <1>4, <1>5, <1>6 DEF Server

(* The other actors do not touch what BookingInv is about.                 *)
LEMMA OthersKeep ==
    ASSUME BookingInv, UNCHANGED <<sysState, pc, currentVehicle, vehList>>
    PROVE  BookingInv'
BY DEF BookingInv, PointMatchesState, CopyIsCurrent, HeldSpotsExist, NoDoubleBooking,
       Holding, SpotOf, Registry, Stored, Spots, Lots, Grids, Menus

LEMMA InitBookings == Init => BookingInv
BY DEF Init, ServerInit, BookingInv, PointMatchesState, CopyIsCurrent, HeldSpotsExist,
       NoDoubleBooking, Holding, Registry, Menus

LEMMA NextBookings == TypeOK /\ BookingInv /\ [Next]_vars => BookingInv'
BY ServerKeeps, OthersKeep
   DEF Next, ServerThread, ReportThread, Logger, Clients, vars, serverVars, recordVars

(* No grid is ever held by two vehicles, every held grid exists, and from  *)
(* login to logout the server decides by a current copy of the record:     *)
(* whatever clients send, in whatever portions read() returns it, whenever *)
(* connections break and whatever new char[3] contains.                    *)
THEOREM Bookings == Spec => [](NoDoubleBooking /\ HeldSpotsExist /\ CopyIsCurrent)
<1>1. BookingInv => NoDoubleBooking /\ HeldSpotsExist /\ CopyIsCurrent
  BY DEF BookingInv
<1>2. SystemTypeOK => TypeOK
  BY DEF SystemTypeOK
<1> QED
  BY <1>1, <1>2, InitBookings, NextBookings, TypesCorrect, PTL DEF Spec

-----------------------------------------------------------------------------
(* Refinement *)

(* A step that changes no booking and no income is invisible to the        *)
(* ledger.                                                                 *)
LEMMA Invisible ==
    ASSUME Holding' = Holding, \A v \in Holding : Registry'[v] = Registry[v],
           UNCHANGED balance
    PROVE  UNCHANGED Ledger!ledgerVars
<1> DEFINE entry(v) == [spot |-> SpotOf(v), kind |-> Registry[v].state]
<1>1. \A v \in Holding : entry(v)' = entry(v)
  BY DEF SpotOf
<1>2. [v \in Holding |-> entry(v)]' = [v \in Holding |-> entry(v)]
  BY <1>1
<1> QED
  BY <1>2 DEF Ledger!ledgerVars

(* What the ledger sees of the records.                                    *)
Entry(v) == [spot |-> SpotOf(v), kind |-> Registry[v].state]
Held == [v \in Holding |-> Entry(v)]

LEMMA SelectFreeTakes ==
    ASSUME TypeOK, BookingInv, NEW n, NEW residue, SelectFree(n, residue)
    PROVE  Ledger!Next
<1> DEFINE args == Text!Args(Message(n))
           state == IF Text!Word(Message(n)) = "reserve" THEN "RESERVED" ELSE "PARKED"
           spot == <<args[1], args[2]>>
           info == [state |-> state, lot |-> args[1], grid |-> args[2]]
           half == [info EXCEPT !.grid = Lookup(currentVehicle.first).grid]
<1>1. /\ pc = "loop" /\ pc' = "store"
      /\ spot \in Spots \ Marked
      /\ currentVehicle' = [currentVehicle EXCEPT !.second = info]
      /\ vehList' = Stored(currentVehicle.first, half)
      /\ balance' = balance
  BY DEF SelectFree, InMenu
<1>2. PICK id \in Plate : id = currentVehicle.first
  BY DEF TypeOK
<1> HIDE DEF args, half
<1>3. currentVehicle'.first = id /\ currentVehicle'.second = info
  BY <1>1, <1>2 DEF TypeOK
<1>4. DOMAIN vehList' = DOMAIN vehList \union {id}
      /\ \A v \in DOMAIN vehList : v # id => vehList'[v] = vehList[v]
  BY <1>1, <1>2 DEF Stored
<1>5. Registry = vehList
  BY <1>1 DEF Registry
<1>6. /\ DOMAIN Registry' = DOMAIN vehList \union {id}
      /\ Registry'[id] = info
      /\ \A v \in DOMAIN vehList : v # id => Registry'[v] = vehList[v]
  BY <1>1, <1>3, <1>4 DEF Registry, Stored
<1>7. Holding' = Holding \union {id}
  BY <1>5, <1>6 DEF Holding
<1>8. Entry(id)' = [spot |-> spot, kind |-> state]
      /\ \A v \in Holding : v # id => Entry(v)' = Entry(v)
  BY <1>5, <1>6 DEF Entry, SpotOf, Holding
<1>9. Held' = [v \in Holding \union {id} |->
                 IF v = id THEN [spot |-> spot, kind |-> state] ELSE Held[v]]
  BY <1>7, <1>8 DEF Held
<1>10. \A v \in Holding : Held[v].spot # spot
  BY <1>1, <1>5 DEF Held, Entry, Holding, SpotOf, Marked
<1>11. DOMAIN Held = Holding
  BY DEF Held
<1>12. PICK s \in Spots, k \in Ledger!Kind : s = spot /\ k = state
  BY <1>1 DEF Ledger!Kind
<1>13. Ledger!Take(id, s, k)
  BY <1>1, <1>9, <1>10, <1>11, <1>12 DEF Ledger!Take, Ledger!Occupied, Held, Entry
<1> QED
  BY <1>13, Zenon DEF Ledger!Next

LEMMA ReservedCheckInArrives ==
    ASSUME TypeOK, BookingInv, NEW n, ReservedCheckIn(n)
    PROVE  Ledger!Next
<1> DEFINE info == [currentVehicle.second EXCEPT !.state = "PARKED"]
<1>1. /\ sysState = "MENU_RESERVED" /\ pc = "loop" /\ pc' = "top"
      /\ vehList' = Stored(currentVehicle.first, info)
      /\ balance' = balance
  BY SayState DEF ReservedCheckIn, InMenu
<1>2. PICK id \in Plate : id = currentVehicle.first
  BY DEF TypeOK
<1>3. /\ id \in DOMAIN vehList
      /\ currentVehicle.second = vehList[id]
      /\ vehList[id].state = "RESERVED"
      /\ vehList[id] \in VehicleInfo
  BY <1>1, <1>2 DEF BookingInv, CopyIsCurrent, Menus, TypeOK
<1>4. info.state = "PARKED" /\ info.lot = vehList[id].lot /\ info.grid = vehList[id].grid
  BY <1>3 DEF VehicleInfo
<1>5. Registry = vehList /\ Registry' = vehList'
  BY <1>1 DEF Registry
<1>6. DOMAIN vehList' = DOMAIN vehList /\ vehList'[id] = info
      /\ \A v \in DOMAIN vehList : v # id => vehList'[v] = vehList[v]
  BY <1>1, <1>2, <1>3 DEF Stored
<1>7. Holding' = Holding /\ id \in Holding
  <2>1. id \in Holding /\ id \in Holding'
    BY <1>3, <1>4, <1>5, <1>6 DEF Holding
  <2>2. \A v : v # id => (v \in Holding' <=> v \in Holding)
    BY <1>5, <1>6 DEF Holding
  <2> QED
    BY <2>1, <2>2
<1>8. Entry(id)' = [Entry(id) EXCEPT !.kind = "PARKED"]
      /\ \A v \in Holding : v # id => Entry(v)' = Entry(v)
  BY <1>3, <1>4, <1>5, <1>6 DEF Entry, SpotOf, Holding
<1>9. Held' = [Held EXCEPT ![id].kind = "PARKED"]
  BY <1>7, <1>8 DEF Held
<1>10. Held[id].kind = "RESERVED" /\ DOMAIN Held = Holding
  BY <1>3, <1>5, <1>7 DEF Held, Entry
<1>11. Ledger!Arrive(id)
  BY <1>1, <1>9, <1>10 DEF Ledger!Arrive, Held, Entry
<1>12. id \in DOMAIN Held
  BY <1>7, <1>10
<1> QED
  BY <1>11, <1>12, Zenon DEF Ledger!Next, Held, Entry

LEMMA PayFeeSettles ==
    ASSUME TypeOK, BookingInv, PayFee
    PROVE  Ledger!Next
<1> DEFINE info == [currentVehicle.second EXCEPT !.state = "INIT"]
<1>1. /\ sysState = "PAY" /\ pc = "top" /\ pc' = "settle"
      /\ vehList' = vehList
      /\ currentVehicle'.first = currentVehicle.first /\ currentVehicle'.second = info
      /\ balance' = balance + Fee(currentVehicle.second.state)
  BY DEF PayFee, TypeOK
<1>2. PICK id \in Plate : id = currentVehicle.first
  BY DEF TypeOK
<1>3. /\ id \in DOMAIN vehList
      /\ currentVehicle.second = vehList[id]
      /\ vehList[id].state \in {"RESERVED", "PARKED"}
  BY <1>1, <1>2 DEF BookingInv, CopyIsCurrent, TypeOK, VehicleInfo
<1>4. info.state = "INIT"
  BY DEF TypeOK, VehicleInfo
<1>5. /\ Registry = vehList
      /\ DOMAIN Registry' = DOMAIN vehList
      /\ Registry'[id].state = "INIT"
      /\ \A v \in DOMAIN vehList : v # id => Registry'[v] = vehList[v]
  BY <1>1, <1>2, <1>3, <1>4 DEF Registry, Stored
<1>6. Holding' = Holding \ {id} /\ id \in Holding
  BY <1>3, <1>5 DEF Holding
<1>7. \A v \in Holding : v # id => Entry(v)' = Entry(v)
  BY <1>5 DEF Entry, SpotOf, Holding
<1>8. Held' = [v \in DOMAIN Held \ {id} |-> Held[v]]
  BY <1>6, <1>7 DEF Held
<1>9. Held[id].kind = vehList[id].state /\ DOMAIN Held = Holding
  BY <1>5, <1>6 DEF Held, Entry
<1>10. balance' = balance + [kind \in {"RESERVED", "PARKED"} |-> Fee(kind)][Held[id].kind]
  BY <1>1, <1>3, <1>9
<1>11. Ledger!Settle(id)
  BY <1>8, <1>10 DEF Ledger!Settle, Held, Entry
<1>12. id \in DOMAIN Held
  BY <1>6, <1>9
<1> QED
  BY <1>11, <1>12, Zenon DEF Ledger!Next, Held, Entry

LEMMA LoginInvisible ==
    ASSUME TypeOK, BookingInv, NEW n, ShowWelcome(n)
    PROVE  UNCHANGED Ledger!ledgerVars
<1> DEFINE id == Text!Number(Message(n))
<1>1. /\ sysState = "WELCOME" /\ pc' = "top"
      /\ vehList' = Stored(id, Lookup(id))
      /\ balance' = balance
  BY DEF ShowWelcome
<1> HIDE DEF id
<1>2. Registry = vehList /\ Registry' = vehList'
  BY <1>1 DEF Registry, BookingInv, PointMatchesState, Menus
<1>3. /\ DOMAIN vehList' = DOMAIN vehList \union {id}
      /\ vehList'[id] = Lookup(id)
      /\ \A v \in DOMAIN vehList : vehList'[v] = vehList[v]
  BY <1>1 DEF Stored, Lookup
<1>4. id \notin DOMAIN vehList => Lookup(id).state = "INIT"
  BY DEF Lookup, Blank
<1>5. Holding' = Holding /\ \A v \in Holding : Registry'[v] = Registry[v]
  BY <1>2, <1>3, <1>4 DEF Holding
<1> QED
  BY <1>1, <1>5, Invisible

LEMMA RestInvisible ==
    ASSUME TypeOK, BookingInv,
           \/ /\ UNCHANGED <<vehList, currentVehicle, balance>>
              /\ pc' = pc \/ (pc \in {"top", "loop"} /\ pc' \in {"top", "loop"})
           \/ StoreGrid \/ PaySettle
    PROVE  UNCHANGED Ledger!ledgerVars
<1>1. UNCHANGED balance
  BY DEF StoreGrid, PaySettle
<1>2. Registry' = Registry
  <2>1. CASE UNCHANGED <<vehList, currentVehicle>>
             /\ (pc' = pc \/ (pc \in {"top", "loop"} /\ pc' \in {"top", "loop"}))
    BY <2>1 DEF Registry, Stored
  <2>2. CASE StoreGrid \/ PaySettle
    BY <2>2, SayState DEF StoreGrid, PaySettle, Registry, Stored
  <2> QED
    BY <2>1, <2>2
<1>3. Holding' = Holding
  BY <1>2 DEF Holding
<1> QED
  BY <1>1, <1>2, <1>3, Invisible

LEMMA ServerRefines ==
    ASSUME TypeOK, BookingInv, Server
    PROVE  Ledger!Next \/ UNCHANGED Ledger!ledgerVars
<1>1. CASE ShowWait \/ EnterMenu \/ HangUp \/ ReadError
  <2>1. UNCHANGED <<vehList, currentVehicle, balance>>
    BY <1>1 DEF ShowWait, EnterMenu, HangUp, ReadError, recordVars
  <2>2. pc \in {"top", "loop"} /\ pc' \in {"top", "loop"}
    BY <1>1, SayState DEF ShowWait, EnterMenu, HangUp, ReadError, Reading, BookingInv,
                          PointMatchesState, TypeOK, Point
  <2> QED
    BY <2>1, <2>2, RestInvisible
<1>2. CASE StoreGrid \/ PaySettle
  BY <1>2, RestInvisible
<1>3. CASE PayFee
  BY <1>3, PayFeeSettles
<1>4. ASSUME NEW n \in Available, ShowWelcome(n)
      PROVE  UNCHANGED Ledger!ledgerVars
  BY <1>4, LoginInvisible
<1>5. ASSUME NEW n \in Available, NEW s, NEW p \in {"top", "loop"}, pc = "loop",
             Answer(n, s, p) \/ Return(n, s)
      PROVE  UNCHANGED Ledger!ledgerVars
  <2>1. UNCHANGED <<vehList, currentVehicle, balance>> /\ pc' \in {"top", "loop"}
    BY <1>5, SayState DEF Answer, Return, recordVars
  <2> QED
    BY <1>5, <2>1, RestInvisible
<1>6. ASSUME NEW n \in Available, NEW residue, SelectFree(n, residue)
      PROVE  Ledger!Next
  BY <1>6, SelectFreeTakes
<1>7. ASSUME NEW n \in Available, ReservedCheckIn(n)
      PROVE  Ledger!Next
  BY <1>7, ReservedCheckInArrives
<1>8. ASSUME NEW n \in Available,
             NotReservedCommand(n) \/ ReservedCommand(n) \/ ParkedCommand(n),
             ~ReservedCheckIn(n), \A residue \in HeapResidue : ~SelectFree(n, residue)
      PROVE  UNCHANGED Ledger!ledgerVars
  BY <1>5, <1>8
     DEF NotReservedCommand, NotReservedShow, NotReservedExit, NotReservedInvalid,
         NotReservedEmptyLine, SelectTaken, ReservedCommand, ReservedShow,
         ReservedCancel, ReservedExit, ReservedInvalid, ParkedCommand, ParkedShow,
         ParkedPickUp, ParkedExit, ParkedInvalid, InMenu
<1> QED
  BY <1>1, <1>2, <1>3, <1>4, <1>6, <1>7, <1>8 DEF Server

(* The server implements the ledger: a grid changes hands only when it is  *)
(* free, and a vehicle gives its grid up only against the fee or for       *)
(* another grid.                                                           *)
THEOREM Refinement == Spec => ImplementsLedger
<1>1. Init => Ledger!Init
  <2>1. Init => Holding = {} /\ balance = 0
    BY DEF Init, ServerInit, Holding, Registry
  <2> QED
    BY <2>1 DEF Ledger!Init
<1>2. TypeOK /\ BookingInv /\ [Next]_vars => [Ledger!Next]_(Ledger!ledgerVars)
  <2> SUFFICES ASSUME TypeOK, BookingInv, [Next]_vars
               PROVE  Ledger!Next \/ UNCHANGED Ledger!ledgerVars
    OBVIOUS
  <2>1. CASE ServerThread
    BY <2>1, ServerRefines DEF ServerThread
  <2>2. CASE ReportThread \/ Clients \/ UNCHANGED vars
    <3>1. UNCHANGED <<vehList, currentVehicle, balance, pc>>
      BY <2>2 DEF ReportThread, Logger, Clients, vars, serverVars, recordVars
    <3> QED
      BY <3>1, RestInvisible
  <2> QED
    BY <2>1, <2>2 DEF Next
<1>3. SystemTypeOK => TypeOK
  BY DEF SystemTypeOK
<1> QED
  BY <1>1, <1>2, <1>3, InitBookings, NextBookings, TypesCorrect, PTL
     DEF Spec, ImplementsLedger, Ledger!Spec
=============================================================================
