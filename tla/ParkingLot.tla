----------------------------- MODULE ParkingLot -----------------------------
(***************************************************************************)
(* The server of homework 2: class ParkingLot, built without USE_PXA_IO.   *)
(* One thread runs runSystem(): it serves one TCP connection at a time,    *)
(* and the value each state function returns chooses the next one.  There  *)
(* is one action per branch of a state function; pc says where inside the  *)
(* function the thread is.                                                 *)
(***************************************************************************)
EXTENDS Integers, Sequences, FiniteSets

CONSTANTS
    Client,         \* the programs that connect to the server
    NoClient,       \* conn_fd when no connection is being served
    Plate,          \* the plate numbers the clients' lines can spell
    Line,           \* the lines clients send (see CommandText)
    NumLots,        \* 3 in the code
    NumGrids,       \* grids of a lot: 8 in the code
    HeapResidue     \* the spots the bytes of a fresh new char[3] may mark

Text == INSTANCE CommandText

Lots == 1..NumLots
Grids == 1..NumGrids
Spots == Lots \X Grids

ASSUME PlateAssumption ==
    /\ Plate \subseteq Int
    /\ 0 \in Plate
    /\ \A line \in Line : line.num \in Plate
(* A plate, a key of vehList, is an int of 32 bits.                        *)
MinInt == -2147483647 - 1
ASSUME WidthAssumption == \A plate \in Plate : plate >= MinInt
ASSUME NoClientAssumption == NoClient \notin Client
ASSUME SizeAssumption == NumLots \in Nat /\ NumGrids \in Nat
ASSUME ResidueAssumption == HeapResidue \subseteq SUBSET Spots

VARIABLES
    sysState,       \* which state function runs; "KILLED" after a fatal signal
    pc,             \* where in it: "top", "loop", "store" or "settle"
    conn,           \* the client behind conn_fd
    currentVehicle, \* the logged-in plate and a copy of its record
    vehList,        \* std::map from plate to record
    balance,        \* income of the garage
    billed,         \* history: the sum of the fees told to clients
    backlog,        \* connections waiting in the listen queue
    link,           \* link[c]: the connection of client c as the server sees it
    inbox,          \* inbox[c]: lines sent by c and not yet read
    unread          \* unread[c]: a reply waits in c's receive queue

recordVars == <<currentVehicle, vehList, balance, billed>>
socketVars == <<backlog, link, inbox, unread>>
serverVars == <<sysState, pc, conn, recordVars, socketVars>>

VehicleInfo ==
    [state : {"INIT", "RESERVED", "PARKED"}, lot : Int, grid : Int]
Blank == [state |-> "INIT", lot |-> -1, grid |-> -1]

Menus == {"MENU_NOT_RESERVED", "MENU_RESERVED", "MENU_PARKED"}

SysState == Menus \union {"WAIT_CONNECTION", "WELCOME", "PAY", "KILLED"}
Point == {"top", "loop", "store", "settle"}

(* The connection: not open, open, closed by the client, closed with       *)
(* replies unread (the client's TCP then sends a reset), or closed and the *)
(* reset already reported to the server.                                   *)
LinkState == {"idle", "open", "closed", "aborted", "reset"}

TypeOK ==
    /\ sysState \in SysState
    /\ pc \in Point
    /\ conn \in Client \union {NoClient}
    /\ currentVehicle \in [first : Plate, second : VehicleInfo]
    /\ DOMAIN vehList \subseteq Plate
    /\ vehList \in [DOMAIN vehList -> VehicleInfo]
    /\ balance \in Nat
    /\ billed \in Nat
    /\ backlog \in Seq(Client)
    /\ link \in [Client -> LinkState]
    /\ inbox \in [Client -> Seq(Line)]
    /\ unread \in [Client -> BOOLEAN]

ServerInit ==
    /\ sysState = "WAIT_CONNECTION"
    /\ pc = "top"
    /\ conn = NoClient
    /\ currentVehicle = [first |-> 0, second |-> Blank]
    /\ vehList = [v \in {} |-> Blank]
    /\ balance = 0
    /\ billed = 0
    /\ backlog = <<>>
    /\ link = [c \in Client |-> "idle"]
    /\ inbox = [c \in Client |-> <<>>]
    /\ unread = [c \in Client |-> FALSE]

-----------------------------------------------------------------------------
(* Records *)

(* setVehState, and the insertion of getVehState.                          *)
Stored(id, info) ==
    [v \in DOMAIN vehList \union {id} |-> IF v = id THEN info ELSE vehList[v]]

(* getVehState: an unknown plate gets a blank record.                      *)
Lookup(id) == IF id \in DOMAIN vehList THEN vehList[id] ELSE Blank

(* Mutant of Marked: only parked vehicles mark their grid.                 *)
MarkedParkedOnly == {<<vehList[v].lot, vehList[v].grid>> :
                       v \in {w \in DOMAIN vehList : vehList[w].state = "PARKED"}}

(* getGridState: the grids the records mark.  The byte array is not        *)
(* cleared first, so the caller adds a residue.                            *)
Marked == {<<vehList[v].lot, vehList[v].grid>> :
             v \in {w \in DOMAIN vehList : vehList[w].state # "INIT"}}

(* showPay: what is added to balance, and what the reply announces.        *)
Fee(state) == CASE state = "PARKED" -> 30
                [] state = "PARKED_NO_RESERVED" -> 40
                [] state = "RESERVED" -> 20
                [] OTHER -> 0
AnnouncedFee(state) == CASE state = "PARKED" -> 40
                         [] state = "PARKED_NO_RESERVED" -> 30
                         [] state = "RESERVED" -> 20
                         [] OTHER -> 0

(* The records as they will be when the copy under way is finished.        *)
Registry ==
    IF pc \in {"store", "settle"}
    THEN Stored(currentVehicle.first, currentVehicle.second)
    ELSE vehList
Holding == {v \in DOMAIN Registry : Registry[v].state # "INIT"}
SpotOf(v) == <<Registry[v].lot, Registry[v].grid>>

-----------------------------------------------------------------------------
(* The connection *)

(* The numbers of lines a read() that finds data may return.               *)
Available == IF conn = NoClient THEN {} ELSE 1..Len(inbox[conn])
Message(n) == SubSeq(inbox[conn], 1, n)
Consume(n) ==
    inbox' = [inbox EXCEPT ![conn] = SubSeq(@, n + 1, Len(@))]

(* printMessage, then returning to state s at point p.  write() to a       *)
(* client that has closed succeeds, and provokes a reset that arrives      *)
(* sooner or later; the write that meets a reset fails and is ignored; a   *)
(* write after that raises SIGPIPE, which nobody handles.                  *)
Say(s, p) ==
    \/ /\ link[conn] = "open"
       /\ unread' = [unread EXCEPT ![conn] = TRUE]
       /\ sysState' = s /\ pc' = p
       /\ UNCHANGED link
    \/ /\ link[conn] = "closed"
       /\ \E seen \in {"closed", "reset"} : link' = [link EXCEPT ![conn] = seen]
       /\ sysState' = s /\ pc' = p
       /\ UNCHANGED unread
    \/ /\ link[conn] = "aborted"
       /\ link' = [link EXCEPT ![conn] = "reset"]
       /\ sysState' = s /\ pc' = p
       /\ UNCHANGED unread
    \/ /\ link[conn] = "reset"
       /\ sysState' = "KILLED" /\ pc' = "top"
       /\ UNCHANGED <<link, unread>>

(* The thread is inside getMessage.                                        *)
Reading ==
    \/ sysState = "WELCOME" /\ pc = "top"
    \/ sysState \in Menus /\ pc = "loop"

(* Mutant of HangUp: the -1 of getMessage is not looked at.                *)
HangUpIgnored ==
    /\ Reading
    /\ inbox[conn] = <<>>
    /\ link[conn] \in {"closed", "reset"}
    /\ UNCHANGED serverVars

(* read() returns 0: the client has closed and all its lines are read.     *)
HangUp ==
    /\ Reading
    /\ inbox[conn] = <<>>
    /\ link[conn] \in {"closed", "reset"}
    /\ link' = [link EXCEPT ![conn] = "idle"]
    /\ conn' = NoClient
    /\ sysState' = "WAIT_CONNECTION" /\ pc' = "top"
    /\ UNCHANGED <<recordVars, backlog, inbox, unread>>

(* read() returns -1.  The return value is used as a length, the caller    *)
(* goes on with whatever its buffer held, answers it, and that write is    *)
(* the one that raises SIGPIPE.                                            *)
ReadError ==
    /\ Reading
    /\ inbox[conn] = <<>>
    /\ link[conn] = "aborted"
    /\ sysState' = "KILLED" /\ pc' = "top"
    /\ UNCHANGED <<conn, recordVars, socketVars>>

-----------------------------------------------------------------------------
(* State functions *)

ShowWait ==
    /\ sysState = "WAIT_CONNECTION"
    /\ backlog # <<>>
    /\ conn' = Head(backlog)
    /\ backlog' = Tail(backlog)
    /\ sysState' = "WELCOME" /\ pc' = "top"
    /\ UNCHANGED <<recordVars, link, inbox, unread>>

MenuFor(state) == CASE state = "INIT" -> "MENU_NOT_RESERVED"
                    [] state = "RESERVED" -> "MENU_RESERVED"
                    [] OTHER -> "MENU_PARKED"

(* The plate number.  Whatever line arrives here is taken for one.         *)
ShowWelcome(n) ==
    LET id == Text!Number(Message(n)) IN
    /\ sysState = "WELCOME"
    /\ Consume(n)
    /\ currentVehicle' = [first |-> id, second |-> Lookup(id)]
    /\ vehList' = Stored(id, Lookup(id))
    /\ sysState' = MenuFor(Lookup(id).state) /\ pc' = "top"
    /\ UNCHANGED <<conn, balance, billed, backlog, link, unread>>

(* Entering a menu: the prompt is sent, then the command loop begins.      *)
EnterMenu ==
    /\ sysState \in Menus /\ pc = "top"
    /\ Say(sysState, "loop")
    /\ UNCHANGED <<conn, recordVars, backlog, inbox>>

InMenu(menu) == sysState = menu /\ pc = "loop"

(* A command that is answered and changes no record.                       *)
Answer(n, s, p) ==
    /\ Consume(n)
    /\ Say(s, p)
    /\ UNCHANGED <<conn, recordVars, backlog>>

(* A command that is not answered before state s is entered.               *)
Return(n, s) ==
    /\ Consume(n)
    /\ sysState' = s /\ pc' = "top"
    /\ UNCHANGED <<conn, recordVars, backlog, link, unread>>

-----------------------------------------------------------------------------
(* showMenuNotReserved *)

NotReservedShow(n) ==
    /\ InMenu("MENU_NOT_RESERVED")
    /\ Text!Word(Message(n)) = "show"
    /\ Answer(n, "MENU_NOT_RESERVED", "loop")

NotReservedExit(n) ==
    /\ InMenu("MENU_NOT_RESERVED")
    /\ Text!Word(Message(n)) = "exit"
    /\ Answer(n, "WELCOME", "top")

GridCommand == {"reserve", "check-in"}

(* "Invaild command.": an unknown word, too few arguments, or, from        *)
(* selectGrid, a lot or grid that does not exist.                          *)
NotReservedInvalid(n) ==
    LET word == Text!Word(Message(n))
        args == Text!Args(Message(n))
    IN  /\ InMenu("MENU_NOT_RESERVED")
        /\ ~Text!NoToken(Message(n))
        /\ \/ word \notin GridCommand \union {"show", "exit"}
           \/ word \in GridCommand /\ Len(args) < 2
           \/ /\ word \in GridCommand /\ Len(args) >= 2
              /\ <<args[1], args[2]>> \notin Spots
        /\ Answer(n, "MENU_NOT_RESERVED", "loop")

(* An empty line: strcmp(NULL, "show").                                    *)
NotReservedEmptyLine(n) ==
    /\ InMenu("MENU_NOT_RESERVED")
    /\ Text!NoToken(Message(n))
    /\ Return(n, "KILLED")

(* Mutants of SelectTaken: lot and grid are assigned before the check; the *)
(* refusal is not answered.                                                *)
SelectTakenAssigns(n, residue) ==
    LET args == Text!Args(Message(n)) IN
    /\ InMenu("MENU_NOT_RESERVED")
    /\ Text!Word(Message(n)) \in GridCommand
    /\ Len(args) >= 2
    /\ <<args[1], args[2]>> \in Spots \intersect (Marked \union residue)
    /\ currentVehicle' = [currentVehicle EXCEPT !.second.lot = args[1],
                                                !.second.grid = args[2]]
    /\ Consume(n)
    /\ Say("MENU_NOT_RESERVED", "loop")
    /\ UNCHANGED <<conn, vehList, balance, billed, backlog>>
SelectTakenSilent(n, residue) ==
    LET args == Text!Args(Message(n)) IN
    /\ InMenu("MENU_NOT_RESERVED")
    /\ Text!Word(Message(n)) \in GridCommand
    /\ Len(args) >= 2
    /\ <<args[1], args[2]>> \in Spots \intersect (Marked \union residue)
    /\ Consume(n)
    /\ UNCHANGED <<sysState, pc, conn, recordVars, backlog, link, unread>>

(* selectGrid refuses a grid that is, or by its residue seems, taken.      *)
SelectTaken(n, residue) ==
    LET args == Text!Args(Message(n)) IN
    /\ InMenu("MENU_NOT_RESERVED")
    /\ Text!Word(Message(n)) \in GridCommand
    /\ Len(args) >= 2
    /\ <<args[1], args[2]>> \in Spots \intersect (Marked \union residue)
    /\ Answer(n, "MENU_NOT_RESERVED", "loop")

(* Mutants of SelectFree: a direct check-in uses the state that only the   *)
(* USE_PXA_IO build assigns; lot is a store of its own, after state; the   *)
(* bound of grid is one too high.                                          *)
SelectFreeUnreserved(n, residue) ==
    LET args == Text!Args(Message(n))
        state == IF Text!Word(Message(n)) = "reserve"
                 THEN "RESERVED" ELSE "PARKED_NO_RESERVED"
        info == [state |-> state, lot |-> args[1], grid |-> args[2]]
    IN  /\ InMenu("MENU_NOT_RESERVED")
        /\ Text!Word(Message(n)) \in GridCommand
        /\ Len(args) >= 2
        /\ <<args[1], args[2]>> \in Spots \ (Marked \union residue)
        /\ Consume(n)
        /\ currentVehicle' = [currentVehicle EXCEPT !.second = info]
        /\ vehList' = Stored(currentVehicle.first, info)
        /\ pc' = "store"
        /\ UNCHANGED <<sysState, conn, balance, billed, backlog, link, unread>>
SelectFreeStateFirst(n, residue) ==
    LET args == Text!Args(Message(n))
        state == IF Text!Word(Message(n)) = "reserve" THEN "RESERVED" ELSE "PARKED"
        info == [state |-> state, lot |-> args[1], grid |-> args[2]]
        half == [Lookup(currentVehicle.first) EXCEPT !.state = state]
    IN  /\ InMenu("MENU_NOT_RESERVED")
        /\ Text!Word(Message(n)) \in GridCommand
        /\ Len(args) >= 2
        /\ <<args[1], args[2]>> \in Spots \ (Marked \union residue)
        /\ Consume(n)
        /\ currentVehicle' = [currentVehicle EXCEPT !.second = info]
        /\ vehList' = Stored(currentVehicle.first, half)
        /\ pc' = "store"
        /\ UNCHANGED <<sysState, conn, balance, billed, backlog, link, unread>>

SelectFreePastEnd(n, residue) ==
    LET args == Text!Args(Message(n))
        state == IF Text!Word(Message(n)) = "reserve" THEN "RESERVED" ELSE "PARKED"
        info == [state |-> state, lot |-> args[1], grid |-> args[2]]
        half == [info EXCEPT !.grid = Lookup(currentVehicle.first).grid]
    IN  /\ InMenu("MENU_NOT_RESERVED")
        /\ Text!Word(Message(n)) \in GridCommand
        /\ Len(args) >= 2
        /\ <<args[1], args[2]>> \in (Lots \X (1..(NumGrids + 1))) \ (Marked \union residue)
        /\ Consume(n)
        /\ currentVehicle' = [currentVehicle EXCEPT !.second = info]
        /\ vehList' = Stored(currentVehicle.first, half)
        /\ pc' = "store"
        /\ UNCHANGED <<sysState, conn, balance, billed, backlog, link, unread>>

(* selectGrid succeeds, and setVehState begins to copy the record into the *)
(* map: state and lot are one 8-byte store, grid is a second one.          *)
SelectFree(n, residue) ==
    LET args == Text!Args(Message(n))
        state == IF Text!Word(Message(n)) = "reserve" THEN "RESERVED" ELSE "PARKED"
        info == [state |-> state, lot |-> args[1], grid |-> args[2]]
        half == [info EXCEPT !.grid = Lookup(currentVehicle.first).grid]
    IN  /\ InMenu("MENU_NOT_RESERVED")
        /\ Text!Word(Message(n)) \in GridCommand
        /\ Len(args) >= 2
        /\ <<args[1], args[2]>> \in Spots \ (Marked \union residue)
        /\ Consume(n)
        /\ currentVehicle' = [currentVehicle EXCEPT !.second = info]
        /\ vehList' = Stored(currentVehicle.first, half)
        /\ pc' = "store"
        /\ UNCHANGED <<sysState, conn, balance, billed, backlog, link, unread>>

(* The second store, then "Reserve successful." or "Check-in successful."  *)
StoreGrid ==
    /\ pc = "store"
    /\ vehList' = Stored(currentVehicle.first, currentVehicle.second)
    /\ Say("WELCOME", "top")
    /\ UNCHANGED <<conn, currentVehicle, balance, billed, backlog, inbox>>

-----------------------------------------------------------------------------
(* showMenuReserved *)

ReservedShow(n) ==
    /\ InMenu("MENU_RESERVED")
    /\ Text!Equals(Message(n), "show")
    /\ Answer(n, "MENU_RESERVED", "loop")

ReservedCancel(n) ==
    /\ InMenu("MENU_RESERVED")
    /\ Text!Equals(Message(n), "cancel")
    /\ Return(n, "PAY")

ReservedCheckIn(n) ==
    LET info == [currentVehicle.second EXCEPT !.state = "PARKED"] IN
    /\ InMenu("MENU_RESERVED")
    /\ Text!Equals(Message(n), "check-in")
    /\ Consume(n)
    /\ currentVehicle' = [currentVehicle EXCEPT !.second = info]
    /\ vehList' = Stored(currentVehicle.first, info)
    /\ Say("WELCOME", "top")
    /\ UNCHANGED <<conn, balance, billed, backlog>>

(* The statement that prints "Logout." comes after the return.             *)
ReservedExit(n) ==
    /\ InMenu("MENU_RESERVED")
    /\ Text!Equals(Message(n), "exit")
    /\ Return(n, "WELCOME")

ReservedInvalid(n) ==
    /\ InMenu("MENU_RESERVED")
    /\ \A word \in {"show", "cancel", "check-in", "exit"} :
         ~Text!Equals(Message(n), word)
    /\ Answer(n, "MENU_RESERVED", "loop")

-----------------------------------------------------------------------------
(* showMenuParked *)

(* Showing the space leads on to the menu of a vehicle without a grid.     *)
ParkedShow(n) ==
    /\ InMenu("MENU_PARKED")
    /\ Text!Equals(Message(n), "show")
    /\ Answer(n, "MENU_NOT_RESERVED", "top")

ParkedPickUp(n) ==
    /\ InMenu("MENU_PARKED")
    /\ Text!Equals(Message(n), "pick-up")
    /\ Return(n, "PAY")

ParkedExit(n) ==
    /\ InMenu("MENU_PARKED")
    /\ Text!Equals(Message(n), "exit")
    /\ Answer(n, "WELCOME", "top")

ParkedInvalid(n) ==
    /\ InMenu("MENU_PARKED")
    /\ \A word \in {"show", "pick-up", "exit"} : ~Text!Equals(Message(n), word)
    /\ Answer(n, "MENU_PARKED", "loop")

-----------------------------------------------------------------------------
(* showPay: the fee is added to the balance, then the record is given up   *)
(* and the fee announced.                                                  *)

(* Mutant of PayFee: the state is reset before the fee is chosen by it.    *)
PayFeeAfterReset ==
    /\ sysState = "PAY" /\ pc = "top"
    /\ currentVehicle' = [currentVehicle EXCEPT !.second.state = "INIT"]
    /\ balance' = balance + Fee(currentVehicle'.second.state)
    /\ billed' = billed + AnnouncedFee(currentVehicle'.second.state)
    /\ pc' = "settle"
    /\ UNCHANGED <<sysState, conn, vehList, socketVars>>

PayFee ==
    /\ sysState = "PAY" /\ pc = "top"
    /\ balance' = balance + Fee(currentVehicle.second.state)
    /\ billed' = billed + AnnouncedFee(currentVehicle.second.state)
    /\ currentVehicle' = [currentVehicle EXCEPT !.second.state = "INIT"]
    /\ pc' = "settle"
    /\ UNCHANGED <<sysState, conn, vehList, socketVars>>

PaySettle ==
    /\ sysState = "PAY" /\ pc = "settle"
    /\ vehList' = Stored(currentVehicle.first, currentVehicle.second)
    /\ Say("WELCOME", "top")
    /\ UNCHANGED <<conn, currentVehicle, balance, billed, backlog, inbox>>

-----------------------------------------------------------------------------
NotReservedCommand(n) ==
    \/ NotReservedShow(n) \/ NotReservedExit(n)
    \/ NotReservedInvalid(n) \/ NotReservedEmptyLine(n)
    \/ \E residue \in HeapResidue : SelectTaken(n, residue) \/ SelectFree(n, residue)

ReservedCommand(n) ==
    \/ ReservedShow(n) \/ ReservedCancel(n) \/ ReservedCheckIn(n)
    \/ ReservedExit(n) \/ ReservedInvalid(n)

ParkedCommand(n) ==
    \/ ParkedShow(n) \/ ParkedPickUp(n) \/ ParkedExit(n) \/ ParkedInvalid(n)

Server ==
    \/ ShowWait \/ EnterMenu \/ HangUp \/ ReadError
    \/ StoreGrid \/ PayFee \/ PaySettle
    \/ \E n \in Available :
         ShowWelcome(n) \/ NotReservedCommand(n) \/ ReservedCommand(n) \/ ParkedCommand(n)
=============================================================================
