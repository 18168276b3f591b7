---------------------------- MODULE ParkingSystem ---------------------------
(***************************************************************************)
(* Homework 2 as a whole: the server thread and the report thread of one   *)
(* process, and the clients that talk to it over TCP.                      *)
(***************************************************************************)
EXTENDS ParkingReport

CONSTANTS
    Patient,        \* clients that read a reply before they send the next line
    MaxInFlight,    \* bound: unread lines of one client
    MaxLines        \* bound: lines all clients send together

ASSUME PatientAssumption == Patient \subseteq Client

VARIABLES
    sent,           \* lines the clients have sent
    awaiting        \* awaiting[c]: c has sent a line and waits for the reply

clientVars == <<sent, awaiting>>
vars == <<serverVars, reportVars, clientVars>>

ClientTypeOK ==
    /\ sent \in Nat
    /\ awaiting \in [Client -> BOOLEAN]

Init ==
    /\ ServerInit
    /\ ReportInit
    /\ sent = 0
    /\ awaiting = [c \in Client |-> FALSE]

-----------------------------------------------------------------------------
(* Clients: any program; the patient ones behave like hw2_checker, which   *)
(* answers every reply with one command.                                   *)

Connect(c) ==
    /\ link[c] = "idle" /\ conn # c
    /\ sent < MaxLines
    /\ link' = [link EXCEPT ![c] = "open"]
    /\ backlog' = Append(backlog, c)
    /\ UNCHANGED <<inbox, unread, sent, awaiting>>

Send(c, line) ==
    /\ link[c] = "open"
    /\ sent < MaxLines
    /\ Len(inbox[c]) < MaxInFlight
    /\ c \in Patient => ~awaiting[c]
    /\ inbox' = [inbox EXCEPT ![c] = Append(@, line)]
    /\ sent' = sent + 1
    /\ awaiting' = [awaiting EXCEPT ![c] = c \in Patient]
    /\ UNCHANGED <<backlog, link, unread>>

Receive(c) ==
    /\ link[c] = "open"
    /\ unread[c]
    /\ unread' = [unread EXCEPT ![c] = FALSE]
    /\ awaiting' = [awaiting EXCEPT ![c] = FALSE]
    /\ UNCHANGED <<backlog, link, inbox, sent>>

(* close(): with replies unread the connection is reset instead.           *)
Close(c) ==
    /\ link[c] = "open"
    /\ link' = [link EXCEPT ![c] = IF unread[c] THEN "aborted" ELSE "closed"]
    /\ unread' = [unread EXCEPT ![c] = FALSE]
    /\ awaiting' = [awaiting EXCEPT ![c] = FALSE]
    /\ UNCHANGED <<backlog, inbox, sent>>

Clients ==
    /\ sysState # "KILLED"
    /\ \E c \in Client :
         \/ Connect(c) \/ Receive(c) \/ Close(c)
         \/ \E line \in Line : Send(c, line)
    /\ UNCHANGED <<sysState, pc, conn, recordVars, reportVars>>

ServerThread == Server /\ Watched /\ UNCHANGED clientVars
ReportThread == Logger /\ UNCHANGED clientVars

Next == ServerThread \/ ReportThread \/ Clients

Spec == Init /\ [][Next]_vars

PatientReceive(c) ==
    /\ sysState # "KILLED"
    /\ Receive(c)
    /\ UNCHANGED <<sysState, pc, conn, recordVars, reportVars>>

(* The kernel schedules both threads of the process, and a patient client  *)
(* does nothing but read while it waits.                                   *)
Fairness ==
    /\ WF_vars(ServerThread)
    /\ WF_vars(ReportThread)
    /\ \A c \in Patient : WF_vars(PatientReceive(c))

FairSpec == Spec /\ Fairness

-----------------------------------------------------------------------------
(* Properties *)

(* Every variable keeps its type.  VehicleInfo leaves out the state        *)
(* PARKED_NO_RESERVED, which this build of parking_lot.cpp never assigns.  *)
SystemTypeOK == TypeOK /\ ReportTypeOK /\ ClientTypeOK

(* However lines are run together, connections break and the bytes of      *)
(* getGridState's array begin, selectGrid never gives one grid to two      *)
(* vehicles.                                                               *)
NoDoubleBooking ==
    \A v, w \in Holding : SpotOf(v) = SpotOf(w) => v = w

(* getGridState indexes its array by the stored lot and shifts by the      *)
(* stored grid: whenever a command can reach it, both exist.               *)
HeldSpotsExist == \A v \in Holding : SpotOf(v) \in Spots

(* The state functions decide by currentVehicle, a copy made at login, and *)
(* getGridState by vehList: from login to logout the copy is current, and  *)
(* nobody reaches showPay, or the menus for a held grid, without a grid.   *)
CopyIsCurrent ==
    sysState \in Menus \union {"PAY"} /\ pc \in {"top", "loop"} =>
        /\ currentVehicle.first \in DOMAIN vehList
        /\ currentVehicle.second = vehList[currentVehicle.first]
        /\ sysState = "MENU_RESERVED" => currentVehicle.second.state = "RESERVED"
        /\ sysState = "MENU_PARKED" => currentVehicle.second.state = "PARKED"
        /\ sysState = "PAY" => currentVehicle.second.state # "INIT"

(* The menus, the copy and the map together implement the ledger: a grid   *)
(* changes hands only when it is free, and is given up only against its    *)
(* fee or for another grid.                                                *)
Ledger == INSTANCE GarageLedger WITH
    Vehicle <- Plate,
    Spot <- Spots,
    Charge <- [kind \in {"RESERVED", "PARKED"} |-> Fee(kind)],
    held <- [v \in Holding |-> [spot |-> SpotOf(v), kind |-> Registry[v].state]],
    income <- balance
ImplementsLedger == Ledger!Spec

(* The balance is the sum of what clients were told they pay.              *)
BilledIsCharged == balance = billed

(* The total of the report has every fee charged before and during it, and *)
(* a vehicle that held a grid when the report began is in the report, or   *)
(* is one of those charged.  showPay charges before it gives the record up *)
(* and logStatus reads the total last, so a vehicle cannot leave unseen    *)
(* and unpaid between the two.                                             *)
ReportIsComplete ==
    logPc = "done" =>
        /\ total = before + charged
        /\ race = "no" => \A v \in present :
                              v \in paid \/ \E i \in DOMAIN rows : rows[i].plate = v

(* A row of the report names an existing lot even when it is loaded while  *)
(* the record is being written: state and lot are stored together.  The    *)
(* grid is stored after them, and a row may well show the one before or -1.*)
ReportedLotsExist == \A i \in DOMAIN rows : rows[i].lot \in Lots

(* When its client hangs up, the server gets to the end of what was sent   *)
(* and closes the connection, unless writing to it kills the process.      *)
HangUpNoticed ==
    \A c \in Client :
        (conn = c /\ link[c] # "open") ~> (conn # c \/ sysState = "KILLED")

(* hw2_checker sends a command and reads one reply: every command is       *)
(* answered.  Meant for the first client in line: another would have to    *)
(* wait until that one, idle or not, hangs up.                             *)
PatientAnswered == \A c \in Patient : awaiting[c] ~> ~awaiting[c]
=============================================================================
