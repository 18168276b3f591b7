---------------------------- MODULE ParkingReport ---------------------------
(***************************************************************************)
(* The second thread of homework 2: th() in hw2.cpp waits for the word     *)
(* "write" on standard input and runs logStatus, which walks the map the   *)
(* server thread is changing.  Nothing synchronises the two.               *)
(***************************************************************************)
EXTENDS ParkingLot

CONSTANT WriteTyped    \* somebody types "write" on the server's terminal
ASSUME WriteAssumption == WriteTyped \in BOOLEAN

VARIABLES
    logPc,      \* "idle", "test", "grid", "lot", "next", "total", "done"
    logAt,      \* the plate the map iterator stands on
    logGrid,    \* the grid number loaded for the row under way
    rows,       \* the rows written
    total,      \* the income written
    race,       \* did an insertion meet an iterator step: "no", "now", "was"
    present,    \* history: the vehicles holding a grid when the report began
    before,     \* history: the balance when the report began
    paid,       \* history: the vehicles charged while it was being written
    charged     \* history: what they were charged together

incomeVars == <<before, paid, charged>>
reportVars == <<logPc, logAt, logGrid, rows, total, race, present, incomeVars>>

ReportTypeOK ==
    /\ logPc \in {"idle", "test", "grid", "lot", "next", "total", "done"}
    /\ logAt \in Plate
    /\ logGrid \in Int
    /\ rows \in Seq([plate : Plate, lot : Int, grid : Int])
    /\ total \in Nat
    /\ race \in {"no", "now", "was"}
    /\ present \subseteq Plate
    /\ before \in Nat
    /\ paid \subseteq Plate
    /\ charged \in Int

ReportInit ==
    /\ logPc = "idle"
    /\ logAt = 0
    /\ logGrid = 0
    /\ rows = <<>>
    /\ total = 0
    /\ race = "no"
    /\ present = {}
    /\ before = 0
    /\ paid = {}
    /\ charged = 0

Scanning == logPc \in {"test", "grid", "lot", "next", "total"}

(* The next keys in map order; there are none after the last.              *)
First(keys) == {k \in keys : \A other \in keys : k <= other}
After(at) == First({k \in DOMAIN vehList : k > at})

(* The iterator stands on a key of the set, or at end() when it is empty.  *)
MoveTo(keys) ==
    \/ /\ \E k \in keys : logAt' = k
       /\ logPc' = "test"
    \/ /\ keys = {}
       /\ logPc' = "total"
       /\ UNCHANGED logAt

LogStart ==
    /\ logPc = "idle"
    /\ WriteTyped
    /\ present' = Holding
    /\ before' = balance
    /\ MoveTo(First(DOMAIN vehList))
    /\ UNCHANGED <<logGrid, rows, total, race, paid, charged>>

(* Mutant of LogTest: only parked vehicles are listed.                     *)
LogTestParkedOnly ==
    /\ logPc = "test"
    /\ logPc' = IF vehList[logAt].state = "PARKED" THEN "grid" ELSE "next"
    /\ UNCHANGED <<logAt, logGrid, rows, total, race, present, incomeVars>>

LogTest ==
    /\ logPc = "test"
    /\ logPc' = IF vehList[logAt].state # "INIT" THEN "grid" ELSE "next"
    /\ UNCHANGED <<logAt, logGrid, rows, total, race, present, incomeVars>>

(* sprintf's arguments are loaded last to first: grid, then lot.           *)
LogGrid ==
    /\ logPc = "grid"
    /\ logGrid' = vehList[logAt].grid
    /\ logPc' = "lot"
    /\ UNCHANGED <<logAt, rows, total, race, present, incomeVars>>

LogLot ==
    /\ logPc = "lot"
    /\ rows' = Append(rows, [plate |-> logAt, lot |-> vehList[logAt].lot, grid |-> logGrid])
    /\ logPc' = "next"
    /\ UNCHANGED <<logAt, logGrid, total, race, present, incomeVars>>

(* it++.  An insertion that rebalances the tree under the iterator is      *)
(* undefined: the step may end on any key, or at end().                    *)
LogNext ==
    /\ logPc = "next"
    /\ IF race = "now"
       THEN (\E k \in DOMAIN vehList : MoveTo({k})) \/ MoveTo({})
       ELSE MoveTo(After(logAt))
    /\ race' = IF race = "now" THEN "was" ELSE race
    /\ UNCHANGED <<logGrid, rows, total, present, incomeVars>>

(* Mutant of LogTotal: the total was loaded before the rows were written.  *)
LogTotalLoadedFirst ==
    /\ logPc = "total"
    /\ total' = before
    /\ logPc' = "done"
    /\ UNCHANGED <<logAt, logGrid, rows, race, present, incomeVars>>

LogTotal ==
    /\ logPc = "total"
    /\ total' = balance
    /\ logPc' = "done"
    /\ UNCHANGED <<logAt, logGrid, rows, race, present, incomeVars>>

Logger ==
    /\ sysState # "KILLED"
    /\ LogStart \/ LogTest \/ LogGrid \/ LogLot \/ LogNext \/ LogTotal
    /\ UNCHANGED serverVars

(* What a step of the server thread means for the report under way.        *)
Watched ==
    /\ race' = IF logPc = "next" /\ DOMAIN vehList' # DOMAIN vehList
               THEN "now" ELSE race
    /\ paid' = IF Scanning /\ balance' # balance
               THEN paid \union {currentVehicle.first} ELSE paid
    /\ charged' = IF Scanning THEN charged + (balance' - balance) ELSE charged
    /\ UNCHANGED <<logPc, logAt, logGrid, rows, total, present, before>>
=============================================================================
