----------------------------- MODULE MCParking ------------------------------
(***************************************************************************)
(* Values for the constants of ParkingSystem: one lot of two grids, the    *)
(* plates 1 and 2, and 0, which is what atoi makes of a word.              *)
(***************************************************************************)
EXTENDS ParkingSystem

CONSTANTS a, b

Plates == {0, 1, 2}

Command(w, as) == [word |-> w, args |-> as, num |-> 0]
PlateLine(p) == [word |-> "number", args |-> <<>>, num |-> p]
Words == {Command(w, <<>>) : w \in {"show", "cancel", "check-in", "pick-up", "exit"}}
Grid(w, g) == Command(w, <<1, g>>)

(* Every command of every menu, a grid that does not exist, a command      *)
(* without its second argument and an empty line.                          *)
AllLines ==
    {PlateLine(p) : p \in {1, 2}} \union Words
    \union {Grid("reserve", g) : g \in 1..3} \union {Grid("check-in", 1)}
    \union {Command("reserve", <<1>>), Command("", <<>>)}

(* Enough to reserve, park and leave.                                      *)
ShortLines ==
    {PlateLine(p) : p \in {1, 2}}
    \union {Command(w, <<>>) : w \in {"show", "cancel", "pick-up"}}
    \union {Grid("reserve", 1), Grid("check-in", 2)}

(* The same without looking around.                                        *)
ReportLines == ShortLines \ {Command("show", <<>>)}

(* What hw2_checker sends, without and with "exit".                        *)
PoliteLines ==
    {PlateLine(1), Grid("reserve", 1), Grid("reserve", 2)}
    \union {Command(w, <<>>) : w \in {"show", "cancel", "check-in", "pick-up"}}
PoliteLinesAndExit == PoliteLines \union {Command("exit", <<>>)}

(* A clean array, and one whose stale byte marks the second grid.          *)
CleanHeap == {{}}
DirtyHeap == {{}, {<<1, 2>>}}
=============================================================================
