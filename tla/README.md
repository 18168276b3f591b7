# A formal model of embedded_operating_system_2020

The repository holds the homework and lab programs of a course on embedded operating
systems: two parking lot controllers, a calculator, a character device, and small
servers and signal exercises. This directory holds TLA+ modules of them, TLC runs that
check the modules on small instances, and TLAPS proofs for every instance. Modelled are
homeworks 1 and 2, and labs 2, 4, 6 and 7; lab 5 and a few demonstrations are not, for the
reasons given at the end.

    tlc -config parking_text.cfg MCParking.tla      (each .cfg names its run)
    tlapm ParkingProofs.tla     (and ReportProofs, BankProofs, KeypadProofs,
                                 GuessProofs, DisplayProofs, CalculatorProofs,
                                 CalculatorValueProofs)

## Inventory

| part | state | operations | what is hard | what makes it correct |
|---|---|---|---|---|
| homework 2, `parking_lot.cpp` (socket build) | `sysState`, `currentVehicle`, `vehList`, `balance`, `conn_fd` | one function per state: wait, welcome, three menus, pay | TCP glues commands together and connections break anywhere; the record is kept twice; `getGridState` starts from uninitialised bytes | no grid held twice; nothing leaves a grid without its fee or another grid; a hang-up is noticed; every command is answered |
| homework 2, report thread (`hw2.cpp` `th`, `logStatus`) | a map iterator, a row | walk the map, write the rows and the total | no lock against the server thread | the report misses nobody, its rows name existing lots |
| homework 2, clients (`hw2_checker`, binary only) | a connection | send a command, read a reply | | |
| homework 2, PXA variant (`USE_PXA_IO`) | the same | keypad, LCD and LED calls | never compiled | not modelled |
| lab 6, `server.c` | `total_amount`, a System V semaphore, `stop`, `sock_fd` | accept, a thread per connection, `P`/`V`, `intHandler` | threads, signals at any point, a semaphore that outlives the process | no update lost, requests settled, a stop leaves nothing behind |
| lab 6, `client.c` | | one connection and one request per turn | | |
| `socket_utils.c` (homework 2, labs 5, 6) | | create a listening or a connected socket | the server listens before it is ready | |
| homework 1, `hw1.c` | `number[3][8]`, `reserve[3][8]`, input buffer | keypad menus | long key sequences; `reserve` never cleared; plate 0; short inputs | one car per grid, fees that match the history |
| lab 2, `lab2.c` (`lab2__.c` is a copy) | expression buffer, stack, postfix array | infix to postfix, evaluate, clamp, show | operands that look like operators or like the terminator | the value of the expression |
| lab 4, `mydev.c`, `reader.cpp`, `writer.cpp`, `seg.py` | the device's one letter and output array | write a letter, read sixteen segments, frame them over TCP | reader and writer only paced by `sleep(1)`; short `recv` | the display shows letters that were written |
| lab 5, `lab5.c` | `stop`, children, descriptors | fork per connection | descriptors never closed, zombies, restarted `accept` | |
| lab 7, `guess.c`, `game.c` | shared guess and result | binary search answered by a SIGUSR1 handler | signal and write in either order | the search ends with the number |
| lab 7, `shm_server.c`, `shm_client.c` | a shared segment | fill, read, answer with `*` | attach before fill, lost `*` | the reader sees the whole text |
| lab 7, `sigCount.c`, `catchSignal.c`, `timer.c` | a counter | count signals | pending signals coalesce | |
| homework 3 | | | only two checker binaries, no source | not modelled |

How the parts interact. The programs of different directories share no code at run
time. In homework 2 the server thread and the report thread share one `ParkingLot`
object without a lock, and clients reach the server thread over TCP, one connection at
a time. In lab 6 `main`, the connection threads and the signal handler share
`total_amount`, `sock_fd` and the semaphore; successive processes share the semaphore.

The hazards this leaves, each at its line, are listed in `PROJECT.json` with the
properties that cover them, or the reason why none does.

## Plan

1. **Done.** Homework 2 (`ParkingLot`, `ParkingReport`, `ParkingSystem`, against the
   abstract `GarageLedger`) and lab 6 (`BankServer`, against `AtomicAccount`), the two
   programs with real concurrency, and their type, safety and refinement theorems.
2. **Done.** Homework 1: `KeypadLot`, which keeps the same ledger as homework 2, and
   whose fees are compared with how a grid was taken.
3. **Done.** Lab 7: `GuessGame` (two processes and SIGUSR1) and `HandOver`.
4. **Done.** Lab 4: `SegmentDisplay`, writer, device, reader and display as one pipeline.
5. **Done.** Lab 2: `Calculator`, against a reference evaluator.
6. **Done.** Proofs: the safety invariants of homework 1, lab 4 and the guessing game, the
   refinement of homework 1, and lab 2 (types, displays, and that the conversion to postfix
   keeps the value).
7. Open: whether lab 5 has a property beyond its known leaks; a segment that an earlier
   guessing game left behind; several messages on one connection of lab 6; a proof that
   expressions of up to nine keys never leave the range of `int`.

## Homework 2

`CommandText` says what the server sees of the text it reads. A line is a record of its
first word, the numbers after it and the number it starts with; a message is the
non-empty sequence of lines that one `read()` returned. The operators say what
`strtok`, `strcmp` and `atoi` make of such a message: `Word`, `NoToken` and `Args` for the
menu that uses `strtok`, `Equals` for the menus that use `strcmp`, `Number` for the plate.

`ParkingLot` is the server thread. Its variables carry the names of the class:
`sysState`, `currentVehicle`, `vehList`, `balance`; `conn` is the client behind `conn_fd`.
`pc` says where inside a state function the thread is: at its `"top"`, in the command
`"loop"`, at the second `"store"` of a record, or about to `"settle"` a payment. There is
one action per branch of each state function (`NotReservedShow`, `ReservedCancel`,
`ParkedPickUp`, ...), named after the menu and the command. The points at which another
party can see a difference are the steps:

* a record is three integers. The build copies `state` and `lot` in one store and `grid`
  in a second; `SelectFree` is the first, `StoreGrid` the second, with the reply;
* `showPay` adds to the balance (`PayFee`) before it gives up the record and announces
  the fee (`PaySettle`);
* `read()` returns any non-empty prefix of the lines waiting. Nothing, after the client
  closed, is `HangUp`; -1, after a reset, is `ReadError`: the caller goes on with its old
  buffer and its next write ends the process, so the model ends it at once;
* `write()` (`Say`) succeeds on an open connection, provokes a reset on one that the
  client has closed, fails unnoticed when it meets that reset, and raises SIGPIPE after.

`getGridState` ors the taken grids into three bytes from `new char[3]` that nobody
clears. `Marked` is what the records add; `HeapResidue` is the set of things those bytes
may have held before, and each look at the grids chooses one. This is why a free grid
can be refused. Replies are one bit per client (`unread`): a waiting reply decides
whether a close is a reset, and whether a patient client may go on.

`ParkingReport` is the second thread. Every load of `logStatus` is a step: the state of
the record, its `grid`, its `lot` (arguments are evaluated last to first), the iterator,
the balance. An insertion while the iterator advances is undefined behaviour; the
iterator may then land on any key or at the end, and `race` remembers it. `before`, `paid`
and `charged` are history: the balance when the report began, who was charged while it was
written, and how much. With them `ReportIsComplete` says that the total has every fee
charged by then and that whoever is neither listed nor among those charged was not there.
A row may show a grid of before, or -1, next to the new lot: that is what a copy in two
stores gives, and nothing claims otherwise.

`ParkingSystem` composes both with the clients. A client is any program that connects,
sends lines, reads and closes; the `Patient` ones read a reply before they send the next
line, as `hw2_checker` does. `GarageLedger` is what the whole promises: a vehicle takes a
free spot, arrives, settles. The mapping reads the ledger off the records as they will
be when the copy under way is finished (`Registry`), so the two stores of a record are one
step of the ledger.

A parked vehicle that asks for `show` gets the menu of a vehicle without a grid
(`parking_lot.cpp:349`) and may take another grid there, giving up the first without
a fee. That is why `Take` in the ledger lets a vehicle move.

### Runs

All use one lot of two grids, plates 1 and 2, and 0 for what `atoi` makes of a word.
Two grids and two plates are the least for a double booking and a move. Four lines let
two vehicles ask for one grid, or one check in and pick up; five let a parked vehicle
move to another grid (`parking_sharing`; that the copy of its record stays current then
is proved, not reached by the four lines of `parking_text`); seven let a vehicle reserve, check in and pick up, with one line
to spare.

| run | asks | bounds |
|---|---|---|
| `parking_text` | does the copy of the record stay current, does every held grid exist, is a hang-up noticed, whatever text arrives in whatever portions? | one client, every command of every menu, wrong and empty lines, up to two lines per `read()`, four lines, both heap contents |
| `parking_sharing` | is a grid ever held twice, do the menus implement the ledger? | two clients that connect again and again, five lines, both heap contents |
| `parking_report` | is the report complete and well-formed, whenever it is started, and is every command answered? | one patient client that never sends `exit` (a second would wait until the first hangs up), five lines: enough to reserve, log in, cancel and log in again during the walk |
| `parking_fee` (violated) | does the balance grow by what clients are told? | one patient client, seven lines |
| `parking_exit` (violated) | is every command answered, `exit` included? | the same with `exit` |

`MaxLines` bounds the lines of a behaviour, `MaxInFlight` those waiting unread. The server
really may stand still (it waits in `accept` or `read`), so deadlock is not checked.

Two runs end in a counterexample. `showPay` announces `Parking fee: $40.` and adds 30
(`parking_lot.cpp:560-561`); and in the menu of a reserved vehicle `exit` returns before
the statement that answers it (`parking_lot.cpp:296-297`), so a client that waits for
that answer waits for ever. `ImplementsLedger` speaks of what is added to the balance and
is not touched by the first.

Fairness: `WF_vars(ServerThread)` and `WF_vars(ReportThread)`, since the kernel schedules
both threads, and `WF_vars(PatientReceive(c))`, since a client that waits for a reply does
nothing but read. No client is obliged to send or to close.

## Lab 6

`BankServer` models `main` (`Start` to `Exit`), the handler in the two steps others can
see (`Interrupt` sets `stop` and closes the socket, `RemoveSem` removes the semaphore),
and `connectCallback` for each connection: `Read`, `P`, `Load` and `Store` (the two halves
of `+=`), or `Ignore` for another letter, `V`, `Eof`. `P` and `V` on a removed semaphore fail
and the caller does not look, so the model lets the thread pass. The process may be
killed at any time, or interrupted before the handler is installed, and started again;
its memory, threads and sockets go and the semaphore stays. `main` stands still while the
handler runs, because the handler runs on the main thread. A second SIGINT that another
thread would take while the first is handled ends the process as `InterruptAgain` does.
`ledger`, `applied` and `killed` are history.

A client may end before its `write()`, so a first `read()` may return 0 and go to `Eof` at
once. `pthread_create` may always succeed and may fail from `ThreadLimit` threads on: the
connection is then an `"orphan"`, which nobody serves or closes while the server runs.

`AtomicAccount` is the promise: while the server serves, each request is one indivisible
addition, counted once. It holds nothing once the semaphore is removed: between then and
the end of the process threads may overlap, and nobody can read the amount any more.

| run | asks | bounds |
|---|---|---|
| `bank` | exclusion, no lost update, refinement of `AtomicAccount`; is the semaphore left behind only by a kill (or by an interrupt before the handler is installed), is every queued request settled, unless it is an orphan? | three connections (a deposit of 1, a withdrawal of 2, an unknown letter), two threads, after which `pthread_create` may fail, two starts |

Three connections are the least for one inside, one waiting and one arriving; two starts
are the least for a start to meet what an earlier process left. Fairness is weak
fairness of the main thread and of each connection's thread: the kernel runs them, and
with one `P` per connection nobody can be overtaken for ever. Starting, stopping,
killing and connecting are never obliged to happen. The server may stay off and every
client may be done, so deadlock is not checked.

## Homework 1

`KeypadLot` is one program at one keypad, so what is hard is not interleaving but long
sequences of legal keys. `mode` says which loop of `main` reads the next key: the plate
(`DigitKey`, `HashKey`), a menu (`ChooseKey`, `ExitKey`, `CancelKey`, `CheckInKey`,
`PickUpKey`), the choice of a lot and a grid (`LotKey`, then `Reserve`, `CheckIn` or
`GridTaken`), or the key that ends a round (`AnyKey`). `number` and `reserve` are the
arrays, indexed by lot and grid; `at` is the pair `i`, `j` where the search left its loops,
which a menu uses much later. `input` keeps the digits of earlier plates where fewer are
typed, as the buffer does: with the plates 1, 10 and 11, what is looked up may be a plate
nobody meant. Plate 0 equals an empty grid and is followed through its menu.

`stay` and `bill` are history: how the present holder took its grid, and what the last
fee shown was against what that stay costs.

| run | asks | bounds |
|---|---|---|
| `keypad` | is a plate ever at two grids, does the open menu fit the grid it will write, does anybody pay too much, do the keys keep the ledger of homework 2? | two lots of one grid, four plates and 0 |
| `keypad_fee` (violated) | does a mark in `reserve` mean what its comment says? | the same |

Two spots and three plates are the least for a plate at two spots, for a full lot, and for
a grid that changes hands. Deadlock is checked: some key is always accepted. `reserve` is
set when a grid is reserved and never cleared (`hw1.c:239`): a vehicle that checks in
directly where someone else once reserved is shown $30 instead of $40. That is the only
way a fee is wrong: `NobodyOvercharged` says that it is never too high.

## Lab 7: the guessing game

`GuessGame` has two processes. `game` is its main thread (`Create` to `Remove`) and the
handler of SIGUSR1, which runs on top of that thread wherever it is (`Deliver`), so main
stands still while `hpc` is not `"none"`; the handler blocks its own signal. `guess` is
the client. They share the integer `guess` and the text `result` without a lock; each load
and store that the other side can notice is a step, and a `strcpy` has a moment in which
the text is no word the client knows. A second signal that arrives while one is pending is
lost. A signal before `game` is attached, or after it detached, makes the handler load
through a pointer that is not valid: `pc` is then `"dead"`.

The verdicts carry no number, so the client may take one for a verdict on a later guess.
`judged`, `about` and `heard` are history and say which guess a verdict is about; `misled` is
set when the client narrows its interval by a verdict on another guess, `unheard` when a
signal brings no verdict or the verdict is erased. These strand the game, as do a handler
that faults and a client that starts too early, and `GameEnds` says that nothing else does.

| run | asks | bounds |
|---|---|---|
| `game` | does the interval keep the number, is bingo said for the number, does the game end, unless one of those races occurs? | every number from 1 to 5, an `int` of -10 to 9 |

Five numbers make searches of three guesses, in both directions and with the last interval
of one number. The sum of the two bounds overflows an `int` from the middle of its range
on, and so does 5 + 5 here: the build wraps it around (`Wrap`) and the guess written is
negative. The handler gives no verdict on a negative guess, so the interval is safe, but the
client waits for ever; `unheard` notes it and `GameEnds` excepts it, with the other races that
strand the game in the code as written. Fairness is weak fairness of each process, which the kernel schedules; that
the client polls without a pause does not matter to it. Both processes end, so deadlock
is not checked.

`HandOver` is `shm_server` and `shm_client`, cell by cell. Its run `handover` checks what
the comment at `shm_server.c:47` says of the `*` and is violated: the client may attach
before the first letter is there, reads an empty text and writes its `*` none the less.
Three letters stand for the 26.

## Lab 4

`SegmentDisplay` is the pipeline: `Write` is `writer` and `my_write`, `Read` and `Send` are
`reader` with `my_read`, whose table is `seg_for_c` (its case labels treat a small letter as its
`Capital`), `Interrupt` is its SIGINT handler, which
closes the descriptors and lets the next call fail; `Update` is `seg.py`, one `recv(16)` and
the recolouring. Only `sleep` paces the three, so any of them may run ahead. The stream is
a sequence of bytes, each known as segment k of letter i, and `recv` may return less than
it was asked for: then segments of two letters are on at once, and stay so until the bytes
come in step again. `whole` and `shown` are history.

| run | asks | bounds |
|---|---|---|
| `display` | is what a whole frame leaves on the display the letter that was sent and no other, and is the last letter the one that stays? | the text `A5fE`, with a character unknown to the device and a small letter; two frames under way; calls cut at 4 and 12 bytes |

The letters A, F and E share segments, and those of F are among those of E, so one that
is not switched off shows. Fairness: all three programs go on by themselves. The property
assumes that nobody interrupts the reader and that cut calls are not repeated for ever:
nothing in `seg.py` puts the bytes back in step. The writer ends, so deadlock is not
checked.

## Lab 2

`Calculator` translates the functions: `prior`, the conversion to postfix (`Scan` is one step
of the loop, `Scanned` the scan after each prefix, `Postfix` the array at its end),
`calculate_op`, `pop`, the evaluation (`Evaluate` is one token, `Stacks` the stacks after each
prefix of the `Tokens`, which end at the first 0), the clamp, `decimal_to_Binary` with
`led_set` (`Lit`) and `seg_set` (`Bcd`). `calculate` yields the set of results the build can
produce: `pop` on an empty stack returns no value, so any member of `Garbage` may come back.
A division by zero ends the program; where only some of the values that may come back are 0,
it may end (`MayDie`) or go on with the others. The keys are `Key`, `StarKey` and `HashKey`.
`Reference` is the definition to compare with, and knows no stack: an expression without
operators is the number its digits make (`Number`), and any other is split by the last
operator of its lowest level (`Split`), of which `Values` takes the value of both sides.

| run | asks | bounds |
|---|---|---|
| `calc` | is the value shown that of the expression, does the program survive it, do LCD, LEDs and digits agree? | the digits 0, 2 and 4; five keys in any order, seven when digits and operators take turns |

With 4 and 2, operands 42 (the code of `*`) and 22 (not one) can be typed, and with 0 the
operand that equals the terminator. Seven keys give three operators, enough for one of
the higher level between two of the lower and the other way round. `Plain` excludes the
operands that the array cannot hold; for all others the value is right.

## Proofs

The proof modules hold for all values of the constants, under the assumptions named where
the constants are declared: which plates the lines spell, that a plate is an `int` of 32
bits, that `NoClient` and `NoConn` are not clients or connections, the types of the sizes,
of the heap residue, of the requests, of the digits typed, of the garbage an empty stack
returns (which returns something) and of the text displayed, and that the range of the
guessing game is not empty and fits an `int`, which holds 6 at least.
The bounds `MaxLines`, `MaxInFlight`, `MaxStarts`, `MaxAny` and `MaxPlain` carry no
assumption at all: nothing proved depends on them.

`ParkingProofs`:

* `TypesCorrect`: `Spec => []SystemTypeOK`. It needs to know that the iterator stands on
  a key of the map, which holds because records are never erased.
* `Bookings`: `Spec => [](NoDoubleBooking /\ HeldSpotsExist /\ CopyIsCurrent)`. None of the
  three is inductive. `BookingInv` adds `PointMatchesState` (which `pc` goes with which
  `sysState`, and what the copy and the map have in common half way through a store).
* `Refinement`: `Spec => ImplementsLedger`, from the same invariant, one step per action:
  `SelectFree` is `Take`, `ReservedCheckIn` is `Arrive`, `PayFee` is `Settle`, everything
  else changes nothing in the ledger.

`ReportProofs`:

* `Reports`: `Spec => [](ReportIsComplete /\ ReportedLotsExist)`, for a walk over any number
  of records. `WatchInv` is what is inductive: while the walk goes on, a vehicle that was
  present has been listed, or has paid, or still holds its grid and the iterator has yet
  to come to it (`WalkInv`); a record whose state is not `INIT` names an existing lot at
  every point, also between the two stores of a record (`RecordInv`, `RowInv`).
  `ServerEffect` is what a step of the server can do to that: a vehicle gives up its grid
  only in a step that charges it. `IncomeInv` says that what was charged meanwhile is what
  the balance has grown by, and so what the total loaded last contains. The walk ends only after the last record because a
  non-empty set of `int`s has a least element (`LeastPlate`).

`BankProofs`:

* `TypesCorrect`: `Spec => []TypeOK`.
* `Safety`: `Spec => [](MutualExclusion /\ NoLostUpdate /\ RefusedOnlyAfterKill)`. The
  inductive invariant `BankInv` adds what the value of the semaphore says about the
  threads (`LockWord`: 1 when nobody is inside), that the thread about to store has the
  current amount (`LoadIsCurrent`), that no thread exists and no amount has changed before
  `main` reaches its loop (`NotYetServing`), that the listen queue holds each waiting
  connection once (`QueueWaits`), and how far the handler has come (`HandlerInv`).
* `Refinement`: `Spec => ImplementsAccount`; `Store` is `Apply` while the semaphore
  exists, `InstallHandler` opens the account, the handler or the end of the process
  closes it.

`KeypadProofs`, for any number of lots and grids and any digits:

* `TypesCorrect`: `Spec => []TypeOK`.
* `Keys`: `Spec => [](NoTwoPlaces /\ MenuIsCurrent /\ NobodyOvercharged)`. What is
  inductive is `KeypadInv`: the three together (a grid is taken only from a menu whose
  status says that the plate is nowhere), with what a menu points at (`PointsAtGrid`), that
  plate 0 never counts as reserved (`ReservedIsNotZero`), and that a stay which began with
  a reservation left its mark (`StayIsKnown`).
* `Refinement`: `Spec => ImplementsLedger`. A plate is found at one grid at most
  (`OnlyMatch`), and a write to a grid changes nothing for the plates that are not there
  (`OthersStay`); so `Reserve` and `CheckIn` are `Take`, `CheckInKey` is `Arrive`, `CancelKey`
  and `PickUpKey` are `Settle`, or nothing at all for plate 0.

`GuessProofs`, for any range of numbers and any width of `int` that holds it:

* `TypesCorrect`, `IntervalHoldsSecret` (`SearchKeepsSecret`) and `BingoCorrect`
  (`BingoIsRight`). `GuessInv` follows a verdict: it is true of the guess it is about
  while it waits in the handler, in the segment and in the client (`VerdictsTrue`); the 0
  and the -1 that are in the segment before the client's first guess are judged too, but
  such a verdict never meets the same guess again (`GuessIsOwn`); and the client's number
  is the middle of its interval until a verdict cuts the interval, after which the number
  is not the secret (`MiddleIsChecked`), so a client that goes on has not passed by it. A middle that overflowed is negative
  (`MiddleIsPossible` says what it can be), and no verdict is about a negative guess.

`DisplayProofs`, for any text:

* `TypesCorrect` and `Legible` (`ShownIsLegible`). `Aligned` is the invariant: counted from
  its end the stream holds whole frames, so a `recv` that returns 16 bytes with a multiple
  of 16 waiting returns one frame. `Decode` reads a letter off its segments and shows that
  no two letters of the table look alike.

`CalculatorProofs`, for any digits, any garbage and expressions of any length and shape:

* `TypeCorrect`: `Spec => []TypeOK`. Its core is `calculateTyped`: whatever was typed, what
  `calculate` returns is a number, if it returns.
* `DisplaysShowTheValue`: `Spec => []DisplaysAgree`; the LEDs and the digits, read back, are
  the value (`LitShows`, `BcdShows`).
* The functions of the model are recursive, and that such a function satisfies its own
  equation is a theorem, not a definition. `FoldExists` proves once that a table filled from
  left to right exists; `ScannedIsFold`, `StacksIsFold` and, in the next module,
  `NumberIsFold` use it. The library's induction theorems take an operator as a parameter;
  `Induction` is stated for a set of numbers instead and follows from the well-foundedness
  of `<`.

`CalculatorValueProofs`, for the expressions that are `Plain`, whatever their length:

* `ConversionKeepsTheValue`: `calculate(e) = {Reference(e)}`. The invariant of the scan is
  `ScanInv`: after `e[1..k]` the operator stack holds nothing (`NoneWaits`), the last operator
  (`OneWaits`), or the last additive operator and a multiplicative one after it
  (`TwoWait`), never more; and evaluating the tokens output so far leaves exactly the left
  operands of the operators that wait, each with the value that the grammar gives to the
  part between the operators (`Leaving`, `ValueOf`). There is a lemma for what each kind of
  operator does to each kind of stack (`ScanAlone`, `ScanAbove`, `ScanInstead`,
  `ScanInsteadAbove`, `ScanInsteadOfBoth`), one for what evaluating it leaves (`LeavingOne`,
  `LeavingTwo`, `LeavingBoth`), and one for how the value of a part splits there
  (`SplitUnique`, `ValueSplit`). `ValueEquation` shows that `Values` is well defined: the value
  of a part depends on shorter parts only.
* `TheValueIsRight` and `APlainExpressionNeverDies`: `Spec => []ValueIsRight` and
  `Spec => []PlainNeverDies`, from that and `Done`, which says that what the last `#` left on
  the LCD is what `calculate` makes of the expression still in the buffer.

The numbers of these proofs are unbounded and so are the arrays. In the program an `int` has
32 bits and the arrays 100 entries, so the theorems speak of expressions of fewer than 100
keys whose values, and those of their parts, fit an `int`; ten keys are the fewest that can
pass that limit.

Only model-checked: the liveness properties (`HangUpNoticed`, `PatientAnswered`,
`RequestSettled`, `GameEnds`, `LastLetterStays`), which need fairness and are beyond the
prover. Every safety invariant and every refinement that a passing run checks is proved.

## Not modelled

* Homework 2: reads that return part of a line or fill the 128-byte buffer; the memory
  `getGridState` leaks; the limit of the listen queue; the wording of replies; what the
  report thread does at the end of standard input; the `USE_PXA_IO` build.
* Lab 6: several messages on one connection, which `client.c` never sends; `read()` that
  returns -1 because the connection was reset (`server.c:85` only compares with 0, so the
  request in the buffer would be carried out again: "counted once" holds for connections that
  are closed in order, and `client.c` leaves nothing unread that could cause a reset); a
  failing `semctl(SETVAL)` on the semaphore just created (`server.c:54-57`, which would leave it
  behind); overflow of the amount; descriptors; failures of `socket`, `bind` and `listen`, which end the
  program before it does anything.
* Homework 1: a fifth digit of a plate, which would be written past the input buffer; what
  LCD, LEDs and digits show except the fee.
* Lab 2: expressions of 100 keys and more, which overrun the arrays; overflow of `int`; the
  memory `calculate` leaks; what LEDs and digits keep showing while a new expression is
  typed.
* Lab 4: several readers or writers of the device, loading and unloading it, failures to
  open or connect.
* Lab 5 (`lab5.c`): each connection gets a process of its own, which shares nothing with
  the others. What can go wrong is that descriptors and processes accumulate, and a bounded
  model of that would restate its bound.
* Lab 7: a segment that an earlier game left behind (a game that dies does not remove it);
  `timer_function` of `guess.c`, which is never called; `sigCount.c`, `catchSignal.c` and
  `timer.c`, where a handler prints or counts and nothing else reads the count.
* Homework 3, of which the repository holds two checker binaries and no source.
