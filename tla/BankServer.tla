----------------------------- MODULE BankServer -----------------------------
(***************************************************************************)
(* The bank server of lab 6 and the connections that reach it.  The main   *)
(* thread accepts and starts one thread per connection (connectCallback);  *)
(* the threads share total_amount and guard it with a System V semaphore,  *)
(* which outlives the process.  SIGINT runs intHandler on the main thread; *)
(* the process may also be killed, and started again.                      *)
(***************************************************************************)
EXTENDS Integers, Sequences, FiniteSets

CONSTANTS
    Conn,           \* connections; client.c sends one request on each
    NoConn,         \* conn_fd before the first accept()
    Request,        \* Request[c]: the operation letter and the amount
    ThreadLimit,    \* threads the system surely grants a process that joins none
    MaxStarts       \* bound: how often the server is started

ASSUME NoConnAssumption == NoConn \notin Conn
ASSUME RequestAssumption == Request \in [Conn -> [op : {"D", "W", "other"}, amount : Nat]]
ASSUME LimitAssumption == ThreadLimit \in Nat

VARIABLES
    mainPc,         \* where the main thread is; "off" when there is no process
    handler,        \* intHandler: "none", "rmid" (about to remove) or "done"
    stop,           \* set by the handler
    listening,      \* sock_fd is open
    conn_fd,        \* the connection last accepted
    backlog,        \* connections in the listen queue
    threads,        \* threads created; they are never joined
    semExists,      \* the semaphore set with key SEM_KEY exists
    semVal,         \* its value
    phase,          \* phase[c]: how far connection c is
    reg,            \* reg[c]: total_amount as its thread has loaded it
    total_amount,
    applied,        \* history: the requests stored by this process
    ledger,         \* history: the sum of these requests
    killed,         \* history: some process died without its handler
    starts          \* how often the server was started

mainVars == <<mainPc, handler, stop, listening, conn_fd, backlog, threads>>
semVars == <<semExists, semVal>>
accountVars == <<total_amount, applied, ledger>>
historyVars == <<killed, starts>>
vars == <<mainVars, semVars, phase, reg, accountVars, historyVars>>

Booting == {"semget", "setval", "install"}
Running == {"accept", "create", "exit"}
AtRest == {"new", "done", "lost"}
InProcess == {"queued", "accepted", "orphan", "read", "P", "load", "store", "V", "eof"}

(* Between a P that did not fail and the V after it.                       *)
Critical == {"load", "store", "V"}

TypeOK ==
    /\ mainPc \in {"off"} \union Booting \union Running
    /\ handler \in {"none", "rmid", "done"}
    /\ stop \in BOOLEAN
    /\ listening \in BOOLEAN
    /\ conn_fd \in Conn \union {NoConn}
    /\ backlog \in Seq(Conn)
    /\ threads \in Nat
    /\ semExists \in BOOLEAN
    /\ semVal \in Nat
    /\ phase \in [Conn -> AtRest \union InProcess]
    /\ reg \in [Conn -> Int]
    /\ total_amount \in Int
    /\ applied \subseteq Conn
    /\ ledger \in Int
    /\ killed \in BOOLEAN
    /\ starts \in Nat

(* What a request adds to the amount; another letter changes nothing.      *)
Delta(c) ==
    IF Request[c].op = "D" THEN Request[c].amount
    ELSE IF Request[c].op = "W" THEN -Request[c].amount
    ELSE 0

Init ==
    /\ mainPc = "off"
    /\ handler = "none"
    /\ stop = FALSE
    /\ listening = FALSE
    /\ conn_fd = NoConn
    /\ backlog = <<>>
    /\ threads = 0
    /\ semExists = FALSE
    /\ semVal = 0
    /\ phase = [c \in Conn |-> "new"]
    /\ reg = [c \in Conn |-> 0]
    /\ total_amount = 0
    /\ applied = {}
    /\ ledger = 0
    /\ killed = FALSE
    /\ starts = 0

-----------------------------------------------------------------------------
(* The process ends: its threads, sockets and memory go, the semaphore     *)
(* stays.                                                                  *)
ProcessGone ==
    /\ mainPc' = "off"
    /\ handler' = "none"
    /\ stop' = FALSE
    /\ listening' = FALSE
    /\ conn_fd' = NoConn
    /\ backlog' = <<>>
    /\ threads' = 0
    /\ phase' = [c \in Conn |-> IF phase[c] \in AtRest THEN phase[c] ELSE "lost"]
    /\ reg' = [c \in Conn |-> 0]
    /\ total_amount' = 0
    /\ applied' = {}
    /\ ledger' = 0

-----------------------------------------------------------------------------
(* main(): start-up *)

(* createServerSock: the socket listens before there is a semaphore.       *)
Start ==
    /\ mainPc = "off"
    /\ starts < MaxStarts
    /\ starts' = starts + 1
    /\ listening' = TRUE
    /\ mainPc' = "semget"
    /\ UNCHANGED <<handler, stop, conn_fd, backlog, threads, semVars, phase, reg,
                   accountVars, killed>>

(* IPC_CREAT | IPC_EXCL: a semaphore that is already there is an error.    *)
SemGet ==
    /\ mainPc = "semget"
    /\ ~semExists
    /\ semExists' = TRUE
    /\ semVal' = 0
    /\ mainPc' = "setval"
    /\ UNCHANGED <<handler, stop, listening, conn_fd, backlog, threads, phase, reg,
                   accountVars, historyVars>>

SemGetFails ==
    /\ mainPc = "semget"
    /\ semExists
    /\ ProcessGone
    /\ UNCHANGED <<semVars, historyVars>>

(* Mutant of SetVal: the semaphore admits two.                             *)
SetValTwo ==
    /\ mainPc = "setval"
    /\ semVal' = 2
    /\ mainPc' = "install"
    /\ UNCHANGED <<handler, stop, listening, conn_fd, backlog, threads, semExists,
                   phase, reg, accountVars, historyVars>>

SetVal ==
    /\ mainPc = "setval"
    /\ semVal' = 1
    /\ mainPc' = "install"
    /\ UNCHANGED <<handler, stop, listening, conn_fd, backlog, threads, semExists,
                   phase, reg, accountVars, historyVars>>

InstallHandler ==
    /\ mainPc = "install"
    /\ mainPc' = "accept"
    /\ UNCHANGED <<handler, stop, listening, conn_fd, backlog, threads, semVars,
                   phase, reg, accountVars, historyVars>>

-----------------------------------------------------------------------------
(* main(): the accept loop.  It stands still while the handler runs on its *)
(* thread.                                                                 *)

InLoop == handler # "rmid"

Accept ==
    /\ mainPc = "accept" /\ InLoop
    /\ listening
    /\ backlog # <<>>
    /\ conn_fd' = Head(backlog)
    /\ backlog' = Tail(backlog)
    /\ phase' = [phase EXCEPT ![Head(backlog)] = "accepted"]
    /\ mainPc' = "create"
    /\ UNCHANGED <<handler, stop, listening, threads, semVars, reg, accountVars,
                   historyVars>>

(* accept() on the closed socket returns -1, and the loop sees stop.       *)
AcceptFails ==
    /\ mainPc = "accept" /\ InLoop
    /\ ~listening
    /\ mainPc' = "exit"
    /\ UNCHANGED <<handler, stop, listening, conn_fd, backlog, threads, semVars,
                   phase, reg, accountVars, historyVars>>

(* pthread_create.  Past ThreadLimit it may fail, and the connection is    *)
(* then neither served nor closed.                                         *)
CreateThread ==
    /\ mainPc = "create" /\ InLoop
    /\ \/ /\ threads' = threads + 1
          /\ phase' = [phase EXCEPT ![conn_fd] = "read"]
       \/ /\ threads >= ThreadLimit
          /\ phase' = [phase EXCEPT ![conn_fd] = "orphan"]
          /\ UNCHANGED threads
    /\ mainPc' = IF stop THEN "exit" ELSE "accept"
    /\ UNCHANGED <<handler, stop, listening, conn_fd, backlog, semVars, reg,
                   accountVars, historyVars>>

(* Returning from main ends every thread, wherever it is.                  *)
Exit ==
    /\ mainPc = "exit" /\ InLoop
    /\ ProcessGone
    /\ UNCHANGED <<semVars, historyVars>>

-----------------------------------------------------------------------------
(* Signals *)

(* SIGINT before signal(): the default action ends the process.            *)
InterruptWhileBooting ==
    /\ mainPc \in Booting
    /\ ProcessGone
    /\ killed' = TRUE
    /\ UNCHANGED <<semVars, starts>>

(* intHandler begins: stop is set and the socket closed, which resets the  *)
(* connections nobody has accepted.                                        *)
Interrupt ==
    /\ mainPc \in Running
    /\ handler = "none"
    /\ stop' = TRUE
    /\ listening' = FALSE
    /\ backlog' = <<>>
    /\ phase' = [c \in Conn |-> IF phase[c] = "queued" THEN "lost" ELSE phase[c]]
    /\ handler' = "rmid"
    /\ UNCHANGED <<mainPc, conn_fd, threads, semVars, reg, accountVars, historyVars>>

(* Mutant of RemoveSem: the handler leaves the semaphore behind.           *)
RemoveSemForgets ==
    /\ handler = "rmid"
    /\ handler' = "done"
    /\ UNCHANGED <<mainPc, stop, listening, conn_fd, backlog, threads, semVars,
                   phase, reg, accountVars, historyVars>>

(* intHandler ends: IPC_RMID.                                              *)
RemoveSem ==
    /\ handler = "rmid"
    /\ semExists' = FALSE
    /\ semVal' = 0
    /\ handler' = "done"
    /\ UNCHANGED <<mainPc, stop, listening, conn_fd, backlog, threads, phase, reg,
                   accountVars, historyVars>>

(* A second SIGINT: there is nothing left to remove, and the handler calls *)
(* exit().                                                                 *)
InterruptAgain ==
    /\ handler = "done"
    /\ ProcessGone
    /\ UNCHANGED <<semVars, historyVars>>

(* SIGKILL, or the machine stops the process.                              *)
Kill ==
    /\ mainPc # "off"
    /\ ProcessGone
    /\ killed' = TRUE
    /\ UNCHANGED <<semVars, starts>>

-----------------------------------------------------------------------------
(* connectCallback, one thread per connection *)

ThreadUnchanged == UNCHANGED <<mainVars, historyVars>>

At(c, p) == phase[c] = p
GoTo(c, p) == phase' = [phase EXCEPT ![c] = p]

Read(c) ==
    /\ At(c, "read") /\ GoTo(c, "P")
    /\ UNCHANGED <<semVars, reg, accountVars>> /\ ThreadUnchanged

(* Mutants of P: IPC_NOWAIT, with the failure as little looked at as any   *)
(* other; the value is taken down without waiting.                         *)
PNoWait(c) ==
    /\ At(c, "P") /\ GoTo(c, "load")
    /\ semVal' = IF semVal > 0 THEN semVal - 1 ELSE semVal
    /\ UNCHANGED <<semExists, reg, accountVars>> /\ ThreadUnchanged
PBelowZero(c) ==
    /\ At(c, "P") /\ GoTo(c, "load")
    /\ semVal' = IF semExists THEN semVal - 1 ELSE semVal
    /\ UNCHANGED <<semExists, reg, accountVars>> /\ ThreadUnchanged

(* P waits for a positive value.  On a removed semaphore it fails, and its *)
(* result is not looked at.                                                *)
P(c) ==
    /\ At(c, "P") /\ GoTo(c, "load")
    /\ \/ semExists /\ semVal > 0 /\ semVal' = semVal - 1
       \/ ~semExists /\ UNCHANGED semVal
    /\ UNCHANGED <<semExists, reg, accountVars>> /\ ThreadUnchanged

(* total_amount += or -= is a load and a store.                            *)
Load(c) ==
    /\ At(c, "load") /\ Request[c].op \in {"D", "W"} /\ GoTo(c, "store")
    /\ reg' = [reg EXCEPT ![c] = total_amount]
    /\ UNCHANGED <<semVars, accountVars>> /\ ThreadUnchanged

Store(c) ==
    /\ At(c, "store") /\ GoTo(c, "V")
    /\ total_amount' = reg[c] + Delta(c)
    /\ applied' = applied \union {c}
    /\ ledger' = ledger + Delta(c)
    /\ UNCHANGED <<semVars, reg>> /\ ThreadUnchanged

(* Mutant of Ignore: an unknown letter skips the V.                        *)
IgnoreWithoutV(c) ==
    /\ At(c, "load") /\ Request[c].op \notin {"D", "W"} /\ GoTo(c, "eof")
    /\ UNCHANGED <<semVars, reg, accountVars>> /\ ThreadUnchanged

Ignore(c) ==
    /\ At(c, "load") /\ Request[c].op \notin {"D", "W"} /\ GoTo(c, "V")
    /\ UNCHANGED <<semVars, reg, accountVars>> /\ ThreadUnchanged

(* Mutant of V: it posts twice.                                            *)
VTwice(c) ==
    /\ At(c, "V") /\ GoTo(c, "eof")
    /\ semVal' = IF semExists THEN semVal + 2 ELSE semVal
    /\ UNCHANGED <<semExists, reg, accountVars>> /\ ThreadUnchanged

V(c) ==
    /\ At(c, "V") /\ GoTo(c, "eof")
    /\ \/ semExists /\ semVal' = semVal + 1
       \/ ~semExists /\ UNCHANGED semVal
    /\ UNCHANGED <<semExists, reg, accountVars>> /\ ThreadUnchanged

(* read() returns 0: the client has closed, or died before its write().    *)
Eof(c) ==
    /\ At(c, "eof") \/ At(c, "read")
    /\ GoTo(c, "done")
    /\ UNCHANGED <<semVars, reg, accountVars>> /\ ThreadUnchanged

Thread(c) ==
    Read(c) \/ P(c) \/ Load(c) \/ Store(c) \/ Ignore(c) \/ V(c) \/ Eof(c)

-----------------------------------------------------------------------------
(* client.c: connect, send one request, close.                             *)
Connect(c) ==
    /\ phase[c] = "new"
    /\ listening
    /\ backlog' = Append(backlog, c)
    /\ GoTo(c, "queued")
    /\ UNCHANGED <<mainPc, handler, stop, listening, conn_fd, threads, semVars, reg,
                   accountVars, historyVars>>

(* Nobody listens: the client prints an error, and so does its write().    *)
ConnectRefused(c) ==
    /\ phase[c] = "new"
    /\ ~listening
    /\ GoTo(c, "lost")
    /\ UNCHANGED <<mainVars, semVars, reg, accountVars, historyVars>>

Main ==
    \/ SemGet \/ SemGetFails \/ SetVal \/ InstallHandler
    \/ Accept \/ AcceptFails \/ CreateThread \/ Exit \/ RemoveSem

Environment ==
    \/ Start \/ InterruptWhileBooting \/ Interrupt \/ InterruptAgain \/ Kill
    \/ \E c \in Conn : Connect(c) \/ ConnectRefused(c)

Next == Main \/ Environment \/ \E c \in Conn : Thread(c)

Spec == Init /\ [][Next]_vars

(* The kernel runs every thread of the process.  Nothing obliges a client  *)
(* to connect, or anybody to start or to stop the server.                  *)
FairSpec == Spec /\ WF_vars(Main) /\ \A c \in Conn : WF_vars(Thread(c))

-----------------------------------------------------------------------------
(* Properties *)

InCritical == {c \in Conn : phase[c] \in Critical}

(* The semaphore is this process's own, has its initial value and has not  *)
(* been removed.                                                           *)
Serving == mainPc \in Running /\ semExists

(* While the semaphore exists, one thread at most is between P and V.      *)
MutualExclusion ==
    semExists => \A c, d \in InCritical : c = d

(* The amount is the sum of all requests stored so far: no += or -= is     *)
(* ever lost, until the handler removes the semaphore.                     *)
NoLostUpdate == Serving => total_amount = ledger

(* Only an earlier process that died without its handler can make a start  *)
(* fail: a server stopped by SIGINT once signal() was called takes its     *)
(* semaphore with it, whatever main and the threads were doing.            *)
RefusedOnlyAfterKill == mainPc \in {"off", "semget"} /\ semExists => killed

(* What the threads do to total_amount is, while the server serves, what   *)
(* indivisible requests would do, each counted once.                       *)
Account == INSTANCE AtomicAccount WITH
    Change <- [c \in Conn |-> Delta(c)],
    serving <- Serving,
    account <- IF Serving THEN total_amount ELSE 0,
    applied <- IF Serving THEN applied ELSE {}
ImplementsAccount == Account!Spec

(* Every connection that is accepted into the queue is served to its end,  *)
(* unless pthread_create fails for it or the process goes down: nobody     *)
(* waits on the semaphore for ever, and one connection without a thread    *)
(* does not hold up the others.                                            *)
RequestSettled ==
    \A c \in Conn : phase[c] \in InProcess ~> phase[c] \in {"done", "lost", "orphan"}
=============================================================================
