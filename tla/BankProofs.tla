----------------------------- MODULE BankProofs -----------------------------
(***************************************************************************)
(* Theorems about the bank server of lab 6, for any set of connections,    *)
(* any requests, any thread limit and any number of starts.                *)
(***************************************************************************)
EXTENDS BankServer, SequenceTheorems, TLAPS

(* Requests add an integer.                                                *)
LEMMA DeltaType == ASSUME NEW c \in Conn PROVE Delta(c) \in Int
<1>1. Request[c] \in [op : {"D", "W", "other"}, amount : Nat]
  BY RequestAssumption
<1>. QED
  BY <1>1 DEF Delta

-----------------------------------------------------------------------------
(* Type correctness *)

LEMMA TypeInit == Init => TypeOK
<1>. SUFFICES ASSUME Init PROVE TypeOK
  OBVIOUS
<1>1. backlog \in Seq(Conn)
  BY EmptySeq DEF Init
<1>2. phase \in [Conn -> AtRest \union InProcess]
  BY DEF Init, AtRest
<1>3. reg \in [Conn -> Int]
  BY DEF Init
<1>4. applied \subseteq Conn
  BY DEF Init
<1>5. /\ mainPc \in {"off"} \union Booting \union Running
      /\ handler \in {"none", "rmid", "done"}
      /\ conn_fd \in Conn \union {NoConn}
      /\ stop \in BOOLEAN /\ listening \in BOOLEAN
      /\ semExists \in BOOLEAN /\ killed \in BOOLEAN
  BY DEF Init
<1>6. /\ threads \in Nat /\ semVal \in Nat /\ starts \in Nat
      /\ total_amount \in Int /\ ledger \in Int
  BY DEF Init
<1>. QED
  BY <1>1, <1>2, <1>3, <1>4, <1>5, <1>6 DEF TypeOK

LEMMA ProcessGoneTypes ==
  ASSUME TypeOK, ProcessGone
  PROVE  /\ mainPc' \in {"off"} \union Booting \union Running
         /\ handler' \in {"none", "rmid", "done"}
         /\ stop' \in BOOLEAN
         /\ listening' \in BOOLEAN
         /\ conn_fd' \in Conn \union {NoConn}
         /\ backlog' \in Seq(Conn)
         /\ threads' \in Nat
         /\ phase' \in [Conn -> AtRest \union InProcess]
         /\ reg' \in [Conn -> Int]
         /\ total_amount' \in Int
         /\ applied' \subseteq Conn
         /\ ledger' \in Int
<1>1. backlog' \in Seq(Conn)
  BY EmptySeq DEF ProcessGone
<1>2. phase' \in [Conn -> AtRest \union InProcess]
  BY DEF TypeOK, ProcessGone, AtRest, InProcess
<1>3. reg' \in [Conn -> Int]
  BY DEF ProcessGone
<1>4. applied' \subseteq Conn
  BY DEF ProcessGone
<1>5. /\ mainPc' \in {"off"} \union Booting \union Running
      /\ handler' \in {"none", "rmid", "done"}
      /\ stop' \in BOOLEAN /\ listening' \in BOOLEAN
      /\ conn_fd' \in Conn \union {NoConn}
  BY DEF ProcessGone
<1>6. threads' \in Nat /\ total_amount' \in Int /\ ledger' \in Int
  BY DEF ProcessGone
<1>. QED
  BY <1>1, <1>2, <1>3, <1>4, <1>5, <1>6

LEMMA TypeStep == TypeOK /\ [Next]_vars => TypeOK'
<1>. SUFFICES ASSUME TypeOK, [Next]_vars PROVE TypeOK'
  OBVIOUS
<1>. USE DEF TypeOK
<1>1. CASE SemGet
  BY <1>1 DEF SemGet, historyVars, accountVars, Booting
<1>2. CASE SemGetFails
  BY <1>2, ProcessGoneTypes DEF SemGetFails, semVars, historyVars
<1>3. CASE SetVal
  BY <1>3 DEF SetVal, historyVars, accountVars, Booting
<1>4. CASE InstallHandler
  BY <1>4 DEF InstallHandler, historyVars, accountVars, semVars, Running
<1>5. CASE Accept
  <2>1. Head(backlog) \in Conn /\ Tail(backlog) \in Seq(Conn)
    BY <1>5 DEF Accept
  <2>2. phase' \in [Conn -> AtRest \union InProcess]
    BY <1>5 DEF Accept, InProcess
  <2>. QED
    BY <1>5, <2>1, <2>2 DEF Accept, historyVars, accountVars, semVars, Running
<1>6. CASE AcceptFails
  BY <1>6 DEF AcceptFails, historyVars, accountVars, semVars, Running
<1>7. CASE CreateThread
  <2>1. phase' \in [Conn -> AtRest \union InProcess]
    BY <1>7 DEF CreateThread, InProcess
  <2>2. threads' \in Nat
    BY <1>7 DEF CreateThread
  <2>. QED
    BY <1>7, <2>1, <2>2 DEF CreateThread, historyVars, accountVars, semVars, Running
<1>8. CASE Exit
  BY <1>8, ProcessGoneTypes DEF Exit, semVars, historyVars
<1>9. CASE RemoveSem
  BY <1>9 DEF RemoveSem, historyVars, accountVars
<1>10. CASE Start
  BY <1>10 DEF Start, accountVars, semVars, Booting
<1>11. CASE InterruptWhileBooting
  BY <1>11, ProcessGoneTypes DEF InterruptWhileBooting, semVars
<1>12. CASE Interrupt
  <2>1. phase' \in [Conn -> AtRest \union InProcess]
    BY <1>12 DEF Interrupt, AtRest
  <2>. QED
    BY <1>12, <2>1, EmptySeq DEF Interrupt, historyVars, accountVars, semVars
<1>13. CASE InterruptAgain
  BY <1>13, ProcessGoneTypes DEF InterruptAgain, semVars, historyVars
<1>14. CASE Kill
  BY <1>14, ProcessGoneTypes DEF Kill, semVars
<1>15. ASSUME NEW c \in Conn, Connect(c) PROVE TypeOK'
  BY <1>15 DEF Connect, GoTo, historyVars, accountVars, semVars, InProcess
<1>16. ASSUME NEW c \in Conn, ConnectRefused(c) PROVE TypeOK'
  BY <1>16 DEF ConnectRefused, GoTo, mainVars, historyVars, accountVars, semVars, AtRest
<1>17. ASSUME NEW c \in Conn, Thread(c) PROVE TypeOK'
  <2>1. phase' \in [Conn -> AtRest \union InProcess]
    BY <1>17 DEF Thread, Read, P, Load, Store, Ignore, V, Eof, GoTo, AtRest, InProcess
  <2>2. UNCHANGED <<mainVars, historyVars, semExists>>
    BY <1>17 DEF Thread, Read, P, Load, Store, Ignore, V, Eof, ThreadUnchanged, semVars
  <2>3. semVal' \in Nat
    BY <1>17 DEF Thread, Read, P, Load, Store, Ignore, V, Eof, semVars
  <2>4. reg' \in [Conn -> Int]
    BY <1>17 DEF Thread, Read, P, Load, Store, Ignore, V, Eof
  <2>5. Delta(c) \in Int
    BY DeltaType
  <2>6. total_amount' \in Int /\ applied' \subseteq Conn /\ ledger' \in Int
    BY <1>17, <2>5 DEF Thread, Read, P, Load, Store, Ignore, V, Eof, accountVars
  <2>. QED
    BY <2>1, <2>2, <2>3, <2>4, <2>6 DEF mainVars, historyVars
<1>18. CASE UNCHANGED vars
  BY <1>18 DEF vars, mainVars, semVars, accountVars, historyVars
<1>. QED
  BY <1>1, <1>2, <1>3, <1>4, <1>5, <1>6, <1>7, <1>8, <1>9, <1>10, <1>11, <1>12,
     <1>13, <1>14, <1>15, <1>16, <1>17, <1>18 DEF Next, Main, Environment

(* Every variable of the bank server keeps its type: in particular semop   *)
(* never finds a negative value and conn_fd always is a connection that    *)
(* accept() returned.                                                      *)
THEOREM TypesCorrect == Spec => []TypeOK
  BY TypeInit, TypeStep, PTL DEF Spec

-----------------------------------------------------------------------------
(* The inductive invariant.  MutualExclusion and NoLostUpdate are not      *)
(* inductive: they need to know what the semaphore's value says about the  *)
(* threads, and that no thread exists before the semaphore is ready.       *)

(* A process that is not in its accept loop has started no thread and      *)
(* changed no amount.                                                      *)
NotYetServing ==
    mainPc \notin Running =>
        /\ \A c \in Conn : phase[c] \in AtRest \union {"queued"}
        /\ total_amount = 0 /\ ledger = 0 /\ applied = {}

SemReady == mainPc = "install" => semVal = 1

(* The listen queue holds each waiting connection once.                    *)
QueueWaits ==
    /\ \A i \in 1..Len(backlog) : phase[backlog[i]] = "queued"
    /\ \A i, j \in 1..Len(backlog) : backlog[i] = backlog[j] => i = j

Accepted == mainPc = "create" => conn_fd \in Conn /\ phase[conn_fd] = "accepted"

(* The value of the semaphore: 1 when it is free, 0 when a thread has it.  *)
LockWord ==
    Serving =>
        /\ semVal \in {0, 1}
        /\ semVal = 1 => \A c \in Conn : phase[c] \notin Critical
        /\ \A c, d \in Conn : phase[c] \in Critical /\ phase[d] \in Critical => c = d

(* Nobody has stored since the thread about to store has loaded.           *)
LoadIsCurrent ==
    Serving =>
        /\ total_amount = ledger
        /\ \A c \in Conn : phase[c] = "store" => reg[c] = total_amount

AppliedOnce == \A c \in applied : phase[c] \in {"V", "eof", "done"}

(* What the handler has done tells where main may be.                      *)
HandlerInv ==
    /\ handler # "none" => mainPc \in Running
    /\ handler = "none" /\ mainPc # "off" => listening
    /\ handler = "none" => ~stop
    /\ mainPc = "exit" => handler # "none"
    /\ handler = "done" => ~semExists
    /\ RefusedOnlyAfterKill

BankInv ==
    /\ NotYetServing /\ SemReady /\ QueueWaits /\ Accepted
    /\ LockWord /\ LoadIsCurrent /\ AppliedOnce /\ HandlerInv

LEMMA BankInvInit == Init => BankInv
  BY DEF Init, BankInv, NotYetServing, SemReady, QueueWaits, Accepted, LockWord,
         LoadIsCurrent, AppliedOnce, HandlerInv, RefusedOnlyAfterKill, Serving,
         Running, AtRest

(* However a process ends, the next one starts afresh.                     *)
LEMMA GoneKeeps ==
  ASSUME TypeOK, BankInv, ProcessGone, UNCHANGED semVars, semExists => killed'
  PROVE  BankInv'
<1>1. NotYetServing'
  <2>1. \A c \in Conn : phase'[c] \in AtRest
    BY DEF ProcessGone, AtRest
  <2>. QED
    BY <2>1 DEF ProcessGone, NotYetServing
<1>2. SemReady' /\ Accepted' /\ LockWord' /\ LoadIsCurrent' /\ AppliedOnce'
  BY DEF ProcessGone, SemReady, Accepted, LockWord, LoadIsCurrent, AppliedOnce,
         Serving, Running
<1>3. QueueWaits'
  BY DEF ProcessGone, QueueWaits
<1>4. HandlerInv'
  BY DEF ProcessGone, HandlerInv, RefusedOnlyAfterKill, semVars, Running
<1>. QED
  BY <1>1, <1>2, <1>3, <1>4 DEF BankInv

(* Start-up.                                                               *)
LEMMA BootKeeps ==
  ASSUME TypeOK, BankInv, Start \/ SemGet \/ SetVal \/ InstallHandler
  PROVE  BankInv'
<1>. USE DEF BankInv, Running, semVars, accountVars, historyVars
<1>1. NotYetServing' /\ SemReady' /\ Accepted' /\ QueueWaits' /\ AppliedOnce'
  BY DEF Start, SemGet, SetVal, InstallHandler, NotYetServing, SemReady, Accepted,
         QueueWaits, AppliedOnce
<1>2. HandlerInv'
  BY DEF Start, SemGet, SetVal, InstallHandler, HandlerInv, RefusedOnlyAfterKill
<1>3. LockWord' /\ LoadIsCurrent'
  BY DEF Start, SemGet, SetVal, InstallHandler, NotYetServing, SemReady, LockWord,
         LoadIsCurrent, Serving, AtRest, Critical
<1>. QED
  BY <1>1, <1>2, <1>3

(* The accept loop and the handler move connections that no thread serves. *)
LEMMA LoopKeeps ==
  ASSUME TypeOK, BankInv,
         Accept \/ AcceptFails \/ CreateThread \/ Interrupt \/ RemoveSem
  PROVE  BankInv'
<1>. USE DEF BankInv, Running, semVars, accountVars, historyVars
<1>1. CASE Accept
  <2>1. /\ Len(backlog) \in Nat \ {0}
        /\ backlog[1] \in Conn /\ phase[backlog[1]] = "queued" /\ Head(backlog) = backlog[1]
        /\ Len(backlog') = Len(backlog) - 1
        /\ \A i \in 1..Len(backlog') : backlog'[i] = backlog[i + 1] /\ backlog[i + 1] \in Conn
    BY <1>1, LenProperties DEF Accept, QueueWaits, TypeOK
  <2>2. \A c \in Conn : phase'[c] = IF c = backlog[1] THEN "accepted" ELSE phase[c]
    BY <1>1, <2>1 DEF Accept, TypeOK
  <2>3. QueueWaits'
    <3>1. \A i \in 1..Len(backlog') : i + 1 \in 1..Len(backlog) /\ i + 1 # 1
      BY <2>1
    <3>2. 1 \in 1..Len(backlog)
      BY <2>1
    <3>3. \A i \in 1..Len(backlog') : backlog'[i] # backlog[1]
      BY <2>1, <3>1, <3>2 DEF QueueWaits
    <3>4. \A i, j \in 1..Len(backlog') : backlog'[i] = backlog'[j] => i + 1 = j + 1
      BY <2>1, <3>1 DEF QueueWaits
    <3>. QED
      BY <2>1, <2>2, <3>1, <3>3, <3>4 DEF QueueWaits
  <2>4. NotYetServing' /\ SemReady' /\ Accepted' /\ HandlerInv'
    BY <1>1, <2>1, <2>2
       DEF Accept, NotYetServing, SemReady, Accepted, HandlerInv, RefusedOnlyAfterKill
  <2>5. LockWord' /\ LoadIsCurrent' /\ AppliedOnce'
    BY <1>1, <2>1, <2>2
       DEF Accept, LockWord, LoadIsCurrent, AppliedOnce, Serving, Critical, TypeOK
  <2>. QED
    BY <2>3, <2>4, <2>5
<1>2. CASE AcceptFails
  BY <1>2 DEF AcceptFails, NotYetServing, SemReady, QueueWaits, Accepted, LockWord,
              LoadIsCurrent, AppliedOnce, HandlerInv, RefusedOnlyAfterKill, Serving
<1>3. CASE CreateThread
  <2>1. /\ conn_fd \in Conn /\ phase[conn_fd] = "accepted"
        /\ \A c \in Conn : c # conn_fd => phase'[c] = phase[c]
        /\ phase'[conn_fd] \in {"read", "orphan"}
    BY <1>3 DEF CreateThread, Accepted, TypeOK
  <2>2. QueueWaits'
    <3>1. \A i \in 1..Len(backlog) : backlog[i] \in Conn
      BY LenProperties DEF TypeOK
    <3>. QED
      BY <1>3, <2>1, <3>1 DEF CreateThread, QueueWaits
  <2>3. NotYetServing' /\ SemReady' /\ Accepted' /\ HandlerInv'
    BY <1>3, <2>1
       DEF CreateThread, NotYetServing, SemReady, Accepted, HandlerInv, RefusedOnlyAfterKill
  <2>4. LockWord' /\ LoadIsCurrent' /\ AppliedOnce'
    BY <1>3, <2>1
       DEF CreateThread, LockWord, LoadIsCurrent, AppliedOnce, Serving, Critical, TypeOK
  <2>. QED
    BY <2>2, <2>3, <2>4
<1>4. CASE Interrupt
  <2>1. \A c \in Conn : phase'[c] = IF phase[c] = "queued" THEN "lost" ELSE phase[c]
    BY <1>4 DEF Interrupt
  <2>2. QueueWaits' /\ NotYetServing' /\ SemReady' /\ HandlerInv'
    BY <1>4, <2>1
       DEF Interrupt, QueueWaits, NotYetServing, SemReady, HandlerInv, RefusedOnlyAfterKill
  <2>3. Accepted' /\ LockWord' /\ LoadIsCurrent' /\ AppliedOnce'
    BY <1>4, <2>1
       DEF Interrupt, Accepted, LockWord, LoadIsCurrent, AppliedOnce, Serving, Critical, TypeOK
  <2>. QED
    BY <2>2, <2>3
<1>5. CASE RemoveSem
  <2>1. QueueWaits' /\ NotYetServing' /\ SemReady' /\ Accepted' /\ AppliedOnce'
    BY <1>5 DEF RemoveSem, QueueWaits, NotYetServing, SemReady, Accepted, AppliedOnce,
                HandlerInv
  <2>2. HandlerInv' /\ LockWord' /\ LoadIsCurrent'
    BY <1>5 DEF RemoveSem, HandlerInv, RefusedOnlyAfterKill, LockWord, LoadIsCurrent, Serving
  <2>. QED
    BY <2>1, <2>2
<1>. QED
  BY <1>1, <1>2, <1>3, <1>4, <1>5

LEMMA ClientKeeps ==
  ASSUME TypeOK, BankInv, NEW c \in Conn, Connect(c) \/ ConnectRefused(c)
  PROVE  BankInv'
<1>. USE DEF BankInv, Running, semVars, accountVars, historyVars, GoTo
<1>1. /\ phase[c] = "new" /\ phase'[c] \in {"queued", "lost"}
      /\ \A d \in Conn : d # c => phase'[d] = phase[d]
      /\ UNCHANGED <<mainPc, handler, stop, listening, conn_fd, semVars, reg, accountVars,
                     historyVars>>
  BY DEF Connect, ConnectRefused, TypeOK, mainVars
<1>2. QueueWaits'
  <2>1. \A i \in 1..Len(backlog) : backlog[i] \in Conn
    BY LenProperties DEF TypeOK
  <2>2. CASE Connect(c)
    <3>1. /\ Len(backlog) \in Nat /\ Len(backlog') = Len(backlog) + 1
          /\ backlog'[Len(backlog) + 1] = c
          /\ \A i \in 1..Len(backlog) : backlog'[i] = backlog[i]
      BY <2>2, AppendProperties, LenProperties DEF Connect, TypeOK
    <3>2. phase'[c] = "queued"
      BY <2>2 DEF Connect, TypeOK
    <3>. QED
      BY <1>1, <2>1, <3>1, <3>2 DEF QueueWaits
  <2>3. CASE ConnectRefused(c)
    BY <1>1, <2>1, <2>3 DEF ConnectRefused, mainVars, QueueWaits
  <2>. QED
    BY <2>2, <2>3
<1>3. NotYetServing'
  <2>1. CASE Connect(c)
    BY <1>1, <2>1 DEF Connect, NotYetServing, TypeOK
  <2>2. CASE ConnectRefused(c)
    BY <1>1, <2>2 DEF ConnectRefused, NotYetServing, AtRest, TypeOK
  <2>. QED
    BY <2>1, <2>2
<1>4. SemReady' /\ Accepted' /\ HandlerInv'
  BY <1>1 DEF SemReady, Accepted, HandlerInv, RefusedOnlyAfterKill
<1>5. LockWord' /\ LoadIsCurrent' /\ AppliedOnce'
  BY <1>1 DEF LockWord, LoadIsCurrent, AppliedOnce, Serving, Critical, TypeOK
<1>. QED
  BY <1>2, <1>3, <1>4, <1>5

(* A thread runs only while main is in its loop.                           *)
LEMMA ThreadRuns ==
  ASSUME TypeOK, BankInv, NEW c \in Conn, Thread(c)
  PROVE  /\ mainPc \in Running
         /\ phase[c] \in {"read", "P", "load", "store", "V", "eof"}
         /\ \A d \in Conn : d # c => phase'[d] = phase[d]
         /\ UNCHANGED <<mainVars, historyVars, semExists>>
<1>1. phase[c] \in {"read", "P", "load", "store", "V", "eof"}
  BY DEF Thread, Read, P, Load, Store, Ignore, V, Eof, At
<1>2. mainPc \in Running
  BY <1>1 DEF BankInv, NotYetServing, AtRest
<1>. QED
  BY <1>1, <1>2 DEF Thread, Read, P, Load, Store, Ignore, V, Eof, GoTo, ThreadUnchanged,
                    semVars, TypeOK

LEMMA ThreadKeeps ==
  ASSUME TypeOK, BankInv, NEW c \in Conn, Thread(c)
  PROVE  BankInv'
<1>. USE DEF At, GoTo, semVars, accountVars, BankInv
<1>1. NotYetServing' /\ SemReady' /\ Accepted' /\ HandlerInv'
  BY ThreadRuns
     DEF NotYetServing, SemReady, Accepted, HandlerInv, RefusedOnlyAfterKill, Running,
         mainVars, historyVars
<1>2. QueueWaits'
  <2>1. \A i \in 1..Len(backlog) : backlog[i] \in Conn
    BY LenProperties DEF TypeOK
  <2>. QED
    BY ThreadRuns, <2>1 DEF QueueWaits, mainVars
<1>3. LockWord'
  <2>1. CASE Read(c) \/ Eof(c)
    BY <2>1, ThreadRuns DEF Read, Eof, LockWord, Serving, Critical, mainVars, TypeOK
  <2>2. CASE P(c)
    BY <2>2, ThreadRuns DEF P, LockWord, Serving, Critical, mainVars, TypeOK
  <2>3. CASE Load(c) \/ Store(c) \/ Ignore(c)
    BY <2>3, ThreadRuns DEF Load, Store, Ignore, LockWord, Serving, Critical, mainVars, TypeOK
  <2>4. CASE V(c)
    BY <2>4, ThreadRuns DEF V, LockWord, Serving, Critical, mainVars, TypeOK
  <2>. QED
    BY <2>1, <2>2, <2>3, <2>4 DEF Thread
<1>4. LoadIsCurrent'
  <2>1. CASE Read(c) \/ P(c) \/ Ignore(c) \/ V(c) \/ Eof(c)
    BY <2>1, ThreadRuns DEF Read, P, Ignore, V, Eof, LoadIsCurrent, Serving, mainVars, TypeOK
  <2>2. CASE Load(c)
    BY <2>2, ThreadRuns DEF Load, LoadIsCurrent, Serving, mainVars, TypeOK
  <2>3. CASE Store(c)
    <3>1. SUFFICES ASSUME Serving PROVE LoadIsCurrent'
      BY ThreadRuns DEF Serving, mainVars, LoadIsCurrent
    <3>2. total_amount' = ledger'
      BY <2>3, <3>1, DeltaType DEF Store, LoadIsCurrent, TypeOK
    <3>3. \A d \in Conn : phase'[d] # "store"
      BY <2>3, <3>1, ThreadRuns DEF Store, LockWord, Critical, TypeOK
    <3>. QED
      BY <3>2, <3>3 DEF LoadIsCurrent
  <2>. QED
    BY <2>1, <2>2, <2>3 DEF Thread
<1>5. AppliedOnce'
  BY ThreadRuns DEF Thread, Read, P, Load, Store, Ignore, V, Eof, AppliedOnce, TypeOK
<1>. QED
  BY <1>1, <1>2, <1>3, <1>4, <1>5

LEMMA BankInvStep == TypeOK /\ BankInv /\ [Next]_vars => BankInv'
<1>. SUFFICES ASSUME TypeOK, BankInv, [Next]_vars PROVE BankInv'
  OBVIOUS
<1>1. CASE SemGetFails \/ Exit \/ InterruptWhileBooting \/ InterruptAgain \/ Kill
  <2>1. ProcessGone /\ UNCHANGED semVars
    BY <1>1 DEF SemGetFails, Exit, InterruptWhileBooting, InterruptAgain, Kill
  <2>2. semExists => killed'
    BY <1>1 DEF SemGetFails, Exit, InterruptWhileBooting, InterruptAgain, Kill, InLoop,
                historyVars, BankInv, HandlerInv, RefusedOnlyAfterKill, TypeOK
  <2>. QED
    BY <2>1, <2>2, GoneKeeps
<1>2. CASE UNCHANGED vars
  BY <1>2 DEF vars, mainVars, semVars, accountVars, historyVars, BankInv, NotYetServing,
              SemReady, QueueWaits, Accepted, LockWord, LoadIsCurrent, AppliedOnce,
              HandlerInv, RefusedOnlyAfterKill, Serving
<1>. QED
  BY <1>1, <1>2, BootKeeps, LoopKeeps, ClientKeeps, ThreadKeeps DEF Next, Main, Environment

LEMMA Invariant == Spec => [](TypeOK /\ BankInv)
<1>1. Init => TypeOK /\ BankInv
  BY TypeInit, BankInvInit
<1>2. (TypeOK /\ BankInv) /\ [Next]_vars => (TypeOK /\ BankInv)'
  BY TypeStep, BankInvStep
<1>. QED
  BY <1>1, <1>2, PTL DEF Spec

(* At most one thread is between P and V while the semaphore exists, no    *)
(* += or -= on total_amount is lost while the server serves, and semget    *)
(* with IPC_EXCL fails only after a process that died without its handler. *)
THEOREM Safety == Spec => [](MutualExclusion /\ NoLostUpdate /\ RefusedOnlyAfterKill)
<1>1. BankInv => MutualExclusion
  BY DEF BankInv, MutualExclusion, LockWord, NotYetServing, InCritical, Serving, AtRest,
         Critical
<1>2. BankInv => NoLostUpdate /\ RefusedOnlyAfterKill
  BY DEF BankInv, NoLostUpdate, LoadIsCurrent, HandlerInv
<1>. QED
  BY <1>1, <1>2, Invariant, PTL

-----------------------------------------------------------------------------
(* Refinement *)

(* A request that is stored while the server serves is one indivisible     *)
(* Apply; everything else a thread does is invisible.                      *)
LEMMA ThreadRefines ==
  ASSUME TypeOK, BankInv, NEW c \in Conn, Thread(c)
  PROVE  [Account!Next]_(Account!accountVars)
<1>. USE DEF Account!accountVars
<1>1. Serving' = Serving
  BY ThreadRuns DEF Serving, mainVars
<1>2. CASE UNCHANGED accountVars
  BY <1>1, <1>2 DEF accountVars
<1>3. CASE Store(c)
  <2>1. CASE Serving
    <3>1. total_amount' = total_amount + Delta(c) /\ applied' = applied \union {c}
      BY <1>3, <2>1 DEF Store, At, BankInv, LoadIsCurrent
    <3>2. c \notin applied
      BY <1>3 DEF Store, At, BankInv, AppliedOnce
    <3>3. Account!Apply(c)
      BY <1>1, <2>1, <3>1, <3>2 DEF Account!Apply
    <3>. QED
      BY <3>3 DEF Account!Next
  <2>2. CASE ~Serving
    BY <1>1, <2>2
  <2>. QED
    BY <2>1, <2>2
<1>. QED
  BY <1>2, <1>3 DEF Thread, Read, P, Load, Ignore, V, Eof, accountVars

LEMMA StepRefines == TypeOK /\ BankInv /\ [Next]_vars => [Account!Next]_(Account!accountVars)
<1>. SUFFICES ASSUME TypeOK, BankInv, [Next]_vars PROVE [Account!Next]_(Account!accountVars)
  OBVIOUS
<1>. USE DEF Account!accountVars
<1>1. ASSUME UNCHANGED accountVars, Serving' = Serving
      PROVE  [Account!Next]_(Account!accountVars)
  BY <1>1 DEF accountVars
<1>2. ASSUME Serving, ~Serving' PROVE [Account!Next]_(Account!accountVars)
  <2>1. Serving' = FALSE
    BY <1>2 DEF Serving
  <2>2. Account!GoDown
    BY <1>2, <2>1 DEF Account!GoDown
  <2>. QED
    BY <2>2 DEF Account!Next
<1>3. ASSUME ~Serving, ~Serving' PROVE [Account!Next]_(Account!accountVars)
  <2>1. Serving = FALSE /\ Serving' = FALSE
    BY <1>3 DEF Serving
  <2>. QED
    BY <2>1
<1>4. CASE InstallHandler
  <2>1. ~Serving /\ total_amount = 0 /\ applied = {} /\ UNCHANGED accountVars
    BY <1>4 DEF InstallHandler, Serving, Running, BankInv, NotYetServing
  <2>2. ASSUME Serving' PROVE Account!Open
    BY <2>1, <2>2 DEF Account!Open, accountVars
  <2>. QED
    BY <1>3, <2>1, <2>2 DEF Account!Next
<1>5. CASE SemGetFails \/ Exit \/ InterruptWhileBooting \/ InterruptAgain \/ Kill \/ RemoveSem
  <2>1. ~Serving'
    BY <1>5 DEF SemGetFails, Exit, InterruptWhileBooting, InterruptAgain, Kill, RemoveSem,
                ProcessGone, Serving, Running
  <2>. QED
    BY <1>2, <1>3, <2>1
<1>6. CASE Start \/ SemGet \/ SetVal
  <2>1. ~Serving'
    BY <1>6 DEF Start, SemGet, SetVal, Serving, Running
  <2>. QED
    BY <1>2, <1>3, <2>1
<1>7. CASE Accept \/ AcceptFails \/ CreateThread \/ Interrupt
  BY <1>1, <1>7 DEF Accept, AcceptFails, CreateThread, Interrupt, Serving, Running, semVars
<1>8. ASSUME NEW c \in Conn, Connect(c) \/ ConnectRefused(c)
      PROVE  [Account!Next]_(Account!accountVars)
  BY <1>1, <1>8 DEF Connect, ConnectRefused, Serving, semVars, mainVars
<1>9. CASE UNCHANGED vars
  BY <1>1, <1>9 DEF vars, Serving, mainVars, semVars
<1>. QED
  BY <1>4, <1>5, <1>6, <1>7, <1>8, <1>9, ThreadRefines DEF Next, Main, Environment

(* With its threads, its semaphore and its signals, the server does to     *)
(* total_amount what indivisible requests would do: it implements the      *)
(* account.                                                                *)
THEOREM Refinement == Spec => ImplementsAccount
<1>1. Init => Account!Init
  <2>. SUFFICES ASSUME Init PROVE Account!Init
    OBVIOUS
  <2>1. Serving = FALSE
    BY DEF Init, Serving, Running
  <2>. QED
    BY <2>1 DEF Account!Init
<1>2. TypeOK /\ BankInv /\ [Next]_vars => [Account!Next]_(Account!accountVars)
  BY StepRefines
<1>. QED
  BY <1>1, <1>2, Invariant, PTL DEF Spec, ImplementsAccount, Account!Spec
=============================================================================
