---------------------------- MODULE AtomicAccount ---------------------------
(***************************************************************************)
(* What the bank server of lab 6 promises: while it serves, every request  *)
(* changes the account at most once and in one indivisible step.  A server *)
(* that is going down promises nothing, and a new one starts from zero.    *)
(***************************************************************************)
EXTENDS Integers

CONSTANTS
    Conn,       \* connections, each of which brings one request
    Change      \* Change[c]: what the request of c adds to the account

VARIABLES
    serving,    \* the promise holds
    account,    \* the amount
    applied     \* the requests it is made of

accountVars == <<serving, account, applied>>

Init ==
    /\ serving = FALSE
    /\ account = 0
    /\ applied = {}

Open ==
    /\ ~serving
    /\ serving' = TRUE
    /\ UNCHANGED <<account, applied>>

Apply(c) ==
    /\ serving
    /\ c \notin applied
    /\ account' = account + Change[c]
    /\ applied' = applied \union {c}
    /\ UNCHANGED serving

GoDown ==
    /\ serving
    /\ serving' = FALSE
    /\ account' = 0
    /\ applied' = {}

Next == Open \/ GoDown \/ \E c \in Conn : Apply(c)

Spec == Init /\ [][Next]_accountVars
=============================================================================
