------------------------------ MODULE HandOver ------------------------------
(***************************************************************************)
(* The shared-memory exercise of lab 7: shm_server writes the letters and  *)
(* a terminator cell by cell and polls the first cell for '*'; shm_client  *)
(* reads up to the terminator and writes the '*'.  Nothing else orders the *)
(* two.                                                                    *)
(***************************************************************************)
EXTENDS Integers, Sequences

CONSTANT N          \* letters: 26 in the code

VARIABLES
    shm,            \* the segment: letter i is i, the terminator 0, '*' is -1
    exists,         \* shmget would find it
    pc, s,          \* the server, and how many cells it has written
    cpc, cs,        \* the client, and the cell it reads next
    text            \* what the client has printed

vars == <<shm, exists, pc, s, cpc, cs, text>>
serverVars == <<exists, pc, s>>
clientVars == <<cpc, cs, text>>

Star == -1

(* A new segment is all zeros.                                             *)
Init ==
    /\ shm = [i \in 1..N + 1 |-> 0]
    /\ exists = FALSE
    /\ pc = "create" /\ s = 0
    /\ cpc = "locate" /\ cs = 1 /\ text = <<>>

Create ==
    /\ pc = "create" /\ pc' = "fill"
    /\ exists' = TRUE
    /\ UNCHANGED <<shm, s, clientVars>>

Fill ==
    /\ pc = "fill"
    /\ s' = s + 1
    /\ shm' = [shm EXCEPT ![s + 1] = IF s = N THEN 0 ELSE s + 1]
    /\ pc' = IF s = N THEN "wait" ELSE "fill"
    /\ UNCHANGED <<exists, clientVars>>

Leave ==
    /\ pc = "wait" /\ shm[1] = Star
    /\ pc' = "done"
    /\ exists' = FALSE
    /\ UNCHANGED <<shm, s, clientVars>>

(* Without a segment the client gives up.                                  *)
Locate ==
    /\ cpc = "locate"
    /\ cpc' = IF exists THEN "test" ELSE "failed"
    /\ UNCHANGED <<shm, serverVars, cs, text>>

Test ==
    /\ cpc = "test"
    /\ cpc' = IF shm[cs] = 0 THEN "star" ELSE "print"
    /\ UNCHANGED <<shm, serverVars, cs, text>>

(* putchar loads the cell again.                                           *)
PutChar ==
    /\ cpc = "print" /\ cpc' = "test"
    /\ text' = Append(text, shm[cs])
    /\ cs' = cs + 1
    /\ UNCHANGED <<shm, serverVars>>

WriteStar ==
    /\ cpc = "star" /\ cpc' = "done"
    /\ shm' = [shm EXCEPT ![1] = Star]
    /\ UNCHANGED <<serverVars, cs, text>>

Next == Create \/ Fill \/ Leave \/ Locate \/ Test \/ PutChar \/ WriteStar

Spec == Init /\ [][Next]_vars

(* The comment above the wait: the '*' indicates "that it has read what we *)
(* put there".                                                             *)
StarMeansRead == pc = "done" => text = [i \in 1..N |-> i]
=============================================================================
