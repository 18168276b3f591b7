---------------------------- MODULE CommandText ----------------------------
(***************************************************************************)
(* What the command loops of parking_lot.cpp see of the text a client      *)
(* sends.  A client writes lines; TCP keeps the bytes but not the writes,  *)
(* so one read() returns one line or several lines run together, of which  *)
(* only the last newline is removed (getMessage).  A line is a record      *)
(*   word |-> its first blank-delimited token ("" for an empty line),      *)
(*   args |-> atoi of each further token,                                  *)
(*   num  |-> atoi of the whole line.                                      *)
(* A message is the non-empty sequence of lines one read() returned.       *)
(***************************************************************************)
EXTENDS Integers, SequencesExt

(* strtok(msg, " "): the first token of the message ends at a blank.  When *)
(* the first line has no argument, its newline and the next line are glued *)
(* to it, and the token equals no command.                                 *)
Word(msg) ==
    IF Len(msg) = 1 \/ msg[1].args # <<>> THEN msg[1].word ELSE "glued"

(* strtok returns NULL when there is no token at all.                      *)
NoToken(msg) == Len(msg) = 1 /\ msg[1].word = ""

(* The later tokens.  The first word of a further line hangs behind a      *)
(* newline on the token before it, where atoi does not see it.             *)
Args(msg) == FlattenSeq([i \in DOMAIN msg |-> msg[i].args])

(* strcmp(msg, word) == 0: the whole message is that word.                 *)
Equals(msg, word) ==
    Len(msg) = 1 /\ msg[1].word = word /\ msg[1].args = <<>>

(* atoi(msg): skips leading white space, newlines included, reads one      *)
(* number, and gives 0 when there is none.                                 *)
Number(msg) ==
    LET filled == {i \in DOMAIN msg : msg[i].word # ""}
    IN  IF filled = {} THEN 0
        ELSE msg[CHOOSE i \in filled : \A j \in filled : i <= j].num
=============================================================================
