--------------------------- MODULE SegmentDisplay ---------------------------
(***************************************************************************)
(* Lab 4 from end to end: writer puts one letter after the other into the  *)
(* device, reader takes the segments of whatever letter it holds and sends *)
(* them over TCP, seg.py shows what it receives.  Sleeping is all that     *)
(* paces them.                                                             *)
(***************************************************************************)
EXTENDS Integers, Sequences

CONSTANTS
    Text,           \* argv[1] of writer
    MaxFrames,      \* bound: frames the connection holds
    Parts           \* bound: what a recv() that is cut short may return

ASSUME DisplaySizes == Text \in Seq(STRING) /\ MaxFrames \in Nat

VARIABLES
    data,           \* the device's letter, as its place in Text; 0 is the '0' it starts with
    rpc,            \* reader: "read", "write", or "exited"
    buf,            \* reader: the letter whose segments are in buf
    closed,         \* reader: SIGINT has closed its descriptors
    stream,         \* the connection: <<i, k>> is segment k of letter i
    lit,            \* the segments seg.py has coloured red
    whole,          \* history: the last recv() began with a frame and got all of it
    shown           \* history: the letter of the last byte received

vars == <<data, rpc, buf, closed, stream, lit, whole, shown>>

(* The segments that are on, for each letter the device knows.             *)
seg_for_c ==
    [A |-> {1, 2, 3, 4, 7, 8, 12, 16}, B |-> {6, 7, 8, 14, 16}, C |-> {1, 2, 5, 6, 7, 8},
     D |-> {6, 7, 10, 14, 16}, E |-> {1, 6, 7, 8, 16}, F |-> {1, 7, 8, 16},
     G |-> {1, 4, 5, 6, 7, 8, 12}, H |-> {3, 4, 7, 8, 12, 16}, I |-> {1, 2, 5, 6, 10, 14},
     J |-> {1, 2, 6, 10, 14}, K |-> {10, 11, 13, 14}, L |-> {5, 6, 7, 8},
     M |-> {3, 4, 7, 8, 9, 11}, N |-> {3, 4, 7, 8, 9, 13}, O |-> 1..8,
     P |-> {1, 7, 8, 10, 16}, Q |-> {2, 3, 4, 10, 12}, R |-> {1, 2, 3, 7, 8, 12, 13, 16},
     S |-> {1, 2, 4, 5, 6, 8, 12, 16}, T |-> {1, 2, 10, 14}, U |-> 3..8, V |-> {7, 8, 11, 15},
     W |-> {3, 4, 7, 8, 13, 15}, X |-> {9, 11, 13, 15}, Y |-> {9, 11, 14},
     Z |-> {1, 2, 5, 6, 11, 15}]

Letter(i) == IF i = 0 THEN "0" ELSE Text[i]

(* The case labels: a small letter is shown as its capital.                *)
capital ==
    [a |-> "A", b |-> "B", c |-> "C", d |-> "D", e |-> "E", f |-> "F", g |-> "G",
     h |-> "H", i |-> "I", j |-> "J", k |-> "K", l |-> "L", m |-> "M", n |-> "N",
     o |-> "O", p |-> "P", q |-> "Q", r |-> "R", s |-> "S", t |-> "T", u |-> "U",
     v |-> "V", w |-> "W", x |-> "X", y |-> "Y", z |-> "Z"]
Capital(letter) == IF letter \in DOMAIN capital THEN capital[letter] ELSE letter

(* The switch of my_read; anything else is blank.                          *)
cmd(letter) ==
    IF Capital(letter) \in DOMAIN seg_for_c THEN seg_for_c[Capital(letter)] ELSE {}

TypeOK ==
    /\ data \in 0..Len(Text)
    /\ rpc \in {"read", "write", "exited"}
    /\ buf \in 0..Len(Text)
    /\ closed \in BOOLEAN
    /\ stream \in Seq((0..Len(Text)) \X (1..16)) /\ Len(stream) <= 16 * MaxFrames
    /\ lit \subseteq 1..16
    /\ whole \in BOOLEAN
    /\ shown \in 0..Len(Text)

Init ==
    /\ data = 0
    /\ rpc = "read" /\ buf = 0 /\ closed = FALSE
    /\ stream = <<>>
    /\ lit = {} /\ whole = TRUE /\ shown = 0

-----------------------------------------------------------------------------
(* Mutant of Write: one letter too many.                                   *)
WritePastEnd ==
    /\ data <= Len(Text)
    /\ data' = data + 1
    /\ UNCHANGED <<rpc, buf, closed, stream, lit, whole, shown>>

(* writer, my_write: the next letter, whether or not the last was read.    *)
Write ==
    /\ data < Len(Text)
    /\ data' = data + 1
    /\ UNCHANGED <<rpc, buf, closed, stream, lit, whole, shown>>

(* Mutant of Read: the first letter read is kept.                          *)
ReadOnce ==
    /\ rpc = "read"
    /\ IF closed THEN rpc' = "exited" /\ UNCHANGED buf
                 ELSE rpc' = "write" /\ buf' = IF buf = 0 THEN data ELSE buf
    /\ UNCHANGED <<data, closed, stream, lit, whole, shown>>

(* reader, my_read.                                                        *)
Read ==
    /\ rpc = "read"
    /\ IF closed THEN rpc' = "exited" /\ UNCHANGED buf
                 ELSE rpc' = "write" /\ buf' = data
    /\ UNCHANGED <<data, closed, stream, lit, whole, shown>>

Frame(i) == [k \in 1..16 |-> <<i, k>>]

Send ==
    /\ rpc = "write"
    /\ IF closed THEN rpc' = "exited" /\ UNCHANGED stream
       ELSE /\ Len(stream) + 16 <= 16 * MaxFrames
            /\ stream' = stream \o Frame(buf)
            /\ rpc' = "read"
    /\ UNCHANGED <<data, buf, closed, lit, whole, shown>>

(* SIGINT closes the descriptors and nothing else: the next call fails.    *)
Interrupt ==
    /\ ~closed /\ rpc # "exited"
    /\ closed' = TRUE
    /\ UNCHANGED <<data, rpc, buf, stream, lit, whole, shown>>

(* Mutant of Coloured: segments are switched on only.                      *)
ColouredOn(bytes) == lit \union {k \in DOMAIN bytes : bytes[k][2] \in cmd(Letter(bytes[k][1]))}

(* dig.show: the n-th byte received is the n-th segment; zip() leaves the  *)
(* segments after the last byte as they are.                               *)
Coloured(bytes) ==
    {k \in DOMAIN bytes : bytes[k][2] \in cmd(Letter(bytes[k][1]))} \union (lit \ DOMAIN bytes)

(* update: recv(16) returns what is there, or less.                        *)
Update(n) ==
    /\ n <= Len(stream) /\ n \in {16, Len(stream)} \union Parts
    /\ lit' = Coloured(SubSeq(stream, 1, n))
    /\ whole' = (n = 16 /\ Len(stream) % 16 = 0)
    /\ shown' = stream[n][1]
    /\ stream' = SubSeq(stream, n + 1, Len(stream))
    /\ UNCHANGED <<data, rpc, buf, closed>>

Reader == Read \/ Send
Display == \E n \in 1..16 : Update(n)

Next == Write \/ Reader \/ Interrupt \/ Display

Spec == Init /\ [][Next]_vars

(* All three programs run on; nobody is obliged to press ^C.               *)
FairSpec == Spec /\ WF_vars(Write) /\ WF_vars(Reader) /\ WF_vars(Display)

-----------------------------------------------------------------------------
(* Properties *)

(* When recv() has returned one whole frame, the segments are those of the *)
(* letter sent, small or capital, and of no other, whatever earlier short  *)
(* calls have left.                                                        *)
ShownIsLegible ==
    whole => /\ lit = cmd(Letter(shown))
             /\ \A c \in DOMAIN seg_for_c : lit = seg_for_c[c] => c = Capital(Letter(shown))

(* Letters may be skipped or shown twice, but not the last one: unless the *)
(* reader is stopped, or calls that cut a frame in two never end, the      *)
(* display comes to rest on it.                                            *)
LastLetterStays ==
    [](~closed) /\ <>[]whole => <>[](lit = cmd(Letter(Len(Text))))
=============================================================================
