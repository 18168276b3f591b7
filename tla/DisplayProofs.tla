---------------------------- MODULE DisplayProofs ----------------------------
(***************************************************************************)
(* Theorems about the display of lab 4, for any text and any way in which  *)
(* the connection cuts it.                                                 *)
(***************************************************************************)
EXTENDS SegmentDisplay, SequenceTheorems, TLAPS

(* The letter that is read from the segments that are on: no two letters   *)
(* of the device's table look alike.                                       *)
Decode(s) ==
    IF 1 \in s THEN
      IF 5 \in s THEN
        IF 4 \in s THEN IF 2 \in s THEN IF 3 \in s THEN "O" ELSE "S" ELSE "G"
        ELSE IF 7 \in s THEN "C" ELSE IF 10 \in s THEN "I" ELSE "Z"
      ELSE
        IF 2 \in s THEN
          IF 3 \in s THEN IF 4 \in s THEN "A" ELSE "R"
          ELSE IF 6 \in s THEN "J" ELSE "T"
        ELSE IF 6 \in s THEN "E" ELSE IF 10 \in s THEN "P" ELSE "F"
    ELSE
      IF 3 \in s THEN
        IF 9 \in s THEN IF 11 \in s THEN "M" ELSE "N"
        ELSE IF 12 \in s THEN IF 2 \in s THEN "Q" ELSE "H"
        ELSE IF 5 \in s THEN "U" ELSE "W"
      ELSE
        IF 7 \in s THEN
          IF 14 \in s THEN IF 8 \in s THEN "B" ELSE "D"
          ELSE IF 5 \in s THEN "L" ELSE "V"
        ELSE IF 9 \in s THEN IF 13 \in s THEN "X" ELSE "Y"
        ELSE IF 10 \in s THEN "K" ELSE "blank"

Good(c) == Decode(seg_for_c[c]) = c /\ seg_for_c[c] \subseteq 1..16

LEMMA TableIsGood == \A c \in DOMAIN seg_for_c : Good(c)
<1>1. Good("A")
  BY SMT DEF Good, Decode, seg_for_c
<1>2. Good("B")
  BY SMT DEF Good, Decode, seg_for_c
<1>3. Good("C")
  BY SMT DEF Good, Decode, seg_for_c
<1>4. Good("D")
  BY SMT DEF Good, Decode, seg_for_c
<1>5. Good("E")
  BY SMT DEF Good, Decode, seg_for_c
<1>6. Good("F")
  BY SMT DEF Good, Decode, seg_for_c
<1>7. Good("G")
  BY SMT DEF Good, Decode, seg_for_c
<1>8. Good("H")
  BY SMT DEF Good, Decode, seg_for_c
<1>9. Good("I")
  BY SMT DEF Good, Decode, seg_for_c
<1>10. Good("J")
  BY SMT DEF Good, Decode, seg_for_c
<1>11. Good("K")
  BY SMT DEF Good, Decode, seg_for_c
<1>12. Good("L")
  BY SMT DEF Good, Decode, seg_for_c
<1>13. Good("M")
  BY SMT DEF Good, Decode, seg_for_c
<1>14. Good("N")
  BY SMT DEF Good, Decode, seg_for_c
<1>15. Good("O")
  BY SMT DEF Good, Decode, seg_for_c
<1>16. Good("P")
  BY SMT DEF Good, Decode, seg_for_c
<1>17. Good("Q")
  BY SMT DEF Good, Decode, seg_for_c
<1>18. Good("R")
  BY SMT DEF Good, Decode, seg_for_c
<1>19. Good("S")
  BY SMT DEF Good, Decode, seg_for_c
<1>20. Good("T")
  BY SMT DEF Good, Decode, seg_for_c
<1>21. Good("U")
  BY SMT DEF Good, Decode, seg_for_c
<1>22. Good("V")
  BY SMT DEF Good, Decode, seg_for_c
<1>23. Good("W")
  BY SMT DEF Good, Decode, seg_for_c
<1>24. Good("X")
  BY SMT DEF Good, Decode, seg_for_c
<1>25. Good("Y")
  BY SMT DEF Good, Decode, seg_for_c
<1>26. Good("Z")
  BY SMT DEF Good, Decode, seg_for_c
<1> QED
  BY <1>1, <1>2, <1>3, <1>4, <1>5, <1>6, <1>7, <1>8, <1>9, <1>10, <1>11, <1>12, <1>13, <1>14, <1>15, <1>16, <1>17, <1>18, <1>19, <1>20, <1>21, <1>22, <1>23, <1>24, <1>25, <1>26, SMT DEF seg_for_c

LEMMA CmdIsLegible ==
    ASSUME NEW letter
    PROVE  /\ cmd(letter) \subseteq 1..16
           /\ \A c \in DOMAIN seg_for_c : cmd(letter) = seg_for_c[c] => c = Capital(letter)
<1>1. Decode({}) = "blank"
  BY SMT DEF Decode
<1>2. "blank" \notin DOMAIN seg_for_c
  BY SMT DEF seg_for_c
<1>3. CASE Capital(letter) \in DOMAIN seg_for_c
  BY <1>3, TableIsGood DEF cmd, Good
<1>4. CASE Capital(letter) \notin DOMAIN seg_for_c
  BY <1>1, <1>2, <1>4, TableIsGood DEF cmd, Good
<1> QED
  BY <1>3, <1>4

-----------------------------------------------------------------------------
(* Counted from its end, the connection always holds whole frames.         *)
FromEnd(k) == Len(stream) - k

Aligned ==
    /\ \A k \in DOMAIN stream : stream[k][2] = 16 - (FromEnd(k) % 16)
    /\ \A j, k \in DOMAIN stream :
         FromEnd(j) \div 16 = FromEnd(k) \div 16 => stream[j][1] = stream[k][1]

DisplayInv == Aligned /\ (whole => lit = cmd(Letter(shown)))

Byte == (0..Len(Text)) \X (1..16)

LEMMA InitDisplay == Init => TypeOK /\ DisplayInv
<1> SUFFICES ASSUME Init PROVE TypeOK /\ DisplayInv
  OBVIOUS
<1>1. Len(Text) \in Nat /\ MaxFrames \in Nat
  BY DisplaySizes
<1>2. stream = <<>> /\ stream \in Seq(Byte) /\ Len(stream) = 0 /\ DOMAIN stream = {}
  BY DEF Init
<1>3. closed \in BOOLEAN /\ whole \in BOOLEAN
  BY Zenon DEF Init
<1>4. TypeOK
  BY <1>1, <1>2, <1>3, SMT DEF Init, TypeOK, Byte
<1>5. cmd(Letter(0)) = {}
  <2>1. "0" \notin DOMAIN seg_for_c
    BY SMT DEF seg_for_c
  <2>2. "0" \notin DOMAIN capital
    BY SMT DEF capital
  <2> QED
    BY <2>1, <2>2 DEF cmd, Capital, Letter
<1> QED
  BY <1>2, <1>4, <1>5 DEF Init, DisplayInv, Aligned

(* Steps that leave the connection and the display alone.                  *)
LEMMA QuietKeeps ==
    ASSUME TypeOK, DisplayInv, Write \/ Read \/ Interrupt \/ (Send /\ closed) \/ UNCHANGED vars
    PROVE  TypeOK' /\ DisplayInv'
<1>1. UNCHANGED <<stream, lit, whole, shown>>
  BY DEF Write, Read, Interrupt, Send, vars
<1>2. data' \in 0..Len(Text) /\ buf' \in 0..Len(Text)
  <2>1. Len(Text) \in Nat
    BY DisplaySizes
  <2> QED
    BY <2>1, SMT DEF Write, Read, Interrupt, Send, vars, TypeOK
<1>3. rpc' \in {"read", "write", "exited"} /\ closed' \in BOOLEAN
  BY DEF Write, Read, Interrupt, Send, vars, TypeOK
<1> QED
  BY <1>1, <1>2, <1>3 DEF TypeOK, DisplayInv, Aligned, FromEnd

(* The arithmetic of the frames.                                           *)
LEMMA FrameArithmetic ==
    ASSUME NEW n \in Nat
    PROVE  /\ \A k \in 1..n : ((n + 16) - k) % 16 = (n - k) % 16
           /\ \A k \in (n + 1)..(n + 16) : 16 - (((n + 16) - k) % 16) = k - n
           /\ \A k \in (n + 1)..(n + 16) : ((n + 16) - k) \div 16 = 0
           /\ \A k \in 1..n : ((n + 16) - k) \div 16 = (n - k) \div 16 + 1
           /\ \A k \in 1..n : (n - k) \div 16 >= 0
           /\ n % 16 = 0 => \A k \in 1..16 : /\ (n - k) \div 16 = (n - 16) \div 16
                                             /\ 16 - ((n - k) % 16) = k
BY SMT

LEMMA SendKeeps ==
    ASSUME TypeOK, DisplayInv, Send, ~closed
    PROVE  TypeOK' /\ DisplayInv'
<1>1. /\ Len(stream) + 16 <= 16 * MaxFrames
      /\ stream' = stream \o Frame(buf)
      /\ rpc' = "read"
      /\ UNCHANGED <<data, buf, closed, lit, whole, shown>>
  BY DEF Send
<1>2. /\ Frame(buf) \in Seq(Byte) /\ Len(Frame(buf)) = 16
      /\ \A k \in 1..16 : Frame(buf)[k] = <<buf, k>>
  BY SMT DEF Frame, Byte, TypeOK
<1>3. PICK n \in Nat : n = Len(stream) /\ DOMAIN stream = 1..n /\ stream \in Seq(Byte)
  BY LenProperties DEF TypeOK, Byte
<1>4. /\ stream' \in Seq(Byte) /\ Len(stream') = n + 16
      /\ \A k \in 1..(n + 16) : stream'[k] = IF k <= n THEN stream[k] ELSE Frame(buf)[k - n]
  <2> DEFINE f == Frame(buf)
  <2> HIDE DEF f
  <2>1. f \in Seq(Byte) /\ Len(f) = 16
    BY <1>2 DEF f
  <2>2. /\ stream \o f \in Seq(Byte) /\ Len(stream \o f) = n + 16
        /\ \A k \in 1..(n + 16) : (stream \o f)[k] = IF k <= n THEN stream[k] ELSE f[k - n]
    <3>1. /\ stream \o f \in Seq(Byte) /\ Len(stream \o f) = Len(stream) + Len(f)
          /\ \A k \in 1..(Len(stream) + Len(f)) :
               (stream \o f)[k] = IF k <= Len(stream) THEN stream[k] ELSE f[k - Len(stream)]
      BY <1>3, <2>1, ConcatProperties
    <3> QED
      BY <1>3, <2>1, <3>1
  <2> QED
    BY <1>1, <2>2 DEF f
<1>5. /\ DOMAIN stream' = 1..(n + 16)
      /\ \A k \in 1..n : stream'[k] = stream[k]
      /\ \A k \in (n + 1)..(n + 16) : stream'[k] = <<buf, k - n>>
  <2>1. DOMAIN stream' = 1..(n + 16)
    BY <1>4, LenProperties
  <2>2. \A k \in (n + 1)..(n + 16) : k \in 1..(n + 16) /\ ~(k <= n) /\ k - n \in 1..16
    BY SMT
  <2>3. \A k \in 1..n : k \in 1..(n + 16) /\ k <= n
    BY SMT
  <2> QED
    BY <1>2, <1>4, <2>1, <2>2, <2>3
<1>6. TypeOK'
  BY <1>1, <1>3, <1>4, SMT DEF TypeOK, Byte
<1>7. \A k \in DOMAIN stream' : k \in 1..n \/ k \in (n + 1)..(n + 16)
  BY <1>5, SMT
<1>8. ASSUME NEW k \in DOMAIN stream'
      PROVE  stream'[k][2] = 16 - (((n + 16) - k) % 16)
  <2>1. CASE k \in 1..n
    <3>1. stream[k][2] = 16 - ((n - k) % 16)
      BY <1>3, <2>1 DEF DisplayInv, Aligned, FromEnd
    <3> QED
      BY <1>5, <2>1, <3>1, FrameArithmetic
  <2>2. CASE k \in (n + 1)..(n + 16)
    <3>1. 16 - (((n + 16) - k) % 16) = k - n
      BY <2>2, FrameArithmetic
    <3>2. stream'[k] = <<buf, k - n>>
      BY <1>5, <2>2
    <3> QED
      BY <3>1, <3>2
  <2> QED
    BY <1>7, <2>1, <2>2
<1>9. ASSUME NEW j \in DOMAIN stream', NEW k \in DOMAIN stream',
             ((n + 16) - j) \div 16 = ((n + 16) - k) \div 16
      PROVE  stream'[j][1] = stream'[k][1]
  <2>1. CASE j \in 1..n /\ k \in 1..n
    <3>1. (n - j) \div 16 = (n - k) \div 16
      BY <1>9, <2>1, FrameArithmetic, SMT
    <3> QED
      BY <1>3, <1>5, <2>1, <3>1 DEF DisplayInv, Aligned, FromEnd
  <2>2. CASE j \in (n + 1)..(n + 16) /\ k \in (n + 1)..(n + 16)
    BY <1>5, <2>2
  <2>3. CASE \/ j \in 1..n /\ k \in (n + 1)..(n + 16)
             \/ k \in 1..n /\ j \in (n + 1)..(n + 16)
    BY <1>9, <2>3, FrameArithmetic, SMT
  <2> QED
    BY <1>7, <2>1, <2>2, <2>3
<1>10. Aligned'
  BY <1>4, <1>8, <1>9 DEF Aligned, FromEnd
<1> QED
  BY <1>1, <1>6, <1>10 DEF DisplayInv

LEMMA UpdateKeeps ==
    ASSUME TypeOK, DisplayInv, NEW n \in 1..16, Update(n)
    PROVE  TypeOK' /\ DisplayInv'
<1> DEFINE bytes == SubSeq(stream, 1, n)
<1>1. PICK m \in Nat : m = Len(stream) /\ DOMAIN stream = 1..m /\ stream \in Seq(Byte)
  BY LenProperties DEF TypeOK, Byte
<1>2. /\ n <= m
      /\ lit' = Coloured(bytes)
      /\ whole' = (n = 16 /\ m % 16 = 0)
      /\ shown' = stream[n][1]
      /\ stream' = SubSeq(stream, n + 1, m)
      /\ UNCHANGED <<data, rpc, buf, closed>>
  BY <1>1 DEF Update
<1>3. \A k \in 1..m : stream[k] \in Byte
  BY <1>1, ElementOfSeq
<1>4. /\ stream' \in Seq(Byte) /\ Len(stream') = m - n
      /\ \A k \in 1..(m - n) : stream'[k] = stream[k + n]
  <2>1. \A k \in (n + 1)..m : stream[k] \in Byte
    BY <1>3, SMT
  <2> DEFINE f == n + 1
             rest == SubSeq(stream, f, m)
  <2>2. f \in Int /\ m \in Int /\ n <= m
    BY <1>2
  <2> HIDE DEF f
  <2>3. /\ rest \in Seq(Byte)
        /\ Len(rest) = IF f <= m THEN m - f + 1 ELSE 0
        /\ \A k \in 1..(m - f + 1) : rest[k] = stream[f + k - 1]
    <3>1. \A k \in f..m : stream[k] \in Byte
      BY <2>1 DEF f
    <3> QED
      BY <2>2, <3>1, SubSeqProperties
  <2>4. /\ (IF f <= m THEN m - f + 1 ELSE 0) = m - n
        /\ m - f + 1 = m - n
        /\ \A k \in 1..(m - n) : f + k - 1 = k + n
    BY <2>2, SMT DEF f
  <2>5. stream' = rest
    BY <1>2 DEF f
  <2> HIDE DEF rest
  <2> QED
    BY <2>3, <2>4, <2>5
<1>5. DOMAIN stream' = 1..(m - n)
  BY <1>4, LenProperties
<1>6. DOMAIN bytes = 1..n /\ \A k \in 1..n : bytes[k] = stream[k]
  <2>1. \A k \in 1..n : stream[k] \in Byte
    BY <1>2, <1>3, SMT
  <2>2. /\ bytes \in Seq(Byte)
        /\ Len(bytes) = IF 1 <= n THEN n - 1 + 1 ELSE 0
        /\ \A k \in 1..(n - 1 + 1) : bytes[k] = stream[1 + k - 1]
    BY <2>1, SubSeqProperties
  <2>3. /\ (IF 1 <= n THEN n - 1 + 1 ELSE 0) = n /\ n - 1 + 1 = n
        /\ \A k \in 1..n : 1 + k - 1 = k
    BY SMT
  <2>4. DOMAIN bytes = 1..n
    BY <2>2, <2>3, LenProperties
  <2> QED
    BY <2>2, <2>3, <2>4
<1> HIDE DEF bytes
<1>7. TypeOK'
  <2>1. lit' \subseteq 1..16
    <3>1. \A k \in 1..n : k \in 1..16
      BY SMT
    <3> QED
      BY <1>2, <1>6, <3>1 DEF Coloured, TypeOK
  <2>2. whole' \in BOOLEAN
    BY <1>2, Zenon
  <2>3. shown' \in 0..Len(Text)
    <3>1. n \in 1..m
      BY <1>2, SMT
    <3> QED
      BY <1>2, <1>3, <3>1 DEF Byte
  <2>4. Len(stream') <= 16 * MaxFrames
    <3>1. m <= 16 * MaxFrames
      BY <1>1 DEF TypeOK
    <3>2. 16 * MaxFrames \in Nat
      BY DisplaySizes
    <3>3. m - n <= m /\ m - n \in Int /\ m \in Int
      OBVIOUS
    <3>4. \A x, y, z \in Int : x <= y /\ y <= z => x <= z
      OBVIOUS
    <3>5. m - n <= 16 * MaxFrames
      BY <3>1, <3>2, <3>3, <3>4
    <3> QED
      BY <1>4, <3>5
  <2> QED
    BY <1>2, <1>4, <2>1, <2>2, <2>3, <2>4 DEF TypeOK, Byte
<1>8. ASSUME NEW k \in DOMAIN stream'
      PROVE  /\ k + n \in DOMAIN stream /\ Len(stream') - k = m - (k + n)
             /\ stream'[k] = stream[k + n]
  <2>1. k \in 1..(m - n) /\ k + n \in 1..m /\ (m - n) - k = m - (k + n)
    BY <1>5, SMT
  <2> QED
    BY <1>1, <1>4, <2>1
<1>9. Aligned'
  <2>1. ASSUME NEW k \in DOMAIN stream'
        PROVE  stream'[k][2] = 16 - ((Len(stream') - k) % 16)
    BY <1>1, <1>8 DEF DisplayInv, Aligned, FromEnd
  <2>2. ASSUME NEW j \in DOMAIN stream', NEW k \in DOMAIN stream',
               (Len(stream') - j) \div 16 = (Len(stream') - k) \div 16
        PROVE  stream'[j][1] = stream'[k][1]
    <3>1. (m - (j + n)) \div 16 = (m - (k + n)) \div 16
      BY <1>8, <2>2
    <3>2. stream[j + n][1] = stream[k + n][1]
      BY <1>1, <1>8, <3>1 DEF DisplayInv, Aligned, FromEnd
    <3> QED
      BY <1>8, <3>2
  <2> QED
    BY <2>1, <2>2 DEF Aligned, FromEnd
<1>10. ASSUME whole' PROVE lit' = cmd(Letter(shown'))
  <2>1. n = 16 /\ m % 16 = 0 /\ 16 \in 1..m
    <3>1. n = 16 /\ m % 16 = 0
      BY <1>2, <1>10
    <3> QED
      BY <1>2, <3>1, SMT
  <2>2. \A k \in 1..16 : k \in 1..m
    BY <2>1, SMT
  <2>3. \A k \in 1..16 : stream[k][1] = shown' /\ stream[k][2] = k
    BY <1>1, <1>2, <2>1, <2>2, FrameArithmetic DEF DisplayInv, Aligned, FromEnd
  <2>4. lit' = {k \in 1..16 : k \in cmd(Letter(shown'))} \union (lit \ (1..16))
    BY <1>2, <1>6, <2>1, <2>3 DEF Coloured
  <2> QED
    BY <2>4, CmdIsLegible DEF TypeOK
<1> QED
  BY <1>7, <1>9, <1>10 DEF DisplayInv

LEMMA NextDisplay == TypeOK /\ DisplayInv /\ [Next]_vars => TypeOK' /\ DisplayInv'
<1> SUFFICES ASSUME TypeOK, DisplayInv, [Next]_vars PROVE TypeOK' /\ DisplayInv'
  OBVIOUS
<1>1. CASE Write \/ Read \/ Interrupt \/ (Send /\ closed) \/ UNCHANGED vars
  BY <1>1, QuietKeeps
<1>2. CASE Send /\ ~closed
  BY <1>2, SendKeeps
<1>3. CASE Display
  BY <1>3, UpdateKeeps DEF Display
<1> QED
  BY <1>1, <1>2, <1>3 DEF Next, Reader

(* Every variable of lab 4 keeps its type.                                 *)
THEOREM TypesCorrect == Spec => []TypeOK
<1> QED
  BY InitDisplay, NextDisplay, PTL DEF Spec

(* A recv() that returns one whole frame leaves the letter that was sent   *)
(* on the display, and the segments are those of no other letter.          *)
THEOREM Legible == Spec => []ShownIsLegible
<1>1. DisplayInv => ShownIsLegible
  BY CmdIsLegible DEF DisplayInv, ShownIsLegible
<1> QED
  BY <1>1, InitDisplay, NextDisplay, PTL DEF Spec
=============================================================================
