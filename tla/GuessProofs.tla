----------------------------- MODULE GuessProofs ------------------------------
(***************************************************************************)
(* Theorems about the guessing game of lab 7, for any range of numbers and *)
(* any width of an int that holds the range.                               *)
(***************************************************************************)
EXTENDS GuessGame, TLAPS

(* Before the client has written its first guess.                          *)
Unwritten == cpc \in {"signal", "shmget", "first", "failed"}
(* Before game has written its first guess.                                *)
Unfilled == pc \in {"create", "attach", "fillGuess"}
Narrowing == {"narrowHigh", "narrowLow"}

TrueOf(w, n) == (w = "smaller" => n > secret) /\ (w = "bigger" => n < secret)

(* Each verdict is true of the guess it is about, on its way from the      *)
(* handler through the segment into the client.                            *)
VerdictsTrue ==
    /\ hpc \in {"positive", "copy", "copied"} => TrueOf(word, about)
    /\ result \in Verdicts => TrueOf(result, judged)
    /\ cpc = "narrowHigh" => heard > secret
    /\ cpc = "narrowLow" => heard < secret

(* "bingo" is written and read only when the handler found the number.     *)
BingoMeansStop ==
    /\ pc \in {"bingo", "bingoEnd", "detach", "remove", "exited"} => stop = 0
    /\ result = "bingo" \/ cpc = "done" => stop = 0

(* The 0 and the -1 that are there before the client's first guess are     *)
(* judged too; a verdict on them is never one on the present guess.  A     *)
(* guess that overflow made negative is less than -1, and remains: it gets *)
(* no verdict.                                                             *)
Unlike(n) == n <= 0 => n \in {0, -1} /\ guess # n
Possible(n) == n >= 1 \/ n < -1

GuessIsOwn ==
    /\ Unwritten => guess \in {0, -1} /\ check = 0
    /\ ~Unwritten => guess \in {-1, check} /\ Possible(check)
    /\ hpc = "positive" /\ about < -1 => ~Unwritten /\ check < -1
    /\ Unfilled => guess # -1 /\ about # -1 /\ judged # -1 /\ heard # -1
    /\ hpc \in {"copy", "copied"} => Unlike(about)
    /\ result \in Verdicts => Unlike(judged)
    /\ cpc \in Narrowing => Unlike(heard)

Middle == Half(Wrap(low + high))

(* check is the middle of the interval, until a verdict has cut the        *)
(* interval; then check is not the number.                                 *)
MiddleIsChecked ==
    /\ 1 <= low /\ low <= secret /\ secret <= high /\ high <= UpperBound
    /\ 2 * low <= IntMax + 2
    /\ ~Unwritten /\ cpc # "guess" => check = Middle
    /\ cpc = "guess" => check = Middle \/ (check # secret /\ check >= 1)
    /\ stop = 0 => check = secret

GuessInv ==
    /\ VerdictsTrue
    /\ BingoMeansStop
    /\ ~misled => GuessIsOwn /\ MiddleIsChecked

LEMMA WrapIsCInt ==
    ASSUME NEW n \in Int, -(2 * IntMax + 2) <= n, n <= 2 * IntMax
    PROVE  Wrap(n) \in CInt
BY WidthAssumption, SMT DEF Wrap, CInt

LEMMA HalfIsCInt == ASSUME NEW n \in CInt PROVE Half(n) \in CInt
BY WidthAssumption, SMT DEF Half, CInt

(* The sum of the interval's ends that overflows is far below 0.           *)
LEMMA MiddleIsPossible ==
    ASSUME NEW l \in Int, NEW h \in Int,
           1 <= l, l <= h, h <= IntMax, 2 * l <= IntMax + 2
    PROVE  /\ Possible(Half(Wrap(l + h)))
           /\ Half(Wrap(l + h)) >= 1 => 2 * Half(Wrap(l + h)) <= IntMax
           /\ Half(Wrap(l + h)) <= h
<1>1. IntMax \in Int /\ IntMax >= 6
  BY WidthAssumption
<1>2. CASE l + h <= IntMax
  <2>1. Wrap(l + h) = l + h
    BY <1>1, <1>2, SMT DEF Wrap
  <2> QED
    BY <1>1, <1>2, <2>1, SMT DEF Half, Possible
<1>3. CASE l + h > IntMax
  <2>1. Wrap(l + h) \in Int /\ Wrap(l + h) <= -4
    BY <1>1, <1>3, SMT DEF Wrap
  <2> QED
    BY <2>1, SMT DEF Half, Possible
<1> QED
  BY <1>1, <1>2, <1>3

LEMMA InitGuess == Init => TypeOK /\ GuessInv
<1> SUFFICES ASSUME Init PROVE TypeOK /\ GuessInv
  OBVIOUS
<1>1. TypeOK
  <2>1. /\ exists \in BOOLEAN /\ pending \in BOOLEAN
        /\ misled \in BOOLEAN /\ unheard \in BOOLEAN
    BY Zenon DEF Init
  <2>2. secret \in 1..UpperBound /\ low \in CInt /\ high \in CInt /\ guess \in CInt
    BY UpperBoundAssumption, WidthAssumption, SMT DEF Init, CInt
  <2>3. /\ word \in Verdicts /\ result \in Verdicts \union {"none", "bingo"}
        /\ about \in CInt /\ judged \in CInt /\ heard \in CInt /\ check \in CInt
        /\ stop \in {0, 1}
    BY WidthAssumption, SMT DEF Init, Verdicts, CInt
  <2> QED
    BY <2>1, <2>2, <2>3 DEF Init, TypeOK
<1>2. VerdictsTrue /\ BingoMeansStop
  BY DEF Init, VerdictsTrue, BingoMeansStop, Verdicts
<1>3. GuessIsOwn
  BY DEF Init, GuessIsOwn, Unwritten, Unfilled, Narrowing, Verdicts
<1>4. MiddleIsChecked
  BY UpperBoundAssumption, WidthAssumption, SMT DEF Init, MiddleIsChecked, Unwritten
<1> QED
  BY <1>1, <1>2, <1>3, <1>4 DEF GuessInv

LEMMA MainKeeps == TypeOK /\ GuessInv /\ Main => TypeOK' /\ GuessInv'
<1> SUFFICES ASSUME TypeOK, GuessInv, Main PROVE TypeOK' /\ GuessInv'
  OBVIOUS
<1>1. /\ hpc = "none" /\ UNCHANGED <<secret, pending, hpc, word, about, stop,
                                     cpc, low, high, check, heard, misled>>
  BY DEF Main, Create, Attach, FillGuess, FillResult, Wake, Bingo, BingoEnd, Detach, Remove,
         MainAt, OnlyMain, handlerVars, clientVars
<1>2. /\ guess' = guess \/ (pc = "fillGuess" /\ guess' = -1)
      /\ judged' = judged
      /\ result' = result \/ result' = "none" \/ (pc = "bingoEnd" /\ result' = "bingo")
  BY DEF Main, Create, Attach, FillGuess, FillResult, Wake, Bingo, BingoEnd, Detach, Remove,
         MainAt, verdictVars
<1>3. /\ pc' \in {"create", "attach", "remove"} \union Attached \union Gone
      /\ pc' \in {"create", "attach", "fillGuess"} => pc \in {"create", "attach"} /\ guess' = guess
      /\ pc' \in {"bingo", "bingoEnd", "detach", "remove", "exited"} =>
           stop = 0 \/ pc \in {"bingo", "bingoEnd", "detach", "remove"}
  BY DEF Main, Create, Attach, FillGuess, FillResult, Wake, Bingo, BingoEnd, Detach, Remove,
         MainAt, Attached, Gone
<1>4. exists' \in BOOLEAN /\ unheard' \in BOOLEAN
  BY DEF Main, Create, Attach, FillGuess, FillResult, Wake, Bingo, BingoEnd, Detach, Remove,
         TypeOK
<1>5. TypeOK'
  <2>1. -1 \in CInt
    BY WidthAssumption, SMT DEF CInt
  <2> QED
    BY <1>1, <1>2, <1>3, <1>4, <2>1 DEF TypeOK
<1>6. VerdictsTrue'
  BY <1>1, <1>2 DEF GuessInv, VerdictsTrue, TrueOf, Verdicts
<1>7. BingoMeansStop'
  BY <1>1, <1>2, <1>3 DEF GuessInv, BingoMeansStop
<1>8. ASSUME ~misled PROVE GuessIsOwn' /\ MiddleIsChecked'
  <2>1. GuessIsOwn /\ MiddleIsChecked
    BY <1>8 DEF GuessInv
  <2>2. MiddleIsChecked'
    BY <1>1, <2>1 DEF MiddleIsChecked, Middle, Unwritten
  <2>3. GuessIsOwn'
    BY <1>1, <1>2, <1>3, <2>1, SMT
       DEF GuessIsOwn, Unwritten, Unfilled, Unlike, Possible, Narrowing, Verdicts, TypeOK, CInt
  <2> QED
    BY <2>2, <2>3
<1> QED
  BY <1>1, <1>5, <1>6, <1>7, <1>8 DEF GuessInv

LEMMA HandlerKeeps == TypeOK /\ GuessInv /\ Handler => TypeOK' /\ GuessInv'
<1> SUFFICES ASSUME TypeOK, GuessInv, Handler PROVE TypeOK' /\ GuessInv'
  OBVIOUS
<1>1. UNCHANGED <<secret, guess, exists, cpc, low, high, check, heard, misled>>
  BY DEF Handler, Deliver, IsEqual, IsAbove, IsBelow, IsPositive, Copy, Copied, OnlyHandler,
         clientVars
<1>2. /\ pc' = pc \/ pc' = "dead"
      /\ hpc' \in {"none", "equal", "above", "below", "positive", "copy", "copied"}
      /\ stop' = stop \/ (guess = secret /\ stop' = 0)
      /\ pending' \in BOOLEAN /\ unheard' \in BOOLEAN
  BY DEF Handler, Deliver, IsEqual, IsAbove, IsBelow, IsPositive, Copy, Copied, TypeOK,
         gameVars
<1>3. \/ UNCHANGED <<word, about>> /\ hpc' \notin {"positive", "copy", "copied"}
      \/ UNCHANGED <<word, about>> /\ hpc = "positive" /\ hpc' = "copy" /\ guess > 0
      \/ UNCHANGED <<word, about>> /\ hpc = "copy" /\ hpc' = "copied"
      \/ hpc = "above" /\ hpc' = "copy" /\ guess > secret /\ word' = "smaller" /\ about' = guess
      \/ hpc = "below" /\ hpc' = "positive" /\ guess < secret /\ word' = "bigger" /\ about' = guess
  BY DEF Handler, Deliver, IsEqual, IsAbove, IsBelow, IsPositive, Copy, Copied, Decide
<1>4. \/ UNCHANGED <<result, judged>>
      \/ result' = "none" /\ judged' = judged
      \/ hpc = "copied" /\ result' = word /\ judged' = about
  BY DEF Handler, Deliver, IsEqual, IsAbove, IsBelow, IsPositive, Copy, Copied, verdictVars
<1>5. TypeOK'
  BY <1>1, <1>2, <1>3, <1>4 DEF TypeOK, Verdicts, Gone
<1>6. VerdictsTrue'
  BY <1>1, <1>3, <1>4, SMT DEF GuessInv, VerdictsTrue, TrueOf, Verdicts, TypeOK, CInt
<1>7. BingoMeansStop'
  BY <1>1, <1>2, <1>4 DEF GuessInv, BingoMeansStop, TypeOK, Verdicts
<1>8. ASSUME ~misled PROVE GuessIsOwn' /\ MiddleIsChecked'
  <2>1. GuessIsOwn /\ MiddleIsChecked
    BY <1>8 DEF GuessInv
  <2>2. GuessIsOwn'
    BY <1>1, <1>2, <1>3, <1>4, <2>1, SMT
       DEF GuessIsOwn, MiddleIsChecked, Unwritten, Unfilled, Unlike, Possible, Narrowing, Verdicts, TypeOK, CInt
  <2>3. stop' = 0 => check = secret
    BY <1>2, <2>1, SMT DEF GuessIsOwn, MiddleIsChecked, TypeOK, CInt
  <2>4. MiddleIsChecked'
    BY <1>1, <2>1, <2>3 DEF MiddleIsChecked, Middle, Unwritten
  <2> QED
    BY <2>2, <2>4
<1> QED
  BY <1>1, <1>5, <1>6, <1>7, <1>8 DEF GuessInv

(* The client's steps up to the next guess: the interval stays.            *)
LEMMA ReadingKeeps ==
    TypeOK /\ GuessInv /\ (\/ FirstSignal \/ Locate \/ While \/ TestBingo
                           \/ Test("smaller", "narrowHigh", "bigger")
                           \/ Test("bigger", "narrowLow", "guess"))
      => TypeOK' /\ GuessInv'
<1> SUFFICES ASSUME TypeOK, GuessInv,
                    \/ FirstSignal \/ Locate \/ While \/ TestBingo
                    \/ Test("smaller", "narrowHigh", "bigger")
                    \/ Test("bigger", "narrowLow", "guess")
             PROVE  TypeOK' /\ GuessInv'
  OBVIOUS
<1>1. UNCHANGED <<secret, guess, result, judged, exists, pc, stop, hpc, word, about, unheard,
                  low, high, check, misled>>
  BY DEF FirstSignal, Locate, While, TestBingo, Test, OnlyClient, verdictVars, gameVars,
         handlerVars
<1>2. /\ \/ cpc = "signal" /\ cpc' = "shmget"
         \/ cpc = "shmget" /\ cpc' \in {"first", "failed"}
         \/ cpc = "while" /\ cpc' = "bingo"
         \/ cpc \in {"while", "bingo"} /\ cpc' = "done" /\ result = "bingo"
         \/ cpc = "bingo" /\ cpc' = "smaller"
         \/ cpc = "smaller" /\ cpc' = "bigger"
         \/ cpc = "smaller" /\ cpc' = "narrowHigh" /\ result = "smaller" /\ heard' = judged
         \/ cpc = "bigger" /\ cpc' = "guess"
         \/ cpc = "bigger" /\ cpc' = "narrowLow" /\ result = "bigger" /\ heard' = judged
      /\ heard' = heard \/ heard' = judged
      /\ pending' \in BOOLEAN
  BY DEF FirstSignal, Locate, While, TestBingo, Test, ClientAt, Kill, TypeOK
<1>3. TypeOK'
  BY <1>1, <1>2 DEF TypeOK
<1>4. VerdictsTrue'
  BY <1>1, <1>2 DEF GuessInv, VerdictsTrue, TrueOf, Verdicts
<1>5. BingoMeansStop'
  BY <1>1, <1>2 DEF GuessInv, BingoMeansStop
<1>6. ASSUME ~misled PROVE GuessIsOwn' /\ MiddleIsChecked'
  <2>1. GuessIsOwn /\ MiddleIsChecked
    BY <1>6 DEF GuessInv
  <2>2. GuessIsOwn'
    BY <1>1, <1>2, <2>1 DEF GuessIsOwn, Unwritten, Unfilled, Unlike, Narrowing, Verdicts
  <2>3. MiddleIsChecked'
    BY <1>1, <1>2, <2>1 DEF MiddleIsChecked, Middle, Unwritten
  <2> QED
    BY <2>2, <2>3
<1> QED
  BY <1>1, <1>3, <1>4, <1>5, <1>6 DEF GuessInv

(* The interval is cut at the present guess, which is the client's own and *)
(* is not the number.                                                      *)
LEMMA NarrowKeeps == TypeOK /\ GuessInv /\ (NarrowHigh \/ NarrowLow) => TypeOK' /\ GuessInv'
<1> SUFFICES ASSUME TypeOK, GuessInv, NarrowHigh \/ NarrowLow PROVE TypeOK' /\ GuessInv'
  OBVIOUS
<1>1. /\ UNCHANGED <<secret, guess, result, judged, exists, pc, stop, hpc, word, about, unheard,
                     pending, check, heard>>
      /\ cpc' = "guess" /\ misled' = (misled \/ heard # guess)
      /\ \/ cpc = "narrowHigh" /\ high' = Wrap(guess - 1) /\ low' = low
         \/ cpc = "narrowLow" /\ low' = Wrap(guess + 1) /\ high' = high
  BY DEF NarrowHigh, NarrowLow, ClientAt, OnlyClient, verdictVars, gameVars, handlerVars
<1>2. TypeOK'
  <2>1. Wrap(guess - 1) \in CInt /\ Wrap(guess + 1) \in CInt
    BY WidthAssumption, SMT DEF TypeOK, CInt, Wrap
  <2> QED
    BY <1>1, <2>1 DEF TypeOK
<1>3. VerdictsTrue' /\ BingoMeansStop'
  BY <1>1 DEF GuessInv, VerdictsTrue, BingoMeansStop, TrueOf
<1>4. ASSUME ~misled' PROVE GuessIsOwn' /\ MiddleIsChecked'
  <2>1. GuessIsOwn /\ MiddleIsChecked /\ heard = guess /\ cpc \in Narrowing
    BY <1>1, <1>4 DEF GuessInv, TypeOK, Narrowing
  <2>2. guess = check /\ check >= 1 /\ check \in CInt
    BY <2>1, SMT DEF GuessIsOwn, Unwritten, Narrowing, Unlike, Possible, TypeOK, CInt
  <2>3. /\ cpc = "narrowHigh" => check > secret
        /\ cpc = "narrowLow" => check < secret
    BY <2>1, <2>2 DEF GuessInv, VerdictsTrue
  <2>4. GuessIsOwn'
    BY <1>1, <2>1 DEF GuessIsOwn, Unwritten, Unfilled, Unlike, Narrowing
  <2>5. MiddleIsChecked'
    <3>1. /\ low \in Int /\ high \in Int /\ secret \in Int /\ UpperBound \in Int
          /\ IntMax \in Int /\ UpperBound <= IntMax /\ check \in Int
      BY <2>2, UpperBoundAssumption, WidthAssumption, SMT DEF TypeOK, CInt
    <3>2. /\ 1 <= low /\ low <= secret /\ secret <= high /\ high <= UpperBound
          /\ 2 * low <= IntMax + 2 /\ check = Middle
          /\ (stop = 0 => check = secret)
      BY <2>1, SMT DEF MiddleIsChecked, Unwritten, Narrowing
    <3>3. 2 * check <= IntMax /\ check <= high
      <4>1. low <= high /\ high <= IntMax
        BY <3>1, <3>2, SMT
      <4>2. (Middle >= 1 => 2 * Middle <= IntMax) /\ Middle <= high
        BY <3>1, <3>2, <4>1, MiddleIsPossible DEF Middle
      <4> QED
        BY <2>2, <3>2, <4>2
    <3>4. Wrap(guess - 1) = check - 1 /\ Wrap(guess + 1) = check + 1
      BY <2>2, <3>1, <3>3, SMT DEF Wrap
    <3>5. /\ 1 <= low' /\ low' <= secret /\ secret <= high' /\ high' <= UpperBound
          /\ 2 * low' <= IntMax + 2 /\ check # secret
      <4>1. CASE cpc = "narrowHigh" /\ high' = check - 1 /\ low' = low
        BY <1>1, <2>2, <2>3, <3>1, <3>2, <3>3, <4>1, SMT
      <4>2. CASE cpc = "narrowLow" /\ low' = check + 1 /\ high' = high
        BY <1>1, <2>2, <2>3, <3>1, <3>2, <3>3, <4>2, SMT
      <4> QED
        BY <1>1, <3>4, <4>1, <4>2
    <3> QED
      BY <1>1, <2>2, <3>2, <3>5 DEF MiddleIsChecked, Unwritten
  <2> QED
    BY <2>4, <2>5
<1> QED
  BY <1>2, <1>3, <1>4 DEF GuessInv

LEMMA WriteKeeps == TypeOK /\ GuessInv /\ WriteGuess => TypeOK' /\ GuessInv'
<1> SUFFICES ASSUME TypeOK, GuessInv, WriteGuess PROVE TypeOK' /\ GuessInv'
  OBVIOUS
<1>1. /\ UNCHANGED <<secret, result, judged, exists, pc, stop, hpc, word, about, unheard,
                     pending, low, high, heard, misled>>
      /\ cpc \in {"first", "guess"} /\ cpc' = "while"
      /\ check' = Middle /\ guess' = check'
  BY DEF WriteGuess, Middle, ClientAt, OnlyClient, verdictVars, gameVars, handlerVars
<1>2. check' \in CInt
  <2>1. Wrap(low + high) \in CInt
    BY WidthAssumption, WrapIsCInt, SMT DEF TypeOK, CInt
  <2> QED
    BY <1>1, <2>1, HalfIsCInt DEF Middle
<1>3. TypeOK'
  BY <1>1, <1>2 DEF TypeOK
<1>4. VerdictsTrue' /\ BingoMeansStop'
  BY <1>1 DEF GuessInv, VerdictsTrue, BingoMeansStop, TrueOf
<1>5. ASSUME ~misled PROVE GuessIsOwn' /\ MiddleIsChecked'
  <2>1. GuessIsOwn /\ MiddleIsChecked
    BY <1>5 DEF GuessInv
  <2>2. Possible(check') /\ (~Unwritten /\ check < -1 => check' = check)
    <3>1. /\ low \in Int /\ high \in Int /\ 1 <= low /\ low <= high
          /\ high <= IntMax /\ 2 * low <= IntMax + 2
      BY <2>1, UpperBoundAssumption, WidthAssumption, SMT DEF MiddleIsChecked, TypeOK, CInt
    <3>2. Possible(check')
      BY <1>1, <3>1, MiddleIsPossible DEF Middle
    <3>3. check < -1 /\ ~Unwritten => check' = check
      BY <1>1, <2>1, SMT DEF MiddleIsChecked, Unwritten, TypeOK, CInt
    <3> QED
      BY <3>2, <3>3
  <2>3. GuessIsOwn'
    BY <1>1, <1>2, <2>1, <2>2, SMT
       DEF GuessIsOwn, Unwritten, Unfilled, Unlike, Possible, Narrowing, TypeOK, CInt
  <2>4. stop = 0 => check' = secret
    BY <1>1, <2>1, SMT DEF GuessIsOwn, MiddleIsChecked, Unwritten, TypeOK, CInt
  <2>5. MiddleIsChecked'
    BY <1>1, <2>1, <2>4 DEF MiddleIsChecked, Middle, Unwritten
  <2> QED
    BY <2>3, <2>5
<1> QED
  BY <1>1, <1>3, <1>4, <1>5 DEF GuessInv

LEMMA NextGuess == TypeOK /\ GuessInv /\ [Next]_vars => TypeOK' /\ GuessInv'
<1>1. TypeOK /\ GuessInv /\ UNCHANGED vars => TypeOK' /\ GuessInv'
  BY DEF vars, verdictVars, gameVars, handlerVars, clientVars, TypeOK, GuessInv,
         VerdictsTrue, BingoMeansStop, GuessIsOwn, MiddleIsChecked, Unwritten, Unfilled,
         TrueOf, Unlike, Possible, Middle
<1> QED
  BY <1>1, MainKeeps, HandlerKeeps, ReadingKeeps, NarrowKeeps, WriteKeeps DEF Next, Client

(* Every variable of the game keeps its type, however signals fall.        *)
THEOREM TypesCorrect == Spec => []TypeOK
<1> QED
  BY InitGuess, NextGuess, PTL DEF Spec

(* The interval of the search holds the number as long as no verdict was   *)
(* taken for one on another guess.                                         *)
THEOREM IntervalHoldsSecret == Spec => []SearchKeepsSecret
<1>1. GuessInv => SearchKeepsSecret
  BY DEF GuessInv, MiddleIsChecked, SearchKeepsSecret
<1> QED
  BY <1>1, InitGuess, NextGuess, PTL DEF Spec

(* The number the client has when the game is decided is the number.       *)
THEOREM BingoCorrect == Spec => []BingoIsRight
<1>1. GuessInv => BingoIsRight
  BY DEF GuessInv, MiddleIsChecked, BingoMeansStop, BingoIsRight
<1> QED
  BY <1>1, InitGuess, NextGuess, PTL DEF Spec
=============================================================================
