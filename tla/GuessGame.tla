------------------------------ MODULE GuessGame ------------------------------
(***************************************************************************)
(* The guessing game of lab 7: game (its main thread and the handler that  *)
(* SIGUSR1 runs on top of it) and guess (the client) share a segment of a  *)
(* guess and a verdict, without a lock.  Every load and store of the       *)
(* segment that the other process can notice is a step.                    *)
(***************************************************************************)
EXTENDS Integers

CONSTANTS
    UpperBound,     \* argv[2] of guess
    IntMax          \* the greatest int

ASSUME UpperBoundAssumption == UpperBound \in Nat \ {0}
ASSUME WidthAssumption == IntMax \in Nat /\ IntMax >= 6 /\ UpperBound <= IntMax

VARIABLES
    secret,     \* game's variable guess, argv[2] of game
    guess,      \* shared: the client's guess
    result,     \* shared: the verdict; "none" is any text the client does not know
    exists,     \* shmget would find the segment
    pc,         \* where game's main thread is
    stop,       \* 1 until the handler sees the right guess
    pending,    \* SIGUSR1 is pending for game
    hpc,        \* where the handler is; main stands still unless it is "none"
    word,       \* the verdict it is about to copy
    about,      \* history: the guess it is about
    judged,     \* history: the guess that result is about
    cpc,        \* where the client is
    low, high, check,
    heard,      \* history: the guess that the verdict just read is about
    misled,     \* history: the client took a verdict for one on another guess
    unheard     \* history: a signal brought no verdict, or it was erased

gameVars == <<pc, stop>>
handlerVars == <<hpc, word, about>>
clientVars == <<cpc, low, high, check, heard, misled>>
verdictVars == <<result, judged>>
vars == <<secret, guess, verdictVars, exists, gameVars, pending, handlerVars, clientVars, unheard>>

Verdicts == {"smaller", "bigger"}
(* Where game's pointer to the segment is valid.                           *)
Attached == {"fillGuess", "fillResult", "filled", "wait", "bingo", "bingoEnd", "detach"}
Gone == {"exited", "dead"}

(* What an int holds, and what it keeps of a sum that is too large for it. *)
CInt == -(IntMax + 1)..IntMax
Wrap(n) ==
    IF n > IntMax THEN n - 2 * (IntMax + 1)
    ELSE IF n < -(IntMax + 1) THEN n + 2 * (IntMax + 1)
    ELSE n

TypeOK ==
    /\ secret \in 1..UpperBound
    /\ guess \in CInt
    /\ result \in Verdicts \union {"none", "bingo"}
    /\ exists \in BOOLEAN
    /\ pc \in {"create", "attach", "remove"} \union Attached \union Gone
    /\ stop \in {0, 1}
    /\ pending \in BOOLEAN
    /\ hpc \in {"none", "equal", "above", "below", "positive", "copy", "copied"}
    /\ word \in Verdicts
    /\ about \in CInt /\ judged \in CInt /\ heard \in CInt
    /\ cpc \in {"signal", "shmget", "first", "while", "bingo", "smaller", "bigger",
                "narrowHigh", "narrowLow", "guess", "done", "failed"}
    /\ low \in CInt /\ high \in CInt /\ check \in CInt
    /\ misled \in BOOLEAN
    /\ unheard \in BOOLEAN

(* game has printed its process id, so guess can be started.               *)
Init ==
    /\ secret \in 1..UpperBound
    /\ guess = 0 /\ result = "none" /\ exists = FALSE
    /\ pc = "create" /\ stop = 1
    /\ pending = FALSE
    /\ hpc = "none" /\ word = "smaller" /\ about = 0 /\ judged = 0
    /\ cpc = "signal" /\ low = 1 /\ high = UpperBound /\ check = 0
    /\ heard = 0 /\ misled = FALSE /\ unheard = FALSE

-----------------------------------------------------------------------------
(* game: shm_create *)

MainAt(from, to) == hpc = "none" /\ pc = from /\ pc' = to
OnlyMain == UNCHANGED <<secret, pending, handlerVars, clientVars, stop>>

Create ==
    /\ MainAt("create", "attach") /\ exists' = TRUE
    /\ UNCHANGED <<guess, verdictVars, unheard>> /\ OnlyMain

Attach ==
    /\ MainAt("attach", "fillGuess")
    /\ UNCHANGED <<guess, verdictVars, exists, unheard>> /\ OnlyMain

(* The client may have attached already: its guess is lost.                *)
FillGuess ==
    /\ MainAt("fillGuess", "fillResult") /\ guess' = -1
    /\ UNCHANGED <<verdictVars, exists, unheard>> /\ OnlyMain

(* strcpy(result, "init"), with a moment inside it; a verdict that was     *)
(* there, or comes in that moment, is erased.                              *)
FillResult ==
    /\ MainAt("fillResult", "filled") \/ MainAt("filled", "wait")
    /\ result' = "none"
    /\ unheard' = (unheard \/ result # "none")
    /\ UNCHANGED <<guess, judged, exists>> /\ OnlyMain

(* Mutant of Wake: the loop ends whatever stop is.                         *)
WakeAnyway ==
    /\ MainAt("wait", "bingo")
    /\ UNCHANGED <<guess, verdictVars, exists, unheard>> /\ OnlyMain

Wake ==
    /\ MainAt("wait", "bingo") /\ stop = 0
    /\ UNCHANGED <<guess, verdictVars, exists, unheard>> /\ OnlyMain

Bingo ==
    /\ MainAt("bingo", "bingoEnd")
    /\ result' = "none"
    /\ UNCHANGED <<guess, judged, exists, unheard>> /\ OnlyMain

(* A handler that ran inside this strcpy leaves a mixture of two words;    *)
(* two letters of "bigger" are those of "bingo".                           *)
BingoEnd ==
    /\ MainAt("bingoEnd", "detach")
    /\ result' \in IF result = "none" THEN {"bingo"}
                   ELSE IF result = "bigger" THEN {"bingo", "none"} ELSE {"none"}
    /\ unheard' = (unheard \/ result' = "none")
    /\ UNCHANGED <<guess, judged, exists>> /\ OnlyMain

Detach ==
    /\ MainAt("detach", "remove")
    /\ UNCHANGED <<guess, verdictVars, exists, unheard>> /\ OnlyMain

Remove ==
    /\ MainAt("remove", "exited") /\ exists' = FALSE
    /\ UNCHANGED <<guess, verdictVars, unheard>> /\ OnlyMain

Main ==
    \/ Create \/ Attach \/ FillGuess \/ FillResult \/ Wake
    \/ Bingo \/ BingoEnd \/ Detach \/ Remove

-----------------------------------------------------------------------------
(* game: handler, which blocks its own signal while it runs *)

OnlyHandler == UNCHANGED <<secret, guess, exists, clientVars>>

(* Its first load faults where guess_number is NULL or detached.           *)
Deliver ==
    /\ pending /\ hpc = "none" /\ pc \notin Gone
    /\ pending' = FALSE
    /\ IF pc \in Attached THEN hpc' = "equal" /\ UNCHANGED pc
                          ELSE pc' = "dead" /\ UNCHANGED hpc
    /\ UNCHANGED <<word, about, stop, verdictVars, unheard>> /\ OnlyHandler

(* Mutant of IsEqual: stop is counted down.                                *)
IsEqualCounts ==
    /\ hpc = "equal"
    /\ IF guess = secret THEN stop' = stop - 1 /\ hpc' = "none"
                         ELSE hpc' = "above" /\ UNCHANGED stop
    /\ UNCHANGED <<pc, pending, word, about, verdictVars, unheard>> /\ OnlyHandler

IsEqual ==
    /\ hpc = "equal"
    /\ IF guess = secret THEN stop' = 0 /\ hpc' = "none"
                         ELSE hpc' = "above" /\ UNCHANGED stop
    /\ UNCHANGED <<pc, pending, word, about, verdictVars, unheard>> /\ OnlyHandler

Decide(w) == word' = w /\ about' = guess

(* Mutant of IsAbove: the verdict is the wrong way round.                  *)
IsAboveSwapped ==
    /\ hpc = "above"
    /\ \/ guess > secret /\ Decide("bigger") /\ hpc' = "copy"
       \/ guess <= secret /\ hpc' = "below" /\ UNCHANGED <<word, about>>
    /\ UNCHANGED <<gameVars, pending, verdictVars, unheard>> /\ OnlyHandler

IsAbove ==
    /\ hpc = "above"
    /\ \/ guess > secret /\ Decide("smaller") /\ hpc' = "copy"
       \/ guess <= secret /\ hpc' = "below" /\ UNCHANGED <<word, about>>
    /\ UNCHANGED <<gameVars, pending, verdictVars, unheard>> /\ OnlyHandler

(* The guess may have changed since the comparisons before.                *)
IsBelow ==
    /\ hpc = "below"
    /\ \/ /\ guess < secret /\ Decide("bigger") /\ hpc' = "positive"
          /\ UNCHANGED unheard
       \/ /\ guess >= secret /\ hpc' = "none" /\ unheard' = TRUE
          /\ UNCHANGED <<word, about>>
    /\ UNCHANGED <<gameVars, pending, verdictVars>> /\ OnlyHandler

IsPositive ==
    /\ hpc = "positive"
    /\ hpc' = IF guess > 0 THEN "copy" ELSE "none"
    /\ unheard' = (unheard \/ guess <= 0)
    /\ UNCHANGED <<gameVars, pending, word, about, verdictVars>> /\ OnlyHandler

(* strcpy, with a moment in which the text is neither word.                *)
Copy ==
    /\ hpc = "copy" /\ hpc' = "copied"
    /\ result' = "none"
    /\ UNCHANGED <<gameVars, pending, word, about, judged, unheard>> /\ OnlyHandler

Copied ==
    /\ hpc = "copied" /\ hpc' = "none"
    /\ result' = word /\ judged' = about
    /\ UNCHANGED <<gameVars, pending, word, about, unheard>> /\ OnlyHandler

Handler ==
    Deliver \/ IsEqual \/ IsAbove \/ IsBelow \/ IsPositive \/ Copy \/ Copied

-----------------------------------------------------------------------------
(* guess: main and shm_client *)

ClientAt(from, to) == cpc = from /\ cpc' = to
OnlyClient ==
    UNCHANGED <<secret, verdictVars, gameVars, handlerVars, exists, unheard>>

(* A signal that is already pending is not counted; a process that is gone *)
(* gets none.                                                              *)
Kill == pending' = (pending \/ pc \notin Gone)

FirstSignal ==
    /\ ClientAt("signal", "shmget") /\ Kill
    /\ UNCHANGED <<guess, low, high, check, heard, misled>> /\ OnlyClient

Locate ==
    /\ IF exists THEN ClientAt("shmget", "first") ELSE ClientAt("shmget", "failed")
    /\ UNCHANGED <<guess, pending, low, high, check, heard, misled>> /\ OnlyClient

(* Division in C rounds towards 0.                                         *)
Half(n) == IF n >= 0 THEN n \div 2 ELSE -((-n) \div 2)

(* check = (low + high) / 2, before the loop and at the end of its body.   *)
(* The sum may overflow; the guess is then negative and gets no verdict.   *)
WriteGuess ==
    /\ ClientAt("first", "while") \/ ClientAt("guess", "while")
    /\ check' = Half(Wrap(low + high)) /\ guess' = check'
    /\ UNCHANGED <<pending, low, high, heard, misled>> /\ OnlyClient

While ==
    /\ IF result = "bingo" THEN ClientAt("while", "done") ELSE ClientAt("while", "bingo")
    /\ UNCHANGED <<guess, pending, low, high, check, heard, misled>> /\ OnlyClient

(* The verdict changed since the loop's own test.                          *)
TestBingo ==
    /\ \/ result = "bingo" /\ ClientAt("bingo", "done") /\ Kill
       \/ result # "bingo" /\ ClientAt("bingo", "smaller") /\ UNCHANGED pending
    /\ UNCHANGED <<guess, low, high, check, heard, misled>> /\ OnlyClient

(* A branch: strcmp, then kill.                                            *)
Test(w, then, else) ==
    /\ \/ result = w /\ ClientAt(w, then) /\ Kill /\ heard' = judged
       \/ result # w /\ ClientAt(w, else) /\ UNCHANGED <<pending, heard>>
    /\ UNCHANGED <<guess, low, high, check, misled>> /\ OnlyClient

NarrowHigh ==
    /\ ClientAt("narrowHigh", "guess")
    /\ high' = Wrap(guess - 1)
    /\ misled' = (misled \/ heard # guess)
    /\ UNCHANGED <<guess, pending, low, check, heard>> /\ OnlyClient

(* Mutant of NarrowLow: the guess stays in the interval.                   *)
NarrowLowKeeps ==
    /\ ClientAt("narrowLow", "guess")
    /\ low' = guess
    /\ misled' = (misled \/ heard # guess)
    /\ UNCHANGED <<guess, pending, high, check, heard>> /\ OnlyClient

NarrowLow ==
    /\ ClientAt("narrowLow", "guess")
    /\ low' = Wrap(guess + 1)
    /\ misled' = (misled \/ heard # guess)
    /\ UNCHANGED <<guess, pending, high, check, heard>> /\ OnlyClient

Client ==
    \/ FirstSignal \/ Locate \/ WriteGuess \/ While \/ TestBingo
    \/ Test("smaller", "narrowHigh", "bigger") \/ Test("bigger", "narrowLow", "guess")
    \/ NarrowHigh \/ NarrowLow

Next == Main \/ Handler \/ Client

Spec == Init /\ [][Next]_vars

(* Both processes are scheduled; game's main thread and its handler take   *)
(* turns as one thread.                                                    *)
FairSpec == Spec /\ WF_vars(Main \/ Handler) /\ WF_vars(Client)

-----------------------------------------------------------------------------
(* Properties *)

(* Signals, guesses and verdicts may fall in any order and the verdict may *)
(* be read while it is written: as long as no verdict is taken for one on  *)
(* another guess, the interval of the search holds the number.             *)
SearchKeepsSecret == ~misled => low <= secret /\ secret <= high

(* The number the client has when game has decided to stop, or when the    *)
(* client has read bingo, is the number: the handler judges whatever guess *)
(* it finds, and the client may have moved on, but not without having been *)
(* misled.                                                                 *)
BingoIsRight == (stop = 0 \/ cpc = "done") /\ ~misled => check = secret

(* The game ends for both, unless a verdict was taken for one on another   *)
(* guess, a signal came before there was a guess to judge, or a process    *)
(* started too early or signalled too late.                                *)
GameEnds ==
    <>(\/ cpc = "done" /\ pc = "exited"
       \/ misled \/ unheard \/ pc = "dead" \/ cpc = "failed")
=============================================================================
