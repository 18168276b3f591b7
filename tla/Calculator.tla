----------------------------- MODULE Calculator -----------------------------
(***************************************************************************)
(* The calculator of lab 2: keys build an expression, '#' turns it into    *)
(* postfix form, evaluates that on a stack and shows the result on the     *)
(* LCD, the LEDs and the seven-segment digits.  Characters are their codes.*)
(* The LCD is cleared by the next key; what LEDs and digits keep showing   *)
(* until the next result is left out.                                      *)
(***************************************************************************)
EXTENDS Integers, Sequences, SequencesExt

CONSTANTS
    Digits,         \* bound: the digits typed
    MaxAny,         \* bound: keys in an expression of any shape
    MaxPlain,       \* bound: keys in one of single digits and operators in turn
    Garbage         \* what a function that returns nothing may seem to return

ASSUME KeysAssumption ==
    Digits \subseteq 0..9 /\ Garbage \subseteq Int /\ Garbage # {}

VARIABLES
    exp,            \* exp[0..index - 1]
    end,            \* the next key starts a new expression
    outcome,        \* "none", "value", or "dead" after a division by zero
    value,          \* the value on the LCD
    leds,           \* the LEDs lit for it
    seg             \* the number whose hex digits the 7-segment display shows

vars == <<exp, end, outcome, value, leds, seg>>

Plus == 43
Minus == 45
Times == 42
Over == 47
Operators == {Plus, Minus, Times, Over}
Char(d) == 48 + d

TypeOK ==
    /\ exp \in Seq(Operators \union {Char(d) : d \in Digits})
    /\ end \in BOOLEAN
    /\ outcome \in {"none", "value", "dead"}
    /\ value \in 0..255
    /\ leds \subseteq 0..7
    /\ seg \in Nat

-----------------------------------------------------------------------------
(* Infix to postfix *)

(* Mutant of prior: one level.                                             *)
priorFlat(c) == IF c % 256 \in Operators THEN 1 ELSE 0

(* The parameter is a char: of a larger number its low byte is looked at.  *)
prior(c) ==
    IF c % 256 \in {Plus, Minus} THEN 1 ELSE IF c % 256 \in {Times, Over} THEN 2 ELSE 0

(* Mutant of Keep: operators of the same level are not popped.             *)
KeepStrict(c, ops) == Max({0} \union {i \in DOMAIN ops : prior(c) >= prior(ops[i])})

(* How many operators stay when c comes: pop while prior(c) <= prior(top). *)
Keep(c, ops) == Max({0} \union {i \in DOMAIN ops : prior(c) > prior(ops[i])})

(* result, the stack s, and whether the last token is a number.            *)
Scan(acc, c) ==
    IF c \in Operators
    THEN LET k == Keep(c, acc.ops)
         IN  [result |-> acc.result \o Reverse(SubSeq(acc.ops, k + 1, Len(acc.ops))),
              ops |-> Append(SubSeq(acc.ops, 1, k), c), number |-> FALSE]
    ELSE [acc EXCEPT !.number = TRUE,
                     !.result = IF acc.number
                                THEN Append(Front(@), Last(@) * 10 + c - 48)
                                ELSE Append(@, c - 48)]

(* The scan after each prefix of e.                                        *)
Scanned(e) ==
    LET scanned[k \in 0..Len(e)] ==
            IF k = 0 THEN [result |-> <<>>, ops |-> <<>>, number |-> FALSE]
                     ELSE Scan(scanned[k - 1], e[k])
    IN  scanned

Postfix(e) ==
    LET acc == Scanned(e)[Len(e)] IN acc.result \o Reverse(acc.ops)

-----------------------------------------------------------------------------
(* Evaluation: the stacks there may be, of the choices of Garbage that do  *)
(* not divide by zero                                                      *)

(* Division in C rounds towards 0.                                         *)
Quot(y, x) ==
    LET abs(n) == IF n < 0 THEN -n ELSE n
        q == abs(y) \div abs(x)
    IN  IF (y < 0) = (x < 0) THEN q ELSE -q

calculate_op(op, x, y) ==
    IF op % 256 = Plus THEN x + y
    ELSE IF op % 256 = Minus THEN y - x
    ELSE IF op % 256 = Times THEN x * y
    ELSE Quot(y, x)

(* pop on an empty stack returns without a value.                          *)
pop(s) == IF s = <<>> THEN {[x |-> g, rest |-> <<>>] : g \in Garbage}
                      ELSE {[x |-> Last(s), rest |-> Front(s)]}

Faults(op, x) == op % 256 = Over /\ x = 0

Apply(op, s) ==
    UNION {{Append(b.rest, calculate_op(op, a.x, b.x)) : b \in pop(a.rest)} :
               a \in {a \in pop(s) : ~Faults(op, a.x)}}

Evaluate(stacks, token) ==
    IF prior(token) > 0 THEN UNION {Apply(token, s) : s \in stacks}
                        ELSE {Append(s, token) : s \in stacks}

(* The stacks after each prefix of the tokens t.                           *)
Stacks(t) ==
    LET stacks[k \in 0..Len(t)] ==
            IF k = 0 THEN {<<>>} ELSE Evaluate(stacks[k - 1], t[k])
    IN  stacks

(* The loop ends at the first token that is 0, be it the terminator or an  *)
(* operand.                                                                *)
Tokens(e) ==
    LET zeros == {i \in DOMAIN Postfix(e) : Postfix(e)[i] = 0}
    IN  IF zeros = {} THEN Postfix(e) ELSE SubSeq(Postfix(e), 1, Min(zeros) - 1)

calculate(e) ==
    {top.x : top \in UNION {pop(s) : s \in Stacks(Tokens(e))[Len(Tokens(e))]}}

(* Some choice divides by zero on the way, which ends the program.         *)
MayDie(e) ==
    \E k \in DOMAIN Tokens(e) : \E s \in Stacks(Tokens(e))[k - 1] :
        \E a \in pop(s) : Faults(Tokens(e)[k], a.x)

-----------------------------------------------------------------------------
(* The keys *)

Init ==
    /\ exp = <<>> /\ end = FALSE
    /\ outcome = "none" /\ value = 0 /\ leds = {} /\ seg = 0

(* The first key after a result starts anew, whatever it is.               *)
Typed == IF end THEN <<>> ELSE exp
Cleared == outcome' = "none" /\ value' = 0 /\ leds' = {} /\ seg' = 0

(* Digits and operators in turn, as far as it goes.                        *)
InTurn(e) == \A i \in DOMAIN e : (e[i] \in Operators) = (i % 2 = 0)

Key(c) ==
    /\ outcome # "dead"
    /\ exp' = Append(Typed, c)
    /\ Len(exp') <= MaxAny \/ (InTurn(exp') /\ Len(exp') <= MaxPlain)
    /\ end' = FALSE
    /\ Cleared

(* '*' clears the expression.                                              *)
StarKey ==
    /\ outcome # "dead"
    /\ exp' = <<>> /\ end' = FALSE
    /\ Cleared

(* Mutant of Clamp: the limit is one off.                                  *)
Clamp256(n) == IF n > 256 THEN 256 ELSE IF n < 0 THEN 0 ELSE n
Clamp(n) == IF n > 255 THEN 255 ELSE IF n < 0 THEN 0 ELSE n

(* decimal_to_Binary, then led_set, which lights LED i for bit 7 - i.      *)
BitWeight == <<128, 64, 32, 16, 8, 4, 2, 1>>
Lit(n) == {i \in 0..7 : (n \div BitWeight[i + 1]) % 2 = 1}

(* Mutant of Bcd: it stops at the first digit that is 0.                   *)
BcdShort(n) == (n % 10) + (IF (n \div 10) % 10 = 0 THEN 0 ELSE 16 * ((n \div 10) % 10) + 256 * (n \div 100))
(* seg_set: one hex digit for each decimal digit.                          *)
Bcd(n) == (n % 10) + 16 * ((n \div 10) % 10) + 256 * (n \div 100)

HashKey ==
    /\ outcome # "dead"
    /\ exp' = Typed /\ end' = TRUE
    /\ \/ /\ MayDie(exp')
          /\ outcome' = "dead"
          /\ UNCHANGED <<value, leds, seg>>
       \/ /\ value' \in {Clamp(n) : n \in calculate(exp')}
          /\ outcome' = "value"
          /\ leds' = Lit(value') /\ seg' = Bcd(value')

Next == HashKey \/ StarKey \/ \E c \in Operators \union {Char(d) : d \in Digits} : Key(c)

Spec == Init /\ [][Next]_vars

-----------------------------------------------------------------------------
(* Reference: the value of an expression, by the grammar *)

(* The number that the digits up to e[k] make.                             *)
Number(e) ==
    LET number[k \in 0..Len(e)] ==
            IF k = 0 \/ e[k] \in Operators THEN 0 ELSE number[k - 1] * 10 + (e[k] - 48)
    IN  number

(* An operand ends before an operator or with the expression.              *)
Operands(e) ==
    {Number(e)[k] : k \in {k \in DOMAIN e :
        e[k] \notin Operators /\ (k = Len(e) \/ e[k + 1] \in Operators)}}

WellFormed(e) ==
    /\ e # <<>>
    /\ \A i \in DOMAIN e : e[i] \in Operators => /\ i \notin {1, Len(e)}
                                                 /\ e[i + 1] \notin Operators

(* The operands that the postfix array cannot hold: 0, which ends it, and  *)
(* those whose low byte is an operator.                                    *)
Plain(e) == WellFormed(e) /\ \A n \in Operands(e) : n # 0 /\ n % 256 \notin Operators

Meaning(op, left, right) ==
    IF op = Plus THEN left + right
    ELSE IF op = Minus THEN left - right
    ELSE IF op = Times THEN left * right
    ELSE Quot(left, right)

(* The last operator of the lowest level splits an expression.             *)
Split(e, lo, hi) ==
    LET among(ops) == {i \in lo..hi : e[i] \in ops}
    IN  Max(IF among({Plus, Minus}) # {} THEN among({Plus, Minus}) ELSE among(Operators))

(* The value of each part e[lo..hi].                                       *)
Values(e) ==
    LET val[r \in (1..Len(e) + 1) \X (0..Len(e))] ==
            LET lo == r[1]
                hi == r[2]
                at == Split(e, lo, hi)
            IN  IF \A i \in lo..hi : e[i] \notin Operators THEN Number(e)[hi]
                ELSE Meaning(e[at], val[<<lo, at - 1>>], val[<<at + 1, hi>>])
    IN  val

Reference(e) == Values(e)[<<1, Len(e)>>]

-----------------------------------------------------------------------------
(* Properties *)

(* The value shown is the expression's, cut off at 0 and 255, for every    *)
(* expression whose operands the postfix array can hold.                   *)
ValueIsRight ==
    outcome = "value" /\ Plain(exp) => value = Clamp(Reference(exp))

(* Such an expression never stops the program: divisions are done from     *)
(* left to right, so a divisor is an operand as typed and not 0.           *)
PlainNeverDies == end /\ Plain(exp) => outcome = "value"

(* The LEDs, read with LED 7 as bit 0, and the digits show that value too. *)
DisplaysAgree ==
    /\ LET lit(i) == IF i \in leds THEN 1 ELSE 0
       IN  value = 128 * lit(0) + 64 * lit(1) + 32 * lit(2) + 16 * lit(3)
                   + 8 * lit(4) + 4 * lit(5) + 2 * lit(6) + lit(7)
    /\ value = 100 * (seg \div 256) + 10 * ((seg \div 16) % 16) + (seg % 16)
=============================================================================
