-------------------------- MODULE CalculatorProofs --------------------------
(***************************************************************************)
(* Theorems about the calculator of lab 2, for expressions of any length:  *)
(* its types, which say that calculate yields a number whenever it returns,*)
(* and what LEDs and digits show.  The functions of the model are defined  *)
(* by recursion; that each satisfies its equation is proved here as        *)
(* well, by induction over a set of numbers.                               *)
(***************************************************************************)
EXTENDS Calculator, TLAPS, SequenceTheorems, WellFoundedInduction

(* Induction over a set of numbers.                                        *)
LEMMA Induction ==
    ASSUME NEW S, 0 \in S, \A n \in Nat : n \in S => n + 1 \in S
    PROVE  Nat \subseteq S
<1> SUFFICES ASSUME NEW m \in Nat, m \notin S
             PROVE  FALSE
  OBVIOUS
<1> DEFINE rest == Nat \ S
<1>1. PICK least \in rest : \A i \in rest : ~(i < least)
  <2>1. IsWellFoundedOn(OpToRel(<, Nat), Nat)
    BY NatLessThanWellFounded, Zenon
  <2>2. rest \subseteq Nat /\ rest # {}
    OBVIOUS
  <2>3. PICK x \in rest : \A y \in rest : ~(<<y, x>> \in OpToRel(<, Nat))
    BY <2>1, <2>2, WFMin, Zenon
  <2>4. \A y \in rest : y < x => <<y, x>> \in OpToRel(<, Nat)
    BY <2>3 DEF OpToRel
  <2> QED
    BY <2>3, <2>4
<1>2. least # 0 /\ least - 1 \in Nat
  BY <1>1
<1>3. least - 1 \in S
  BY <1>1, <1>2
<1> QED
  BY <1>1, <1>2, <1>3

(* A fold: f[k] is made from f[k - 1] by a step of F, from the value a.    *)
IsFold(f, a, n, F, S) ==
    /\ f \in [0..n -> S]
    /\ f[0] = a
    /\ \A k \in 1..n : f[k] = F[<<f[k - 1], k>>]

LEMMA FoldExists ==
    ASSUME NEW S, NEW a \in S, NEW n \in Nat, NEW F,
           \A s \in S, k \in 1..n : F[<<s, k>>] \in S
    PROVE  \E f : IsFold(f, a, n, F, S)
<1> DEFINE T == {m \in Nat : m <= n => \E f : IsFold(f, a, m, F, S)}
<1>1. 0 \in T
  <2>1. IsFold([k \in 0..0 |-> a], a, 0, F, S)
    BY DEF IsFold
  <2> QED
    BY <2>1
<1>2. ASSUME NEW m \in Nat, m \in T, m + 1 <= n
      PROVE  \E f : IsFold(f, a, m + 1, F, S)
  <2>1. m <= n
    BY <1>2
  <2>2. PICK f : IsFold(f, a, m, F, S)
    BY <1>2, <2>1, Zenon
  <2>3. f \in [0..m -> S] /\ f[0] = a /\ \A k \in 1..m : f[k] = F[<<f[k - 1], k>>]
    BY <2>2 DEF IsFold
  <2> DEFINE g == [k \in 0..m + 1 |-> IF k <= m THEN f[k] ELSE F[<<f[m], m + 1>>]]
  <2>4. g \in [0..m + 1 -> S]
    <3>1. F[<<f[m], m + 1>>] \in S
      <4>1. f[m] \in S /\ m + 1 \in 1..n
        BY <2>1, <2>3, <1>2
      <4> QED
        BY <4>1
    <3> QED
      BY <2>3, <3>1
  <2>5. g[0] = a
    BY <2>3
  <2>6. ASSUME NEW k \in 1..m + 1
        PROVE  g[k] = F[<<g[k - 1], k>>]
    <3>1. CASE k <= m
      BY <2>3, <3>1
    <3>2. CASE k = m + 1
      <4>1. g[m + 1] = F[<<f[m], m + 1>>] /\ g[m] = f[m] /\ m + 1 - 1 = m
        OBVIOUS
      <4> HIDE DEF g
      <4> QED
        BY <3>2, <4>1
    <3> QED
      BY <3>1, <3>2
  <2> QED
    BY <2>4, <2>5, <2>6 DEF IsFold
<1>3. \A m \in Nat : m \in T => m + 1 \in T
  BY <1>2
<1>4. n \in T
  <2> HIDE DEF T
  <2> QED
    BY <1>1, <1>3, Induction
<1> QED
  BY <1>4

(* What holds of the first value and is kept by each step, holds of all.   *)
LEMMA FoldKeeps ==
    ASSUME NEW S, NEW n \in Nat, NEW f, f[0] \in S,
           \A k \in 1..n : f[k - 1] \in S => f[k] \in S
    PROVE  \A k \in 0..n : f[k] \in S
<1> DEFINE T == {m \in Nat : m <= n => f[m] \in S}
<1>1. 0 \in T
  OBVIOUS
<1>2. ASSUME NEW m \in Nat, m \in T
      PROVE  m + 1 \in T
  <2> SUFFICES ASSUME m + 1 <= n
               PROVE  f[m + 1] \in S
    OBVIOUS
  <2>1. m + 1 \in 1..n /\ m + 1 - 1 = m /\ f[m] \in S
    BY <1>2
  <2> QED
    BY <2>1
<1>3. Nat \subseteq T
  <2> HIDE DEF T
  <2> QED
    BY <1>1, <1>2, Induction
<1> QED
  BY <1>3

(* A non-empty set of numbers up to n has a greatest, which Max picks.     *)
LEMMA Greatest ==
    ASSUME NEW n \in Nat, NEW S, S \subseteq 0..n, S # {}
    PROVE  Max(S) \in S /\ \A i \in S : i <= Max(S)
<1> DEFINE T == {m \in Nat : (\E i \in S : i >= n - m) => \E top \in S : \A i \in S : top >= i}
<1>1. 0 \in T
  OBVIOUS
<1>2. ASSUME NEW m \in Nat, m \in T
      PROVE  m + 1 \in T
  <2> SUFFICES ASSUME NEW j \in S, j >= n - (m + 1)
               PROVE  \E top \in S : \A i \in S : top >= i
    OBVIOUS
  <2>1. CASE \E i \in S : i >= n - m
    BY <1>2, <2>1
  <2>2. CASE ~ \E i \in S : i >= n - m
    <3>1. \A i \in S : j >= i
      BY <2>2
    <3> QED
      BY <3>1
  <2> QED
    BY <2>1, <2>2
<1>3. n \in T
  <2> HIDE DEF T
  <2> QED
    BY <1>1, <1>2, Induction
<1>4. \E top \in S : \A i \in S : top >= i
  <2>1. \E i \in S : i >= n - n
    <3>1. PICK i \in S : TRUE
      OBVIOUS
    <3>2. i \in 0..n /\ n - n = 0
      OBVIOUS
    <3> QED
      BY <3>1, <3>2
  <2> QED
    BY <1>3, <2>1
<1>5. Max(S) \in S /\ \A i \in S : Max(S) >= i
  BY <1>4, Zenon DEF Max
<1> QED
  BY <1>5

(* A non-empty set of numbers has a least, which Min picks.                *)
LEMMA Least ==
    ASSUME NEW S, S \subseteq Nat, S # {}
    PROVE  Min(S) \in S
<1>1. PICK m \in S : TRUE
  OBVIOUS
<1> DEFINE low == {i \in S : i <= m}
           gaps == {m - i : i \in low}
<1>2. gaps \subseteq 0..m /\ gaps # {}
  <2>1. m \in low /\ \A i \in low : m - i \in 0..m
    BY <1>1
  <2> HIDE DEF low
  <2> QED
    BY <2>1
<1>3. PICK g \in gaps : \A h \in gaps : h <= g
  <2>1. m \in Nat
    BY <1>1
  <2> HIDE DEF gaps
  <2> QED
    BY <1>2, <2>1, Greatest
<1>4. PICK i \in low : g = m - i
  BY <1>3
<1>5. \A j \in S : i <= j
  BY <1>1, <1>3, <1>4
<1> QED
  BY <1>4, <1>5, Zenon DEF Min

-----------------------------------------------------------------------------
(* Sequences *)

LEMMA FrontAndLast ==
    ASSUME NEW S, NEW s \in Seq(S), s # <<>>
    PROVE  /\ Front(s) \in Seq(S) /\ Len(Front(s)) = Len(s) - 1
           /\ Last(s) \in S
<1>1. Len(s) \in Nat /\ Len(s) > 0
  OBVIOUS
<1>2. \A i \in 1..Len(s) : s[i] \in S
  BY ElementOfSeq
<1>3. Front(s) \in Seq(S) /\ Len(Front(s)) = Len(s) - 1
  <2> DEFINE m == 1
             l == Len(s) - 1
  <2>1. SubSeq(s, m, l) = [i \in 1..l |-> s[i]]
    BY <1>1
  <2>2. \A i \in 1..l : s[i] \in S
    BY <1>1, <1>2
  <2>3. l \in Nat /\ Front(s) = SubSeq(s, m, l)
    BY <1>1 DEF Front
  <2> HIDE DEF l, m
  <2>4. Front(s) \in Seq(S) /\ Len(Front(s)) = l
    BY <2>1, <2>2, <2>3
  <2> QED
    BY <2>4 DEF l
<1> QED
  BY <1>1, <1>2, <1>3 DEF Last

LEMMA FrontAndLastOfAppend ==
    ASSUME NEW S, NEW s \in Seq(S), NEW x \in S
    PROVE  Front(Append(s, x)) = s /\ Last(Append(s, x)) = x
BY DEF Front, Last

LEMMA ReverseTyped ==
    ASSUME NEW S, NEW s \in Seq(S)
    PROVE  Reverse(s) \in Seq(S)
<1>1. \A i \in 1..Len(s) : s[(Len(s) - i) + 1] \in S
  BY ElementOfSeq
<1> QED
  BY <1>1 DEF Reverse

LEMMA ReverseShort ==
    ASSUME NEW a, NEW b
    PROVE  /\ Reverse(<<>>) = <<>>
           /\ Reverse(<<a>>) = <<a>>
           /\ Reverse(<<a, b>>) = <<b, a>>
BY DEF Reverse

-----------------------------------------------------------------------------
(* The scan *)

Codes == Operators \union 48..57

(* What the scan works on: a number is in progress only in the last token. *)
Accs ==
    {acc \in [result : Seq(Int), ops : Seq(Operators), number : BOOLEAN] :
        acc.number => acc.result # <<>>}

Start == [result |-> <<>>, ops |-> <<>>, number |-> FALSE]

LEMMA StartTyped == Start \in Accs
BY DEF Start, Accs

LEMMA KeepTyped ==
    ASSUME NEW c, NEW ops \in Seq(Operators)
    PROVE  Keep(c, ops) \in 0..Len(ops)
<1> DEFINE S == {0} \union {i \in DOMAIN ops : prior(c) > prior(ops[i])}
<1>1. Len(ops) \in Nat /\ DOMAIN ops = 1..Len(ops)
  OBVIOUS
<1>2. S \subseteq 0..Len(ops) /\ S # {}
  BY <1>1
<1>3. Max(S) \in S
  <2> HIDE DEF S
  <2> QED
    BY <1>1, <1>2, Greatest
<1>4. Keep(c, ops) = Max(S)
  BY DEF Keep
<1> HIDE DEF S
<1> QED
  BY <1>2, <1>3, <1>4

LEMMA ScanTyped ==
    ASSUME NEW acc \in Accs, NEW c \in Codes
    PROVE  Scan(acc, c) \in Accs
<1>1. /\ acc = [result |-> acc.result, ops |-> acc.ops, number |-> acc.number]
      /\ acc.result \in Seq(Int) /\ acc.ops \in Seq(Operators)
      /\ acc.number \in BOOLEAN /\ (acc.number => acc.result # <<>>)
  BY DEF Accs
<1>2. CASE c \in Operators
  <2> DEFINE k == Keep(c, acc.ops)
             rest == SubSeq(acc.ops, k + 1, Len(acc.ops))
             kept == SubSeq(acc.ops, 1, k)
  <2>1. k \in 0..Len(acc.ops) /\ Len(acc.ops) \in Nat
    BY <1>1, KeepTyped
  <2>2. Scan(acc, c) = [result |-> acc.result \o Reverse(rest),
                        ops |-> Append(kept, c), number |-> FALSE]
    BY <1>2 DEF Scan
  <2>3. \A i \in 1..Len(acc.ops) : acc.ops[i] \in Operators
    BY <1>1, ElementOfSeq
  <2>4. rest \in Seq(Operators) /\ kept \in Seq(Operators)
    <3> HIDE DEF k
    <3>1. k + 1 \in Int /\ k \in Int /\ Len(acc.ops) \in Int /\ 1 \in Int
      BY <2>1
    <3>2. \A i \in k + 1..Len(acc.ops) : acc.ops[i] \in Operators
      BY <2>1, <2>3
    <3>3. \A i \in 1..k : acc.ops[i] \in Operators
      BY <2>1, <2>3
    <3> QED
      BY <3>1, <3>2, <3>3, SubSeqProperties
  <2> HIDE DEF rest, kept
  <2>5. Reverse(rest) \in Seq(Operators)
    BY <2>4, ReverseTyped
  <2>6. Reverse(rest) \in Seq(Int)
    <3>1. Operators \subseteq Int
      BY DEF Operators, Plus, Minus, Times, Over
    <3> QED
      BY <2>5, <3>1, SeqMonotonic
  <2>7. acc.result \o Reverse(rest) \in Seq(Int) /\ Append(kept, c) \in Seq(Operators)
    BY <1>1, <1>2, <2>4, <2>6, ConcatProperties, AppendProperties
  <2> QED
    BY <2>2, <2>7 DEF Accs
<1>3. CASE c \notin Operators
  <2>1. c - 48 \in Int
    BY <1>3 DEF Codes
  <2>2. CASE acc.number
    <3> DEFINE r == Append(Front(acc.result), Last(acc.result) * 10 + c - 48)
    <3>1. Scan(acc, c) = [result |-> r, ops |-> acc.ops, number |-> TRUE]
      BY <1>1, <1>3, <2>2 DEF Scan
    <3>2. r \in Seq(Int) /\ r # <<>>
      <4>1. Front(acc.result) \in Seq(Int) /\ Last(acc.result) \in Int
        BY <1>1, <2>2, FrontAndLast
      <4>2. Last(acc.result) * 10 + c - 48 \in Int
        BY <2>1, <4>1
      <4> QED
        BY <4>1, <4>2, AppendProperties
    <3> HIDE DEF r
    <3> QED
      BY <1>1, <3>1, <3>2 DEF Accs
  <2>3. CASE ~acc.number
    <3> DEFINE r == Append(acc.result, c - 48)
    <3>1. Scan(acc, c) = [result |-> r, ops |-> acc.ops, number |-> TRUE]
      BY <1>1, <1>3, <2>3 DEF Scan
    <3>2. r \in Seq(Int) /\ r # <<>>
      BY <1>1, <2>1, AppendProperties
    <3> HIDE DEF r
    <3> QED
      BY <1>1, <3>1, <3>2 DEF Accs
  <2> QED
    BY <2>2, <2>3
<1> QED
  BY <1>2, <1>3

(* The table of the scan is the fold it is written as.                     *)
ScanSolves(g, e, n) ==
    g = [k \in 0..n |-> IF k = 0 THEN Start ELSE Scan(g[k - 1], e[k])]

LEMMA ScanTable ==
    ASSUME NEW n \in Nat, NEW e, \A k \in 1..n : e[k] \in Codes,
           NEW f, f = CHOOSE g : ScanSolves(g, e, n)
    PROVE  /\ f[0] = Start
           /\ \A k \in 1..n : f[k] = Scan(f[k - 1], e[k])
           /\ \A k \in 0..n : f[k] \in Accs
<1> DEFINE F == [p \in Accs \X (1..n) |-> Scan(p[1], e[p[2]])]
<1>1. \A acc \in Accs, k \in 1..n : F[<<acc, k>>] = Scan(acc, e[k]) /\ F[<<acc, k>>] \in Accs
  BY ScanTyped
<1>2. PICK g : IsFold(g, Start, n, F, Accs)
  <2> HIDE DEF F
  <2> QED
    BY <1>1, StartTyped, FoldExists
<1>3. ScanSolves(g, e, n)
  <2>1. /\ g \in [0..n -> Accs] /\ g[0] = Start
        /\ \A k \in 1..n : g[k] = F[<<g[k - 1], k>>]
    BY <1>2 DEF IsFold
  <2>2. ASSUME NEW k \in 1..n
        PROVE  g[k] = Scan(g[k - 1], e[k])
    <3>1. g[k - 1] \in Accs
      BY <2>1
    <3> HIDE DEF F
    <3> QED
      BY <1>1, <2>1, <3>1
  <2> QED
    BY <2>1, <2>2 DEF ScanSolves
<1>4. ScanSolves(f, e, n)
  BY <1>3, Zenon
<1> DEFINE table == [k \in 0..n |-> IF k = 0 THEN Start ELSE Scan(f[k - 1], e[k])]
<1>5. f = table
  BY <1>4, Zenon DEF ScanSolves
<1>6. f[0] = Start /\ \A k \in 1..n : f[k] = Scan(f[k - 1], e[k])
  <2>1. table[0] = Start /\ \A k \in 1..n : table[k] = Scan(f[k - 1], e[k])
    OBVIOUS
  <2> HIDE DEF table
  <2> QED
    BY <1>5, <2>1, Zenon
<1>7. \A k \in 1..n : f[k - 1] \in Accs => f[k] \in Accs
  BY <1>6, ScanTyped
<1>8. \A k \in 0..n : f[k] \in Accs
  BY <1>6, <1>7, StartTyped, FoldKeeps
<1> QED
  BY <1>6, <1>8

LEMMA ScannedIsFold ==
    ASSUME NEW e \in Seq(Codes)
    PROVE  /\ Scanned(e)[0] = Start
           /\ \A k \in 1..Len(e) : Scanned(e)[k] = Scan(Scanned(e)[k - 1], e[k])
           /\ \A k \in 0..Len(e) : Scanned(e)[k] \in Accs
<1>1. Len(e) \in Nat /\ \A k \in 1..Len(e) : e[k] \in Codes
  BY ElementOfSeq, LenProperties
<1>2. Scanned(e) = CHOOSE g : ScanSolves(g, e, Len(e))
  BY Zenon DEF Scanned, ScanSolves, Start
<1> QED
  BY <1>1, <1>2, ScanTable

LEMMA PostfixTyped ==
    ASSUME NEW e \in Seq(Codes)
    PROVE  Postfix(e) \in Seq(Int)
<1>1. PICK acc \in Accs : acc = Scanned(e)[Len(e)]
  <2>1. Len(e) \in 0..Len(e)
    BY LenProperties
  <2> QED
    BY <2>1, ScannedIsFold, Zenon
<1>2. Reverse(acc.ops) \in Seq(Int) /\ acc.result \in Seq(Int)
  <2>1. Operators \subseteq Int
    BY DEF Operators, Plus, Minus, Times, Over
  <2>2. acc.ops \in Seq(Operators) /\ acc.result \in Seq(Int)
    BY DEF Accs
  <2>3. Reverse(acc.ops) \in Seq(Operators)
    BY <2>2, ReverseTyped
  <2> QED
    BY <2>1, <2>2, <2>3, SeqMonotonic
<1>3. Postfix(e) = acc.result \o Reverse(acc.ops)
  BY <1>1, Zenon DEF Postfix
<1> QED
  BY <1>2, <1>3, ConcatProperties

-----------------------------------------------------------------------------
(* Evaluation *)

LEMMA QuotTyped ==
    ASSUME NEW y \in Int, NEW x \in Int, x # 0
    PROVE  Quot(y, x) \in Int
<1> DEFINE a == IF y < 0 THEN -y ELSE y
           b == IF x < 0 THEN -x ELSE x
           q == a \div b
<1>1. a \in Int /\ b \in Int /\ b > 0
  OBVIOUS
<1>2. q \in Int
  <2> HIDE DEF a, b
  <2> QED
    BY <1>1
<1>3. Quot(y, x) = IF (y < 0) = (x < 0) THEN q ELSE -q
  BY Zenon DEF Quot
<1> HIDE DEF q
<1> QED
  BY <1>2, <1>3

LEMMA calculate_opTyped ==
    ASSUME NEW op \in Int, NEW x \in Int, NEW y \in Int,
           prior(op) > 0, ~Faults(op, x)
    PROVE  calculate_op(op, x, y) \in Int
<1>1. op % 256 \in {Plus, Minus, Times, Over}
  BY DEF prior
<1>2. CASE op % 256 = Over
  <2>1. Quot(y, x) \in Int
    BY <1>2, QuotTyped DEF Faults
  <2> QED
    BY <1>2, <2>1 DEF calculate_op, Over, Plus, Minus, Times
<1>3. CASE op % 256 # Over
  BY <1>1, <1>3 DEF calculate_op
<1> QED
  BY <1>2, <1>3

LEMMA popTyped ==
    ASSUME NEW s \in Seq(Int), NEW a \in pop(s)
    PROVE  a.x \in Int /\ a.rest \in Seq(Int)
<1>1. CASE s = <<>>
  <2>1. PICK g \in Garbage : a = [x |-> g, rest |-> <<>>]
    BY <1>1, Zenon DEF pop
  <2> QED
    BY <2>1, KeysAssumption, EmptySeq
<1>2. CASE s # <<>>
  <2>1. a = [x |-> Last(s), rest |-> Front(s)]
    BY <1>2 DEF pop
  <2>2. Front(s) \in Seq(Int) /\ Last(s) \in Int
    BY <1>2, FrontAndLast
  <2> QED
    BY <2>1, <2>2
<1> QED
  BY <1>1, <1>2

LEMMA EvaluateTyped ==
    ASSUME NEW stacks \in SUBSET Seq(Int), NEW token \in Int
    PROVE  Evaluate(stacks, token) \in SUBSET Seq(Int)
<1>1. CASE ~(prior(token) > 0)
  <2>1. \A s \in stacks : Append(s, token) \in Seq(Int)
    BY AppendProperties
  <2> QED
    BY <1>1, <2>1 DEF Evaluate
<1>2. CASE prior(token) > 0
  <2>1. ASSUME NEW s \in stacks, NEW a \in pop(s), NEW b \in pop(a.rest),
               ~Faults(token, a.x)
        PROVE  Append(b.rest, calculate_op(token, a.x, b.x)) \in Seq(Int)
    <3>1. a.x \in Int /\ b.x \in Int /\ b.rest \in Seq(Int)
      BY popTyped
    <3>2. calculate_op(token, a.x, b.x) \in Int
      BY <1>2, <2>1, <3>1, calculate_opTyped
    <3> QED
      BY <3>1, <3>2, AppendProperties
  <2>2. ASSUME NEW s \in stacks, NEW u \in Apply(token, s)
        PROVE  u \in Seq(Int)
    <3>1. PICK a \in pop(s) : /\ ~Faults(token, a.x)
                              /\ \E b \in pop(a.rest) :
                                    u = Append(b.rest, calculate_op(token, a.x, b.x))
      BY Zenon DEF Apply
    <3> QED
      BY <2>1, <3>1
  <2> QED
    BY <1>2, <2>2 DEF Evaluate
<1> QED
  BY <1>1, <1>2

(* The table of the evaluation is the fold it is written as.               *)
StacksSolve(g, t, n) ==
    g = [k \in 0..n |-> IF k = 0 THEN {<<>>} ELSE Evaluate(g[k - 1], t[k])]

LEMMA StackTable ==
    ASSUME NEW n \in Nat, NEW t, \A k \in 1..n : t[k] \in Int,
           NEW f, f = CHOOSE g : StacksSolve(g, t, n)
    PROVE  /\ f[0] = {<<>>}
           /\ \A k \in 1..n : f[k] = Evaluate(f[k - 1], t[k])
           /\ \A k \in 0..n : f[k] \in SUBSET Seq(Int)
<1> DEFINE S == SUBSET Seq(Int)
           F == [p \in S \X (1..n) |-> Evaluate(p[1], t[p[2]])]
<1>0. {<<>>} \in S
  BY EmptySeq
<1>1. \A s \in S, k \in 1..n : Evaluate(s, t[k]) \in S
  BY EvaluateTyped
<1> HIDE DEF S
<1>2. \A s \in S, k \in 1..n : F[<<s, k>>] = Evaluate(s, t[k]) /\ F[<<s, k>>] \in S
  BY <1>1
<1>3. PICK g : IsFold(g, {<<>>}, n, F, S)
  <2> HIDE DEF F
  <2> QED
    BY <1>0, <1>2, FoldExists
<1>4. StacksSolve(g, t, n)
  <2>1. /\ g \in [0..n -> S] /\ g[0] = {<<>>}
        /\ \A k \in 1..n : g[k] = F[<<g[k - 1], k>>]
    BY <1>3 DEF IsFold
  <2>2. ASSUME NEW k \in 1..n
        PROVE  g[k] = Evaluate(g[k - 1], t[k])
    <3>1. g[k - 1] \in S
      BY <2>1
    <3> HIDE DEF F
    <3> QED
      BY <1>2, <2>1, <3>1
  <2> QED
    BY <2>1, <2>2 DEF StacksSolve
<1>5. StacksSolve(f, t, n)
  BY <1>4, Zenon
<1> DEFINE table == [k \in 0..n |-> IF k = 0 THEN {<<>>} ELSE Evaluate(f[k - 1], t[k])]
<1>6. f = table
  BY <1>5, Zenon DEF StacksSolve
<1>7. f[0] = {<<>>} /\ \A k \in 1..n : f[k] = Evaluate(f[k - 1], t[k])
  <2>1. table[0] = {<<>>} /\ \A k \in 1..n : table[k] = Evaluate(f[k - 1], t[k])
    OBVIOUS
  <2> HIDE DEF table
  <2> QED
    BY <1>6, <2>1, Zenon
<1>8. \A k \in 1..n : f[k - 1] \in S => f[k] \in S
  BY <1>1, <1>7
<1>9. \A k \in 0..n : f[k] \in S
  BY <1>0, <1>7, <1>8, FoldKeeps
<1> QED
  BY <1>7, <1>9 DEF S

LEMMA StacksIsFold ==
    ASSUME NEW t \in Seq(Int)
    PROVE  /\ Stacks(t)[0] = {<<>>}
           /\ \A k \in 1..Len(t) : Stacks(t)[k] = Evaluate(Stacks(t)[k - 1], t[k])
           /\ \A k \in 0..Len(t) : Stacks(t)[k] \in SUBSET Seq(Int)
<1>1. Len(t) \in Nat /\ \A k \in 1..Len(t) : t[k] \in Int
  BY ElementOfSeq, LenProperties
<1>2. Stacks(t) = CHOOSE g : StacksSolve(g, t, Len(t))
  BY Zenon DEF Stacks, StacksSolve
<1> QED
  BY <1>1, <1>2, StackTable

LEMMA TokensTyped ==
    ASSUME NEW e \in Seq(Codes)
    PROVE  Tokens(e) \in Seq(Int)
<1> DEFINE t == Postfix(e)
           zeros == {i \in DOMAIN t : t[i] = 0}
<1>1. t \in Seq(Int)
  BY PostfixTyped
<1>2. Tokens(e) = IF zeros = {} THEN t ELSE SubSeq(t, 1, Min(zeros) - 1)
  BY Zenon DEF Tokens
<1> HIDE DEF t
<1>3. CASE zeros = {}
  BY <1>1, <1>2, <1>3
<1>4. CASE zeros # {}
  <2> DEFINE last == Min(zeros) - 1
  <2>1. Min(zeros) \in zeros
    <3>1. zeros \subseteq Nat
      BY <1>1
    <3> QED
      BY <1>4, <3>1, Least
  <2>2. last \in 0..Len(t) - 1
    BY <1>1, <2>1
  <2>3. \A i \in 1..last : t[i] \in Int
    BY <1>1, <2>2, ElementOfSeq, LenProperties
  <2> HIDE DEF last, zeros
  <2>4. SubSeq(t, 1, last) \in Seq(Int)
    BY <2>2, <2>3, SubSeqProperties
  <2> QED
    BY <1>2, <1>4, <2>4 DEF last
<1> QED
  BY <1>3, <1>4

LEMMA calculateTyped ==
    ASSUME NEW e \in Seq(Codes)
    PROVE  calculate(e) \subseteq Int
<1>1. PICK t \in Seq(Int) : t = Tokens(e)
  BY TokensTyped
<1>2. Stacks(t)[Len(t)] \subseteq Seq(Int)
  <2>1. Len(t) \in 0..Len(t)
    BY LenProperties
  <2> QED
    BY <2>1, StacksIsFold, Zenon
<1>3. calculate(e) = {top.x : top \in UNION {pop(s) : s \in Stacks(t)[Len(t)]}}
  BY <1>1, Zenon DEF calculate
<1> QED
  BY <1>2, <1>3, popTyped, Zenon

-----------------------------------------------------------------------------
(* The state *)

(* The keys make codes.                                                    *)
LEMMA KeysAreCodes ==
    Operators \union {Char(d) : d \in Digits} \subseteq Codes
BY KeysAssumption DEF Codes, Char

LEMMA ClampTyped ==
    ASSUME NEW n \in Int
    PROVE  Clamp(n) \in 0..255
BY DEF Clamp

LEMMA BcdTyped ==
    ASSUME NEW n \in 0..255
    PROVE  Bcd(n) \in Nat
BY DEF Bcd

(* Every action of the specification leaves the state well typed, whatever *)
(* expression was typed: what calculate returns is a number, if it returns.*)
THEOREM TypeCorrect == Spec => []TypeOK
<1> USE DEF TypeOK
<1>1. Init => TypeOK
  <2> SUFFICES ASSUME Init
               PROVE  TypeOK
    OBVIOUS
  <2>1. exp \in Seq(Operators \union {Char(d) : d \in Digits})
    BY EmptySeq DEF Init
  <2>2. end \in BOOLEAN
    BY Zenon DEF Init
  <2> QED
    BY <2>1, <2>2 DEF Init
<1>2. TypeOK /\ [Next]_vars => TypeOK'
  <2> DEFINE keys == Operators \union {Char(d) : d \in Digits}
  <2> SUFFICES ASSUME TypeOK, [Next]_vars
               PROVE  TypeOK'
    OBVIOUS
  <2>1. Typed \in Seq(keys)
    BY EmptySeq DEF Typed
  <2>2. ASSUME NEW c \in keys, Key(c)
        PROVE  TypeOK'
    <3>1. Append(Typed, c) \in Seq(keys)
      <4> HIDE DEF keys
      <4> QED
        BY <2>1, AppendProperties
    <3> HIDE DEF keys
    <3>2. exp' \in Seq(keys) /\ end' = FALSE /\ Cleared
      BY <2>2, <3>1 DEF Key
    <3>3. end' \in BOOLEAN
      BY <3>2, Zenon
    <3> QED
      BY <3>2, <3>3 DEF Cleared, keys
  <2>3. CASE StarKey
    <3>1. end' \in BOOLEAN
      BY <2>3, Zenon DEF StarKey
    <3> QED
      BY <2>3, <3>1, EmptySeq DEF StarKey, Cleared
  <2>4. CASE HashKey
    <3>1. exp' = Typed /\ end' = TRUE
      BY <2>4 DEF HashKey
    <3>2. exp' \in Seq(keys) /\ end' \in BOOLEAN
      BY <2>1, <3>1, Zenon
    <3>3. outcome' \in {"none", "value", "dead"} /\ value' \in 0..255
      <4>1. calculate(exp') \subseteq Int
        <5>1. PICK e \in Seq(Codes) : e = exp'
          <6> HIDE DEF keys
          <6>1. Seq(keys) \subseteq Seq(Codes)
            BY KeysAreCodes, SeqMonotonic DEF keys
          <6> QED
            BY <3>2, <6>1
        <5>2. calculate(e) \subseteq Int
          BY calculateTyped
        <5> QED
          BY <5>1, <5>2
      <4> HIDE DEF keys
      <4> QED
        BY <2>4, <4>1, ClampTyped DEF HashKey
    <3>4. leds' \subseteq 0..7 /\ seg' \in Nat
      <4>1. CASE UNCHANGED <<value, leds, seg>>
        BY <4>1
      <4>2. CASE leds' = Lit(value') /\ seg' = Bcd(value')
        <5>1. PICK v \in 0..255 : v = value'
          BY <3>3
        <5> QED
          BY <4>2, <5>1, BcdTyped DEF Lit
      <4> QED
        BY <2>4, <4>1, <4>2 DEF HashKey
    <3> QED
      BY <3>2, <3>3, <3>4
  <2>5. CASE UNCHANGED vars
    BY <2>5 DEF vars
  <2> QED
    BY <2>2, <2>3, <2>4, <2>5 DEF Next
<1> QED
  BY <1>1, <1>2, PTL DEF Spec

(* The LEDs lit for a number show its bits.                                *)
BitOf(n, i) == IF i \in Lit(n) THEN 1 ELSE 0

Parity(m) == IF m % 2 = 1 THEN 1 ELSE 0

LEMMA LitShows ==
    ASSUME NEW n \in 0..255
    PROVE  n = 128 * BitOf(n, 0) + 64 * BitOf(n, 1) + 32 * BitOf(n, 2) + 16 * BitOf(n, 3)
               + 8 * BitOf(n, 4) + 4 * BitOf(n, 5) + 2 * BitOf(n, 6) + BitOf(n, 7)
<1>1. /\ BitWeight[0 + 1] = 128 /\ BitWeight[1 + 1] = 64 /\ BitWeight[2 + 1] = 32
      /\ BitWeight[3 + 1] = 16 /\ BitWeight[4 + 1] = 8 /\ BitWeight[5 + 1] = 4
      /\ BitWeight[6 + 1] = 2 /\ BitWeight[7 + 1] = 1
  BY DEF BitWeight
<1>2. \A i \in 0..7 : BitOf(n, i) = Parity(n \div BitWeight[i + 1])
  BY Zenon DEF BitOf, Lit, Parity
<1>3. /\ BitOf(n, 0) = Parity(n \div 128) /\ BitOf(n, 1) = Parity(n \div 64)
      /\ BitOf(n, 2) = Parity(n \div 32) /\ BitOf(n, 3) = Parity(n \div 16)
      /\ BitOf(n, 4) = Parity(n \div 8) /\ BitOf(n, 5) = Parity(n \div 4)
      /\ BitOf(n, 6) = Parity(n \div 2) /\ BitOf(n, 7) = Parity(n \div 1)
  <2>1. /\ BitOf(n, 0) = Parity(n \div 128) /\ BitOf(n, 1) = Parity(n \div 64)
        /\ BitOf(n, 2) = Parity(n \div 32) /\ BitOf(n, 3) = Parity(n \div 16)
    BY <1>1, <1>2
  <2>2. /\ BitOf(n, 4) = Parity(n \div 8) /\ BitOf(n, 5) = Parity(n \div 4)
        /\ BitOf(n, 6) = Parity(n \div 2) /\ BitOf(n, 7) = Parity(n \div 1)
    BY <1>1, <1>2
  <2> QED
    BY <2>1, <2>2
<1>4. /\ Parity(n \div 128) = (n \div 128) % 2 /\ Parity(n \div 64) = (n \div 64) % 2
      /\ Parity(n \div 32) = (n \div 32) % 2 /\ Parity(n \div 16) = (n \div 16) % 2
      /\ Parity(n \div 8) = (n \div 8) % 2 /\ Parity(n \div 4) = (n \div 4) % 2
      /\ Parity(n \div 2) = (n \div 2) % 2 /\ Parity(n \div 1) = n % 2
  <2>1. \A m \in Int : Parity(m) = m % 2
    BY DEF Parity
  <2>2. n \div 1 = n
    OBVIOUS
  <2> QED
    BY <2>1, <2>2
<1>5. n = 128 * ((n \div 128) % 2) + 64 * ((n \div 64) % 2) + 32 * ((n \div 32) % 2)
          + 16 * ((n \div 16) % 2) + 8 * ((n \div 8) % 2) + 4 * ((n \div 4) % 2)
          + 2 * ((n \div 2) % 2) + (n % 2)
  OBVIOUS
<1> QED
  BY <1>3, <1>4, <1>5

LEMMA BcdShows ==
    ASSUME NEW n \in 0..255
    PROVE  n = 100 * (Bcd(n) \div 256) + 10 * ((Bcd(n) \div 16) % 16) + (Bcd(n) % 16)
<1>1. PICK a \in 0..9, b \in 0..9, c \in 0..2 :
          a = n % 10 /\ b = (n \div 10) % 10 /\ c = n \div 100 /\ n = 100 * c + 10 * b + a
  OBVIOUS
<1>2. PICK m \in Nat : m = a + 16 * b + 256 * c
  OBVIOUS
<1>3. m \div 256 = c
  BY <1>2
<1>4. (m \div 16) % 16 = b
  <2>1. m \div 16 = b + 16 * c
    BY <1>2
  <2>2. (b + 16 * c) % 16 = b
    OBVIOUS
  <2> QED
    BY <2>1, <2>2
<1>5. m % 16 = a
  BY <1>2
<1>6. Bcd(n) = m
  BY <1>1, <1>2 DEF Bcd
<1> QED
  BY <1>1, <1>3, <1>4, <1>5, <1>6

(* The LEDs and the digits show the value that is on the LCD.              *)
THEOREM DisplaysShowTheValue == Spec => []DisplaysAgree
<1> DEFINE Inv == TypeOK /\ (leds = Lit(value) /\ seg = Bcd(value))
<1>1. Init => leds = Lit(value) /\ seg = Bcd(value)
  <2>1. Lit(0) = {} /\ Bcd(0) = 0
    BY DEF Lit, Bcd, BitWeight
  <2> QED
    BY <2>1 DEF Init
<1>2. leds = Lit(value) /\ seg = Bcd(value) /\ [Next]_vars
          => (leds = Lit(value) /\ seg = Bcd(value))'
  <2> SUFFICES ASSUME leds = Lit(value) /\ seg = Bcd(value), [Next]_vars
               PROVE  leds' = Lit(value') /\ seg' = Bcd(value')
    BY Zenon DEF Lit, Bcd
  <2>1. CASE Cleared
    <3>1. Lit(0) = {} /\ Bcd(0) = 0
      BY DEF Lit, Bcd, BitWeight
    <3> QED
      BY <2>1, <3>1 DEF Cleared
  <2>2. CASE UNCHANGED <<value, leds, seg>>
    BY <2>2
  <2> QED
    BY <2>1, <2>2, Zenon DEF Next, Key, StarKey, HashKey, vars
<1>3. TypeOK /\ leds = Lit(value) /\ seg = Bcd(value) => DisplaysAgree
  <2> SUFFICES ASSUME NEW v \in 0..255, v = value, leds = Lit(v), seg = Bcd(v)
               PROVE  DisplaysAgree
    BY DEF TypeOK
  <2>1. /\ v = 128 * BitOf(v, 0) + 64 * BitOf(v, 1) + 32 * BitOf(v, 2) + 16 * BitOf(v, 3)
               + 8 * BitOf(v, 4) + 4 * BitOf(v, 5) + 2 * BitOf(v, 6) + BitOf(v, 7)
        /\ v = 100 * (Bcd(v) \div 256) + 10 * ((Bcd(v) \div 16) % 16) + (Bcd(v) % 16)
    BY LitShows, BcdShows
  <2>2. \A i \in 0..7 : BitOf(v, i) = IF i \in leds THEN 1 ELSE 0
    BY DEF BitOf
  <2> QED
    BY <2>1, <2>2 DEF DisplaysAgree
<1> QED
  BY <1>1, <1>2, <1>3, TypeCorrect, PTL DEF Spec

=============================================================================
