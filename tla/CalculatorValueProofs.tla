------------------------ MODULE CalculatorValueProofs ------------------------
(***************************************************************************)
(* The postfix form of lab 2 has the value of the expression it was made   *)
(* from, for expressions of any length whose operands the postfix array    *)
(* can hold.                                                               *)
(***************************************************************************)
EXTENDS CalculatorProofs

Additive == {Plus, Minus}
Parts(n) == (1..n + 1) \X (0..n)
NoOperator(e, lo, hi) == \A i \in lo..hi : e[i] \notin Operators
NoAdditive(e, lo, hi) == \A i \in lo..hi : e[i] \notin Additive

-----------------------------------------------------------------------------
(* The numbers *)

NumberSolves(g, e, n) ==
    g = [k \in 0..n |-> IF k = 0 \/ e[k] \in Operators THEN 0 ELSE g[k - 1] * 10 + (e[k] - 48)]

LEMMA NumberTable ==
    ASSUME NEW n \in Nat, NEW e, \A k \in 1..n : e[k] \in Codes,
           NEW f, f = CHOOSE g : NumberSolves(g, e, n)
    PROVE  /\ f[0] = 0
           /\ \A k \in 1..n : f[k] = IF e[k] \in Operators THEN 0 ELSE f[k - 1] * 10 + (e[k] - 48)
           /\ \A k \in 0..n : f[k] \in Int
<1> DEFINE F == [p \in Int \X (1..n) |->
                    IF e[p[2]] \in Operators THEN 0 ELSE p[1] * 10 + (e[p[2]] - 48)]
<1>1. ASSUME NEW v \in Int, NEW k \in 1..n
      PROVE  /\ F[<<v, k>>] = IF e[k] \in Operators THEN 0 ELSE v * 10 + (e[k] - 48)
             /\ F[<<v, k>>] \in Int
  <2>1. F[<<v, k>>] = IF e[k] \in Operators THEN 0 ELSE v * 10 + (e[k] - 48)
    OBVIOUS
  <2>2. e[k] \in Codes
    OBVIOUS
  <2>3. e[k] \in Operators \/ e[k] \in 48..57
    BY <2>2 DEF Codes
  <2> QED
    BY <2>1, <2>3
<1>2. PICK g : IsFold(g, 0, n, F, Int)
  <2> DEFINE S == Int
  <2> HIDE DEF F
  <2>1. 0 \in S /\ \A v \in S, k \in 1..n : F[<<v, k>>] \in S
    BY <1>1
  <2> HIDE DEF S
  <2>2. \E g : IsFold(g, 0, n, F, S)
    BY <2>1, FoldExists
  <2> QED
    BY <2>2 DEF S
<1>3. NumberSolves(g, e, n)
  <2>1. /\ g \in [0..n -> Int] /\ g[0] = 0
        /\ \A k \in 1..n : g[k] = F[<<g[k - 1], k>>]
    BY <1>2 DEF IsFold
  <2>2. ASSUME NEW k \in 1..n
        PROVE  g[k] = IF e[k] \in Operators THEN 0 ELSE g[k - 1] * 10 + (e[k] - 48)
    <3>1. g[k - 1] \in Int
      BY <2>1
    <3> HIDE DEF F
    <3> QED
      BY <1>1, <2>1, <3>1
  <2> QED
    BY <2>1, <2>2 DEF NumberSolves
<1>4. NumberSolves(f, e, n)
  BY <1>3, Zenon
<1> DEFINE table == [k \in 0..n |-> IF k = 0 \/ e[k] \in Operators THEN 0
                                    ELSE f[k - 1] * 10 + (e[k] - 48)]
<1>5. f = table
  BY <1>4, Zenon DEF NumberSolves
<1>6. /\ f[0] = 0
      /\ \A k \in 1..n : f[k] = IF e[k] \in Operators THEN 0 ELSE f[k - 1] * 10 + (e[k] - 48)
  <2>1. /\ table[0] = 0
        /\ \A k \in 1..n : table[k] = IF e[k] \in Operators THEN 0
                                      ELSE f[k - 1] * 10 + (e[k] - 48)
    OBVIOUS
  <2> HIDE DEF table
  <2> QED
    BY <1>5, <2>1, Zenon
<1>7. ASSUME NEW k \in 1..n, f[k - 1] \in Int
      PROVE  f[k] \in Int
  <2>1. e[k] \in Operators \/ e[k] \in 48..57
    BY DEF Codes
  <2> QED
    BY <1>6, <1>7, <2>1
<1>8. \A k \in 0..n : f[k] \in Int
  <2>1. f[0] \in Int /\ \A k \in 1..n : f[k - 1] \in Int => f[k] \in Int
    BY <1>6, <1>7
  <2> QED
    BY <2>1, FoldKeeps
<1> QED
  BY <1>6, <1>8

LEMMA NumberIsFold ==
    ASSUME NEW e \in Seq(Codes)
    PROVE  /\ Number(e)[0] = 0
           /\ \A k \in 1..Len(e) : Number(e)[k] = IF e[k] \in Operators THEN 0
                                       ELSE Number(e)[k - 1] * 10 + (e[k] - 48)
           /\ \A k \in 0..Len(e) : Number(e)[k] \in Int
<1>1. Len(e) \in Nat /\ \A k \in 1..Len(e) : e[k] \in Codes
  BY ElementOfSeq, LenProperties
<1>2. Number(e) = CHOOSE g : NumberSolves(g, e, Len(e))
  BY Zenon DEF Number, NumberSolves
<1> QED
  BY <1>1, <1>2, NumberTable

-----------------------------------------------------------------------------
(* The values of the parts *)

(* The position that splits a part is the last operator of its lowest level. *)
LEMMA SplitPosition ==
    ASSUME NEW n \in Nat, NEW e, NEW lo \in 1..n + 1, NEW hi \in 0..n, ~NoOperator(e, lo, hi)
    PROVE  /\ Split(e, lo, hi) \in lo..hi
           /\ e[Split(e, lo, hi)] \in Operators
           /\ \/ /\ e[Split(e, lo, hi)] \in Additive
                 /\ NoAdditive(e, Split(e, lo, hi) + 1, hi)
              \/ /\ NoAdditive(e, lo, hi)
                 /\ NoOperator(e, Split(e, lo, hi) + 1, hi)
<1> DEFINE A == {i \in lo..hi : e[i] \in Additive}
           O == {i \in lo..hi : e[i] \in Operators}
<1>1. Split(e, lo, hi) = Max(IF A # {} THEN A ELSE O)
  BY Zenon DEF Split, Additive
<1>2. A \subseteq O /\ O # {} /\ O \subseteq 0..n /\ A \subseteq 0..n
  BY DEF Additive, Operators, NoOperator
<1>3. CASE A # {}
  <2>1. PICK m : m = Max(A) /\ m \in A /\ \A i \in A : i <= m
    <3> HIDE DEF A
    <3> QED
      BY <1>2, <1>3, Greatest
  <2>2. \A i \in m + 1..hi : e[i] \notin Additive
    BY <2>1
  <2> QED
    BY <1>1, <1>2, <1>3, <2>1, <2>2 DEF NoAdditive
<1>4. CASE A = {}
  <2>1. PICK m : m = Max(O) /\ m \in O /\ \A i \in O : i <= m
    <3> HIDE DEF O
    <3> QED
      BY <1>2, Greatest
  <2>2. \A i \in m + 1..hi : e[i] \notin Operators
    BY <2>1
  <2>3. NoAdditive(e, lo, hi)
    BY <1>4 DEF NoAdditive
  <2> QED
    BY <1>1, <1>4, <2>1, <2>2, <2>3 DEF NoOperator
<1> QED
  BY <1>3, <1>4

(* No other position is.                                                   *)
LEMMA SplitUnique ==
    ASSUME NEW n \in Nat, NEW e, NEW lo \in 1..n + 1, NEW hi \in 0..n,
           NEW b \in lo..hi, e[b] \in Operators,
           (e[b] \in Additive /\ NoAdditive(e, b + 1, hi))
               \/ (NoAdditive(e, lo, hi) /\ NoOperator(e, b + 1, hi))
    PROVE  Split(e, lo, hi) = b
<1> DEFINE at == Split(e, lo, hi)
<1>1. ~NoOperator(e, lo, hi)
  BY DEF NoOperator
<1>2. /\ at \in lo..hi /\ e[at] \in Operators
      /\ \/ e[at] \in Additive /\ NoAdditive(e, at + 1, hi)
         \/ NoAdditive(e, lo, hi) /\ NoOperator(e, at + 1, hi)
  BY <1>1, SplitPosition
<1> HIDE DEF at
<1>3. at <= b
  BY <1>2 DEF NoOperator, NoAdditive
<1>4. b <= at
  BY <1>2 DEF NoOperator, NoAdditive
<1>5. at = b
  BY <1>2, <1>3, <1>4
<1> QED
  BY <1>5 DEF at

ValueStep(g, e, lo, hi) ==
    IF NoOperator(e, lo, hi) THEN Number(e)[hi]
    ELSE Meaning(e[Split(e, lo, hi)], g[<<lo, Split(e, lo, hi) - 1>>],
                                      g[<<Split(e, lo, hi) + 1, hi>>])

(* The value of a part depends on those of shorter parts only.             *)
LEMMA ShorterParts ==
    ASSUME NEW n \in Nat, NEW e, NEW lo \in 1..n + 1, NEW hi \in 0..n, NEW g, NEW h,
           \A i \in 1..n + 1, j \in 0..n : j - i < hi - lo => g[<<i, j>>] = h[<<i, j>>]
    PROVE  ValueStep(g, e, lo, hi) = ValueStep(h, e, lo, hi)
<1>1. CASE NoOperator(e, lo, hi)
  BY <1>1 DEF ValueStep
<1>2. CASE ~NoOperator(e, lo, hi)
  <2>1. PICK at : at = Split(e, lo, hi) /\ at \in lo..hi
    BY <1>2, SplitPosition
  <2>2. /\ at - 1 \in 0..n /\ at - 1 - lo < hi - lo
        /\ at + 1 \in 1..n + 1 /\ hi - (at + 1) < hi - lo
    BY <2>1
  <2>3. g[<<lo, at - 1>>] = h[<<lo, at - 1>>] /\ g[<<at + 1, hi>>] = h[<<at + 1, hi>>]
    BY <2>2
  <2> QED
    BY <1>2, <2>1, <2>3, Zenon DEF ValueStep
<1> QED
  BY <1>1, <1>2

ValuesSolve(g, e, n) == g = [r \in Parts(n) |-> ValueStep(g, e, r[1], r[2])]

LEMMA ValuesExist ==
    ASSUME NEW n \in Nat, NEW e
    PROVE  \E g : ValuesSolve(g, e, n)
<1> DEFINE Upto(g, m) == /\ g = [r \in Parts(n) |-> g[r]]
                         /\ \A lo \in 1..n + 1, hi \in 0..n :
                               hi - lo < m => g[<<lo, hi>>] = ValueStep(g, e, lo, hi)
           T == {m \in Nat : \E g : Upto(g, m)}
<1>1. 0 \in T
  <2> DEFINE g == [r \in Parts(n) |-> Number(e)[r[2]]]
  <2>1. g = [r \in Parts(n) |-> g[r]]
    OBVIOUS
  <2>2. ASSUME NEW lo \in 1..n + 1, NEW hi \in 0..n, hi - lo < 0
        PROVE  g[<<lo, hi>>] = ValueStep(g, e, lo, hi)
    <3>1. NoOperator(e, lo, hi)
      BY <2>2 DEF NoOperator
    <3>2. g[<<lo, hi>>] = Number(e)[hi]
      BY DEF Parts
    <3> QED
      BY <3>1, <3>2, Zenon DEF ValueStep
  <2>3. Upto(g, 0)
    <3> HIDE DEF g
    <3> QED
      BY <2>1, <2>2
  <2> HIDE DEF Upto, g
  <2> QED
    BY <2>3
<1>2. ASSUME NEW m \in Nat, m \in T
      PROVE  m + 1 \in T
  <2>1. PICK g : Upto(g, m)
    BY <1>2
  <2> DEFINE h == [r \in Parts(n) |-> IF r[2] - r[1] < m THEN g[r]
                                      ELSE ValueStep(g, e, r[1], r[2])]
  <2>2. h = [r \in Parts(n) |-> h[r]]
    OBVIOUS
  <2>3. ASSUME NEW lo \in 1..n + 1, NEW hi \in 0..n
        PROVE  h[<<lo, hi>>] = IF hi - lo < m THEN g[<<lo, hi>>] ELSE ValueStep(g, e, lo, hi)
    BY DEF Parts
  <2> HIDE DEF h
  <2>4. ASSUME NEW lo \in 1..n + 1, NEW hi \in 0..n, hi - lo < m + 1
        PROVE  h[<<lo, hi>>] = ValueStep(h, e, lo, hi)
    <3>1. \A i \in 1..n + 1, j \in 0..n : j - i < hi - lo => g[<<i, j>>] = h[<<i, j>>]
      BY <2>3, <2>4
    <3>2. ValueStep(g, e, lo, hi) = ValueStep(h, e, lo, hi)
      BY <3>1, ShorterParts
    <3>3. hi - lo < m => g[<<lo, hi>>] = ValueStep(g, e, lo, hi)
      BY <2>1
    <3> QED
      BY <2>3, <3>2, <3>3
  <2>5. Upto(h, m + 1)
    BY <2>2, <2>4
  <2> HIDE DEF Upto
  <2> QED
    BY <2>5
<1>3. n + 1 \in T
  <2> HIDE DEF T
  <2> QED
    BY <1>1, <1>2, Induction
<1>4. PICK g : Upto(g, n + 1)
  <2> HIDE DEF Upto
  <2> QED
    BY <1>3
<1>5. ASSUME NEW lo \in 1..n + 1, NEW hi \in 0..n
      PROVE  g[<<lo, hi>>] = ValueStep(g, e, lo, hi)
  <2>1. hi - lo < n + 1
    OBVIOUS
  <2> QED
    BY <1>4, <2>1
<1>6. g = [r \in Parts(n) |-> ValueStep(g, e, r[1], r[2])]
  BY <1>4, <1>5 DEF Parts
<1> QED
  BY <1>6, Zenon DEF ValuesSolve

ValueOf(e, lo, hi) == Values(e)[<<lo, hi>>]

LEMMA ValueEquation ==
    ASSUME NEW e \in Seq(Codes), NEW lo \in 1..Len(e) + 1, NEW hi \in 0..Len(e)
    PROVE  ValueOf(e, lo, hi) = ValueStep(Values(e), e, lo, hi)
<1>1. PICK n \in Nat : n = Len(e)
  BY LenProperties
<1>2. PICK f : f = Values(e) /\ f = CHOOSE g : ValuesSolve(g, e, n)
  <2>1. Values(e) = CHOOSE g : ValuesSolve(g, e, Len(e))
    BY Zenon DEF Values, ValuesSolve, ValueStep, NoOperator, Parts
  <2> QED
    BY <1>1, <2>1, Zenon
<1>3. ValuesSolve(f, e, n)
  BY <1>1, <1>2, ValuesExist, Zenon
<1> DEFINE table == [r \in Parts(n) |-> ValueStep(f, e, r[1], r[2])]
<1>4. f = table
  BY <1>3, Zenon DEF ValuesSolve
<1>5. table[<<lo, hi>>] = ValueStep(f, e, lo, hi)
  <2>1. <<lo, hi>> \in Parts(n)
    BY <1>1 DEF Parts
  <2> QED
    BY <2>1
<1> HIDE DEF table
<1> QED
  BY <1>2, <1>4, <1>5, Zenon DEF ValueOf

-----------------------------------------------------------------------------
(* Evaluation, token by token *)

Ev(t) == Stacks(t)[Len(t)]
Yields(t, s) == Ev(t) = {s}

LEMMA AppendShort ==
    ASSUME NEW a, NEW b, NEW c
    PROVE  /\ Append(<<>>, a) = <<a>>
           /\ Append(<<a>>, b) = <<a, b>>
           /\ Append(<<a, b>>, c) = <<a, b, c>>
<1> DEFINE S == {a, b, c}
<1>1. Append(<<>>, a) = <<a>>
  <2>1. PICK u \in Seq(S) : u = Append(<<>>, a)
    BY EmptySeq, AppendProperties
  <2>2. Len(u) = 1 /\ u[1] = a
    BY <2>1, EmptySeq, AppendProperties
  <2> QED
    BY <2>1, <2>2
<1>2. Append(<<a>>, b) = <<a, b>>
  <2>1. <<a>> \in Seq(S) /\ Len(<<a>>) = 1 /\ <<a, b>> \in Seq(S) /\ Len(<<a, b>>) = 2
    OBVIOUS
  <2>2. PICK u \in Seq(S), v \in Seq(S) : u = Append(<<a>>, b) /\ v = <<a, b>>
    BY <2>1, AppendProperties
  <2>3. Len(u) = 2 /\ u[1] = a /\ u[2] = b /\ Len(v) = 2 /\ v[1] = a /\ v[2] = b
    BY <2>1, <2>2, AppendProperties
  <2>4. u = v
    BY <2>3, SeqEqual
  <2> QED
    BY <2>2, <2>4
<1>3. Append(<<a, b>>, c) = <<a, b, c>>
  <2>1. /\ <<a, b>> \in Seq(S) /\ Len(<<a, b>>) = 2
        /\ <<a, b, c>> \in Seq(S) /\ Len(<<a, b, c>>) = 3
    OBVIOUS
  <2>2. PICK u \in Seq(S), v \in Seq(S) : u = Append(<<a, b>>, c) /\ v = <<a, b, c>>
    BY <2>1, AppendProperties
  <2>3. /\ Len(u) = 3 /\ u[1] = a /\ u[2] = b /\ u[3] = c
        /\ Len(v) = 3 /\ v[1] = a /\ v[2] = b /\ v[3] = c
    BY <2>1, <2>2, AppendProperties
  <2>4. u = v
    BY <2>3, SeqEqual
  <2> QED
    BY <2>2, <2>4
<1> QED
  BY <1>1, <1>2, <1>3

(* Tables of tokens that agree, agree.                                     *)
SameSteps(f, h, t, u, n) ==
    /\ f[0] = h[0]
    /\ \A k \in 1..n : /\ t[k] = u[k]
                      /\ f[k] = Evaluate(f[k - 1], t[k])
                      /\ h[k] = Evaluate(h[k - 1], u[k])

LEMMA SameStacks ==
    ASSUME NEW n \in Nat, NEW f, NEW h, NEW t, NEW u, SameSteps(f, h, t, u, n)
    PROVE  f[n] = h[n]
<1> USE DEF SameSteps
<1> DEFINE T == {m \in Nat : m <= n => f[m] = h[m]}
<1>1. 0 \in T
  OBVIOUS
<1>2. ASSUME NEW m \in Nat, m \in T
      PROVE  m + 1 \in T
  <2> SUFFICES ASSUME m + 1 <= n
               PROVE  f[m + 1] = h[m + 1]
    OBVIOUS
  <2>1. m + 1 \in 1..n /\ m + 1 - 1 = m /\ f[m] = h[m]
    BY <1>2
  <2> QED
    BY <2>1
<1>3. Nat \subseteq T
  <2> HIDE DEF T
  <2> QED
    BY <1>1, <1>2, Induction
<1> QED
  BY <1>3

LEMMA EvEmpty == Ev(<<>>) = {<<>>}
<1>1. <<>> \in Seq(Int) /\ Len(<<>>) = 0
  BY EmptySeq
<1> QED
  BY <1>1, StacksIsFold DEF Ev

LEMMA EvAppend ==
    ASSUME NEW t \in Seq(Int), NEW x \in Int
    PROVE  Ev(Append(t, x)) = Evaluate(Ev(t), x)
<1>1. PICK u \in Seq(Int) : u = Append(t, x)
  BY AppendProperties
<1>2. PICK n \in Nat : n = Len(t)
  BY LenProperties
<1>3. /\ Len(u) = n + 1 /\ u[n + 1] = x
      /\ \A k \in 1..n : u[k] = t[k]
  BY <1>1, <1>2, AppendProperties
<1>4. PICK f, h : f = Stacks(u) /\ h = Stacks(t)
  OBVIOUS
<1>5. /\ h[0] = {<<>>}
      /\ \A k \in 1..n : h[k] = Evaluate(h[k - 1], t[k])
  BY <1>2, <1>4, StacksIsFold
<1>6. /\ f[0] = {<<>>}
      /\ \A k \in 1..n + 1 : f[k] = Evaluate(f[k - 1], u[k])
  BY <1>3, <1>4, StacksIsFold
<1>7. f[n] = h[n]
  <2>1. \A k \in 1..n : /\ u[k] = t[k]
                       /\ f[k] = Evaluate(f[k - 1], u[k])
                       /\ h[k] = Evaluate(h[k - 1], t[k])
    BY <1>3, <1>5, <1>6
  <2>2. f[0] = h[0]
    BY <1>5, <1>6
  <2>3. SameSteps(f, h, u, t, n)
    BY <2>1, <2>2, Zenon DEF SameSteps
  <2> QED
    BY <2>3, SameStacks, Zenon
<1>8. f[n + 1] = Evaluate(f[n], x)
  BY <1>3, <1>6
<1> QED
  BY <1>1, <1>2, <1>3, <1>4, <1>7, <1>8 DEF Ev

LEMMA EvTyped ==
    ASSUME NEW t \in Seq(Int)
    PROVE  Ev(t) \subseteq Seq(Int)
<1>1. Len(t) \in 0..Len(t)
  BY LenProperties
<1> QED
  BY <1>1, StacksIsFold, Zenon DEF Ev

LEMMA EvNumber ==
    ASSUME NEW t \in Seq(Int), NEW s, Yields(t, s),
           NEW x \in Int, x % 256 \notin Operators
    PROVE  Yields(Append(t, x), Append(s, x))
<1>1. ~(prior(x) > 0)
  BY DEF prior, Operators
<1>2. Evaluate({s}, x) = {Append(r, x) : r \in {s}}
  BY <1>1, Zenon DEF Evaluate
<1>3. {Append(r, x) : r \in {s}} = {Append(s, x)}
  OBVIOUS
<1> QED
  BY <1>2, <1>3, EvAppend, Zenon DEF Yields

LEMMA OperatorIsItsByte ==
    ASSUME NEW op \in Operators
    PROVE  op \in Int /\ op % 256 = op /\ prior(op) > 0 /\ op # 0
BY DEF Operators, Plus, Minus, Times, Over, prior

(* What an operator makes of the stack after its first pop.                *)
Results(op, a) == {Append(b.rest, calculate_op(op, a.x, b.x)) : b \in pop(a.rest)}

(* x is popped from s, and r is left.                                      *)
Pops(s, x, r) == pop(s) = {[x |-> x, rest |-> r]}
(* The operator leaves u of the stack s.                                   *)
Leaves(op, s, u) == Apply(op, s) = {u}
Divides(op, x) == op % 256 = Over => x # 0

LEMMA ApplyOnly ==
    ASSUME NEW op, NEW s, NEW x, NEW y, NEW r, NEW q,
           Pops(s, x, r), Pops(r, y, q), Divides(op, x)
    PROVE  Leaves(op, s, Append(q, calculate_op(op, x, y)))
<1> PICK a : a = [x |-> x, rest |-> r]
  OBVIOUS
<1>0. a.x = x /\ a.rest = r
  OBVIOUS
<1>1. {c \in pop(s) : ~Faults(op, c.x)} = {a}
  BY <1>0 DEF Divides, Pops, Faults
<1>2. Apply(op, s) = UNION {Results(op, c) : c \in {a}}
  BY <1>1, Zenon DEF Apply, Results
<1>3. UNION {Results(op, c) : c \in {a}} = Results(op, a)
  OBVIOUS
<1>4. Results(op, a) = {Append(q, calculate_op(op, x, y))}
  <2> PICK b : b = [x |-> y, rest |-> q]
    OBVIOUS
  <2>1. b.x = y /\ b.rest = q
    OBVIOUS
  <2>2. Results(op, a) = {Append(d.rest, calculate_op(op, x, d.x)) : d \in {b}}
    BY <1>0, <2>1, Zenon DEF Results, Pops
  <2> QED
    BY <2>1, <2>2
<1> QED
  BY <1>2, <1>3, <1>4, Zenon DEF Leaves

LEMMA EvOperator ==
    ASSUME NEW t \in Seq(Int), NEW s \in Seq(Int), NEW y \in Int, NEW x \in Int,
           Yields(t, Append(Append(s, y), x)),
           NEW op \in Operators, op = Over => x # 0
    PROVE  Yields(Append(t, op), Append(s, Meaning(op, y, x)))
<1>1. op \in Int /\ op % 256 = op /\ prior(op) > 0
  BY OperatorIsItsByte
<1> DEFINE whole == Append(Append(s, y), x)
<1>2. Append(s, y) \in Seq(Int) /\ whole \in Seq(Int) /\ Append(s, y) # <<>> /\ whole # <<>>
  BY AppendProperties
<1>3. Pops(whole, x, Append(s, y))
  BY <1>2, FrontAndLastOfAppend DEF pop, Pops
<1>4. Pops(Append(s, y), y, s)
  BY <1>2, FrontAndLastOfAppend DEF pop, Pops
<1>5. Leaves(op, whole, Append(s, calculate_op(op, x, y)))
  <2> HIDE DEF whole
  <2>1. Divides(op, x)
    BY <1>1 DEF Divides
  <2> QED
    BY <1>3, <1>4, <2>1, ApplyOnly, Zenon
<1>6. calculate_op(op, x, y) = Meaning(op, y, x)
  <2>1. x + y = y + x /\ x * y = y * x
    OBVIOUS
  <2> QED
    BY <1>1, <2>1, Zenon DEF calculate_op, Meaning
<1>7. Evaluate({whole}, op) = UNION {Apply(op, r) : r \in {whole}}
  BY <1>1, Zenon DEF Evaluate
<1>8. UNION {Apply(op, r) : r \in {whole}} = Apply(op, whole)
  BY Zenon
<1> QED
  BY <1>1, <1>5, <1>6, <1>7, <1>8, EvAppend, Zenon DEF Leaves, Yields

-----------------------------------------------------------------------------
(* No division by zero on the way *)

(* The operator finds no 0 to divide by on top of a stack.                 *)
NoFault(stacks, op) == \A s \in stacks : \A a \in pop(s) : ~Faults(op, a.x)
Calm(t) == \A k \in 1..Len(t) : NoFault(Stacks(t)[k - 1], t[k])

LEMMA CalmEmpty == Calm(<<>>)
<1>1. Len(<<>>) = 0
  BY EmptySeq
<1> QED
  BY <1>1 DEF Calm

LEMMA CalmAppend ==
    ASSUME NEW t \in Seq(Int), Calm(t), NEW x \in Int, NoFault(Ev(t), x)
    PROVE  Calm(Append(t, x))
<1>1. PICK u \in Seq(Int) : u = Append(t, x)
  BY AppendProperties
<1>2. PICK n \in Nat : n = Len(t)
  BY LenProperties
<1>3. /\ Len(u) = n + 1 /\ u[n + 1] = x
      /\ \A k \in 1..n : u[k] = t[k]
  BY <1>1, <1>2, AppendProperties
<1>4. PICK f, h : f = Stacks(u) /\ h = Stacks(t)
  OBVIOUS
<1>5. /\ h[0] = {<<>>}
      /\ \A k \in 1..n : h[k] = Evaluate(h[k - 1], t[k])
  BY <1>2, <1>4, StacksIsFold
<1>6. /\ f[0] = {<<>>}
      /\ \A k \in 1..n + 1 : f[k] = Evaluate(f[k - 1], u[k])
  BY <1>3, <1>4, StacksIsFold
<1>7. ASSUME NEW m \in 0..n
      PROVE  f[m] = h[m]
  <2>0. \A k \in 1..m : k \in 1..n /\ k \in 1..n + 1
    OBVIOUS
  <2>1. \A k \in 1..m : /\ u[k] = t[k]
                       /\ f[k] = Evaluate(f[k - 1], u[k])
                       /\ h[k] = Evaluate(h[k - 1], t[k])
    BY <1>3, <1>5, <1>6, <2>0, Zenon
  <2>2. f[0] = h[0]
    BY <1>5, <1>6
  <2>3. SameSteps(f, h, u, t, m)
    BY <2>1, <2>2, Zenon DEF SameSteps
  <2>4. m \in Nat
    OBVIOUS
  <2> QED
    BY <2>3, <2>4, SameStacks, Zenon
<1>8. /\ \A k \in 1..n : NoFault(h[k - 1], t[k])
      /\ NoFault(h[n], x)
  BY <1>2, <1>4, Zenon DEF Calm, Ev
<1>9. ASSUME NEW k \in 1..n + 1
      PROVE  NoFault(f[k - 1], u[k])
  <2>1. f[k - 1] = h[k - 1]
    <3>1. k - 1 \in 0..n
      OBVIOUS
    <3> QED
      BY <1>7, <3>1
  <2>2. CASE k \in 1..n
    BY <1>3, <1>8, <2>1, <2>2, Zenon
  <2>3. CASE k = n + 1
    <3>1. k - 1 = n
      BY <2>3
    <3> QED
      BY <1>3, <1>8, <2>1, <2>3, <3>1, Zenon
  <2> QED
    BY <2>2, <2>3
<1> QED
  BY <1>1, <1>3, <1>4, <1>9, Zenon DEF Calm

-----------------------------------------------------------------------------
(* What an operator does to the scan *)

LEMMA ConcatShort ==
    ASSUME NEW S, NEW s \in Seq(S), NEW a \in S, NEW b \in S
    PROVE  /\ s \o <<>> = s
           /\ s \o <<a>> = Append(s, a)
           /\ s \o <<a, b>> = Append(Append(s, a), b)
<1>1. s \o <<>> = s
  BY ConcatEmptySeq
<1>2. s \o <<a>> = Append(s, a)
  BY AppendIsConcat
<1>3. s \o <<a, b>> = Append(Append(s, a), b)
  <2>1. <<a>> \in Seq(S) /\ <<b>> \in Seq(S)
    OBVIOUS
  <2>2. <<a>> \o <<b>> = <<a, b>>
    BY <2>1, AppendIsConcat, AppendShort
  <2>3. (s \o <<a>>) \o <<b>> = s \o (<<a>> \o <<b>>)
    BY <2>1, ConcatAssociative
  <2>4. Append(s, a) \in Seq(S)
    BY AppendProperties
  <2> QED
    BY <1>2, <2>2, <2>3, <2>4, AppendIsConcat
<1> QED
  BY <1>1, <1>2, <1>3

Joins(s, a, b) == s \o <<a, b>> = Append(Append(s, a), b)

LEMMA ConcatTwo ==
    ASSUME NEW s \in Seq(Int), NEW a \in Int, NEW b \in Int
    PROVE  Joins(s, a, b)
<1>1. s \o <<a, b>> = Append(Append(s, a), b)
  BY ConcatShort
<1> QED
  BY <1>1, Zenon DEF Joins

LEMMA Levels ==
    ASSUME NEW c \in Operators
    PROVE  prior(c) = IF c \in Additive THEN 1 ELSE 2
BY DEF Operators, Additive, Plus, Minus, Times, Over, prior

(* c leaves the operators kept on the stack and pops the others.           *)
Stay(c, kept) == kept = <<>> \/ prior(c) > prior(Last(kept))
Go(c, popped) == \A i \in 1..Len(popped) : ~(prior(c) > prior(popped[i]))

LEMMA KeepIs ==
    ASSUME NEW c, NEW kept \in Seq(Operators), NEW popped \in Seq(Operators),
           Stay(c, kept), Go(c, popped)
    PROVE  Keep(c, kept \o popped) = Len(kept)
<1> DEFINE ops == kept \o popped
           k == Len(kept)
           n == Len(ops)
           S == {0} \union {i \in 1..n : prior(c) > prior(ops[i])}
<1>1. k \in Nat /\ n \in Nat /\ k <= n /\ DOMAIN ops = 1..n
  BY ConcatProperties, LenProperties
<1>2. k = 0 \/ prior(c) > prior(ops[k])
  BY ConcatProperties, EmptySeq, LenProperties DEF Stay, Last
<1>3. \A i \in k + 1..n : ~(prior(c) > prior(ops[i]))
  BY ConcatProperties, LenProperties DEF Go
<1>4. Keep(c, ops) = Max(S)
  BY <1>1 DEF Keep
<1> HIDE DEF ops, k, n
<1>5. S \subseteq 0..n /\ S # {} /\ k \in S /\ \A i \in S : i <= k
  BY <1>1, <1>2, <1>3
<1>6. Max(S) \in S /\ \A i \in S : i <= Max(S)
  <2> HIDE DEF S
  <2> QED
    BY <1>1, <1>5, Greatest
<1>7. Max(S) \in Nat
  BY <1>1, <1>5, <1>6
<1> HIDE DEF S
<1>8. Max(S) = k
  BY <1>1, <1>5, <1>6, <1>7
<1> QED
  BY <1>4, <1>8 DEF ops, k

(* The scan has just read an operator.                                     *)
Sets(next, result, ops) == next.result = result /\ next.ops = ops /\ ~next.number

(* The operators popped go to the result, the top first.                   *)
LEMMA ScanPops ==
    ASSUME NEW acc \in Accs, NEW c \in Operators,
           NEW kept \in Seq(Operators), NEW popped \in Seq(Operators),
           acc.ops = kept \o popped, Stay(c, kept), Go(c, popped)
    PROVE  Sets(Scan(acc, c), acc.result \o Reverse(popped), Append(kept, c))
<1> DEFINE k == Keep(c, acc.ops)
<1>1. Scan(acc, c) = [result |-> acc.result \o Reverse(SubSeq(acc.ops, k + 1, Len(acc.ops))),
                      ops |-> Append(SubSeq(acc.ops, 1, k), c), number |-> FALSE]
  BY Zenon DEF Scan
<1>2. k = Len(kept) /\ Len(acc.ops) = Len(kept) + Len(popped)
  BY KeepIs, ConcatProperties
<1>3. SubSeq(acc.ops, 1, k) = kept
  BY <1>2, SubSeqOfConcat1, LenProperties
<1>4. SubSeq(acc.ops, k + 1, Len(acc.ops)) = popped
  BY <1>2, SubSeqOfConcat2, LenProperties
<1> HIDE DEF k
<1>5. PICK result, ops : /\ result = acc.result \o Reverse(popped)
                         /\ ops = Append(kept, c)
  OBVIOUS
<1>6. Scan(acc, c) = [result |-> result, ops |-> ops, number |-> FALSE]
  BY <1>1, <1>3, <1>4, <1>5, Zenon
<1>7. Sets(Scan(acc, c), result, ops)
  BY <1>6 DEF Sets
<1> QED
  BY <1>5, <1>7, Zenon

LEMMA StayGo ==
    ASSUME NEW c \in Operators, NEW p \in Operators, NEW o \in Operators
    PROVE  /\ <<>> \in Seq(Operators) /\ <<o>> \in Seq(Operators) /\ <<p, o>> \in Seq(Operators)
           /\ Stay(c, <<>>) /\ Go(c, <<>>)
           /\ (c \notin Additive /\ o \in Additive => Stay(c, <<o>>))
           /\ (~(c \notin Additive /\ o \in Additive) => Go(c, <<o>>))
           /\ (c \in Additive => Go(c, <<p, o>>))
<1>1. /\ prior(c) = IF c \in Additive THEN 1 ELSE 2
      /\ prior(o) = IF o \in Additive THEN 1 ELSE 2
      /\ prior(p) = IF p \in Additive THEN 1 ELSE 2
  BY Levels
<1>2. /\ <<>> \in Seq(Operators) /\ <<o>> \in Seq(Operators) /\ <<p, o>> \in Seq(Operators)
      /\ Len(<<>>) = 0 /\ Len(<<o>>) = 1 /\ Len(<<p, o>>) = 2
      /\ <<o>>[1] = o /\ <<p, o>>[1] = p /\ <<p, o>>[2] = o
  OBVIOUS
<1>3. Last(<<o>>) = o
  BY <1>2 DEF Last
<1>4. Stay(c, <<>>) /\ (c \notin Additive /\ o \in Additive => Stay(c, <<o>>))
  BY <1>1, <1>3 DEF Stay
<1>5. Go(c, <<>>)
  BY <1>2 DEF Go
<1>6. ~(c \notin Additive /\ o \in Additive) => Go(c, <<o>>)
  BY <1>1, <1>2 DEF Go
<1>7. c \in Additive => Go(c, <<p, o>>)
  BY <1>1, <1>2 DEF Go
<1> QED
  BY <1>2, <1>4, <1>5, <1>6, <1>7

LEMMA ScanAlone ==
    ASSUME NEW acc \in Accs, NEW c \in Operators, acc.ops = <<>>
    PROVE  Sets(Scan(acc, c), acc.result, <<c>>)
<1>1. PICK kept, popped : kept = <<>> /\ popped = <<>>
  OBVIOUS
<1>2. /\ kept \in Seq(Operators) /\ popped \in Seq(Operators)
      /\ Stay(c, kept) /\ Go(c, popped)
  BY <1>1, StayGo
<1>3. acc.ops = kept \o popped /\ acc.result \o Reverse(popped) = acc.result
  <2>1. acc.result \in Seq(Int)
    BY DEF Accs
  <2>2. popped = <<>> /\ Reverse(popped) = <<>>
    BY <1>1, ReverseShort, Zenon
  <2> QED
    <3>1. kept \o popped = kept /\ acc.result \o <<>> = acc.result
      BY <1>1, <1>2, <2>1, ConcatEmptySeq
    <3> QED
      BY <1>1, <2>2, <3>1, Zenon
<1>4. Append(kept, c) = <<c>>
  BY <1>1, AppendShort, Zenon
<1>5. Sets(Scan(acc, c), acc.result \o Reverse(popped), Append(kept, c))
  BY <1>2, <1>3, ScanPops
<1> QED
  BY <1>3, <1>4, <1>5, Zenon

LEMMA ScanAbove ==
    ASSUME NEW acc \in Accs, NEW c \in Operators, NEW o \in Operators, acc.ops = <<o>>,
           o \in Additive, c \notin Additive
    PROVE  Sets(Scan(acc, c), acc.result, <<o, c>>)
<1>1. PICK kept, popped : kept = <<o>> /\ popped = <<>>
  OBVIOUS
<1>2. /\ kept \in Seq(Operators) /\ popped \in Seq(Operators)
      /\ Stay(c, kept) /\ Go(c, popped)
  BY <1>1, StayGo
<1>3. acc.ops = kept \o popped /\ acc.result \o Reverse(popped) = acc.result
  <2>1. acc.result \in Seq(Int)
    BY DEF Accs
  <2>2. popped = <<>> /\ Reverse(popped) = <<>>
    BY <1>1, ReverseShort, Zenon
  <2> QED
    <3>1. kept \o popped = kept /\ acc.result \o <<>> = acc.result
      BY <1>1, <1>2, <2>1, ConcatEmptySeq
    <3> QED
      BY <1>1, <2>2, <3>1, Zenon
<1>4. Append(kept, c) = <<o, c>>
  BY <1>1, AppendShort, Zenon
<1>5. Sets(Scan(acc, c), acc.result \o Reverse(popped), Append(kept, c))
  BY <1>2, <1>3, ScanPops
<1> QED
  BY <1>3, <1>4, <1>5, Zenon

LEMMA ScanInstead ==
    ASSUME NEW acc \in Accs, NEW c \in Operators, NEW o \in Operators, acc.ops = <<o>>,
           ~(o \in Additive /\ c \notin Additive)
    PROVE  Sets(Scan(acc, c), Append(acc.result, o), <<c>>)
<1>1. PICK kept, popped : kept = <<>> /\ popped = <<o>>
  OBVIOUS
<1>2. /\ kept \in Seq(Operators) /\ popped \in Seq(Operators)
      /\ Stay(c, kept) /\ Go(c, popped)
  BY <1>1, StayGo
<1>3. acc.ops = kept \o popped /\ acc.result \o Reverse(popped) = Append(acc.result, o)
  <2>1. acc.result \in Seq(Int) /\ o \in Int
    BY OperatorIsItsByte DEF Accs
  <2>2. Reverse(popped) = popped
    BY <1>1, ReverseShort, Zenon
  <2>3. kept \o popped = popped
    BY <1>1, <1>2, ConcatEmptySeq
  <2>4. acc.result \o <<o>> = Append(acc.result, o)
    BY <2>1, ConcatShort
  <2> QED
    BY <1>1, <2>2, <2>3, <2>4, Zenon
<1>4. Append(kept, c) = <<c>>
  BY <1>1, AppendShort, Zenon
<1>5. Sets(Scan(acc, c), acc.result \o Reverse(popped), Append(kept, c))
  BY <1>2, <1>3, ScanPops
<1> QED
  BY <1>3, <1>4, <1>5, Zenon

LEMMA ScanInsteadAbove ==
    ASSUME NEW acc \in Accs, NEW c \in Operators, NEW p \in Operators, NEW o \in Operators,
           acc.ops = <<p, o>>, p \in Additive, o \notin Additive, c \notin Additive
    PROVE  Sets(Scan(acc, c), Append(acc.result, o), <<p, c>>)
<1>1. PICK kept, popped : kept = <<p>> /\ popped = <<o>>
  OBVIOUS
<1>2. /\ kept \in Seq(Operators) /\ popped \in Seq(Operators)
      /\ Stay(c, kept) /\ Go(c, popped)
  BY <1>1, StayGo
<1>3. acc.ops = kept \o popped /\ acc.result \o Reverse(popped) = Append(acc.result, o)
  <2>1. acc.result \in Seq(Int) /\ o \in Int
    BY OperatorIsItsByte DEF Accs
  <2>2. Reverse(popped) = popped
    BY <1>1, ReverseShort, Zenon
  <2>3. <<p>> \o <<o>> = Append(<<p>>, o)
    BY <1>1, <1>2, ConcatShort
  <2>4. acc.result \o <<o>> = Append(acc.result, o)
    BY <2>1, ConcatShort
  <2>5. Append(<<p>>, o) = <<p, o>>
    BY AppendShort, Zenon
  <2> QED
    BY <1>1, <2>2, <2>3, <2>4, <2>5, Zenon
<1>4. Append(kept, c) = <<p, c>>
  BY <1>1, AppendShort, Zenon
<1>5. Sets(Scan(acc, c), acc.result \o Reverse(popped), Append(kept, c))
  BY <1>2, <1>3, ScanPops
<1> QED
  BY <1>3, <1>4, <1>5, Zenon

LEMMA ScanInsteadOfBoth ==
    ASSUME NEW acc \in Accs, NEW c \in Operators, NEW p \in Operators, NEW o \in Operators,
           acc.ops = <<p, o>>, c \in Additive
    PROVE  Sets(Scan(acc, c), Append(Append(acc.result, o), p), <<c>>)
<1>1. PICK kept, popped : kept = <<>> /\ popped = <<p, o>>
  OBVIOUS
<1>2. /\ kept \in Seq(Operators) /\ popped \in Seq(Operators)
      /\ Stay(c, kept) /\ Go(c, popped)
  BY <1>1, StayGo
<1>3. /\ acc.ops = kept \o popped
      /\ acc.result \o Reverse(popped) = Append(Append(acc.result, o), p)
  <2>1. acc.result \in Seq(Int) /\ o \in Int /\ p \in Int
    BY OperatorIsItsByte DEF Accs
  <2>2. Reverse(popped) = <<o, p>>
    BY <1>1, ReverseShort, Zenon
  <2>3. kept \o popped = popped
    BY <1>1, <1>2, ConcatEmptySeq
  <2>4. acc.result \o <<o, p>> = Append(Append(acc.result, o), p)
    <3>1. Joins(acc.result, o, p)
      BY <2>1, ConcatTwo, Zenon
    <3> QED
      BY <3>1, Zenon DEF Joins
  <2> QED
    BY <1>1, <2>2, <2>3, <2>4, Zenon
<1>4. Append(kept, c) = <<c>>
  BY <1>1, AppendShort, Zenon
<1>5. Sets(Scan(acc, c), acc.result \o Reverse(popped), Append(kept, c))
  BY <1>2, <1>3, ScanPops
<1> QED
  BY <1>3, <1>4, <1>5, Zenon

(* A digit begins a number or continues the last token.                    *)
LEMMA ScanDigit ==
    ASSUME NEW acc \in Accs, NEW c, c \notin Operators
    PROVE  Scan(acc, c) =
               [result |-> IF acc.number THEN Append(Front(acc.result), Last(acc.result) * 10 + c - 48)
                           ELSE Append(acc.result, c - 48),
                ops |-> acc.ops, number |-> TRUE]
<1>1. acc = [result |-> acc.result, ops |-> acc.ops, number |-> acc.number]
  BY DEF Accs
<1> QED
  BY <1>1 DEF Scan

-----------------------------------------------------------------------------
(* What the tokens so far leave on the stack *)

(* The numbers that the postfix array can hold: the others end it or are   *)
(* taken for an operator.                                                  *)
NonZero == Int \ {0}
Fits(x) == x \in NonZero /\ x % 256 \notin Operators
Leaving(t, s) == t \in Seq(NonZero) /\ Yields(t, s) /\ Calm(t)

LEMMA NonZeroTokens ==
    ASSUME NEW t \in Seq(NonZero), NEW x \in NonZero
    PROVE  t \in Seq(Int) /\ Append(t, x) \in Seq(NonZero)
<1>1. NonZero \subseteq Int
  BY DEF NonZero
<1>2. Append(t, x) \in Seq(NonZero)
  BY AppendProperties
<1> QED
  BY <1>1, <1>2, SeqMonotonic

LEMMA LeavingNumber ==
    ASSUME NEW t, NEW s, Leaving(t, s), NEW x, Fits(x)
    PROVE  Leaving(Append(t, x), Append(s, x))
<1>1. /\ t \in Seq(NonZero) /\ Yields(t, s) /\ Calm(t)
      /\ x \in NonZero /\ x % 256 \notin Operators
  BY Zenon DEF Leaving, Fits
<1>2. t \in Seq(Int) /\ Append(t, x) \in Seq(NonZero) /\ x \in Int
  BY <1>1, NonZeroTokens DEF NonZero
<1>3. Yields(Append(t, x), Append(s, x))
  BY <1>1, <1>2, EvNumber, Zenon
<1>4. Calm(Append(t, x))
  <2>1. NoFault(Ev(t), x)
    BY <1>1, Zenon DEF NoFault, Faults, Operators
  <2> QED
    BY <1>1, <1>2, <2>1, CalmAppend, Zenon
<1> QED
  BY <1>2, <1>3, <1>4, Zenon DEF Leaving

LEMMA LeavingResult ==
    ASSUME NEW t, NEW s \in Seq(Int), NEW y \in Int, NEW x \in Int,
           Leaving(t, Append(Append(s, y), x)), NEW op \in Operators, op = Over => x # 0
    PROVE  Leaving(Append(t, op), Append(s, Meaning(op, y, x)))
<1>1. t \in Seq(NonZero) /\ Yields(t, Append(Append(s, y), x)) /\ Calm(t)
  BY Zenon DEF Leaving
<1>2. op \in NonZero
  BY OperatorIsItsByte DEF NonZero
<1>3. t \in Seq(Int) /\ Append(t, op) \in Seq(NonZero)
  BY <1>1, <1>2, NonZeroTokens
<1>4. Yields(Append(t, op), Append(s, Meaning(op, y, x)))
  BY <1>1, <1>3, EvOperator, Zenon
<1>5. Calm(Append(t, op))
  <2> DEFINE whole == Append(Append(s, y), x)
  <2>1. Pops(whole, x, Append(s, y))
    <3>1. Append(s, y) \in Seq(Int) /\ whole \in Seq(Int) /\ whole # <<>>
      BY AppendProperties
    <3> QED
      BY <3>1, FrontAndLastOfAppend DEF pop, Pops
  <2>2. \A a \in pop(whole) : a.x = x
    <3> HIDE DEF whole
    <3> QED
      BY <2>1 DEF Pops
  <2>3. ~Faults(op, x)
    BY OperatorIsItsByte DEF Faults
  <2> HIDE DEF whole
  <2>4. Ev(t) = {whole}
    BY <1>1, Zenon DEF Yields, whole
  <2>5. NoFault(Ev(t), op)
    BY <2>2, <2>3, <2>4, Zenon DEF NoFault
  <2>6. op \in Int
    BY OperatorIsItsByte, Zenon
  <2> QED
    BY <1>1, <1>3, <2>5, <2>6, CalmAppend, Zenon
<1> QED
  BY <1>3, <1>4, <1>5, Zenon DEF Leaving

(* The stacks are stacks of integers.                                      *)
LEMMA LeavingTyped ==
    ASSUME NEW t, NEW s, Leaving(t, s)
    PROVE  s \in Seq(Int)
<1>1. t \in Seq(NonZero) /\ Yields(t, s)
  BY Zenon DEF Leaving
<1>2. 1 \in NonZero
  BY DEF NonZero
<1>3. t \in Seq(Int)
  BY <1>1, <1>2, NonZeroTokens
<1> QED
  BY <1>1, <1>3, EvTyped, Zenon DEF Yields

LEMMA LeavingOne ==
    ASSUME NEW t, NEW y, Leaving(t, <<y>>), NEW x, Fits(x), NEW op \in Operators
    PROVE  Leaving(Append(Append(t, x), op), <<Meaning(op, y, x)>>)
<1>1. <<y>> \in Seq(Int)
  BY LeavingTyped
<1>2. y \in Int /\ x \in Int /\ x # 0 /\ <<>> \in Seq(Int)
  BY <1>1 DEF Fits, NonZero
<1>3. Leaving(Append(t, x), Append(Append(<<>>, y), x))
  <2>1. Leaving(Append(t, x), Append(<<y>>, x))
    BY LeavingNumber, Zenon
  <2> QED
    BY <2>1, AppendShort, Zenon
<1>4. Leaving(Append(Append(t, x), op), Append(<<>>, Meaning(op, y, x)))
  BY <1>2, <1>3, LeavingResult, Zenon
<1> QED
  BY <1>4, AppendShort, Zenon

LEMMA LeavingTwo ==
    ASSUME NEW t, NEW z, NEW y, Leaving(t, <<z, y>>), NEW x, Fits(x), NEW op \in Operators
    PROVE  Leaving(Append(Append(t, x), op), <<z, Meaning(op, y, x)>>)
<1>1. <<z, y>> \in Seq(Int)
  BY LeavingTyped
<1>2. z \in Int /\ y \in Int /\ x \in Int /\ x # 0 /\ <<z>> \in Seq(Int)
  <2>1. Len(<<z, y>>) = 2 /\ <<z, y>>[1] = z /\ <<z, y>>[2] = y
    OBVIOUS
  <2>2. z \in Int /\ y \in Int
    BY <1>1, <2>1, ElementOfSeq
  <2> QED
    BY <2>2 DEF Fits, NonZero
<1>3. Leaving(Append(t, x), Append(Append(<<z>>, y), x))
  <2>1. Leaving(Append(t, x), Append(<<z, y>>, x))
    BY LeavingNumber, Zenon
  <2> QED
    BY <2>1, AppendShort, Zenon
<1>4. Leaving(Append(Append(t, x), op), Append(<<z>>, Meaning(op, y, x)))
  BY <1>2, <1>3, LeavingResult, Zenon
<1> QED
  BY <1>4, AppendShort, Zenon

LEMMA LeavingBoth ==
    ASSUME NEW t, NEW z, NEW y, Leaving(t, <<z, y>>), NEW x, Fits(x),
           NEW op \in Operators, NEW p \in Additive
    PROVE  Leaving(Append(Append(Append(t, x), op), p),
                   <<Meaning(p, z, Meaning(op, y, x))>>)
<1>1. PICK v : v = Meaning(op, y, x)
  OBVIOUS
<1>2. PICK u : u = Append(Append(t, x), op)
  OBVIOUS
<1>3. Leaving(u, <<z, v>>)
  BY <1>1, <1>2, LeavingTwo, Zenon
<1>4. <<z, v>> \in Seq(Int)
  BY <1>3, LeavingTyped, Zenon
<1>5. z \in Int /\ v \in Int /\ <<>> \in Seq(Int)
  <2>1. Len(<<z, v>>) = 2 /\ <<z, v>>[1] = z /\ <<z, v>>[2] = v
    OBVIOUS
  <2> QED
    BY <1>4, <2>1, ElementOfSeq
<1>6. p \in Operators /\ p # Over
  BY DEF Additive, Operators, Plus, Minus, Times, Over
<1>7. Leaving(u, Append(Append(<<>>, z), v))
  BY <1>3, AppendShort, Zenon
<1>8. Leaving(Append(u, p), Append(<<>>, Meaning(p, z, v)))
  BY <1>5, <1>6, <1>7, LeavingResult, Zenon
<1> QED
  BY <1>1, <1>2, <1>8, AppendShort, Zenon

-----------------------------------------------------------------------------
(* The value of a part, by its form *)

LEMMA ValueOperand ==
    ASSUME NEW e \in Seq(Codes), NEW lo \in 1..Len(e) + 1, NEW hi \in 0..Len(e),
           NoOperator(e, lo, hi)
    PROVE  ValueOf(e, lo, hi) = Number(e)[hi]
BY ValueEquation, Zenon DEF ValueStep

LEMMA ValueSplit ==
    ASSUME NEW e \in Seq(Codes), NEW lo \in 1..Len(e) + 1, NEW hi \in 0..Len(e),
           NEW b \in lo..hi, e[b] \in Operators,
           (e[b] \in Additive /\ NoAdditive(e, b + 1, hi))
               \/ (NoAdditive(e, lo, hi) /\ NoOperator(e, b + 1, hi))
    PROVE  ValueOf(e, lo, hi) = Meaning(e[b], ValueOf(e, lo, b - 1), ValueOf(e, b + 1, hi))
<1>1. Len(e) \in Nat
  BY LenProperties
<1>2. Split(e, lo, hi) = b
  BY <1>1, SplitUnique, Zenon
<1>3. ~NoOperator(e, lo, hi)
  BY Zenon DEF NoOperator
<1> QED
  BY <1>2, <1>3, ValueEquation, Zenon DEF ValueStep, ValueOf

-----------------------------------------------------------------------------
(* The state of the scan after e[1..k] *)

(* R holds the tokens before the number in progress, if there is one, and  *)
(* e[b] is the last operator, or b is 0.                                   *)
Reading(e, k, acc, R, b) ==
    /\ b \in 0..k
    /\ NoOperator(e, b + 1, k)
    /\ IF k > b THEN acc.number /\ acc.result = Append(R, Number(e)[k])
                ELSE ~acc.number /\ acc.result = R

(* No operator waits.                                                      *)
NoneWaits(acc, R, b) == b = 0 /\ acc.ops = <<>> /\ Leaving(R, <<>>)

(* One does, for the operand after it.                                     *)
OneWaits(e, acc, R, b) ==
    /\ b > 0 /\ e[b] \in Operators
    /\ e[b] \in Additive \/ NoAdditive(e, 1, b)
    /\ acc.ops = <<e[b]>>
    /\ Leaving(R, <<ValueOf(e, 1, b - 1)>>)

(* Two do, and the first of them for the term that the second is part of.  *)
TwoWait(e, acc, R, s, b) ==
    /\ s \in 1..b - 1 /\ e[s] \in Additive
    /\ e[b] \in Operators /\ NoAdditive(e, s + 1, b)
    /\ acc.ops = <<e[s], e[b]>>
    /\ Leaving(R, <<ValueOf(e, 1, s - 1), ValueOf(e, s + 1, b - 1)>>)

Waiting(e, acc, R, b) ==
    \/ NoneWaits(acc, R, b)
    \/ OneWaits(e, acc, R, b)
    \/ \E s \in 1..b - 1 : TwoWait(e, acc, R, s, b)

ScanInv(e, k, acc) == \E R, b : Reading(e, k, acc, R, b) /\ Waiting(e, acc, R, b)

(* An operand ends where an operator follows or the expression ends.       *)
LEMMA OperandFits ==
    ASSUME NEW e \in Seq(Codes), Plain(e), NEW k \in 0..Len(e),
           k = Len(e) \/ (k + 1 \in 1..Len(e) /\ e[k + 1] \in Operators)
    PROVE  k \in 1..Len(e) /\ e[k] \notin Operators /\ Fits(Number(e)[k])
<1>1. PICK n \in Nat : n = Len(e) /\ DOMAIN e = 1..n /\ (e = <<>> <=> n = 0)
  BY LenProperties, EmptySeq
<1>2. /\ n # 0
      /\ \A i \in 1..n : e[i] \in Operators => i # 1 /\ i # n /\ e[i + 1] \notin Operators
      /\ \A x \in Operands(e) : x # 0 /\ x % 256 \notin Operators
  BY <1>1 DEF Plain, WellFormed
<1>3. k \in 1..n
  BY <1>1, <1>2
<1>4. e[k] \notin Operators
  BY <1>1, <1>2, <1>3
<1>5. Number(e)[k] \in Operands(e)
  <2>1. k \in DOMAIN e /\ e[k] \notin Operators /\ (k = Len(e) \/ e[k + 1] \in Operators)
    BY <1>1, <1>3, <1>4
  <2> QED
    BY <2>1, Zenon DEF Operands
<1>6. Number(e)[k] \in Int
  BY NumberIsFold, Zenon
<1> QED
  BY <1>1, <1>2, <1>3, <1>4, <1>5, <1>6 DEF Fits, NonZero

(* With the operand e[b + 1..k] and the operators that wait, the tokens    *)
(* leave the value of the expression so far.                               *)
LEMMA NoneWaitedFor ==
    ASSUME NEW e \in Seq(Codes), NEW k \in 1..Len(e), NEW acc, NEW R, NEW b,
           Reading(e, k, acc, R, b), NoneWaits(acc, R, b), Fits(Number(e)[k])
    PROVE  Leaving(Append(R, Number(e)[k]), <<ValueOf(e, 1, k)>>)
<1>1. Leaving(Append(R, Number(e)[k]), Append(<<>>, Number(e)[k]))
  BY LeavingNumber, Zenon DEF NoneWaits
<1>2. ValueOf(e, 1, k) = Number(e)[k]
  <2>1. NoOperator(e, 1, k) /\ 1 \in 1..Len(e) + 1 /\ k \in 0..Len(e)
    BY LenProperties DEF Reading, NoneWaits
  <2> QED
    BY <2>1, ValueOperand, Zenon
<1> QED
  BY <1>1, <1>2, AppendShort, Zenon

LEMMA OneWaitedFor ==
    ASSUME NEW e \in Seq(Codes), NEW k \in 1..Len(e), NEW acc, NEW R, NEW b,
           Reading(e, k, acc, R, b), OneWaits(e, acc, R, b), Fits(Number(e)[k]), k > b
    PROVE  Leaving(Append(Append(R, Number(e)[k]), e[b]), <<ValueOf(e, 1, k)>>)
<1>0. /\ b \in 1..k /\ e[b] \in Operators /\ NoOperator(e, b + 1, k)
      /\ e[b] \in Additive \/ NoAdditive(e, 1, b)
      /\ Leaving(R, <<ValueOf(e, 1, b - 1)>>)
  BY DEF Reading, OneWaits
<1>1. /\ 1 \in 1..Len(e) + 1 /\ k \in 0..Len(e) /\ b \in 1..k
      /\ b + 1 \in 1..Len(e) + 1
  BY <1>0, LenProperties
<1>2. ValueOf(e, b + 1, k) = Number(e)[k]
  BY <1>0, <1>1, ValueOperand
<1>3. \/ e[b] \in Additive /\ NoAdditive(e, b + 1, k)
      \/ NoAdditive(e, 1, k) /\ NoOperator(e, b + 1, k)
  BY <1>0 DEF NoAdditive, NoOperator, Additive, Operators
<1>4. ValueOf(e, 1, k) = Meaning(e[b], ValueOf(e, 1, b - 1), ValueOf(e, b + 1, k))
  BY <1>0, <1>1, <1>3, ValueSplit
<1>5. Leaving(Append(Append(R, Number(e)[k]), e[b]),
              <<Meaning(e[b], ValueOf(e, 1, b - 1), Number(e)[k])>>)
  BY <1>0, LeavingOne, Zenon
<1> QED
  BY <1>2, <1>4, <1>5, Zenon

LEMMA TwoWaitedFor ==
    ASSUME NEW e \in Seq(Codes), NEW k \in 1..Len(e), NEW acc, NEW R, NEW b, NEW s,
           Reading(e, k, acc, R, b), TwoWait(e, acc, R, s, b), Fits(Number(e)[k]), k > b
    PROVE  /\ Leaving(Append(Append(R, Number(e)[k]), e[b]),
                      <<ValueOf(e, 1, s - 1), ValueOf(e, s + 1, k)>>)
           /\ Leaving(Append(Append(Append(R, Number(e)[k]), e[b]), e[s]),
                      <<ValueOf(e, 1, k)>>)
<1>0. /\ b \in 1..k /\ s \in 1..b - 1 /\ e[s] \in Additive /\ e[b] \in Operators
      /\ NoOperator(e, b + 1, k) /\ NoAdditive(e, s + 1, b)
      /\ Leaving(R, <<ValueOf(e, 1, s - 1), ValueOf(e, s + 1, b - 1)>>)
  BY DEF Reading, TwoWait
<1>1. /\ 1 \in 1..Len(e) + 1 /\ k \in 0..Len(e) /\ s \in 1..k /\ b \in s + 1..k
      /\ b + 1 \in 1..Len(e) + 1 /\ s + 1 \in 1..Len(e) + 1
  BY <1>0, LenProperties
<1>2. ValueOf(e, b + 1, k) = Number(e)[k]
  BY <1>0, <1>1, ValueOperand
<1>3. NoAdditive(e, s + 1, k) /\ e[s] \in Operators
  BY <1>0 DEF NoAdditive, NoOperator, Additive, Operators
<1>4. ValueOf(e, s + 1, k) = Meaning(e[b], ValueOf(e, s + 1, b - 1), ValueOf(e, b + 1, k))
  BY <1>0, <1>1, <1>3, ValueSplit
<1>5. ValueOf(e, 1, k) = Meaning(e[s], ValueOf(e, 1, s - 1), ValueOf(e, s + 1, k))
  BY <1>0, <1>1, <1>3, ValueSplit
<1>6. Leaving(Append(Append(R, Number(e)[k]), e[b]),
              <<ValueOf(e, 1, s - 1), Meaning(e[b], ValueOf(e, s + 1, b - 1), Number(e)[k])>>)
  BY <1>0, LeavingTwo, Zenon
<1>7. Leaving(Append(Append(Append(R, Number(e)[k]), e[b]), e[s]),
              <<Meaning(e[s], ValueOf(e, 1, s - 1),
                        Meaning(e[b], ValueOf(e, s + 1, b - 1), Number(e)[k]))>>)
  BY <1>0, LeavingBoth, Zenon
<1> QED
  BY <1>2, <1>4, <1>5, <1>6, <1>7, Zenon

LEMMA DigitKeepsScanInv ==
    ASSUME NEW e \in Seq(Codes), NEW k \in 0..Len(e) - 1, e[k + 1] \notin Operators,
           NEW acc \in Accs, ScanInv(e, k, acc)
    PROVE  ScanInv(e, k + 1, Scan(acc, e[k + 1]))
<1>1. PICK R, b : Reading(e, k, acc, R, b) /\ Waiting(e, acc, R, b)
  BY DEF ScanInv
<1>2. PICK c : c = e[k + 1]
  OBVIOUS
<1>3. PICK next : next = Scan(acc, c)
  OBVIOUS
<1>4. next = [result |-> IF acc.number THEN Append(Front(acc.result), Last(acc.result) * 10 + c - 48)
                         ELSE Append(acc.result, c - 48),
              ops |-> acc.ops, number |-> TRUE]
  BY <1>2, <1>3, ScanDigit, Zenon
<1>5. PICK l \in Nat : l = Len(e) /\ \A i \in 1..l : e[i] \in Codes
  BY LenProperties, ElementOfSeq
<1>6. PICK f : /\ f = Number(e) /\ f[0] = 0 /\ \A i \in 0..l : f[i] \in Int
               /\ \A i \in 1..l : f[i] = IF e[i] \in Operators THEN 0 ELSE f[i - 1] * 10 + (e[i] - 48)
  BY <1>5, NumberIsFold
<1>7. k \in 0..l - 1 /\ k + 1 \in 1..l
  BY <1>5
<1>8. c \in Int /\ c \notin Operators
  BY <1>2, <1>5, <1>7 DEF Codes
<1>9. f[k + 1] = f[k] * 10 + (c - 48) /\ f[k] \in Int
  BY <1>2, <1>6, <1>7, <1>8
<1>10. b \in 0..k /\ NoOperator(e, b + 1, k)
  BY <1>1 DEF Reading
<1>11. b \in 0..k + 1 /\ NoOperator(e, b + 1, k + 1)
  BY <1>2, <1>7, <1>8, <1>10 DEF NoOperator
<1>12. next.number /\ next.result = Append(R, f[k + 1])
  <2>1. CASE k > b
    <3>1. acc.number /\ acc.result = Append(R, f[k])
      BY <1>1, <1>6, <2>1, Zenon DEF Reading
    <3>2. Front(acc.result) = R /\ Last(acc.result) = f[k]
      <4>1. acc.result \in Seq(Int)
        BY DEF Accs
      <4>2. R \in Seq(Int)
        <5>1. R \in Seq(NonZero)
          BY <1>1, Zenon DEF Waiting, NoneWaits, OneWaits, TwoWait, Leaving
        <5>2. NonZero \subseteq Int
          BY DEF NonZero
        <5> QED
          BY <5>1, <5>2, SeqMonotonic
      <4> QED
        BY <1>9, <3>1, <4>2, FrontAndLastOfAppend
    <3>3. f[k] * 10 + c - 48 = f[k + 1]
      BY <1>8, <1>9
    <3> QED
      BY <1>4, <3>1, <3>2, <3>3
  <2>2. CASE ~(k > b)
    <3>1. k = b
      BY <1>7, <1>10, <2>2
    <3>2. f[k] = 0
      <4>1. b = 0 \/ e[b] \in Operators
        BY <1>1, Zenon DEF Waiting, NoneWaits, OneWaits, TwoWait
      <4>2. k = 0 \/ k \in 1..l
        BY <1>7
      <4> QED
        BY <1>6, <3>1, <4>1, <4>2
    <3>3. f[k + 1] = c - 48
      BY <1>8, <1>9, <3>2
    <3>4. ~acc.number /\ acc.result = R
      BY <1>1, <2>2, Zenon DEF Reading
    <3> QED
      BY <1>4, <3>3, <3>4
  <2> QED
    BY <2>1, <2>2
<1>13. Reading(e, k + 1, next, R, b)
  <2>1. k + 1 > b
    BY <1>7, <1>10
  <2> QED
    BY <1>6, <1>11, <1>12, <2>1, Zenon DEF Reading
<1>14. Waiting(e, next, R, b)
  <2>1. next.ops = acc.ops
    BY <1>4
  <2> QED
    BY <1>1, <2>1, Zenon DEF Waiting, NoneWaits, OneWaits, TwoWait
<1> QED
  BY <1>2, <1>3, <1>13, <1>14, Zenon DEF ScanInv

(* The operator just read waits, with R as the tokens so far.              *)
LEMMA OperatorRead ==
    ASSUME NEW e \in Seq(Codes), NEW k \in 0..Len(e) - 1, NEW R, NEW ops, NEW next, Sets(next, R, ops)
    PROVE  Reading(e, k + 1, next, R, k + 1) /\ next.ops = ops
<1>1. k + 1 \in 0..k + 1 /\ NoOperator(e, k + 1 + 1, k + 1) /\ ~(k + 1 > k + 1)
  BY LenProperties DEF NoOperator
<1> QED
  BY <1>1, Zenon DEF Reading, Sets

LEMMA NoneWaitedStep ==
    ASSUME NEW e \in Seq(Codes), NEW k \in 1..Len(e) - 1, e[k + 1] \in Operators,
           NEW acc \in Accs, NEW R, NEW b, Reading(e, k, acc, R, b), NoneWaits(acc, R, b),
           k > b, Fits(Number(e)[k])
    PROVE  ScanInv(e, k + 1, Scan(acc, e[k + 1]))
<1> DEFINE T == Append(R, Number(e)[k])
<1>1. PICK c, next : c = e[k + 1] /\ c \in Operators /\ next = Scan(acc, c)
  OBVIOUS
<1>2. k \in 1..Len(e) /\ k \in 0..Len(e) - 1 /\ k + 1 > 0 /\ (k + 1) - 1 = k
  BY LenProperties
<1>3. k + 1 > 0
  BY <1>2
<1>4. acc.ops = <<>> /\ acc.result = T
  BY Zenon DEF Reading, NoneWaits
<1>5. Sets(next, T, <<c>>)
  BY <1>1, <1>4, ScanAlone, Zenon
<1>6. Reading(e, k + 1, next, T, k + 1) /\ next.ops = <<c>>
  <2> HIDE DEF T
  <2> QED
    BY <1>2, <1>5, OperatorRead, Zenon
<1>7. Leaving(T, <<ValueOf(e, 1, (k + 1) - 1)>>)
  BY <1>2, NoneWaitedFor, Zenon
<1>8. e[k + 1] \in Additive \/ NoAdditive(e, 1, k + 1)
  BY <1>2 DEF Reading, NoneWaits, NoOperator, NoAdditive, Additive, Operators
<1>9. OneWaits(e, next, T, k + 1)
  <2> HIDE DEF T
  <2> QED
    BY <1>1, <1>3, <1>6, <1>7, <1>8, Zenon DEF OneWaits
<1> QED
  BY <1>1, <1>6, <1>9, Zenon DEF ScanInv, Waiting

LEMMA OneWaitedStep ==
    ASSUME NEW e \in Seq(Codes), NEW k \in 1..Len(e) - 1, e[k + 1] \in Operators,
           NEW acc \in Accs, NEW R, NEW b, Reading(e, k, acc, R, b), OneWaits(e, acc, R, b),
           k > b, Fits(Number(e)[k])
    PROVE  ScanInv(e, k + 1, Scan(acc, e[k + 1]))
<1> DEFINE T == Append(R, Number(e)[k])
<1>1. PICK c, next : c = e[k + 1] /\ c \in Operators /\ next = Scan(acc, c)
  OBVIOUS
<1>2. /\ k \in 1..Len(e) /\ k \in 0..Len(e) - 1 /\ k + 1 > 0 /\ (k + 1) - 1 = k
      /\ b \in 1..k
  BY LenProperties DEF Reading, OneWaits
<1>3. k + 1 > 0
  BY <1>2
<1>4. PICK o : o = e[b] /\ o \in Operators
  BY Zenon DEF OneWaits
<1>5. /\ acc.ops = <<o>> /\ acc.result = T /\ NoOperator(e, b + 1, k)
      /\ o \in Additive \/ NoAdditive(e, 1, b)
  BY <1>4, Zenon DEF Reading, OneWaits
<1>6. CASE o \in Additive /\ c \notin Additive
  <2>1. Sets(next, T, <<o, c>>)
    BY <1>1, <1>4, <1>5, <1>6, ScanAbove, Zenon
  <2>2. Reading(e, k + 1, next, T, k + 1) /\ next.ops = <<o, c>>
    <3> HIDE DEF T
    <3> QED
      BY <1>2, <2>1, OperatorRead, Zenon
  <2>3. Leaving(T, <<ValueOf(e, 1, b - 1), Number(e)[k]>>)
    <3>1. Leaving(R, <<ValueOf(e, 1, b - 1)>>)
      BY Zenon DEF OneWaits
    <3>2. Leaving(T, Append(<<ValueOf(e, 1, b - 1)>>, Number(e)[k]))
      BY <3>1, LeavingNumber, Zenon
    <3> QED
      BY <3>2, AppendShort, Zenon
  <2>4. ValueOf(e, b + 1, (k + 1) - 1) = Number(e)[k]
    <3>1. b + 1 \in 1..Len(e) + 1 /\ k \in 0..Len(e)
      BY <1>2, LenProperties
    <3> QED
      BY <1>2, <1>5, <3>1, ValueOperand, Zenon
  <2>5. NoAdditive(e, b + 1, k + 1)
    BY <1>1, <1>2, <1>5, <1>6 DEF NoOperator, NoAdditive, Additive, Operators
  <2>6. b \in 1..(k + 1) - 1
    BY <1>2
  <2>7. TwoWait(e, next, T, b, k + 1)
    <3> HIDE DEF T
    <3> QED
      BY <1>1, <1>4, <1>6, <2>2, <2>3, <2>4, <2>5, <2>6, Zenon DEF TwoWait
  <2> QED
    <3>1. Waiting(e, next, T, k + 1)
      BY <2>6, <2>7, Zenon DEF Waiting
    <3> QED
      BY <1>1, <2>2, <3>1, Zenon DEF ScanInv
<1>7. CASE ~(o \in Additive /\ c \notin Additive)
  <2> DEFINE U == Append(T, o)
  <2>1. Sets(next, U, <<c>>)
    BY <1>1, <1>4, <1>5, <1>7, ScanInstead, Zenon
  <2>2. Reading(e, k + 1, next, U, k + 1) /\ next.ops = <<c>>
    <3> HIDE DEF U
    <3> QED
      BY <1>2, <2>1, OperatorRead, Zenon
  <2>3. Leaving(U, <<ValueOf(e, 1, (k + 1) - 1)>>)
    BY <1>2, <1>4, OneWaitedFor, Zenon
  <2>4. e[k + 1] \in Additive \/ NoAdditive(e, 1, k + 1)
    <3>1. Additive \subseteq Operators
      BY DEF Additive, Operators
    <3> SUFFICES ASSUME c \notin Additive, NEW i \in 1..k + 1
                 PROVE  e[i] \notin Additive
      BY <1>1 DEF NoAdditive
    <3>2. i \in 1..b \/ i \in b + 1..k \/ i = k + 1
      BY <1>2
    <3>3. NoAdditive(e, 1, b)
      BY <1>5, <1>7
    <3> QED
      BY <1>1, <1>5, <3>1, <3>2, <3>3 DEF NoOperator, NoAdditive
  <2>5. OneWaits(e, next, U, k + 1)
    <3> HIDE DEF U
    <3> QED
      BY <1>1, <1>3, <2>2, <2>3, <2>4, Zenon DEF OneWaits
  <2> QED
    BY <1>1, <2>2, <2>5, Zenon DEF ScanInv, Waiting
<1> QED
  BY <1>6, <1>7

LEMMA TwoWaitedStep ==
    ASSUME NEW e \in Seq(Codes), NEW k \in 1..Len(e) - 1, e[k + 1] \in Operators,
           NEW acc \in Accs, NEW R, NEW b, Reading(e, k, acc, R, b),
           NEW s, TwoWait(e, acc, R, s, b), k > b, Fits(Number(e)[k])
    PROVE  ScanInv(e, k + 1, Scan(acc, e[k + 1]))
<1> DEFINE T == Append(R, Number(e)[k])
<1>1. PICK c, next : c = e[k + 1] /\ c \in Operators /\ next = Scan(acc, c)
  OBVIOUS
<1>2. /\ k \in 1..Len(e) /\ k \in 0..Len(e) - 1 /\ k + 1 > 0 /\ (k + 1) - 1 = k
      /\ b \in 1..k /\ s \in 1..b - 1
  BY LenProperties DEF Reading, TwoWait
<1>3. k + 1 > 0
  BY <1>2
<1>4. PICK o, p : o = e[b] /\ o \in Operators /\ p = e[s] /\ p \in Additive
  BY Zenon DEF TwoWait
<1>5. /\ acc.ops = <<p, o>> /\ acc.result = T /\ NoOperator(e, b + 1, k)
      /\ NoAdditive(e, s + 1, b)
  BY <1>4, Zenon DEF Reading, TwoWait
<1>6. o \notin Additive /\ p \in Operators
  BY <1>2, <1>4, <1>5 DEF NoAdditive, Additive, Operators
<1> DEFINE U == Append(T, o)
           V == Append(U, p)
<1>7. /\ Leaving(U, <<ValueOf(e, 1, s - 1), ValueOf(e, s + 1, (k + 1) - 1)>>)
      /\ Leaving(V, <<ValueOf(e, 1, (k + 1) - 1)>>)
  BY <1>2, <1>4, TwoWaitedFor, Zenon
<1>8. CASE c \notin Additive
  <2>1. Sets(next, U, <<p, c>>)
    BY <1>1, <1>4, <1>5, <1>6, <1>8, ScanInsteadAbove, Zenon
  <2>2. Reading(e, k + 1, next, U, k + 1) /\ next.ops = <<p, c>>
    <3> HIDE DEF U
    <3> QED
      BY <1>2, <2>1, OperatorRead, Zenon
  <2>3. NoAdditive(e, s + 1, k + 1)
    BY <1>1, <1>2, <1>5, <1>8 DEF NoOperator, NoAdditive, Additive, Operators
  <2>4. s \in 1..(k + 1) - 1
    BY <1>2
  <2>5. TwoWait(e, next, U, s, k + 1)
    <3> HIDE DEF U
    <3> QED
      BY <1>1, <1>4, <1>7, <2>2, <2>3, <2>4, Zenon DEF TwoWait
  <2> QED
    <3>1. Waiting(e, next, U, k + 1)
      BY <2>4, <2>5, Zenon DEF Waiting
    <3> QED
      BY <1>1, <2>2, <3>1, Zenon DEF ScanInv
<1>9. CASE c \in Additive
  <2>1. Sets(next, V, <<c>>)
    BY <1>1, <1>5, <1>4, <1>6, <1>9, ScanInsteadOfBoth, Zenon
  <2>2. Reading(e, k + 1, next, V, k + 1) /\ next.ops = <<c>>
    <3> HIDE DEF V
    <3> QED
      BY <1>2, <2>1, OperatorRead, Zenon
  <2>3. OneWaits(e, next, V, k + 1)
    <3> HIDE DEF V
    <3> QED
      BY <1>1, <1>3, <1>7, <1>9, <2>2, Zenon DEF OneWaits
  <2> QED
    BY <1>1, <2>2, <2>3, Zenon DEF ScanInv, Waiting
<1> QED
  BY <1>8, <1>9

LEMMA ScanInvStep ==
    ASSUME NEW e \in Seq(Codes), Plain(e), NEW k \in 0..Len(e) - 1,
           NEW acc \in Accs, ScanInv(e, k, acc)
    PROVE  ScanInv(e, k + 1, Scan(acc, e[k + 1]))
<1>1. CASE e[k + 1] \notin Operators
  BY <1>1, DigitKeepsScanInv, Zenon
<1>2. CASE e[k + 1] \in Operators
  <2>1. k \in 0..Len(e) /\ k + 1 \in 1..Len(e)
    BY LenProperties
  <2>2. k \in 1..Len(e) /\ e[k] \notin Operators /\ Fits(Number(e)[k])
    BY <1>2, <2>1, OperandFits, Zenon
  <2>3. k \in 1..Len(e) - 1
    BY <2>2
  <2>4. PICK R, b : Reading(e, k, acc, R, b) /\ Waiting(e, acc, R, b)
    BY Zenon DEF ScanInv
  <2>5. b \in 0..k
    BY <2>4, Zenon DEF Reading
  <2>6. CASE NoneWaits(acc, R, b)
    <3>1. k > b
      BY <2>3, <2>6 DEF NoneWaits
    <3> QED
      BY <1>2, <2>2, <2>3, <2>4, <2>6, <3>1, NoneWaitedStep, Zenon
  <2>7. ~NoneWaits(acc, R, b) => k > b
    <3>1. ~NoneWaits(acc, R, b) => e[b] \in Operators
      BY <2>4, Zenon DEF Waiting, OneWaits, TwoWait
    <3>2. k # b => k > b
      BY <2>3, <2>5
    <3> QED
      BY <2>2, <3>1, <3>2, Zenon
  <2>8. CASE OneWaits(e, acc, R, b) /\ ~NoneWaits(acc, R, b)
    BY <1>2, <2>2, <2>3, <2>4, <2>7, <2>8, OneWaitedStep, Zenon
  <2>9. CASE ~NoneWaits(acc, R, b) /\ \E s \in 1..b - 1 : TwoWait(e, acc, R, s, b)
    BY <1>2, <2>2, <2>3, <2>4, <2>7, <2>9, TwoWaitedStep, Zenon
  <2> QED
    BY <2>4, <2>6, <2>8, <2>9, Zenon DEF Waiting
<1> QED
  BY <1>1, <1>2, Zenon

LEMMA ScanInvAtEnd ==
    ASSUME NEW e \in Seq(Codes), Plain(e)
    PROVE  ScanInv(e, Len(e), Scanned(e)[Len(e)])
<1>1. PICK n \in Nat : n = Len(e)
  BY LenProperties, Zenon
<1>2. PICK f : f = Scanned(e)
  OBVIOUS
<1>3. /\ f[0] = Start /\ \A k \in 1..n : f[k] = Scan(f[k - 1], e[k])
      /\ \A k \in 0..n : f[k] \in Accs
  BY <1>1, <1>2, ScannedIsFold, Zenon
<1> DEFINE T == {k \in Nat : k <= n => ScanInv(e, k, f[k])}
<1>4. 0 \in T
  <2>1. Leaving(<<>>, <<>>)
    BY EvEmpty, CalmEmpty, EmptySeq, Zenon DEF Leaving, Yields
  <2>2. NoneWaits(Start, <<>>, 0)
    <3>1. Start.ops = <<>>
      BY DEF Start
    <3> QED
      BY <2>1, <3>1, Zenon DEF NoneWaits
  <2>3. Reading(e, 0, Start, <<>>, 0)
    <3>1. Start.result = <<>> /\ ~Start.number
      BY DEF Start
    <3>2. 0 \in 0..0 /\ ~(0 > 0) /\ NoOperator(e, 0 + 1, 0)
      BY DEF NoOperator
    <3> QED
      BY <3>1, <3>2, Zenon DEF Reading
  <2>4. ScanInv(e, 0, f[0])
    BY <1>3, <2>2, <2>3, Zenon DEF ScanInv, Waiting
  <2> QED
    BY <2>4
<1>5. ASSUME NEW k \in Nat, k \in T
      PROVE  k + 1 \in T
  <2> SUFFICES ASSUME k + 1 <= n
               PROVE  ScanInv(e, k + 1, f[k + 1])
    OBVIOUS
  <2>1. k \in 0..Len(e) - 1 /\ k + 1 \in 1..n /\ k \in 0..n /\ (k + 1) - 1 = k
    BY <1>1
  <2>2. ScanInv(e, k, f[k]) /\ f[k] \in Accs /\ f[k + 1] = Scan(f[k], e[k + 1])
    BY <1>3, <1>5, <2>1
  <2> QED
    BY <2>1, <2>2, ScanInvStep, Zenon
<1>6. Nat \subseteq T
  <2> HIDE DEF T
  <2> QED
    BY <1>4, <1>5, Induction
<1>7. ScanInv(e, n, f[n])
  BY <1>6
<1> QED
  BY <1>1, <1>2, <1>7, Zenon

(* The postfix form holds no 0, and evaluating it leaves one number, the   *)
(* value of the expression.                                                *)
LEMMA PostfixLeaves ==
    ASSUME NEW e \in Seq(Codes), Plain(e)
    PROVE  Leaving(Postfix(e), <<Reference(e)>>)
<1>1. PICK n \in Nat : n = Len(e) /\ n \in 0..Len(e)
  BY LenProperties
<1>2. PICK acc : acc = Scanned(e)[n]
  OBVIOUS
<1>3. PICK R, b : Reading(e, n, acc, R, b) /\ Waiting(e, acc, R, b)
  BY <1>1, <1>2, ScanInvAtEnd, Zenon DEF ScanInv
<1>4. n \in 1..Len(e) /\ e[n] \notin Operators /\ Fits(Number(e)[n])
  BY <1>1, OperandFits, Zenon
<1>5. n > b
  <2>1. b = 0 \/ e[b] \in Operators
    BY <1>3, Zenon DEF Waiting, NoneWaits, OneWaits, TwoWait
  <2>2. b \in 0..n
    BY <1>3, Zenon DEF Reading
  <2> QED
    BY <1>1, <1>4, <2>1, <2>2
<1> DEFINE T == Append(R, Number(e)[n])
<1>6. acc.result = T
  BY <1>3, <1>5, Zenon DEF Reading
<1>7. T \in Seq(Int)
  <2>1. acc \in Accs
    BY <1>1, <1>2, ScannedIsFold, Zenon
  <2>2. acc.result \in Seq(Int)
    BY <2>1 DEF Accs
  <2> QED
    BY <1>6, <2>2, Zenon
<1>8. Postfix(e) = acc.result \o Reverse(acc.ops)
  BY <1>1, <1>2, Zenon DEF Postfix
<1>9. Reference(e) = ValueOf(e, 1, n)
  BY <1>1, Zenon DEF Reference, ValueOf
<1>10. CASE NoneWaits(acc, R, b)
  <2>1. Postfix(e) = T
    <3>1. T \o <<>> = T
      BY <1>7, ConcatEmptySeq, Zenon
    <3> QED
      BY <1>6, <1>8, <1>10, <3>1, ReverseShort, Zenon DEF NoneWaits
  <2>2. Leaving(T, <<ValueOf(e, 1, n)>>)
    BY <1>3, <1>4, <1>10, NoneWaitedFor, Zenon
  <2> QED
    BY <1>9, <2>1, <2>2, Zenon
<1>11. CASE OneWaits(e, acc, R, b)
  <2>1. Postfix(e) = Append(T, e[b])
    <3>1. e[b] \in Int
      BY <1>11, OperatorIsItsByte, Zenon DEF OneWaits
    <3>2. T \o <<e[b]>> = Append(T, e[b])
      BY <1>7, <3>1, ConcatShort, Zenon
    <3> QED
      BY <1>6, <1>8, <1>11, <3>2, ReverseShort, Zenon DEF OneWaits
  <2>2. Leaving(Append(T, e[b]), <<ValueOf(e, 1, n)>>)
    BY <1>3, <1>4, <1>5, <1>11, OneWaitedFor, Zenon
  <2> QED
    BY <1>9, <2>1, <2>2, Zenon
<1>12. CASE \E s \in 1..b - 1 : TwoWait(e, acc, R, s, b)
  <2>1. PICK s \in 1..b - 1 : TwoWait(e, acc, R, s, b)
    BY <1>12
  <2>2. Postfix(e) = Append(Append(T, e[b]), e[s])
    <3>1. e[b] \in Int /\ e[s] \in Int
      <4>1. e[b] \in Operators /\ e[s] \in Operators
        BY <2>1 DEF TwoWait, Additive, Operators
      <4> QED
        BY <4>1, OperatorIsItsByte, Zenon
    <3>2. T \o <<e[b], e[s]>> = Append(Append(T, e[b]), e[s])
      <4>1. Joins(T, e[b], e[s])
        BY <1>7, <3>1, ConcatTwo, Zenon
      <4> QED
        BY <4>1, Zenon DEF Joins
    <3> QED
      BY <1>6, <1>8, <2>1, <3>2, ReverseShort, Zenon DEF TwoWait
  <2>3. Leaving(Append(Append(T, e[b]), e[s]), <<ValueOf(e, 1, n)>>)
    BY <1>3, <1>4, <1>5, <2>1, TwoWaitedFor, Zenon
  <2> QED
    BY <1>9, <2>2, <2>3, Zenon
<1> QED
  BY <1>3, <1>10, <1>11, <1>12, Zenon DEF Waiting

(* No token of it is 0, so that all of them are evaluated.                 *)
LEMMA TokensAreAll ==
    ASSUME NEW e \in Seq(Codes), Plain(e)
    PROVE  Tokens(e) = Postfix(e)
<1>1. PICK t : t = Postfix(e)
  OBVIOUS
<1>2. t \in Seq(NonZero)
  BY <1>1, PostfixLeaves, Zenon DEF Leaving
<1>3. {i \in DOMAIN t : t[i] = 0} = {}
  <2>1. \A i \in DOMAIN t : t[i] \in NonZero
    BY <1>2, LenProperties, ElementOfSeq
  <2> QED
    BY <2>1 DEF NonZero
<1> QED
  BY <1>1, <1>3, Zenon DEF Tokens

(* None of its divisors is 0.                                              *)
LEMMA PlainIsCalm ==
    ASSUME NEW e \in Seq(Codes), Plain(e)
    PROVE  ~MayDie(e)
<1>1. PICK t : t = Postfix(e) /\ t = Tokens(e)
  BY TokensAreAll
<1>2. t \in Seq(NonZero) /\ Calm(t)
  BY <1>1, PostfixLeaves, Zenon DEF Leaving
<1>3. DOMAIN t = 1..Len(t)
  BY <1>2, LenProperties
<1> QED
  BY <1>1, <1>2, <1>3, Zenon DEF MayDie, Calm, NoFault

(* calculate returns the value of the expression by the grammar, and       *)
(* nothing else, for every expression whose operands the postfix array can *)
(* hold.                                                                   *)
THEOREM ConversionKeepsTheValue ==
    ASSUME NEW e \in Seq(Codes), Plain(e)
    PROVE  calculate(e) = {Reference(e)}
<1>1. PICK t : t = Postfix(e)
  OBVIOUS
<1>2. Yields(t, <<Reference(e)>>)
  BY <1>1, PostfixLeaves, Zenon DEF Leaving
<1>3. Tokens(e) = t
  BY <1>1, TokensAreAll, Zenon
<1>4. Stacks(Tokens(e))[Len(Tokens(e))] = {<<Reference(e)>>}
  BY <1>2, <1>3, Zenon DEF Yields, Ev
<1>5. PICK v : v = Reference(e)
  OBVIOUS
<1>6. Pops(<<v>>, v, Front(<<v>>))
  <2>1. Last(<<v>>) = v /\ <<v>> # <<>>
    BY DEF Last
  <2> QED
    BY <2>1, Zenon DEF Pops, pop
<1>7. calculate(e) = {top.x : top \in UNION {pop(s) : s \in {<<v>>}}}
  BY <1>4, <1>5, Zenon DEF calculate
<1>8. PICK only : only = [x |-> v, rest |-> Front(<<v>>)]
  OBVIOUS
<1>9. UNION {pop(s) : s \in {<<v>>}} = {only}
  <2>1. pop(<<v>>) = {only}
    BY <1>6, <1>8, Zenon DEF Pops
  <2> QED
    BY <2>1, Zenon
<1>10. only.x = v
  BY <1>8
<1>11. {top.x : top \in {only}} = {v}
  BY <1>10, Zenon
<1> QED
  BY <1>5, <1>7, <1>9, <1>11, Zenon

-----------------------------------------------------------------------------
(* The keys *)

(* What the last '#' left is what calculate makes of the expression.       *)
Done ==
    /\ outcome = "value" => value \in {Clamp(n) : n \in calculate(exp)}
    /\ outcome = "dead" => MayDie(exp)
    /\ end => outcome # "none"

(* Every key leaves it so.                                                 *)
LEMMA AlwaysDone == Spec => []Done
<1>1. Init => Done
  BY Zenon DEF Init, Done
<1>2. Done /\ [Next]_vars => Done'
  <2> SUFFICES ASSUME Done, [Next]_vars
               PROVE  Done'
    OBVIOUS
  <2>1. ASSUME NEW c, Key(c)
        PROVE  Done'
    <3>1. outcome' = "none" /\ end' = FALSE
      BY <2>1, Zenon DEF Key, Cleared
    <3> QED
      BY <3>1, Zenon DEF Done
  <2>2. CASE StarKey
    <3>1. outcome' = "none" /\ end' = FALSE
      BY <2>2, Zenon DEF StarKey, Cleared
    <3> QED
      BY <3>1, Zenon DEF Done
  <2>3. CASE HashKey
    <3>1. CASE MayDie(exp') /\ outcome' = "dead"
      BY <3>1, Zenon DEF Done
    <3>2. CASE value' \in {Clamp(n) : n \in calculate(exp')} /\ outcome' = "value"
      BY <3>2, Zenon DEF Done
    <3> QED
      BY <2>3, <3>1, <3>2, Zenon DEF HashKey
  <2>4. CASE UNCHANGED vars
    BY <2>4, Zenon DEF vars, Done
  <2> QED
    BY <2>1, <2>2, <2>3, <2>4, Zenon DEF Next
<1> QED
  BY <1>1, <1>2, PTL DEF Spec

LEMMA TypedCodes == TypeOK => exp \in Seq(Codes)
BY KeysAreCodes, SeqMonotonic DEF TypeOK

(* ValueIsRight: the value on the LCD is that of the expression by the     *)
(* grammar, cut off at 0 and 255, for expressions of any length whose      *)
(* operands the postfix array can hold.                                    *)
THEOREM TheValueIsRight == Spec => []ValueIsRight
<1>1. TypeOK /\ Done => ValueIsRight
  <2> SUFFICES ASSUME TypeOK, Done, outcome = "value", Plain(exp)
               PROVE  value = Clamp(Reference(exp))
    BY Zenon DEF ValueIsRight
  <2>1. calculate(exp) = {Reference(exp)}
    BY TypedCodes, ConversionKeepsTheValue, Zenon
  <2>2. PICK n : n \in calculate(exp) /\ value = Clamp(n)
    BY Zenon DEF Done
  <2> QED
    BY <2>1, <2>2, Zenon
<1> QED
  BY <1>1, TypeCorrect, AlwaysDone, PTL

(* PlainNeverDies: such an expression is never divided by 0.               *)
THEOREM APlainExpressionNeverDies == Spec => []PlainNeverDies
<1>1. TypeOK /\ Done => PlainNeverDies
  <2> SUFFICES ASSUME TypeOK, Done, end, Plain(exp)
               PROVE  outcome = "value"
    BY Zenon DEF PlainNeverDies
  <2>1. ~MayDie(exp)
    BY TypedCodes, PlainIsCalm, Zenon
  <2>2. outcome # "dead"
    BY <2>1, Zenon DEF Done
  <2>3. outcome \in {"none", "value", "dead"}
    BY Zenon DEF TypeOK
  <2> QED
    BY <2>2, <2>3, Zenon DEF Done
<1> QED
  BY <1>1, TypeCorrect, AlwaysDone, PTL

=============================================================================
