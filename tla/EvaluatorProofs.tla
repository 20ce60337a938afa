----------------------------- MODULE EvaluatorProofs -----------------------------
(***************************************************************************)
(* Whatever is written to the resources of L, in whatever blocks, and for  *)
(* stacks and a buffer of any size: the stacks keep within their arrays,   *)
(* what is kept of an operand lies in the buffer, and evaluate_block comes *)
(* to the end of every block.                                              *)
(***************************************************************************)
EXTENDS Evaluator, SequenceTheorems, WellFoundedInduction, TLAPS

-----------------------------------------------------------------------------

(* A set of numbers that is not empty has a least one.                     *)
LEMMA LeastNumber ==
  ASSUME NEW S \in SUBSET Nat, S # {}
  PROVE  \E x \in S : \A y \in S : x <= y
<1>1. PICK x \in S : \A y \in S : ~(<<y, x>> \in OpToRel(<, Nat))
  BY NatLessThanWellFounded, WFMin
<1>2. ASSUME NEW y \in S
      PROVE  x <= y
  <2>1. ~(y < x)
    BY <1>1, Zenon DEF OpToRel
  <2> QED
    BY <2>1, SMT
<1> QED
  BY <1>2

(* What the members of a set have if all those of lower rank have it.      *)
LEMMA RankInduction ==
  ASSUME NEW D, NEW rank \in [D -> Nat], NEW Good \in SUBSET D,
         \A s \in D : (\A t \in D : rank[t] < rank[s] => t \in Good) => s \in Good
  PROVE  Good = D
<1> DEFINE Bad == {rank[s] : s \in D \ Good}
<1>1. SUFFICES ASSUME D \ Good # {} PROVE FALSE
  OBVIOUS
<1>2. Bad \in SUBSET Nat /\ Bad # {}
  BY <1>1
<1> HIDE DEF Bad
<1>3. PICK n \in Bad : \A m \in Bad : n <= m
  BY <1>2, LeastNumber
<1>4. PICK s \in D \ Good : n = rank[s]
  BY <1>3 DEF Bad
<1>5. ASSUME NEW t \in D, rank[t] < rank[s], t \notin Good PROVE FALSE
  <2>1. rank[t] \in Bad
    BY <1>5 DEF Bad
  <2> QED
    BY <2>1, <1>3, <1>4, <1>5
<1> QED
  BY <1>4, <1>5

(* What 0 and the successors of all that have it have.                     *)
LEMMA NumberInduction ==
  ASSUME NEW Good \in SUBSET Nat, 0 \in Good, \A k \in Good : k + 1 \in Good
  PROVE  \A n \in Nat : n \in Good
<1>1. SUFFICES ASSUME Nat \ Good # {} PROVE FALSE
  OBVIOUS
<1>2. PICK n \in Nat \ Good : \A m \in Nat \ Good : n <= m
  BY <1>1, LeastNumber
<1>3. n # 0 /\ n - 1 \in Nat /\ n - 1 \in Good
  BY <1>2
<1>4. (n - 1) + 1 = n
  BY <1>2
<1> QED
  BY <1>2, <1>3, <1>4

(* A loop over D that goes on to what has a lower rank until it is in Stop.*)
Descends(D, Stop, next, rank, N) ==
  /\ N \in Nat /\ rank \in [D -> 0 .. N]
  /\ \A s \in D \ Stop : next[s] \in D /\ rank[next[s]] < rank[s]

IsLoop(f, D, Stop, next, out) ==
  f = [s \in D |-> IF s \in Stop THEN out[s] ELSE f[next[s]]]

(* There is such a function.                                               *)
LEMMA TailRecursion ==
  ASSUME NEW D, NEW Stop, NEW next, NEW rank, NEW N, Descends(D, Stop, next, rank, N), NEW out
  PROVE  \E f : IsLoop(f, D, Stop, next, out)
<1> USE DEF Descends, IsLoop
<1> DEFINE Below(k, f) == \A s \in D : rank[s] < k =>
                            f[s] = IF s \in Stop THEN out[s] ELSE f[next[s]]
           Good == {k \in Nat : \E f : f = [s \in D |-> f[s]] /\ Below(k, f)}
<1>1. 0 \in Good
  <2> DEFINE f == [s \in D |-> s]
  <2>1. f = [s \in D |-> f[s]] /\ Below(0, f)
    OBVIOUS
  <2> HIDE DEF f
  <2> QED
    BY <2>1
<1>2. ASSUME NEW k \in Good PROVE k + 1 \in Good
  <2>1. PICK f : f = [s \in D |-> f[s]] /\ Below(k, f)
    OBVIOUS
  <2> DEFINE g == [s \in D |-> IF s \in Stop THEN out[s] ELSE f[next[s]]]
  <2>2. g = [s \in D |-> g[s]]
    OBVIOUS
  <2>3. ASSUME NEW s \in D, rank[s] < k + 1
        PROVE  g[s] = IF s \in Stop THEN out[s] ELSE g[next[s]]
    <3>1. CASE s \in Stop
      BY <3>1
    <3>2. CASE s \notin Stop
      <4>1. next[s] \in D /\ rank[next[s]] < k
        BY <3>2, <2>3
      <4>2. f[next[s]] = IF next[s] \in Stop THEN out[next[s]] ELSE f[next[next[s]]]
        BY <4>1, <2>1
      <4>3. g[next[s]] = f[next[s]]
        BY <4>1, <4>2
      <4> QED
        BY <3>2, <4>3
    <3> QED
      BY <3>1, <3>2
  <2>4. Below(k + 1, g)
    BY <2>3
  <2> HIDE DEF g
  <2> QED
    BY <2>2, <2>4
<1>3. N + 1 \in Good
  <2>1. Good \in SUBSET Nat
    OBVIOUS
  <2> HIDE DEF Good
  <2> QED
    BY <1>1, <1>2, <2>1, NumberInduction
<1>4. PICK f : f = [s \in D |-> f[s]] /\ Below(N + 1, f)
  BY <1>3
<1>5. \A s \in D : f[s] = IF s \in Stop THEN out[s] ELSE f[next[s]]
  BY <1>4
<1>6. f = [s \in D |-> IF s \in Stop THEN out[s] ELSE f[next[s]]]
  <2>1. [s \in D |-> f[s]] = [s \in D |-> IF s \in Stop THEN out[s] ELSE f[next[s]]]
    BY <1>5
  <2> QED
    BY <1>4, <2>1, Zenon
<1> QED
  BY <1>6, Zenon

(* What holds when it starts, and then as long as it goes on, holds where  *)
(* it ends.                                                                *)
LEMMA LoopRule ==
  ASSUME NEW D, NEW Stop, NEW next, NEW rank, NEW N, Descends(D, Stop, next, rank, N),
         NEW out, NEW f, IsLoop(f, D, Stop, next, out),
         NEW Good \in SUBSET D, \A s \in Good \ Stop : next[s] \in Good
  PROVE  \A s \in Good : \E t \in Good \cap Stop : f[s] = out[t]
<1> USE DEF Descends, IsLoop
<1> DEFINE Fine == {s \in D : s \in Good => \E t \in Good \cap Stop : f[s] = out[t]}
<1>1. ASSUME NEW s \in D, \A t \in D : rank[t] < rank[s] => t \in Fine
      PROVE  s \in Fine
  <2>1. SUFFICES ASSUME s \in Good PROVE \E t \in Good \cap Stop : f[s] = out[t]
    OBVIOUS
  <2>2. f[s] = IF s \in Stop THEN out[s] ELSE f[next[s]]
    OBVIOUS
  <2>3. CASE s \in Stop
    BY <2>1, <2>2, <2>3
  <2>4. CASE s \notin Stop
    <3>1. next[s] \in Good /\ next[s] \in Fine
      BY <1>1, <2>1, <2>4
    <3> QED
      BY <2>2, <2>4, <3>1
  <2> QED
    BY <2>3, <2>4
<1>2. Fine = D
  <2>1. Fine \in SUBSET D /\ rank \in [D -> Nat]
    OBVIOUS
  <2>2. \A s \in D : (\A t \in D : rank[t] < rank[s] => t \in Fine) => s \in Fine
    BY <1>1
  <2> HIDE DEF Fine
  <2> QED
    BY <2>1, <2>2, RankInduction
<1> QED
  BY <1>2

-----------------------------------------------------------------------------

-----------------------------------------------------------------------------
(* The sequences of the model.                                             *)

LEMMA UptoTyped ==
  ASSUME NEW S, NEW s \in Seq(S), NEW n \in 0 .. Len(s)
  PROVE  Upto(s, n) \in Seq(S) /\ Len(Upto(s, n)) = n
BY DEF Upto

LEMMA AppendTyped ==
  ASSUME NEW S, NEW s \in Seq(S), NEW x \in S
  PROVE  Append(s, x) \in Seq(S) /\ Len(Append(s, x)) = Len(s) + 1
OBVIOUS

LEMMA TopTyped ==
  ASSUME NEW S, NEW s \in Seq(S), s # <<>>
  PROVE  Top(s) \in S /\ Len(s) \in Nat \ {0}
BY DEF Top

(* A part of a sequence of a set is one.                                   *)
LEMMA PartTyped ==
  ASSUME NEW S, NEW s \in Seq(S), NEW m \in Nat, NEW n \in 0 .. Len(s)
  PROVE  /\ SubSeq(s, m + 1, n) \in Seq(S)
         /\ Len(SubSeq(s, m + 1, n)) = IF m <= n THEN n - m ELSE 0
OBVIOUS

(* The buffer is an array; it is a sequence too.                           *)
LEMMA ArrayIsSequence ==
  ASSUME NEW S, NEW n \in Nat, NEW f \in [1 .. n -> S]
  PROVE  f \in Seq(S) /\ Len(f) = n
<1>1. f \in Seq(S)
  BY SeqDef
<1>2. Len(f) \in Nat /\ DOMAIN f = 1 .. Len(f) /\ DOMAIN f = 1 .. n
  BY <1>1, LenProperties
<1> QED
  BY <1>1, <1>2


-----------------------------------------------------------------------------
(* The operators.                                                          *)

(* t is s but for its operators, operands and status, and its operands     *)
(* have room if those of s had.                                            *)
Near(s, t) ==
  /\ t \in Stacks
  /\ t.buffer = s.buffer /\ t.bufferIndex = s.bufferIndex /\ t.operandIndex = s.operandIndex
  /\ Len(s.operands) <= MaxOperands => Len(t.operands) <= MaxOperands
  /\ s.status # "COMPLETE" => t.status # "COMPLETE"

LEMMA NearIs ==
  ASSUME NEW s \in Stacks, NEW t, NEW u, Near(s, t), Near(t, u)
  PROVE  Near(s, u)
BY DEF Near

LEMMA FieldsOf ==
  ASSUME NEW s \in Stacks
  PROVE  /\ s.operators \in Seq(Stacked) /\ Len(s.operators) \in 0 .. MaxOperators
         /\ s.operands \in Seq(Int) /\ Len(s.operands) \in Nat
         /\ s.buffer \in [1 .. BufferSize -> Bytes]
         /\ s.bufferIndex \in 0 .. BufferSize /\ s.operandIndex \in 0 .. BufferSize
BY EvaluatorAssumption DEF Stacks, AtMost

(* A stack that gets other operators, operands or another status.          *)
LEMMA WithOperators ==
  ASSUME NEW s \in Stacks, NEW w \in Seq(Stacked), Len(w) <= MaxOperators
  PROVE  LET t == [s EXCEPT !.operators = w] IN
         Near(s, t) /\ t.operators = w /\ t.operands = s.operands /\ t.status = s.status
<1>1. s \in [operators : AtMost(MaxOperators, Stacked), operands : Seq(Int),
             buffer : [1 .. BufferSize -> Bytes], bufferIndex : 0 .. BufferSize,
             operandIndex : 0 .. BufferSize, status : {"READY", "COMPLETE", "ERROR"}]
  BY DEF Stacks
<1>2. s = [operators |-> s.operators, operands |-> s.operands, buffer |-> s.buffer,
           bufferIndex |-> s.bufferIndex, operandIndex |-> s.operandIndex, status |-> s.status]
  BY <1>1
<1>3. [s EXCEPT !.operators = w]
        = [operators |-> w, operands |-> s.operands, buffer |-> s.buffer,
           bufferIndex |-> s.bufferIndex, operandIndex |-> s.operandIndex, status |-> s.status]
  BY <1>2
<1> QED
  BY <1>1, <1>3 DEF Near, Stacks, AtMost

LEMMA WithOperands ==
  ASSUME NEW s \in Stacks, NEW w \in Seq(Int),
         Len(s.operands) <= MaxOperands => Len(w) <= MaxOperands
  PROVE  LET t == [s EXCEPT !.operands = w] IN
         Near(s, t) /\ t.operands = w /\ t.operators = s.operators /\ t.status = s.status
<1>1. s \in [operators : AtMost(MaxOperators, Stacked), operands : Seq(Int),
             buffer : [1 .. BufferSize -> Bytes], bufferIndex : 0 .. BufferSize,
             operandIndex : 0 .. BufferSize, status : {"READY", "COMPLETE", "ERROR"}]
  BY DEF Stacks
<1>2. s = [operators |-> s.operators, operands |-> s.operands, buffer |-> s.buffer,
           bufferIndex |-> s.bufferIndex, operandIndex |-> s.operandIndex, status |-> s.status]
  BY <1>1
<1>3. [s EXCEPT !.operands = w]
        = [operators |-> s.operators, operands |-> w, buffer |-> s.buffer,
           bufferIndex |-> s.bufferIndex, operandIndex |-> s.operandIndex, status |-> s.status]
  BY <1>2
<1> QED
  BY <1>1, <1>3 DEF Near, Stacks

LEMMA WithStatus ==
  ASSUME NEW s \in Stacks, NEW x \in {"READY", "ERROR"}
  PROVE  LET t == [s EXCEPT !.status = x] IN
         Near(s, t) /\ t.status = x /\ t.operators = s.operators /\ t.operands = s.operands
<1>1. s \in [operators : AtMost(MaxOperators, Stacked), operands : Seq(Int),
             buffer : [1 .. BufferSize -> Bytes], bufferIndex : 0 .. BufferSize,
             operandIndex : 0 .. BufferSize, status : {"READY", "COMPLETE", "ERROR"}]
  BY DEF Stacks
<1>2. s = [operators |-> s.operators, operands |-> s.operands, buffer |-> s.buffer,
           bufferIndex |-> s.bufferIndex, operandIndex |-> s.operandIndex, status |-> s.status]
  BY <1>1
<1>3. [s EXCEPT !.status = x]
        = [operators |-> s.operators, operands |-> s.operands, buffer |-> s.buffer,
           bufferIndex |-> s.bufferIndex, operandIndex |-> s.operandIndex, status |-> x]
  BY <1>2
<1> QED
  BY <1>1, <1>3 DEF Near, Stacks

(* Same(s, t): Near, and the operators are the same.                       *)
Same(s, t) == Near(s, t) /\ t.operators = s.operators

LEMMA SameIs ==
  ASSUME NEW s \in Stacks, NEW t, NEW u, Same(s, t), Same(t, u)
  PROVE  Same(s, u)
BY NearIs DEF Same

LEMMA FailedIsSame ==
  ASSUME NEW s \in Stacks
  PROVE  Same(s, Failed(s)) /\ Failed(s).status = "ERROR"
BY WithStatus DEF Failed, Same

(* pop_operator.                                                           *)
LEMMA PopOperatorIsNear ==
  ASSUME NEW s \in Stacks, s.operators # <<>>
  PROVE  /\ Near(s, PopOperator(s))
         /\ Len(PopOperator(s).operators) = Len(s.operators) - 1
         /\ Top(s.operators) \in Stacked
<1>1. s.operators \in Seq(Stacked) /\ Len(s.operators) \in 1 .. MaxOperators
  BY FieldsOf
<1> PICK w : w = Upto(s.operators, Len(s.operators) - 1)
  OBVIOUS
<1>2. w \in Seq(Stacked) /\ Len(w) = Len(s.operators) - 1
  <2>1. Len(s.operators) - 1 \in 0 .. Len(s.operators)
    BY <1>1
  <2> QED
    BY <2>1, <1>1, UptoTyped
<1>3. PopOperator(s) = [s EXCEPT !.operators = w]
  BY DEF PopOperator
<1>4. Len(w) <= MaxOperators
  BY <1>1, <1>2, EvaluatorAssumption
<1>5. Near(s, [s EXCEPT !.operators = w]) /\ [s EXCEPT !.operators = w].operators = w
  BY <1>2, <1>4, WithOperators
<1>6. Top(s.operators) \in Stacked
  BY <1>1, TopTyped
<1> QED
  BY <1>2, <1>3, <1>5, <1>6

(* pop_operand, n times, as far as there are operands.                     *)
LEMMA PopOperandsIsSame ==
  ASSUME NEW s \in Stacks, NEW n \in Nat
  PROVE  /\ Same(s, PopOperands(s, n))
         /\ Len(PopOperands(s, n).operands) = IF Len(s.operands) < n THEN 0 ELSE Len(s.operands) - n
<1>1. s.operands \in Seq(Int) /\ Len(s.operands) \in Nat
  BY FieldsOf
<1> PICK k : k = IF Len(s.operands) < n THEN 0 ELSE Len(s.operands) - n
  OBVIOUS
<1> PICK w : w = Upto(s.operands, k)
  OBVIOUS
<1>2. k \in 0 .. Len(s.operands)
  BY <1>1
<1>3. w \in Seq(Int) /\ Len(w) = k
  BY <1>1, <1>2, UptoTyped
<1>4. PopOperands(s, n) = [s EXCEPT !.operands = w]
  BY DEF PopOperands
<1>5. Len(s.operands) <= MaxOperands => Len(w) <= MaxOperands
  BY <1>1, <1>2, <1>3, EvaluatorAssumption
<1>6. /\ Near(s, [s EXCEPT !.operands = w]) /\ [s EXCEPT !.operands = w].operands = w
      /\ [s EXCEPT !.operands = w].operators = s.operators
  BY <1>3, <1>5, WithOperands
<1> QED
  BY <1>3, <1>4, <1>6 DEF Same

(* push_operand: refused when the array of the operands is full.           *)
LEMMA PushOperandIsSame ==
  ASSUME NEW s \in Stacks, NEW x \in Int
  PROVE  Same(s, PushOperand(s, x))
<1>1. s.operands \in Seq(Int) /\ Len(s.operands) \in Nat
  BY FieldsOf
<1>2. CASE Len(s.operands) = MaxOperands
  BY <1>2, FailedIsSame DEF PushOperand
<1>3. CASE Len(s.operands) # MaxOperands
  <2> PICK w : w = Append(s.operands, x)
    OBVIOUS
  <2>1. w \in Seq(Int) /\ Len(w) = Len(s.operands) + 1
    BY <1>1, AppendTyped
  <2>2. PushOperand(s, x) = [s EXCEPT !.operands = w]
    BY <1>3 DEF PushOperand
  <2>3. Len(s.operands) <= MaxOperands => Len(w) <= MaxOperands
    BY <1>1, <1>3, <2>1, EvaluatorAssumption
  <2>4. Near(s, [s EXCEPT !.operands = w]) /\ [s EXCEPT !.operands = w].operators = s.operators
    BY <2>1, <2>3, WithOperands
  <2> QED
    BY <2>2, <2>4 DEF Same
<1> QED
  BY <1>2, <1>3

(* push_operator: refused when the array of the operators is full.         *)
LEMMA PushOperatorIsNear ==
  ASSUME NEW s \in Stacks, NEW op \in Stacked
  PROVE  Near(s, PushOperator(s, op))
<1>1. s.operators \in Seq(Stacked) /\ Len(s.operators) \in 0 .. MaxOperators
  BY FieldsOf
<1>2. CASE Len(s.operators) = MaxOperators
  BY <1>2, FailedIsSame DEF PushOperator, Same
<1>3. CASE Len(s.operators) # MaxOperators
  <2> PICK w : w = Append(s.operators, op)
    OBVIOUS
  <2>1. w \in Seq(Stacked) /\ Len(w) = Len(s.operators) + 1
    BY <1>1, AppendTyped
  <2>2. PushOperator(s, op) = [s EXCEPT !.operators = w]
    BY <1>3 DEF PushOperator
  <2>3. Len(w) <= MaxOperators
    BY <1>1, <1>3, <2>1, EvaluatorAssumption
  <2> QED
    BY <2>1, <2>2, <2>3, WithOperators
<1> QED
  BY <1>2, <1>3

(* A division is by something else than 0 (emma-eval.c:861, 877).          *)
LEMMA ApplyIsInt ==
  ASSUME NEW op \in Binary, NEW a \in Int, NEW b \in Int, ~(Divides(op) /\ b = 0)
  PROVE  Apply(op, a, b) \in Int
<1>1. \A x : Truth(x) \in Int
  BY DEF Truth
<1>2. op \in {"||", "&&", "==", ">", "<", "+", "-", "/", "%", "*"}
  BY DEF Binary, Operators
<1>3. ASSUME b # 0 PROVE Quotient(a, b) \in Int
  <2> DEFINE x == IF a < 0 THEN -a ELSE a
             y == IF b < 0 THEN -b ELSE b
  <2>1. x \in Nat /\ y \in Nat \ {0}
    BY <1>3
  <2>2. Quotient(a, b) = (IF (a < 0) = (b < 0) THEN 1 ELSE -1) * (x \div y)
    BY DEF Quotient
  <2> HIDE DEF x, y
  <2>3. x \div y \in Int
    BY <2>1
  <2> QED
    BY <2>2, <2>3
<1>4. CASE op \in {"||", "&&", "==", ">", "<"}
  BY <1>1, <1>4 DEF Apply
<1>5. CASE op \in {"+", "-", "*"}
  BY <1>5 DEF Apply
<1>6. CASE op \in {"/", "%"}
  <2>1. Quotient(a, b) \in Int
    BY <1>3, <1>6 DEF Divides
  <2> PICK q : q = Quotient(a, b)
    OBVIOUS
  <2>2. CASE op = "/"
    BY <2>1, <2>2 DEF Apply
  <2>3. CASE op = "%"
    <3>1. Apply(op, a, b) = a - b * q
      BY <2>3 DEF Apply
    <3> QED
      BY <3>1, <2>1
  <2> QED
    BY <2>2, <2>3, <1>6
<1> QED
  BY <1>2, <1>4, <1>5, <1>6

LEMMA OperateIsSame ==
  ASSUME NEW s \in Stacks, NEW op \in Stacked
  PROVE  Same(s, Operate(s, op))
<1> PICK n : n = Len(s.operands)
  OBVIOUS
<1>1. s.operands \in Seq(Int) /\ n \in Nat
  BY FieldsOf
<1>2. Same(s, s)
  BY DEF Same, Near
<1>3. Same(s, PopOperands(s, 1)) /\ Same(s, PopOperands(s, 2))
  BY PopOperandsIsSame
<1>4. \A m \in {1, 2} : \A x \in Int : Same(s, PushOperand(PopOperands(s, m), x))
  <2> TAKE m \in {1, 2}
  <2> TAKE x \in Int
  <2>1. PICK t : t = PopOperands(s, m)
    OBVIOUS
  <2>2. Same(s, t) /\ t \in Stacks
    BY <2>1, <1>3 DEF Same, Near
  <2>3. Same(t, PushOperand(t, x))
    BY <2>2, PushOperandIsSame
  <2> QED
    BY <2>1, <2>2, <2>3, SameIs
<1>5. Same(s, Failed(s)) /\ Same(s, Failed(PopOperands(s, 2)))
  <2>1. PICK t : t = PopOperands(s, 2)
    OBVIOUS
  <2>2. Same(s, t) /\ t \in Stacks
    BY <2>1, <1>3 DEF Same, Near
  <2>3. Same(t, Failed(t))
    BY <2>2, FailedIsSame
  <2> QED
    BY <2>1, <2>2, <2>3, SameIs, FailedIsSame
<1>6. CASE op \in {"(", "."}
  <2>1. CASE op = "("
    BY <2>1, <1>2 DEF Operate, Binary
  <2>2. CASE op = "."
    BY <2>2, <1>5 DEF Operate, Binary
  <2> QED
    BY <2>1, <2>2, <1>6
<1>7. CASE op = "!"
  <2>1. CASE n = 0
    BY <2>1, <1>5, <1>7 DEF Operate, Binary
  <2>2. CASE n > 0
    <3>1. Operate(s, op) = PushOperand(PopOperands(s, 1), Truth(Top(s.operands) = 0))
      BY <2>2, <1>7 DEF Operate, Binary
    <3>2. Truth(Top(s.operands) = 0) \in Int
      BY DEF Truth
    <3> QED
      BY <3>1, <3>2, <1>4
  <2> QED
    BY <2>1, <2>2, <1>1
<1>8. CASE op \in Binary
  <2>0. op \notin {"(", ".", "!"}
    BY <1>8 DEF Binary
  <2>1. CASE n < 2
    BY <2>0, <2>1, <1>1, <1>5, <1>8 DEF Operate
  <2>2. CASE n >= 2
    <3> PICK a, b : a = s.operands[n - 1] /\ b = s.operands[n]
      OBVIOUS
    <3>1. a \in Int /\ b \in Int
      <4>1. n - 1 \in 1 .. n /\ n \in 1 .. n
        BY <2>2, <1>1
      <4> QED
        BY <4>1, <1>1
    <3>2. Operate(s, op) = IF Divides(op) /\ b = 0 THEN Failed(PopOperands(s, 2))
                           ELSE PushOperand(PopOperands(s, 2), Apply(op, a, b))
      <4>1. ~(n < 2)
        BY <2>2, <1>1
      <4> QED
        BY <2>0, <2>2, <4>1, <1>8 DEF Operate
    <3>3. ~(Divides(op) /\ b = 0) => Apply(op, a, b) \in Int
      BY <3>1, <1>8, ApplyIsInt
    <3> QED
      BY <3>2, <3>3, <1>4, <1>5
  <2> QED
    BY <2>1, <2>2, <1>1
<1> QED
  BY <1>6, <1>7, <1>8 DEF Binary, Stacked

-----------------------------------------------------------------------------
(* The loops over the operators.                                           *)

(* The operator on top is operated: one less.                              *)
LEMMA OperateTop ==
  ASSUME NEW s \in Stacks, s.operators # <<>>
  PROVE  LET t == Operate(PopOperator(s), Top(s.operators)) IN
         Near(s, t) /\ Len(t.operators) = Len(s.operators) - 1
<1> PICK p, op : p = PopOperator(s) /\ op = Top(s.operators)
  OBVIOUS
<1>1. Near(s, p) /\ Len(p.operators) = Len(s.operators) - 1 /\ op \in Stacked
  BY PopOperatorIsNear
<1>2. p \in Stacks
  BY <1>1 DEF Near
<1> PICK t : t = Operate(p, op)
  OBVIOUS
<1>3. Near(p, t) /\ t.operators = p.operators
  BY <1>1, <1>2, OperateIsSame DEF Same
<1>4. Near(s, t)
  BY <1>1, <1>3, NearIs
<1> QED
  BY <1>1, <1>3, <1>4

ReduceEnds(t, precedence) ==
  \/ t.status = "ERROR" \/ t.operators = <<>>
  \/ Top(t.operators) = "(" \/ Precedence[Top(t.operators)] > precedence

LEMMA ReduceIsNear ==
  ASSUME NEW s \in Stacks, NEW precedence
  PROVE  Near(s, Reduce(s, precedence))
<1> DEFINE On(t) == Operate(PopOperator(t), Top(t.operators))
           Stop == {t \in Stacks : ReduceEnds(t, precedence)}
           rank == [t \in Stacks |-> Len(t.operators)]
           id == [t \in Stacks |-> t]
           next == [t \in Stacks |-> On(t)]
           Run(f) == f = [t \in Stacks |-> IF ReduceEnds(t, precedence) THEN t ELSE f[On(t)]]
           Good == {t \in Stacks : Near(s, t)}
<1>1. Reduce(s, precedence) = (CHOOSE f : Run(f))[s]
  BY Zenon DEF Reduce, ReduceEnds
<1>2. ASSUME NEW t \in Stacks \ Stop
      PROVE  next[t] \in Stacks /\ rank[next[t]] < rank[t] /\ Near(t, next[t])
  <2>1. t.operators # <<>>
    BY DEF ReduceEnds
  <2>2. Near(t, On(t)) /\ Len(On(t).operators) = Len(t.operators) - 1
    BY <2>1, OperateTop
  <2>3. On(t) \in Stacks /\ Len(t.operators) \in Nat
    BY <2>2, FieldsOf DEF Near
  <2> QED
    BY <2>2, <2>3
<1>3. Descends(Stacks, Stop, next, rank, MaxOperators)
  <2>1. rank \in [Stacks -> 0 .. MaxOperators] /\ MaxOperators \in Nat
    BY FieldsOf, EvaluatorAssumption
  <2> QED
    BY <2>1, <1>2 DEF Descends
<1>4. \A f : Run(f) <=> IsLoop(f, Stacks, Stop, next, id)
  <2>1. ASSUME NEW f
        PROVE  [t \in Stacks |-> IF ReduceEnds(t, precedence) THEN t ELSE f[On(t)]]
                 = [t \in Stacks |-> IF t \in Stop THEN id[t] ELSE f[next[t]]]
    OBVIOUS
  <2> QED
    BY <2>1, Zenon DEF IsLoop
<1>5. \A t \in Good \ Stop : next[t] \in Good
  BY <1>2, NearIs
<1>6. s \in Good
  BY DEF Near
<1>7. Good \in SUBSET Stacks
  OBVIOUS
<1>8. \A t \in Good : id[t] = t /\ Near(s, t)
  OBVIOUS
<1> HIDE DEF Stop, rank, id, next, Good, On
<1>9. \E f : Run(f)
  <2>1. \E f : IsLoop(f, Stacks, Stop, next, id)
    BY <1>3, TailRecursion
  <2> QED
    BY <2>1, <1>4, Zenon
<1> DEFINE run == CHOOSE f : Run(f)
<1>10. IsLoop(run, Stacks, Stop, next, id)
  BY <1>9, <1>4, Zenon
<1>11. Reduce(s, precedence) = run[s]
  BY <1>1, Zenon
<1> HIDE DEF run, Run
<1>12. \A t \in Good : \E u \in Good \cap Stop : run[t] = id[u]
  BY <1>3, <1>5, <1>7, <1>10, LoopRule
<1> QED
  BY <1>6, <1>8, <1>11, <1>12

CloseEnds(t) == t.operators = <<>> \/ Top(t.operators) = "("

LEMMA CloseIsNear ==
  ASSUME NEW s \in Stacks
  PROVE  Near(s, CloseParenthesis(s))
<1> DEFINE On(t) == [Operate(PopOperator(t), Top(t.operators)) EXCEPT !.status = "READY"]
           Out(t) == IF t.operators = <<>> THEN Failed(t) ELSE PopOperator(t)
           Stop == {t \in Stacks : CloseEnds(t)}
           rank == [t \in Stacks |-> Len(t.operators)]
           out == [t \in Stacks |-> Out(t)]
           next == [t \in Stacks |-> On(t)]
           Run(f) == f = [t \in Stacks |-> IF CloseEnds(t) THEN Out(t) ELSE f[On(t)]]
           Good == {t \in Stacks : Near(s, t)}
<1>1. CloseParenthesis(s) = (CHOOSE f : Run(f))[s]
  <2> DEFINE R(f) == f = [t \in Stacks |-> IF t.operators = <<>> THEN Failed(t)
                                           ELSE IF Top(t.operators) = "(" THEN PopOperator(t)
                                           ELSE f[On(t)]]
  <2>1. CloseParenthesis(s) = (CHOOSE f : R(f))[s]
    BY Zenon DEF CloseParenthesis
  <2>2. ASSUME NEW f PROVE R(f) <=> Run(f)
    <3>1. \A t \in Stacks : (IF t.operators = <<>> THEN Failed(t)
                             ELSE IF Top(t.operators) = "(" THEN PopOperator(t) ELSE f[On(t)])
                              = (IF CloseEnds(t) THEN Out(t) ELSE f[On(t)])
      BY DEF CloseEnds
    <3> HIDE DEF Out, On
    <3>2. [t \in Stacks |-> IF t.operators = <<>> THEN Failed(t)
                            ELSE IF Top(t.operators) = "(" THEN PopOperator(t) ELSE f[On(t)]]
            = [t \in Stacks |-> IF CloseEnds(t) THEN Out(t) ELSE f[On(t)]]
      BY <3>1
    <3> QED
      BY <3>2, Zenon
  <2> HIDE DEF R, Run
  <2>3. (CHOOSE f : R(f)) = (CHOOSE f : Run(f))
    BY <2>2
  <2> QED
    BY <2>1, <2>3
<1>2. ASSUME NEW t \in Stacks \ Stop
      PROVE  next[t] \in Stacks /\ rank[next[t]] < rank[t] /\ Near(t, next[t])
  <2> PICK u : u = Operate(PopOperator(t), Top(t.operators))
    OBVIOUS
  <2>1. t.operators # <<>>
    BY DEF CloseEnds
  <2>2. Near(t, u) /\ Len(u.operators) = Len(t.operators) - 1
    BY <2>1, OperateTop
  <2>3. u \in Stacks /\ Len(t.operators) \in Nat
    BY <2>2, FieldsOf DEF Near
  <2>4. Near(u, [u EXCEPT !.status = "READY"]) /\ [u EXCEPT !.status = "READY"].operators = u.operators
    BY <2>3, WithStatus
  <2>5. Near(t, On(t)) /\ On(t).operators = u.operators
    BY <2>2, <2>4, NearIs
  <2> HIDE DEF On
  <2>6. On(t) \in Stacks /\ Len(On(t).operators) < Len(t.operators)
    BY <2>2, <2>3, <2>5 DEF Near
  <2> QED
    BY <2>5, <2>6
<1>3. Descends(Stacks, Stop, next, rank, MaxOperators)
  <2>1. rank \in [Stacks -> 0 .. MaxOperators] /\ MaxOperators \in Nat
    BY FieldsOf, EvaluatorAssumption
  <2> QED
    BY <2>1, <1>2 DEF Descends
<1>4. \A f : Run(f) <=> IsLoop(f, Stacks, Stop, next, out)
  <2>1. ASSUME NEW f
        PROVE  [t \in Stacks |-> IF CloseEnds(t) THEN Out(t) ELSE f[On(t)]]
                 = [t \in Stacks |-> IF t \in Stop THEN out[t] ELSE f[next[t]]]
    OBVIOUS
  <2> QED
    BY <2>1, Zenon DEF IsLoop
<1>5. \A t \in Good \ Stop : next[t] \in Good
  BY <1>2, NearIs
<1>6. s \in Good
  BY DEF Near
<1>7. Good \in SUBSET Stacks
  OBVIOUS
<1>8. ASSUME NEW t \in Good PROVE Near(s, out[t])
  <2>1. t \in Stacks /\ Near(s, t)
    OBVIOUS
  <2>2. Near(t, Failed(t))
    BY <2>1, FailedIsSame DEF Same
  <2>3. t.operators # <<>> => Near(t, PopOperator(t))
    BY <2>1, PopOperatorIsNear
  <2>4. Near(t, Out(t))
    BY <2>2, <2>3
  <2>5. out[t] = Out(t)
    BY <2>1
  <2> HIDE DEF Out
  <2> QED
    BY <2>1, <2>4, <2>5, NearIs
<1> HIDE DEF Stop, rank, out, next, Good, On, Out
<1>9. \E f : Run(f)
  <2>1. \E f : IsLoop(f, Stacks, Stop, next, out)
    BY <1>3, TailRecursion
  <2> QED
    BY <2>1, <1>4, Zenon
<1> DEFINE run == CHOOSE f : Run(f)
<1>10. IsLoop(run, Stacks, Stop, next, out)
  BY <1>9, <1>4, Zenon
<1>11. CloseParenthesis(s) = run[s]
  BY <1>1, Zenon
<1> HIDE DEF run, Run
<1>12. \A t \in Good : \E u \in Good \cap Stop : run[t] = out[u]
  BY <1>3, <1>5, <1>7, <1>10, LoopRule
<1> QED
  BY <1>6, <1>8, <1>11, <1>12

(* eval_add_operator: ")" is not pushed.                                   *)
LEMMA AddOperatorIsNear ==
  ASSUME NEW s \in Stacks, NEW op \in Operators
  PROVE  Near(s, AddOperator(s, op))
<1> PICK reduced : reduced = Reduce(s, Precedence[op])
  OBVIOUS
<1>1. Near(s, reduced) /\ reduced \in Stacks
  BY ReduceIsNear DEF Near
<1> PICK pushed, closed : pushed = PushOperator(reduced, op) /\ closed = CloseParenthesis(reduced)
  OBVIOUS
<1>2. Near(s, closed)
  BY <1>1, CloseIsNear, NearIs
<1>3. CASE op \in Stacked
  <2>1. Near(s, pushed)
    BY <1>1, <1>3, PushOperatorIsNear, NearIs
  <2> QED
    BY <2>1, <1>1, <1>2 DEF AddOperator
<1>4. CASE op = ")" /\ pushed.status = "ERROR" /\ reduced.status # "ERROR"
  <2>1. pushed = Failed(reduced)
    <3>1. Len(reduced.operators) = MaxOperators
      <4>1. SUFFICES ASSUME Len(reduced.operators) # MaxOperators PROVE FALSE
        OBVIOUS
      <4>2. pushed = [reduced EXCEPT !.operators = Append(@, op)]
        BY <4>1 DEF PushOperator
      <4>3. pushed.status = reduced.status
        BY <4>2, <1>1 DEF Stacks
      <4> QED
        BY <4>3, <1>4
    <3> QED
      BY <3>1 DEF PushOperator
  <2>2. Near(s, pushed)
    BY <2>1, <1>1, FailedIsSame, NearIs DEF Same
  <2> QED
    BY <2>2, <1>4 DEF AddOperator
<1>5. CASE op = ")" /\ (pushed.status # "ERROR" \/ reduced.status = "ERROR")
  BY <1>1, <1>2, <1>5 DEF AddOperator
<1> QED
  BY <1>3, <1>4, <1>5 DEF Stacked

-----------------------------------------------------------------------------
(* Operands.                                                               *)

LEMMA DigitAdded ==
  ASSUME NEW v \in Nat, NEW c \in 0 .. 9
  PROVE  10 * v + c \in Nat
OBVIOUS

(* antoi.                                                                  *)
LEMMA NumberIsInt ==
  ASSUME NEW text \in Seq(Bytes)
  PROVE  Number(text) \in Nat
<1> DEFINE Reads == [rest : AtMost(Len(text), Bytes), value : Nat]
           Value(r) == IF ~IsDigit(Head(r.rest)) THEN r.value
                       ELSE 10 * r.value + (CHOOSE d \in 0 .. 9 : Digits[d + 1] = Head(r.rest))
           On(r) == [rest |-> Tail(r.rest), value |-> Value(r)]
           Stop == {r \in Reads : r.rest = <<>>}
           rank == [r \in Reads |-> Len(r.rest)]
           out == [r \in Reads |-> r.value]
           next == [r \in Reads |-> On(r)]
           Run(f) == f = [r \in Reads |-> IF r.rest = <<>> THEN r.value ELSE f[On(r)]]
           start == [rest |-> text, value |-> 0]
<1>1. Number(text) = (CHOOSE f : Run(f))[start]
  BY Zenon DEF Number
<1>2. \A r \in Reads : r.rest \in Seq(Bytes) /\ Len(r.rest) \in 0 .. Len(text) /\ r.value \in Nat
  BY DEF AtMost
<1>3. ASSUME NEW r \in Reads \ Stop PROVE next[r] \in Reads /\ rank[next[r]] < rank[r]
  <2>1. /\ r.rest \in Seq(Bytes) /\ r.rest # <<>> /\ Len(r.rest) \in 0 .. Len(text)
        /\ r.value \in Nat /\ Len(text) \in Nat
    BY <1>2
  <2>2. Tail(r.rest) \in Seq(Bytes) /\ Len(Tail(r.rest)) = Len(r.rest) - 1
    BY <2>1
  <2>3. Value(r) \in Nat
    <3>1. IsDigit(Head(r.rest)) => \E d \in 0 .. 9 : Digits[d + 1] = Head(r.rest)
      <4>1. \A n \in 1 .. 10 : n - 1 \in 0 .. 9 /\ (n - 1) + 1 = n
        OBVIOUS
      <4> QED
        BY <4>1 DEF IsDigit
    <3>2. IsDigit(Head(r.rest)) => (CHOOSE d \in 0 .. 9 : Digits[d + 1] = Head(r.rest)) \in 0 .. 9
      BY <3>1, Zenon
    <3> PICK c, v : c = (CHOOSE d \in 0 .. 9 : Digits[d + 1] = Head(r.rest)) /\ v = r.value
      OBVIOUS
    <3>3. Value(r) = IF ~IsDigit(Head(r.rest)) THEN v ELSE 10 * v + c
      OBVIOUS
    <3>4. v \in Nat /\ (IsDigit(Head(r.rest)) => c \in 0 .. 9)
      BY <3>2, <2>1
    <3> HIDE DEF Value
    <3>5. CASE IsDigit(Head(r.rest))
      <4>1. Value(r) = 10 * v + c
        BY <3>3, <3>5, Zenon
      <4>2. v \in Nat /\ c \in 0 .. 9
        BY <3>4, <3>5
      <4>3. 10 * v + c \in Nat
        BY <4>2, DigitAdded, Zenon
      <4> QED
        BY <4>1, <4>3, Zenon
    <3>6. CASE ~IsDigit(Head(r.rest))
      <4>1. Value(r) = v
        BY <3>3, <3>6, Zenon
      <4> QED
        BY <4>1, <3>4
    <3> QED
      BY <3>5, <3>6
  <2>4. Tail(r.rest) \in AtMost(Len(text), Bytes)
    BY <2>1, <2>2 DEF AtMost
  <2> HIDE DEF Value
  <2>5. On(r) \in Reads /\ Len(On(r).rest) < Len(r.rest)
    BY <2>1, <2>2, <2>3, <2>4
  <2> HIDE DEF On
  <2> QED
    BY <2>5
<1>4. Descends(Reads, Stop, next, rank, Len(text))
  <2>1. rank \in [Reads -> 0 .. Len(text)] /\ Len(text) \in Nat
    BY <1>2
  <2> QED
    BY <2>1, <1>3 DEF Descends
<1>5. \A f : Run(f) <=> IsLoop(f, Reads, Stop, next, out)
  <2>1. ASSUME NEW f
        PROVE  [r \in Reads |-> IF r.rest = <<>> THEN r.value ELSE f[On(r)]]
                 = [r \in Reads |-> IF r \in Stop THEN out[r] ELSE f[next[r]]]
    OBVIOUS
  <2> QED
    BY <2>1, Zenon DEF IsLoop
<1>6. start \in Reads
  BY DEF AtMost
<1>7. \A r \in Reads : out[r] \in Nat
  BY <1>2
<1>8. \A r \in Reads \ Stop : next[r] \in Reads
  BY <1>3
<1> HIDE DEF Stop, rank, out, next, Reads, On
<1>9. \E f : Run(f)
  <2>1. \E f : IsLoop(f, Reads, Stop, next, out)
    BY <1>4, TailRecursion
  <2> QED
    BY <2>1, <1>5, Zenon
<1> DEFINE run == CHOOSE f : Run(f)
<1>10. IsLoop(run, Reads, Stop, next, out)
  BY <1>9, <1>5, Zenon
<1>11. Number(text) = run[start]
  BY <1>1, Zenon
<1> HIDE DEF run, Run, start
<1>12. \A r \in Reads : \E u \in Reads \cap Stop : run[r] = out[u]
  BY <1>4, <1>8, <1>10, LoopRule
<1> QED
  BY <1>6, <1>7, <1>11, <1>12

(* eval_add_operand.                                                       *)
LEMMA AddOperandIsSame ==
  ASSUME NEW s \in Stacks, NEW text \in Seq(Bytes)
  PROVE  Same(s, AddOperand(s, text))
<1>1. Number(text) \in Int
  BY NumberIsInt
<1>2. text \in DOMAIN References => References[text] \in Int
  BY EvaluatorAssumption
<1> QED
  BY <1>1, <1>2, PushOperandIsSame, FailedIsSame DEF AddOperand

-----------------------------------------------------------------------------
(* The buffer.                                                             *)

(* Whatever happens to s, its operands have room in t if they had in s.    *)
Held(s, t) ==
  /\ t \in Stacks
  /\ Len(s.operands) <= MaxOperands => Len(t.operands) <= MaxOperands
  /\ s.status # "COMPLETE" => t.status # "COMPLETE"

LEMMA HeldIs ==
  ASSUME NEW s \in Stacks, NEW t, NEW u, Held(s, t), Held(t, u)
  PROVE  Held(s, u)
BY DEF Held

LEMMA NearIsHeld ==
  ASSUME NEW s, NEW t, Near(s, t)
  PROVE  Held(s, t)
BY DEF Near, Held

LEMMA StackIs ==
  ASSUME NEW s \in Stacks
  PROVE  s = [operators |-> s.operators, operands |-> s.operands, buffer |-> s.buffer,
              bufferIndex |-> s.bufferIndex, operandIndex |-> s.operandIndex, status |-> s.status]
BY DEF Stacks

(* A stack that gets another buffer, or other places in it.                *)
LEMMA WithBuffer ==
  ASSUME NEW s \in Stacks, NEW b \in [1 .. BufferSize -> Bytes],
         NEW i \in 0 .. BufferSize, NEW j \in 0 .. BufferSize, NEW x \in {s.status, "ERROR"}
  PROVE  LET t == [operators |-> s.operators, operands |-> s.operands, buffer |-> b,
                   bufferIndex |-> i, operandIndex |-> j, status |-> x] IN
         Held(s, t)
BY DEF Stacks, Held

LEMMA WindowTyped ==
  ASSUME NEW s \in Stacks, NEW from \in Nat, NEW to \in 0 .. BufferSize
  PROVE  Window(s, from, to) \in Seq(Bytes)
<1> PICK b : b = s.buffer
  OBVIOUS
<1>1. b \in [1 .. BufferSize -> Bytes] /\ BufferSize \in Nat
  BY FieldsOf, EvaluatorAssumption
<1>2. b \in Seq(Bytes) /\ Len(b) = BufferSize
  BY <1>1, ArrayIsSequence
<1>3. SubSeq(b, from + 1, to) \in Seq(Bytes)
  BY <1>2, PartTyped
<1> QED
  BY <1>3 DEF Window

LEMMA StoppedIsHeld ==
  ASSUME NEW s \in Stacks
  PROVE  /\ Held(s, Stopped(s)) /\ Stopped(s).status = "ERROR"
         /\ Stopped(s).operandIndex = 0 /\ Stopped(s).bufferIndex = s.bufferIndex
<1>a. Stopped(s) = [s EXCEPT !.status = "ERROR", !.operandIndex = 0]
  BY DEF Stopped
<1>1. Stopped(s) = [operators |-> s.operators, operands |-> s.operands, buffer |-> s.buffer,
                    bufferIndex |-> s.bufferIndex, operandIndex |-> 0, status |-> "ERROR"]
  BY <1>a, StackIs
<1>2. s.buffer \in [1 .. BufferSize -> Bytes] /\ s.bufferIndex \in 0 .. BufferSize /\ 0 \in 0 .. BufferSize
  BY FieldsOf, EvaluatorAssumption
<1>3. Held(s, Stopped(s))
  BY <1>1, <1>2, WithBuffer
<1> QED
  BY <1>1, <1>3

LEMMA ModuloOfByte ==
  ASSUME NEW i \in 0 .. 255, NEW j \in 0 .. 255
  PROVE  (i - j) % 256 \in 0 .. 255 /\ (j <= i => (i - j) % 256 = i - j)
<1>1. \A k \in Int : k % 256 \in 0 .. 255
  OBVIOUS
<1>2. \A k \in 0 .. 255 : k % 256 = k
  OBVIOUS
<1>3. i - j \in Int /\ (j <= i => i - j \in 0 .. 255)
  OBVIOUS
<1> QED
  BY <1>1, <1>2, <1>3

LEMMA ByteIs ==
  ASSUME NEW n \in 3 .. 255, NEW i \in 0 .. n
  PROVE  i \in 0 .. 255
OBVIOUS

LEMMA RoomIs ==
  ASSUME NEW s \in Stacks, NEW block \in Seq(Bytes)
  PROVE  /\ FillAt(s) \in 0 .. 255 /\ Room(s, block) \in 0 .. Len(block)
         /\ FillAt(s) < BufferSize /\ block # <<>> => Room(s, block) > 0
         /\ s.operandIndex <= s.bufferIndex => FillAt(s) = s.bufferIndex - s.operandIndex
<1>0. PICK i, j, at, n : i = s.bufferIndex /\ j = s.operandIndex /\ at = FillAt(s) /\ n = Len(block)
  OBVIOUS
<1>1. i \in 0 .. BufferSize /\ j \in 0 .. BufferSize /\ BufferSize \in 3 .. 255
  BY <1>0, FieldsOf, EvaluatorAssumption
<1>2. at = (i - j) % 256
  BY <1>0 DEF FillAt
<1>3. at \in 0 .. 255 /\ (j <= i => at = i - j)
  <2>1. i \in 0 .. 255 /\ j \in 0 .. 255
    BY <1>1, ByteIs
  <2>2. /\ (i - j) % 256 \in 0 .. 255
        /\ j <= i => (i - j) % 256 = i - j
    BY <2>1, ModuloOfByte
  <2> QED
    BY <2>2, <1>2
<1>4. n \in Nat /\ (block # <<>> => n > 0)
  BY <1>0
<1>5. Room(s, block) = IF BufferSize - at <= 0 THEN 0 ELSE IF n < BufferSize - at THEN n ELSE BufferSize - at
  BY <1>0 DEF Room
<1>6. Room(s, block) \in 0 .. n /\ (at < BufferSize /\ n > 0 => Room(s, block) > 0)
  BY <1>1, <1>3, <1>4, <1>5
<1> QED
  BY <1>0, <1>3, <1>4, <1>6

(* Filling the buffer with what has room of a block.                       *)
LEMMA FilledIsHeld ==
  ASSUME NEW s \in Stacks, NEW block \in Seq(Bytes)
  PROVE  Held(s, Filled(s, block)) /\ Filled(s, block).operandIndex = 0 /\ Filled(s, block).bufferIndex = 0
<1>0. PICK at, n : at = FillAt(s) /\ n = Room(s, block)
  OBVIOUS
<1>b. PICK b : b = [i \in 1 .. BufferSize |->
                    IF at < i /\ i <= at + n THEN block[i - at]
                    ELSE IF i = at + n + 1 /\ n = Len(block) THEN NUL
                    ELSE s.buffer[i]]
  OBVIOUS
<1>1. at \in Nat /\ n \in 0 .. Len(block) /\ Len(block) \in Nat
  <2>1. FillAt(s) \in 0 .. 255 /\ Room(s, block) \in 0 .. Len(block)
    BY RoomIs
  <2>2. Len(block) \in Nat
    OBVIOUS
  <2>3. at \in 0 .. 255 /\ n \in 0 .. Len(block)
    BY <2>1, <1>0, Zenon
  <2> QED
    BY <2>2, <2>3
<1>2. /\ s.buffer \in [1 .. BufferSize -> Bytes] /\ 0 \in 0 .. BufferSize
      /\ s.status \in {"READY", "COMPLETE", "ERROR"}
  BY FieldsOf, EvaluatorAssumption DEF Stacks
<1>3. b \in [1 .. BufferSize -> Bytes]
  <2>1. ASSUME NEW i \in 1 .. BufferSize PROVE b[i] \in Bytes
    <3>1. CASE at < i /\ i <= at + n
      <4>1. i - at \in 1 .. Len(block)
        BY <3>1, <1>1, EvaluatorAssumption
      <4> QED
        BY <4>1, <3>1, <1>b
    <3>2. CASE ~(at < i /\ i <= at + n)
      <4>1. s.buffer[i] \in Bytes /\ NUL \in Bytes
        BY <1>2 DEF Bytes
      <4> QED
        BY <4>1, <3>2, <1>b
    <3> QED
      BY <3>1, <3>2
  <2> QED
    BY <2>1, <1>b
<1>4. Filled(s, block) = [s EXCEPT !.buffer = b, !.bufferIndex = 0, !.operandIndex = 0]
  BY <1>0, <1>b DEF Filled
<1>5. Filled(s, block) = [operators |-> s.operators, operands |-> s.operands, buffer |-> b,
                          bufferIndex |-> 0, operandIndex |-> 0, status |-> s.status]
  BY <1>4, StackIs
<1>6. Held(s, Filled(s, block))
  BY <1>2, <1>3, <1>5, WithBuffer
<1> QED
  BY <1>5, <1>6

LEMMA SymbolLength ==
  ASSUME NEW op \in Operators
  PROVE  Len(Symbol[op]) \in {1, 2}
<1>1. CASE op \in {"||", "&&", "=="}
  BY <1>1 DEF Symbol, Operators
<1>2. CASE op \notin {"||", "&&", "=="}
  <2>1. Symbol[op] = <<op>>
    BY <1>2 DEF Symbol
  <2> QED
    BY <2>1
<1> QED
  BY <1>1, <1>2

(* An operator that is found ends in the buffer, and with it the operand   *)
(* before it.                                                              *)
LEMMA ScanOperatorMoves ==
  ASSUME NEW t \in Stacks, NEW op \in OperatorsAt(t)
  PROVE  LET r == ScanOperator(t, op) IN
         /\ Held(t, r) /\ r.operandIndex <= r.bufferIndex
         /\ r.status = "ERROR" \/ r.bufferIndex > t.bufferIndex
<1>0. PICK text, s1, s2, next :
        /\ text = Window(t, t.operandIndex, t.bufferIndex)
        /\ s1 = IF text = <<>> THEN t ELSE AddOperand(t, text)
        /\ s2 = IF s1.status = "ERROR" THEN s1 ELSE AddOperator(s1, op)
        /\ next = t.bufferIndex + Len(Symbol[op])
  OBVIOUS
<1>r. ScanOperator(t, op) = IF s2.status = "ERROR" THEN Stopped(s2)
                            ELSE [s2 EXCEPT !.bufferIndex = next, !.operandIndex = next]
  BY <1>0 DEF ScanOperator
<1>1. t.bufferIndex \in 0 .. BufferSize /\ t.operandIndex \in 0 .. BufferSize
  BY FieldsOf
<1>2. next \in 0 .. BufferSize /\ next > t.bufferIndex
  <2>1. op \in Operators /\ next <= BufferSize
    BY <1>0 DEF OperatorsAt
  <2>2. PICK i, l : i = t.bufferIndex /\ l = Len(Symbol[op])
    OBVIOUS
  <2>3. l \in {1, 2} /\ i \in 0 .. BufferSize /\ next = i + l /\ BufferSize \in Nat
    BY <2>1, <2>2, <1>0, <1>1, SymbolLength, EvaluatorAssumption
  <2>4. next \in 0 .. BufferSize /\ next > i
    BY <2>1, <2>3
  <2> QED
    BY <2>2, <2>4
<1>3. Near(t, s1)
  <2>1. text \in Seq(Bytes)
    <3>1. t.operandIndex \in Nat
      BY <1>1, EvaluatorAssumption
    <3> QED
      BY <3>1, <1>0, <1>1, WindowTyped
  <2>2. Near(t, t)
    BY DEF Near
  <2>3. Near(t, AddOperand(t, text))
    BY <2>1, AddOperandIsSame DEF Same
  <2> QED
    BY <2>2, <2>3, <1>0
<1>4. Near(t, s2) /\ s2 \in Stacks
  <2>1. s1 \in Stacks /\ op \in Operators
    BY <1>3 DEF Near, OperatorsAt
  <2>2. Near(s1, AddOperator(s1, op))
    BY <2>1, AddOperatorIsNear
  <2>3. Near(t, AddOperator(s1, op))
    BY <2>1, <2>2, <1>3, NearIs
  <2>4. Near(t, s2)
    BY <2>3, <1>0, <1>3
  <2> QED
    BY <2>4 DEF Near
<1>5. CASE s2.status = "ERROR"
  <2>1. /\ Held(s2, Stopped(s2)) /\ Stopped(s2).operandIndex = 0
        /\ Stopped(s2).status = "ERROR" /\ Stopped(s2).bufferIndex = s2.bufferIndex
    BY <1>4, StoppedIsHeld
  <2>2. Held(t, Stopped(s2)) /\ s2.bufferIndex \in 0 .. BufferSize
    BY <2>1, <1>4, NearIsHeld, HeldIs, FieldsOf
  <2>3. ScanOperator(t, op) = Stopped(s2)
    BY <1>5, <1>r
  <2> QED
    BY <2>1, <2>2, <2>3
<1>6. CASE s2.status # "ERROR"
  <2>1. ScanOperator(t, op) = [s2 EXCEPT !.bufferIndex = next, !.operandIndex = next]
    BY <1>6, <1>r
  <2>2. ScanOperator(t, op) = [operators |-> s2.operators, operands |-> s2.operands, buffer |-> s2.buffer,
                               bufferIndex |-> next, operandIndex |-> next, status |-> s2.status]
    BY <2>1, <1>4, StackIs
  <2>3. s2.buffer \in [1 .. BufferSize -> Bytes] /\ s2.status \in {"READY", "COMPLETE", "ERROR"}
    BY <1>4 DEF Stacks
  <2>4. Held(s2, ScanOperator(t, op))
    BY <2>2, <2>3, <1>2, <1>4, WithBuffer
  <2>5. Held(t, ScanOperator(t, op))
    BY <2>4, <1>4, NearIsHeld, HeldIs
  <2> QED
    BY <2>2, <2>5, <1>2
<1> QED
  BY <1>5, <1>6

ScanEnds(t) ==
  \/ t.status = "ERROR" \/ t.bufferIndex >= BufferSize
  \/ t.buffer[t.bufferIndex + 1] = NUL

ScanOn(t) ==
  IF OperatorsAt(t) = {} THEN [t EXCEPT !.bufferIndex = @ + 1]
  ELSE ScanOperator(t, CHOOSE op \in OperatorsAt(t) : TRUE)

(* A turn of the scan ends with an error or further on.                    *)
LEMMA ScanOnMoves ==
  ASSUME NEW t \in Stacks, ~ScanEnds(t)
  PROVE  LET r == ScanOn(t) IN
         /\ Held(t, r) /\ (t.operandIndex <= t.bufferIndex => r.operandIndex <= r.bufferIndex)
         /\ r.status = "ERROR" \/ r.bufferIndex > t.bufferIndex
<1>1. CASE OperatorsAt(t) = {}
  <2>0. PICK i, j : i = t.bufferIndex /\ j = t.operandIndex
    OBVIOUS
  <2>a. ~(i >= BufferSize)
    BY <2>0 DEF ScanEnds
  <2>1. i \in 0 .. BufferSize /\ j \in 0 .. BufferSize /\ BufferSize \in Nat
    BY <2>0, FieldsOf, EvaluatorAssumption
  <2>2. i + 1 \in 0 .. BufferSize /\ i + 1 > i /\ (j <= i => j <= i + 1)
    BY <2>1, <2>a
  <2>3. ScanOn(t) = [t EXCEPT !.bufferIndex = i + 1]
    BY <1>1, <2>0 DEF ScanOn
  <2>4. ScanOn(t) = [operators |-> t.operators, operands |-> t.operands, buffer |-> t.buffer,
                     bufferIndex |-> i + 1, operandIndex |-> j, status |-> t.status]
    BY <2>0, <2>3, StackIs
  <2>5. t.buffer \in [1 .. BufferSize -> Bytes] /\ t.status \in {"READY", "COMPLETE", "ERROR"}
    BY DEF Stacks
  <2>6. Held(t, ScanOn(t))
    BY <2>1, <2>2, <2>4, <2>5, WithBuffer
  <2> QED
    BY <2>0, <2>2, <2>4, <2>6
<1>2. CASE OperatorsAt(t) # {}
  <2>1. PICK op : op = CHOOSE o \in OperatorsAt(t) : TRUE
    OBVIOUS
  <2>2. op \in OperatorsAt(t)
    BY <1>2, <2>1
  <2>3. ScanOn(t) = ScanOperator(t, op)
    BY <1>2, <2>1, Zenon DEF ScanOn
  <2> QED
    BY <2>2, <2>3, ScanOperatorMoves
<1> QED
  BY <1>1, <1>2

(* Where the scan ends, the operand that is not ended begins before.       *)
LEMMA ScanIsHeld ==
  ASSUME NEW s \in Stacks, s.operandIndex <= s.bufferIndex
  PROVE  Held(s, Scan(s)) /\ Scan(s).operandIndex <= Scan(s).bufferIndex
<1> DEFINE Stop == {t \in Stacks : ScanEnds(t)}
           Rank(t) == IF t.status = "ERROR" \/ t.bufferIndex >= BufferSize THEN 0
                      ELSE BufferSize - t.bufferIndex
           rank == [t \in Stacks |-> Rank(t)]
           id == [t \in Stacks |-> t]
           next == [t \in Stacks |-> ScanOn(t)]
           Run(f) == f = [t \in Stacks |-> IF ScanEnds(t) THEN t ELSE f[ScanOn(t)]]
           Good == {t \in Stacks : Held(s, t) /\ t.operandIndex <= t.bufferIndex}
<1>1. Scan(s) = (CHOOSE f : Run(f))[s]
  BY Zenon DEF Scan, ScanEnds, ScanOn
<1>a. \A t \in Stacks : t.bufferIndex \in 0 .. BufferSize /\ BufferSize \in Nat
  BY FieldsOf, EvaluatorAssumption
<1>2. ASSUME NEW t \in Stacks \ Stop
      PROVE  next[t] \in Stacks /\ rank[next[t]] < rank[t]
  <2>1. PICK r : r = ScanOn(t)
    OBVIOUS
  <2>2. ~ScanEnds(t)
    OBVIOUS
  <2>3. r \in Stacks /\ (r.status = "ERROR" \/ r.bufferIndex > t.bufferIndex)
    BY <2>1, <2>2, ScanOnMoves DEF Held
  <2>4. t.status # "ERROR" /\ ~(t.bufferIndex >= BufferSize)
    BY <2>2 DEF ScanEnds
  <2>5. Rank(r) < Rank(t)
    BY <2>3, <2>4, <1>a
  <2> QED
    BY <2>1, <2>3, <2>5
<1>3. Descends(Stacks, Stop, next, rank, BufferSize)
  <2>1. rank \in [Stacks -> 0 .. BufferSize] /\ BufferSize \in Nat
    BY <1>a, EvaluatorAssumption
  <2> QED
    BY <2>1, <1>2 DEF Descends
<1>4. \A f : Run(f) <=> IsLoop(f, Stacks, Stop, next, id)
  <2>1. ASSUME NEW f
        PROVE  [t \in Stacks |-> IF ScanEnds(t) THEN t ELSE f[ScanOn(t)]]
                 = [t \in Stacks |-> IF t \in Stop THEN id[t] ELSE f[next[t]]]
    OBVIOUS
  <2> QED
    BY <2>1, Zenon DEF IsLoop
<1>5. ASSUME NEW t \in Good \ Stop PROVE next[t] \in Good
  <2>1. t \in Stacks /\ ~ScanEnds(t) /\ Held(s, t) /\ t.operandIndex <= t.bufferIndex /\ next[t] = ScanOn(t)
    OBVIOUS
  <2>2. Held(t, ScanOn(t)) /\ ScanOn(t).operandIndex <= ScanOn(t).bufferIndex
    BY <2>1, ScanOnMoves
  <2>3. Held(s, ScanOn(t)) /\ ScanOn(t) \in Stacks
    BY <2>1, <2>2, HeldIs DEF Held
  <2> QED
    BY <2>1, <2>2, <2>3
<1>6. s \in Good
  BY DEF Held
<1>7. Good \in SUBSET Stacks
  OBVIOUS
<1>8. \A t \in Good : id[t] = t /\ Held(s, t) /\ t.operandIndex <= t.bufferIndex
  OBVIOUS
<1>b. \A t \in Good \ Stop : next[t] \in Good
  BY <1>5
<1> HIDE DEF Stop, rank, id, next, Good
<1>9. \E f : Run(f)
  <2>1. \E f : IsLoop(f, Stacks, Stop, next, id)
    BY <1>3, TailRecursion
  <2> QED
    BY <2>1, <1>4, Zenon
<1> DEFINE run == CHOOSE f : Run(f)
<1>10. IsLoop(run, Stacks, Stop, next, id)
  BY <1>9, <1>4, Zenon
<1>11. Scan(s) = run[s]
  BY <1>1, Zenon
<1> HIDE DEF run, Run
<1>12. \A t \in Good : \E u \in Good \cap Stop : run[t] = id[u]
  BY <1>3, <1>b, <1>7, <1>10, LoopRule
<1> QED
  BY <1>6, <1>8, <1>11, <1>12

(* After it a buffer full of one operand has been taken: there is room for *)
(* more, and the next round goes on (emma-eval.c:561).                     *)
LEMMA TakeFullMakesRoom ==
  ASSUME NEW s \in Stacks, s.operandIndex <= s.bufferIndex
  PROVE  LET t == TakeFull(s) IN
         /\ Held(s, t) /\ t.operandIndex <= t.bufferIndex
         /\ t.status = "ERROR" \/ t.bufferIndex - t.operandIndex < BufferSize
<1>0. PICK i, j : i = s.bufferIndex /\ j = s.operandIndex
  OBVIOUS
<1>1. i \in 0 .. BufferSize /\ j \in 0 .. BufferSize /\ j <= i /\ BufferSize \in 3 .. 255
  BY <1>0, FieldsOf, EvaluatorAssumption
<1>2. CASE ~(s.status # "ERROR" /\ j = 0 /\ i >= BufferSize - 1)
  <2>1. TakeFull(s) = s
    BY <1>0, <1>2 DEF TakeFull
  <2>2. s.status = "ERROR" \/ i - j < BufferSize
    BY <1>1, <1>2
  <2>3. Held(s, s)
    BY DEF Held
  <2> QED
    BY <1>0, <1>1, <2>1, <2>2, <2>3
<1>3. CASE s.status # "ERROR" /\ j = 0 /\ i >= BufferSize - 1
  <2>1. PICK t : t = AddOperand(s, Window(s, 0, BufferSize - 1))
    OBVIOUS
  <2>2. TakeFull(s) = IF t.status = "ERROR" THEN Stopped(t) ELSE [t EXCEPT !.operandIndex = t.bufferIndex]
    BY <1>0, <1>3, <2>1 DEF TakeFull
  <2>3. Near(s, t) /\ t \in Stacks
    <3>1. 0 \in Nat /\ BufferSize - 1 \in 0 .. BufferSize
      BY <1>1
    <3>2. Window(s, 0, BufferSize - 1) \in Seq(Bytes)
      BY <3>1, WindowTyped
    <3> QED
      BY <3>2, <2>1, AddOperandIsSame DEF Same, Near
  <2>4. t.bufferIndex = i /\ t.operandIndex = j
    BY <2>3, <1>0 DEF Near
  <2>5. Held(s, t)
    BY <2>3, NearIsHeld
  <2>6. CASE t.status = "ERROR"
    <3>1. /\ Held(t, Stopped(t)) /\ Stopped(t).status = "ERROR" /\ Stopped(t).operandIndex = 0
          /\ Stopped(t).bufferIndex = t.bufferIndex
      BY <2>3, StoppedIsHeld
    <3>2. Held(s, Stopped(t))
      BY <3>1, <2>3, <2>5, HeldIs
    <3>3. TakeFull(s) = Stopped(t)
      BY <2>2, <2>6
    <3> QED
      BY <3>1, <3>2, <3>3, <2>4, <1>1
  <2>7. CASE t.status # "ERROR"
    <3>1. TakeFull(s) = [t EXCEPT !.operandIndex = i]
      BY <2>2, <2>4, <2>7
    <3>2. TakeFull(s) = [operators |-> t.operators, operands |-> t.operands, buffer |-> t.buffer,
                         bufferIndex |-> t.bufferIndex, operandIndex |-> i, status |-> t.status]
      BY <3>1, <2>3, StackIs
    <3>3. t.buffer \in [1 .. BufferSize -> Bytes] /\ t.status \in {"READY", "COMPLETE", "ERROR"}
      BY <2>3 DEF Stacks
    <3>4. Held(t, TakeFull(s))
      BY <3>2, <3>3, <2>3, <2>4, <1>1, WithBuffer
    <3>5. Held(s, TakeFull(s))
      BY <3>4, <2>3, <2>5, HeldIs
    <3>6. TakeFull(s).bufferIndex = i /\ TakeFull(s).operandIndex = i
      BY <3>2, <2>4
    <3>7. i - i < BufferSize /\ i <= i
      BY <1>1
    <3> QED
      BY <3>5, <3>6, <3>7
  <2> QED
    BY <2>6, <2>7
<1> QED
  BY <1>2, <1>3

LEMMA MoveTrailingIsHeld ==
  ASSUME NEW s \in Stacks, s.operandIndex <= s.bufferIndex
  PROVE  LET t == MoveTrailing(s) IN
         Held(s, t) /\ t.operandIndex = s.operandIndex /\ t.bufferIndex = s.bufferIndex /\ t.status = s.status
<1>0. PICK i, j : i = s.bufferIndex /\ j = s.operandIndex
  OBVIOUS
<1>1. i \in 0 .. BufferSize /\ j \in 0 .. BufferSize /\ j <= i /\ BufferSize \in 3 .. 255
  BY <1>0, FieldsOf, EvaluatorAssumption
<1>2. PICK b : b = [k \in 1 .. BufferSize |-> IF k <= i - j THEN s.buffer[k + j] ELSE s.buffer[k]]
  OBVIOUS
<1>3. b \in [1 .. BufferSize -> Bytes]
  <2>1. ASSUME NEW k \in 1 .. BufferSize PROVE b[k] \in Bytes
    <3>1. s.buffer \in [1 .. BufferSize -> Bytes]
      BY FieldsOf
    <3>2. k <= i - j => k + j \in 1 .. BufferSize
      BY <1>1
    <3>3. b[k] = IF k <= i - j THEN s.buffer[k + j] ELSE s.buffer[k]
      BY <1>2
    <3> QED
      BY <3>1, <3>2, <3>3
  <2> QED
    BY <2>1, <1>2
<1>4. CASE s.status = "ERROR"
  <2>1. MoveTrailing(s) = s /\ Held(s, s)
    BY <1>4 DEF MoveTrailing, Held
  <2> QED
    BY <2>1
<1>5. CASE s.status # "ERROR"
  <2>1. MoveTrailing(s) = [s EXCEPT !.buffer = b]
    BY <1>0, <1>2, <1>5 DEF MoveTrailing
  <2>2. MoveTrailing(s) = [operators |-> s.operators, operands |-> s.operands, buffer |-> b,
                           bufferIndex |-> i, operandIndex |-> j, status |-> s.status]
    BY <1>0, <2>1, StackIs
  <2>3. s.status \in {"READY", "COMPLETE", "ERROR"}
    BY DEF Stacks
  <2>4. Held(s, MoveTrailing(s))
    BY <2>2, <2>3, <1>1, <1>3, WithBuffer
  <2> QED
    BY <1>0, <2>2, <2>4
<1> QED
  BY <1>4, <1>5

-----------------------------------------------------------------------------
(* evaluate_block.                                                         *)

(* One round: the next one finds room, if there is one.                    *)
Round(t, rest) == MoveTrailing(TakeFull(Scan(Filled(t, rest))))

LEMMA RoundMakesRoom ==
  ASSUME NEW t \in Stacks, NEW rest \in Seq(Bytes)
  PROVE  /\ Held(t, Round(t, rest))
         /\ Round(t, rest).status = "ERROR" \/ FillAt(Round(t, rest)) < BufferSize
<1>0. PICK f, s, k, m : f = Filled(t, rest) /\ s = Scan(f) /\ k = TakeFull(s) /\ m = MoveTrailing(k)
  OBVIOUS
<1>1. Held(t, f) /\ f \in Stacks /\ f.operandIndex <= f.bufferIndex
  BY <1>0, FilledIsHeld DEF Held
<1>2. Held(f, s) /\ s \in Stacks /\ s.operandIndex <= s.bufferIndex
  BY <1>0, <1>1, ScanIsHeld DEF Held
<1>3. /\ Held(s, k) /\ k \in Stacks /\ k.operandIndex <= k.bufferIndex
      /\ k.status = "ERROR" \/ k.bufferIndex - k.operandIndex < BufferSize
  BY <1>0, <1>2, TakeFullMakesRoom DEF Held
<1>4. /\ Held(k, m) /\ m \in Stacks
      /\ m.operandIndex = k.operandIndex /\ m.bufferIndex = k.bufferIndex /\ m.status = k.status
  BY <1>0, <1>3, MoveTrailingIsHeld DEF Held
<1>5. Held(t, m)
  BY <1>1, <1>2, <1>3, <1>4, HeldIs
<1>6. <<>> \in Seq(Bytes)
  OBVIOUS
<1>7. FillAt(m) = m.bufferIndex - m.operandIndex
  BY <1>3, <1>4, <1>6, RoomIs
<1>8. m = Round(t, rest)
  BY <1>0 DEF Round
<1> QED
  BY <1>3, <1>4, <1>5, <1>7, <1>8

BlockEnds(r) == r.rest = <<>> \/ r.stack.status = "ERROR"

BlockOn(r) ==
  [stack |-> Round(r.stack, r.rest), rest |-> SubSeq(r.rest, Room(r.stack, r.rest) + 1, Len(r.rest))]

(* How far from its end a block is: a round takes some of it, or makes     *)
(* room; cnt cannot stand still for ever in the loop of emma-eval.c:491.   *)
BlockRank(r) ==
  IF BlockEnds(r) THEN 0
  ELSE 2 * Len(r.rest) + (IF FillAt(r.stack) < BufferSize THEN 0 ELSE 1)

LEMMA BlockGoesOn ==
  ASSUME NEW n \in Nat, NEW r \in [stack : Stacks, rest : AtMost(n, Bytes)], ~BlockEnds(r)
  PROVE  /\ BlockOn(r) \in [stack : Stacks, rest : AtMost(n, Bytes)]
         /\ BlockRank(BlockOn(r)) < BlockRank(r)
         /\ Held(r.stack, BlockOn(r).stack)
<1>0. PICK t, w, k, v, u : /\ t = r.stack /\ w = r.rest /\ k = Room(t, w)
                           /\ v = SubSeq(w, k + 1, Len(w)) /\ u = Round(t, w)
  OBVIOUS
<1>1. t \in Stacks /\ w \in Seq(Bytes) /\ Len(w) <= n /\ w # <<>> /\ Len(w) \in Nat \ {0}
  BY <1>0 DEF AtMost, BlockEnds
<1>2. k \in 0 .. Len(w) /\ (FillAt(t) < BufferSize => k > 0)
  BY <1>0, <1>1, RoomIs
<1>3. v \in Seq(Bytes) /\ Len(v) = Len(w) - k
  <2>1. k \in Nat /\ Len(w) \in 0 .. Len(w)
    BY <1>1, <1>2
  <2>2. v \in Seq(Bytes) /\ Len(v) = IF k <= Len(w) THEN Len(w) - k ELSE 0
    BY <2>1, <1>0, <1>1, PartTyped
  <2> QED
    BY <2>2, <1>2
<1>4. Held(t, u) /\ u \in Stacks /\ (u.status = "ERROR" \/ FillAt(u) < BufferSize)
  BY <1>0, <1>1, RoundMakesRoom DEF Held
<1>5. BlockOn(r) = [stack |-> u, rest |-> v]
  BY <1>0 DEF BlockOn
<1>6. v \in AtMost(n, Bytes)
  BY <1>1, <1>2, <1>3 DEF AtMost
<1>7. BlockRank(r) = 2 * Len(w) + (IF FillAt(t) < BufferSize THEN 0 ELSE 1)
  BY <1>0 DEF BlockRank
<1>8. BlockRank(BlockOn(r)) = IF v = <<>> \/ u.status = "ERROR" THEN 0
                              ELSE 2 * Len(v) + (IF FillAt(u) < BufferSize THEN 0 ELSE 1)
  BY <1>5 DEF BlockRank, BlockEnds
<1>9. BlockRank(BlockOn(r)) < BlockRank(r)
  <2>1. PICK l, m : l = Len(w) /\ m = Len(v)
    OBVIOUS
  <2>2. l \in Nat \ {0} /\ k \in 0 .. l /\ m = l - k
    BY <2>1, <1>1, <1>2, <1>3
  <2>3. CASE v = <<>> \/ u.status = "ERROR"
    BY <2>1, <2>2, <2>3, <1>7, <1>8
  <2>4. CASE ~(v = <<>> \/ u.status = "ERROR")
    <3>1. BlockRank(BlockOn(r)) = 2 * m
      BY <2>1, <2>4, <1>4, <1>8
    <3>2. CASE FillAt(t) < BufferSize
      BY <2>1, <2>2, <3>1, <3>2, <1>2, <1>7
    <3>3. CASE ~(FillAt(t) < BufferSize)
      BY <2>1, <2>2, <3>1, <3>3, <1>7
    <3> QED
      BY <3>2, <3>3
  <2> QED
    BY <2>3, <2>4
<1> QED
  BY <1>0, <1>4, <1>5, <1>6, <1>9

LEMMA EvaluateBlockIsHeld ==
  ASSUME NEW s \in Stacks, NEW block \in Seq(Bytes)
  PROVE  Held(s, EvaluateBlock(s, block))
<1> DEFINE n == Len(block)
           D == [stack : Stacks, rest : AtMost(n, Bytes)]
           Stop == {r \in D : BlockEnds(r)}
           rank == [r \in D |-> BlockRank(r)]
           out == [r \in D |-> r.stack]
           next == [r \in D |-> BlockOn(r)]
           Run(f) == f = [r \in D |-> IF BlockEnds(r) THEN r.stack ELSE f[BlockOn(r)]]
           ready == [s EXCEPT !.status = "READY"]
           start == [stack |-> ready, rest |-> block]
           Good == {r \in D : Held(s, r.stack)}
<1>1. EvaluateBlock(s, block) = (CHOOSE f : Run(f))[start]
  BY Zenon DEF EvaluateBlock, BlockEnds, BlockOn, Round
<1>n. n \in Nat
  OBVIOUS
<1>2. ASSUME NEW r \in D \ Stop
      PROVE  BlockOn(r) \in D /\ BlockRank(BlockOn(r)) < BlockRank(r) /\ Held(r.stack, BlockOn(r).stack)
  <2>1. r \in D /\ ~BlockEnds(r)
    OBVIOUS
  <2> HIDE DEF n, Stop
  <2> QED
    BY <2>1, <1>n, BlockGoesOn
<1>3. \A r \in D : BlockRank(r) \in 0 .. 2 * n + 1
  <2> TAKE r \in D
  <2>1. PICK l : l = Len(r.rest)
    OBVIOUS
  <2>2. l \in 0 .. n
    BY <2>1 DEF AtMost
  <2>3. BlockRank(r) \in {0, 2 * l, 2 * l + 1}
    BY <2>1, <2>2 DEF BlockRank
  <2> HIDE DEF n
  <2> QED
    BY <2>2, <2>3, <1>n
<1>4. start \in Good
  <2>1. Near(s, ready)
    BY WithStatus
  <2>2. Held(s, ready) /\ ready \in Stacks
    BY <2>1, NearIsHeld DEF Near
  <2>3. block \in AtMost(n, Bytes)
    BY DEF AtMost
  <2> HIDE DEF ready, n
  <2> QED
    BY <2>2, <2>3
<1>5. \A r \in D \ Stop : next[r] = BlockOn(r) /\ next[r] \in D
  BY <1>2
<1>6. Descends(D, Stop, next, rank, 2 * n + 1)
  <2>1. rank \in [D -> 0 .. 2 * n + 1] /\ 2 * n + 1 \in Nat
    BY <1>3, <1>n
  <2>2. \A r \in D \ Stop : rank[next[r]] < rank[r]
    BY <1>2
  <2> HIDE DEF D, Stop, next, rank, n
  <2> QED
    BY <2>1, <2>2, <1>5 DEF Descends
<1>7. \A f : Run(f) <=> IsLoop(f, D, Stop, next, out)
  <2>1. ASSUME NEW f
        PROVE  [r \in D |-> IF BlockEnds(r) THEN r.stack ELSE f[BlockOn(r)]]
                 = [r \in D |-> IF r \in Stop THEN out[r] ELSE f[next[r]]]
    OBVIOUS
  <2> QED
    BY <2>1, Zenon DEF IsLoop
<1>8. \A r \in Good \ Stop : next[r] \in Good
  <2> TAKE r \in Good \ Stop
  <2>1. r \in D \ Stop /\ Held(s, r.stack)
    OBVIOUS
  <2>2. BlockOn(r) \in D /\ Held(r.stack, BlockOn(r).stack)
    BY <2>1, <1>2
  <2>3. Held(s, BlockOn(r).stack)
    BY <2>1, <2>2, HeldIs
  <2>4. next[r] = BlockOn(r)
    BY <2>1
  <2> QED
    BY <2>2, <2>3, <2>4
<1>9. Good \in SUBSET D /\ \A r \in Good : out[r] = r.stack /\ Held(s, r.stack)
  OBVIOUS
<1> HIDE DEF D, Stop, rank, out, next, Good, start, n
<1>10. \E f : Run(f)
  <2>1. \E f : IsLoop(f, D, Stop, next, out)
    BY <1>6, TailRecursion
  <2> QED
    BY <2>1, <1>7, Zenon
<1> DEFINE run == CHOOSE f : Run(f)
<1>11. IsLoop(run, D, Stop, next, out)
  BY <1>10, <1>7, Zenon
<1>12. EvaluateBlock(s, block) = run[start]
  BY <1>1, Zenon
<1> HIDE DEF run, Run
<1>13. \A r \in Good : \E u \in Good \cap Stop : run[r] = out[u]
  BY <1>6, <1>8, <1>9, <1>11, LoopRule
<1> QED
  BY <1>4, <1>9, <1>12, <1>13

-----------------------------------------------------------------------------
(* What the root L does with the stack.                                    *)

(* Between two calls: nothing is past the end of its array.                *)
Rests(s) == s \in Stacks /\ s.status = "READY" /\ Len(s.operands) <= MaxOperands

LEMMA RestsHeld ==
  ASSUME NEW s, Rests(s), NEW t, Held(s, t)
  PROVE  /\ t \in Stacks /\ Len(t.operands) <= MaxOperands /\ t.status \in {"READY", "ERROR"}
         /\ t.status # "ERROR" => Rests(t)
BY DEF Rests, Held, Stacks

LEMMA ReadiedRests ==
  ASSUME NEW s \in Stacks, Len(s.operands) <= MaxOperands
  PROVE  Rests([s EXCEPT !.status = "READY"])
<1>1. PICK t : t = [s EXCEPT !.status = "READY"]
  OBVIOUS
<1>2. Near(s, t) /\ t.status = "READY"
  BY <1>1, WithStatus
<1> QED
  BY <1>1, <1>2 DEF Near, Rests

LEMMA CleanedIsHeld ==
  ASSUME NEW s \in Stacks
  PROVE  Held(s, Cleaned(s)) /\ Cleaned(s).status = s.status
<1>1. Cleaned(s) = [s EXCEPT !.operators = <<>>, !.operands = <<>>, !.bufferIndex = 0]
  BY DEF Cleaned
<1>2. Cleaned(s) = [operators |-> <<>>, operands |-> <<>>, buffer |-> s.buffer,
                    bufferIndex |-> 0, operandIndex |-> s.operandIndex, status |-> s.status]
  BY <1>1, StackIs
<1>3. /\ <<>> \in AtMost(MaxOperators, Stacked) /\ <<>> \in Seq(Int)
      /\ Len(<<>>) <= MaxOperands /\ 0 \in 0 .. BufferSize
  BY EvaluatorAssumption DEF AtMost
<1>4. Cleaned(s) \in Stacks
  BY <1>2, <1>3 DEF Stacks
<1> QED
  BY <1>2, <1>3, <1>4 DEF Held

(* The last turn: a result is alone on the stack of the operands.          *)
LEMMA ConcludedTyped ==
  ASSUME NEW s, Rests(s)
  PROVE  LET c == Concluded(s) IN
         /\ c \in Stacks /\ Len(c.operands) <= MaxOperands
         /\ c.status = "COMPLETE" => Len(c.operands) = 1
<1>0. PICK s1, s2, i, j :
        /\ i = s.bufferIndex /\ j = s.operandIndex
        /\ s1 = IF j < i THEN AddOperand(s, Window(s, j, i)) ELSE s
        /\ s2 = IF s1.status = "ERROR" THEN s1 ELSE Reduce(s1, Lowest)
  OBVIOUS
<1>1. s \in Stacks /\ i \in 0 .. BufferSize /\ j \in Nat
  <2>1. s \in Stacks
    BY DEF Rests
  <2>2. i \in 0 .. BufferSize /\ j \in 0 .. BufferSize
    BY <1>0, <2>1, FieldsOf
  <2> QED
    BY <2>1, <2>2, EvaluatorAssumption
<1>2. Near(s, s1) /\ s1 \in Stacks
  <2>1. Window(s, j, i) \in Seq(Bytes)
    BY <1>1, WindowTyped
  <2>2. Near(s, AddOperand(s, Window(s, j, i)))
    BY <2>1, <1>1, AddOperandIsSame DEF Same
  <2>3. Near(s, s)
    BY <1>1 DEF Near
  <2>4. Near(s, s1)
    BY <2>2, <2>3, <1>0
  <2> QED
    BY <2>4 DEF Near
<1>3. Held(s, s2) /\ s2 \in Stacks /\ Len(s2.operands) <= MaxOperands
  <2>1. Near(s1, Reduce(s1, Lowest))
    BY <1>2, ReduceIsNear
  <2>2. Near(s, Reduce(s1, Lowest))
    BY <2>1, <1>1, <1>2, NearIs
  <2>3. Near(s, s2)
    BY <2>2, <1>0, <1>2
  <2>4. Held(s, s2)
    BY <2>3, NearIsHeld
  <2> QED
    BY <2>4, RestsHeld
<1>4. Concluded(s) = IF s2.status = "ERROR" THEN Stopped(s2)
                     ELSE IF Len(s2.operands) = 1 THEN [s2 EXCEPT !.operandIndex = 0, !.status = "COMPLETE"]
                     ELSE Stopped(PopOperands(s2, 2))
  BY <1>0 DEF Concluded
<1>5. CASE s2.status = "ERROR"
  <2>1. Concluded(s) = Stopped(s2)
    BY <1>4, <1>5
  <2>2. Held(s2, Stopped(s2)) /\ Stopped(s2).status = "ERROR"
    BY <1>3, StoppedIsHeld
  <2> QED
    BY <2>1, <2>2, <1>3 DEF Held
<1>6. CASE s2.status # "ERROR" /\ Len(s2.operands) = 1
  <2>1. Concluded(s) = [s2 EXCEPT !.operandIndex = 0, !.status = "COMPLETE"]
    BY <1>4, <1>6
  <2>2. Concluded(s) = [operators |-> s2.operators, operands |-> s2.operands, buffer |-> s2.buffer,
                        bufferIndex |-> s2.bufferIndex, operandIndex |-> 0, status |-> "COMPLETE"]
    BY <2>1, <1>3, StackIs
  <2>3. 0 \in 0 .. BufferSize
    BY EvaluatorAssumption
  <2>4. Concluded(s) \in Stacks
    BY <2>2, <2>3, <1>3 DEF Stacks
  <2>5. Concluded(s).operands = s2.operands
    BY <2>2
  <2>6. Len(s2.operands) <= MaxOperands /\ Len(s2.operands) = 1
    BY <1>3, <1>6
  <2> QED
    BY <2>4, <2>5, <2>6
<1>7. CASE s2.status # "ERROR" /\ Len(s2.operands) # 1
  <2>1. PICK t : t = PopOperands(s2, 2)
    OBVIOUS
  <2>2. Concluded(s) = Stopped(t)
    BY <2>1, <1>4, <1>7
  <2>3. Held(s2, t) /\ t \in Stacks
    BY <2>1, <1>3, PopOperandsIsSame, NearIsHeld DEF Same, Near
  <2>4. Held(t, Stopped(t)) /\ Stopped(t).status = "ERROR"
    BY <2>3, StoppedIsHeld
  <2>5. Held(s2, Stopped(t))
    BY <2>3, <2>4, <1>3, HeldIs
  <2> QED
    BY <2>2, <2>4, <2>5, <1>3 DEF Held
<1> QED
  BY <1>5, <1>6, <1>7

(* What a resource can hold.                                               *)
Words == 0 .. Word - 1

LEMMA WordIs ==
  ASSUME NEW x \in Int
  PROVE  x % Word \in Words
<1>1. Word \in Nat \ {0}
  BY DEF Word
<1> QED
  BY <1>1 DEF Words

LEMMA ClosedRests ==
  ASSUME NEW s, Rests(s)
  PROVE  /\ Rests(Closed(Concluded(s)))
         /\ Concluded(s).status = "COMPLETE" => Stored(Concluded(s)) \in Words
<1>0. PICK c : c = Concluded(s)
  OBVIOUS
<1>1. c \in Stacks /\ Len(c.operands) <= MaxOperands /\ (c.status = "COMPLETE" => Len(c.operands) = 1)
  BY <1>0, ConcludedTyped
<1>2. PICK t : t = IF c.status = "COMPLETE" THEN Cleaned(c) ELSE c
  OBVIOUS
<1>3. t \in Stacks /\ Len(t.operands) <= MaxOperands
  BY <1>1, <1>2, CleanedIsHeld DEF Held
<1>4. Rests([t EXCEPT !.status = "READY"])
  BY <1>3, ReadiedRests
<1>5. Closed(c) = [t EXCEPT !.status = "READY"]
  BY <1>2 DEF Closed
<1>6. ASSUME c.status = "COMPLETE"
      PROVE  Stored(c) \in Words
  <2>1. PICK w, x : w = c.operands /\ x = Top(w)
    OBVIOUS
  <2>2. w \in Seq(Int)
    BY <2>1, <1>1, FieldsOf
  <2>3. Len(w) = 1
    BY <2>1, <1>1, <1>6
  <2>4. w # <<>>
    BY <2>3
  <2>5. x \in Int
    BY <2>1, <2>2, <2>4, TopTyped
  <2>6. PICK v : v = Stored(c)
    OBVIOUS
  <2>7. v = x % Word
    BY <2>1, <2>6, SMT DEF Stored
  <2>8. v \in Words
    BY <2>5, <2>7, WordIs
  <2> QED
    BY <2>6, <2>8
<1>7. Rests(Closed(c))
  BY <1>4, <1>5
<1> QED
  BY <1>0, <1>6, <1>7, Zenon

LEMMA TransfersAre ==
  Transfers = [state : {"running", "stored", "refused"}, expression : Expressions,
               sent : Nat, alone : BOOLEAN, value : Words]
BY DEF Transfers, Words

LEMMA TransferTyped ==
  ASSUME NEW state \in {"running", "stored", "refused"}, NEW e \in Expressions, NEW n \in Nat,
         NEW clean \in BOOLEAN, NEW value \in Words
  PROVE  [state |-> state, expression |-> e, sent |-> n, alone |-> clean, value |-> value] \in Transfers
BY TransfersAre

LEMMA EndsTyped ==
  ASSUME NEW state \in {"running", "stored", "refused"}, NEW e \in Expressions,
         NEW clean \in BOOLEAN, NEW value \in Words, Ends(state, e, clean, value)
  PROVE  transfer' \in Transfers
<1>1. e.text \in Seq(Bytes)
  BY EvaluatorAssumption
<1>2. Len(e.text) \in Nat
  BY <1>1
<1> QED
  BY <1>2, TransferTyped DEF Ends

(* A block that is written, refused or the last one.                       *)
LEMMA BlockOfTyped ==
  ASSUME NEW s, Rests(s), NEW e \in Expressions, NEW from \in Nat, NEW n \in Nat,
         from + n <= Len(e.text), NEW clean \in BOOLEAN, BlockOf(s, e, from, n, clean)
  PROVE  Rests(stack)' /\ opened' \in BOOLEAN /\ transfer' \in Transfers
<1>0. PICK block, t : block = SubSeq(e.text, from + 1, from + n) /\ t = EvaluateBlock(s, block)
  OBVIOUS
<1>1. IF t.status = "ERROR" THEN BlockRefused(t, e, clean)
      ELSE IF from + n < Len(e.text) THEN BlockWritten(t, e, from + n, clean)
      ELSE LastBlockWritten(t, e, clean)
  BY <1>0, Zenon DEF BlockOf
<1>2. block \in Seq(Bytes)
  <2>1. PICK w, m : w = e.text /\ m = from + n
    OBVIOUS
  <2>2. w \in Seq(Bytes)
    BY <2>1, EvaluatorAssumption
  <2>3. m \in 0 .. Len(w)
    BY <2>1, <2>2
  <2>4. SubSeq(w, from + 1, m) \in Seq(Bytes)
    BY <2>2, <2>3, PartTyped
  <2> QED
    BY <2>1, <2>4, <1>0
<1>3. Held(s, t)
  BY <1>0, <1>2, EvaluateBlockIsHeld DEF Rests
<1>4. t \in Stacks /\ Len(t.operands) <= MaxOperands /\ (t.status # "ERROR" => Rests(t))
  BY <1>3, RestsHeld
<1>5. 0 \in Words
  BY DEF Words, Word
<1>6. CASE t.status = "ERROR"
  <2>1. BlockRefused(t, e, clean)
    BY <1>1, <1>6
  <2>2. Rests(stack')
    BY <2>1, <1>4, ReadiedRests DEF BlockRefused
  <2>3. transfer' \in Transfers
    BY <2>1, <1>5, EndsTyped DEF BlockRefused
  <2> QED
    BY <2>1, <2>2, <2>3 DEF BlockRefused, Rests
<1>7. CASE t.status # "ERROR" /\ from + n < Len(e.text)
  <2>1. BlockWritten(t, e, from + n, clean)
    BY <1>1, <1>7
  <2>2. transfer' \in Transfers
    BY <2>1, <1>5, TransferTyped DEF BlockWritten
  <2> QED
    BY <2>1, <2>2, <1>4, <1>7 DEF BlockWritten, Rests
<1>8. CASE t.status # "ERROR" /\ ~(from + n < Len(e.text))
  <2>1. LastBlockWritten(t, e, clean)
    BY <1>1, <1>8
  <2>2. PICK c : c = Concluded(t)
    OBVIOUS
  <2>3. Rests(Closed(c)) /\ (c.status = "COMPLETE" => Stored(c) \in Words)
    BY <2>2, <1>4, <1>8, ClosedRests
  <2>4. /\ stack' = Closed(c) /\ opened' = TRUE
        /\ IF c.status = "COMPLETE" THEN Ends("stored", e, clean, Stored(c)) ELSE Ends("refused", e, clean, 0)
    BY <2>1, <2>2 DEF LastBlockWritten
  <2>5. transfer' \in Transfers
    BY <2>3, <2>4, <1>5, EndsTyped
  <2> QED
    BY <2>3, <2>4, <2>5 DEF Rests
<1> QED
  BY <1>6, <1>7, <1>8

LEMMA WithFalse ==
  ASSUME NEW S, NEW T, NEW U, NEW V,
         NEW r \in [state : S, expression : T, sent : U, alone : BOOLEAN, value : V]
  PROVE  [r EXCEPT !.alone = FALSE] \in [state : S, expression : T, sent : U, alone : BOOLEAN, value : V]
OBVIOUS

(* A step of someone else leaves a transfer what it is.                    *)
LEMMA DisturbTyped ==
  ASSUME transfer \in Transfers \cup {NoTransfer}, Disturb
  PROVE  transfer' \in Transfers \cup {NoTransfer}
<1>1. CASE CanStart
  BY <1>1 DEF Disturb
<1>2. CASE ~CanStart
  <2>1. transfer \in Transfers
    BY <1>2 DEF CanStart, NoTransfer
  <2>2. transfer' = [transfer EXCEPT !.alone = FALSE]
    BY <1>2 DEF Disturb
  <2>3. [transfer EXCEPT !.alone = FALSE] \in Transfers
    BY <2>1, TransfersAre, WithFalse
  <2> QED
    BY <2>2, <2>3
<1> QED
  BY <1>1, <1>2

-----------------------------------------------------------------------------
(* The steps.                                                              *)

LEMMA TypeIs ==
  TypeOK <=> /\ Rests(stack) /\ opened \in BOOLEAN /\ writes \in 0 .. MaxWrites
             /\ transfer \in Transfers \cup {NoTransfer}
BY DEF TypeOK, Rests

LEMMA CleanedRests ==
  ASSUME NEW s, Rests(s)
  PROVE  Rests(Cleaned(s))
<1>1. s \in Stacks /\ s.status = "READY"
  BY DEF Rests
<1>2. Held(s, Cleaned(s)) /\ Cleaned(s).status = "READY"
  BY <1>1, CleanedIsHeld
<1> QED
  BY <1>2, RestsHeld

LEMMA InitTyped ==
  ASSUME Init
  PROVE  TypeOK
<1>1. PICK b : b = [i \in 1 .. BufferSize |-> NUL]
  OBVIOUS
<1>2. b \in [1 .. BufferSize -> Bytes]
  BY <1>1 DEF Bytes
<1>3. <<>> \in AtMost(MaxOperators, Stacked) /\ 0 \in 0 .. BufferSize
  BY EvaluatorAssumption DEF AtMost
<1>4. stack = [operators |-> <<>>, operands |-> <<>>, buffer |-> b, bufferIndex |-> 0,
               operandIndex |-> 0, status |-> "READY"]
  BY <1>1 DEF Init
<1>5. stack \in Stacks
  BY <1>2, <1>3, <1>4 DEF Stacks
<1>6. Len(stack.operands) <= MaxOperands /\ stack.status = "READY"
  BY <1>4, EvaluatorAssumption
<1>7. writes \in 0 .. MaxWrites
  BY EvaluatorAssumption DEF Init
<1> QED
  BY <1>5, <1>6, <1>7 DEF Init, TypeOK

LEMMA BeginsTyped ==
  ASSUME writes \in 0 .. MaxWrites, Begins
  PROVE  writes' \in 0 .. MaxWrites
BY EvaluatorAssumption DEF Begins

LEMMA FirstBlockTyped ==
  ASSUME TypeOK, NEW e \in Expressions, NEW n \in 1 .. Len(e.text), FirstBlock(e, n)
  PROVE  TypeOK'
<1>1. Rests(stack) /\ writes \in 0 .. MaxWrites
  BY TypeIs
<1>2. PICK s, clean : s = (IF opened THEN stack ELSE Cleaned(stack)) /\ clean = IsClean(s)
  OBVIOUS
<1>3. Begins /\ BlockOf(s, e, 0, n, clean)
  BY <1>2 DEF FirstBlock
<1>4. Rests(s)
  BY <1>1, <1>2, CleanedRests
<1>5. clean \in BOOLEAN
  BY <1>2 DEF IsClean
<1>6. n \in Nat /\ 0 + n <= Len(e.text)
  BY EvaluatorAssumption
<1>7. Rests(stack)' /\ opened' \in BOOLEAN /\ transfer' \in Transfers
  BY <1>3, <1>4, <1>5, <1>6, BlockOfTyped
<1>8. writes' \in 0 .. MaxWrites
  BY <1>1, <1>3, BeginsTyped
<1> QED
  BY <1>7, <1>8 DEF TypeOK, Rests

LEMMA LocalWriteTyped ==
  ASSUME TypeOK, NEW e \in Expressions, NEW n \in 1 .. Len(e.text), LocalWrite(e, n)
  PROVE  TypeOK'
<1>0. PICK w, block, rest, s, t, r :
        /\ w = e.text /\ block = SubSeq(w, 1, n) /\ rest = SubSeq(w, n + 1, Len(w))
        /\ s = EvaluateBlock(Cleaned(stack), block) /\ t = EvaluateBlock(s, rest)
        /\ r = [t EXCEPT !.status = "READY"]
  OBVIOUS
<1>1. Begins /\ stack' = Closed(Concluded(r)) /\ Disturb /\ opened' = opened
  BY <1>0, Zenon DEF LocalWrite
<1>2. Rests(stack) /\ opened \in BOOLEAN /\ writes \in 0 .. MaxWrites
      /\ transfer \in Transfers \cup {NoTransfer}
  BY TypeIs
<1>3. w \in Seq(Bytes) /\ n \in 0 .. Len(w) /\ 0 \in Nat /\ n \in Nat
  BY <1>0, EvaluatorAssumption
<1>4. block \in Seq(Bytes) /\ rest \in Seq(Bytes)
  BY <1>0, <1>3
<1>5. Rests(Cleaned(stack))
  BY <1>2, CleanedRests
<1>6. Held(Cleaned(stack), s)
  BY <1>0, <1>4, <1>5, EvaluateBlockIsHeld DEF Rests
<1>7. s \in Stacks /\ Len(s.operands) <= MaxOperands
  BY <1>5, <1>6, RestsHeld
<1>8. Held(s, t)
  BY <1>0, <1>4, <1>7, EvaluateBlockIsHeld
<1>9. t \in Stacks /\ Len(t.operands) <= MaxOperands
  BY <1>7, <1>8 DEF Held
<1>10. Rests(Closed(Concluded(r)))
  BY <1>0, <1>9, ReadiedRests, ClosedRests
<1>11. transfer' \in Transfers \cup {NoTransfer}
  BY <1>1, <1>2, DisturbTyped
<1>12. writes' \in 0 .. MaxWrites
  BY <1>1, <1>2, BeginsTyped
<1> QED
  BY <1>1, <1>2, <1>10, <1>11, <1>12 DEF TypeOK, Rests

LEMMA NextBlockTyped ==
  ASSUME TypeOK, NextBlock
  PROVE  TypeOK'
<1>1. PICK e, from : e = transfer.expression /\ from = transfer.sent
  OBVIOUS
<1>2. PICK n \in 1 .. Len(e.text) - from : BlockOf(stack, e, from, n, transfer.alone)
  BY <1>1, Zenon DEF NextBlock
<1>3. transfer # NoTransfer
  BY DEF NextBlock, CanStart, NoTransfer
<1>4. Rests(stack) /\ writes \in 0 .. MaxWrites /\ transfer \in Transfers
  BY <1>3, TypeIs
<1>5. e \in Expressions /\ from \in Nat /\ transfer.alone \in BOOLEAN
  BY <1>1, <1>4, TransfersAre
<1>6. Len(e.text) \in Nat
  BY <1>5, EvaluatorAssumption
<1>7. n \in Nat /\ from + n <= Len(e.text)
  BY <1>2, <1>5, <1>6
<1>8. Rests(stack)' /\ opened' \in BOOLEAN /\ transfer' \in Transfers
  BY <1>2, <1>4, <1>5, <1>7, BlockOfTyped
<1>9. writes' = writes
  BY DEF NextBlock
<1> QED
  BY <1>4, <1>8, <1>9 DEF TypeOK, Rests

LEMMA RefusedTyped ==
  ASSUME TypeOK, NEW first, Refused(first)
  PROVE  TypeOK'
<1>1. Rests(stack) /\ writes \in 0 .. MaxWrites
  BY TypeIs
<1>2. PICK s : s = IF opened THEN stack ELSE Cleaned(stack)
  OBVIOUS
<1>3. Rests(Closed(Concluded(s)))
  BY <1>1, <1>2, CleanedRests, ClosedRests
<1>4. stack' = stack \/ stack' = Closed(Concluded(s))
  BY <1>2, Zenon DEF Refused
<1>5. opened' = FALSE /\ transfer' = NoTransfer /\ writes' = writes
  BY DEF Refused
<1> QED
  BY <1>1, <1>3, <1>4, <1>5 DEF TypeOK, Rests

LEMMA ConditionTyped ==
  ASSUME TypeOK, Condition
  PROVE  TypeOK'
<1>1. Rests(stack) /\ opened \in BOOLEAN /\ writes \in 0 .. MaxWrites
      /\ transfer \in Transfers \cup {NoTransfer}
  BY TypeIs
<1>2. stack' = [stack EXCEPT !.operandIndex = 0] /\ Disturb /\ UNCHANGED <<opened, writes>>
  BY DEF Condition
<1>3. stack' = [operators |-> stack.operators, operands |-> stack.operands, buffer |-> stack.buffer,
                bufferIndex |-> stack.bufferIndex, operandIndex |-> 0, status |-> stack.status]
  BY <1>1, <1>2, StackIs DEF Rests
<1>4. stack.buffer \in [1 .. BufferSize -> Bytes] /\ stack.bufferIndex \in 0 .. BufferSize
      /\ 0 \in 0 .. BufferSize
  BY <1>1, FieldsOf, EvaluatorAssumption DEF Rests
<1>5. Held(stack, stack')
  BY <1>1, <1>3, <1>4, WithBuffer DEF Rests
<1>6. stack'.status = "READY"
  BY <1>1, <1>3 DEF Rests
<1>7. Rests(stack')
  BY <1>1, <1>5, <1>6, RestsHeld
<1>8. transfer' \in Transfers \cup {NoTransfer}
  BY <1>1, <1>2, DisturbTyped
<1> QED
  BY <1>1, <1>2, <1>7, <1>8 DEF TypeOK, Rests

LEMMA StepTyped ==
  ASSUME TypeOK, [Next]_vars
  PROVE  TypeOK'
<1>1. Rests(stack) /\ opened \in BOOLEAN /\ writes \in 0 .. MaxWrites
      /\ transfer \in Transfers \cup {NoTransfer}
  BY TypeIs
<1>2. ASSUME NEW e \in Expressions, NEW n \in 1 .. Len(e.text), FirstBlock(e, n)
      PROVE  TypeOK'
  BY <1>2, FirstBlockTyped
<1>3. ASSUME NEW e \in Expressions, NEW n \in 1 .. Len(e.text), LocalWrite(e, n)
      PROVE  TypeOK'
  BY <1>3, LocalWriteTyped
<1>4. ASSUME NEW first \in BOOLEAN, Refused(first)
      PROVE  TypeOK'
  BY <1>4, RefusedTyped
<1>5. CASE NextBlock
  BY <1>5, NextBlockTyped
<1>6. CASE Abandon
  BY <1>1, <1>6 DEF Abandon, TypeOK, Rests
<1>7. CASE Get
  <2>1. stack' = Closed(Concluded(Cleaned(stack))) /\ Disturb /\ UNCHANGED <<opened, writes>>
    BY <1>7, Zenon DEF Get
  <2>2. Rests(Closed(Concluded(Cleaned(stack))))
    BY <1>1, CleanedRests, ClosedRests
  <2>3. transfer' \in Transfers \cup {NoTransfer}
    BY <1>1, <2>1, DisturbTyped
  <2> QED
    BY <1>1, <2>1, <2>2, <2>3 DEF TypeOK, Rests
<1>8. CASE EmptyPut
  <2>1. stack' = Closed(Concluded(stack)) /\ Disturb /\ UNCHANGED <<opened, writes>>
    BY <1>8, Zenon DEF EmptyPut
  <2>2. Rests(Closed(Concluded(stack)))
    BY <1>1, ClosedRests
  <2>3. transfer' \in Transfers \cup {NoTransfer}
    BY <1>1, <2>1, DisturbTyped
  <2> QED
    BY <1>1, <2>1, <2>2, <2>3 DEF TypeOK, Rests
<1>9. CASE OtherTransfer
  BY <1>1, <1>9 DEF OtherTransfer, TypeOK, Rests
<1>10. CASE Condition
  BY <1>10, ConditionTyped
<1>11. CASE UNCHANGED vars
  BY <1>1, <1>11 DEF vars, TypeOK, Rests
<1> QED
  BY <1>2, <1>3, <1>4, <1>5, <1>6, <1>7, <1>8, <1>9, <1>10, <1>11, Zenon DEF Next

(* Whatever is written to the resources of L, in whatever blocks and       *)
(* between whatever else uses the stack, emma-eval.c keeps the two stacks  *)
(* within their arrays, and what it keeps of an operand within its buffer; *)
(* evaluate_block always ends.                                             *)
THEOREM EvaluatorTypes == Spec => []TypeOK
<1>1. Init => TypeOK
  BY InitTyped
<1>2. TypeOK /\ [Next]_vars => TypeOK'
  BY StepTyped
<1> QED
  BY <1>1, <1>2, PTL DEF Spec
================================================================================
