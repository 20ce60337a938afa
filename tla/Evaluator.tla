------------------------------- MODULE Evaluator -------------------------------
(***************************************************************************)
(* The expression evaluator (emma-eval.c) and the root L that evaluates    *)
(* with it what is written to its resources (root-resource.c), block by    *)
(* block, on one stack for all of them.                                    *)
(*                                                                         *)
(* A character is a one-letter string; blanks, which the evaluator skips,  *)
(* are left out. Numbers stay far below the width of operand_t.            *)
(***************************************************************************)
EXTENDS Integers, Sequences

CONSTANTS
  BufferSize,    \* EVAL_BUFFER_SIZE
  MaxOperators,  \* EVAL_MAX_OPERATORS
  MaxOperands,   \* EVAL_MAX_OPERANDS
  References,    \* [texts the reference solver knows -> their values]
  Expressions,   \* what is written to a resource of L: see Expression, IllFormed
  MaxWrites      \* bound: how many transfers and local writes begin

(* A character, or the end of what is in the buffer.                        *)
NUL == ""
Bytes == STRING \cup {NUL}

ASSUME EvaluatorAssumption ==
  /\ BufferSize \in 3 .. 255
  /\ MaxWrites \in Nat
  /\ MaxOperators \in Nat \ {0} /\ MaxOperands \in Nat \ {0}
  /\ \A text \in DOMAIN References : References[text] \in Int
  /\ \A e \in Expressions : /\ e.text \in Seq(Bytes) /\ Len(e.text) > 0
                           /\ e.kind \in {"value", "undefined", "illformed"}

Operators == {"||", "&&", "==", ">", "<", "+", "-", "/", "%", "*", "!", ".", ")", "("}

Symbol == [op \in Operators |->
  CASE op = "||" -> <<"|", "|">> [] op = "&&" -> <<"&", "&">> [] op = "==" -> <<"=", "=">>
    [] op \notin {"||", "&&", "=="} -> <<op>>]

Precedence == [op \in Operators |->
  CASE op = "||" -> 10 [] op = "&&" -> 9 [] op = "==" -> 8 [] op = ">" -> 7 [] op = "<" -> 6
    [] op \in {"+", "-"} -> 5 [] op \in {"/", "%", "*"} -> 4 [] op = "!" -> 3 [] op = "." -> 2
    [] op \in {")", "("} -> 1]

Lowest == 11

Digits == <<"0", "1", "2", "3", "4", "5", "6", "7", "8", "9">>
IsDigit(c) == \E n \in 1 .. 10 : Digits[n] = c

(* The value of a resource has 16 bits.                                    *)
Word == 65536

VARIABLES
  stack,         \* root_resource_stack and, with it, evaluate_block's operandIndex
  opened,        \* emma-server.c: opened
  writes,        \* how many have begun
  transfer       \* the server's transfer to a resource of L, and how the last one ended

vars == <<stack, opened, writes, transfer>>

(* "running": sent characters of the expression are written. "stored": the *)
(* resource has value now. "refused": it has not got a new one.            *)
(* alone (a history variable): the transfer started on a clean stack and   *)
(* nothing else has used the stack since.                                  *)
Transfers == [state : {"running", "stored", "refused"}, expression : Expressions,
              sent : Nat, alone : BOOLEAN, value : 0 .. Word - 1]

NoTransfer == [state |-> "none"]

AtMost(n, S) == {s \in Seq(S) : Len(s) <= n}

(* A ")" is operated at once.                                              *)
Stacked == Operators \ {")"}

Stacks == [operators : AtMost(MaxOperators, Stacked), operands : Seq(Int),
           buffer : [1 .. BufferSize -> Bytes], bufferIndex : 0 .. BufferSize,
           operandIndex : 0 .. BufferSize, status : {"READY", "COMPLETE", "ERROR"}]

-----------------------------------------------------------------------------
(* The operators.                                                          *)

Truth(b) == IF b THEN 1 ELSE 0

(* C rounds towards 0.                                                     *)
Quotient(a, b) ==
  LET Abs(x) == IF x < 0 THEN -x ELSE x IN
  (IF (a < 0) = (b < 0) THEN 1 ELSE -1) * (Abs(a) \div Abs(b))

Binary == Operators \ {"!", ".", ")", "("}

Divides(op) == op \in {"/", "%"}

Apply(op, a, b) ==
  CASE op = "||" -> Truth(a # 0 \/ b # 0)
    [] op = "&&" -> Truth(a # 0 /\ b # 0)
    [] op = "==" -> Truth(a = b)
    [] op = ">" -> Truth(a > b)
    [] op = "<" -> Truth(a < b)
    [] op = "+" -> a + b
    [] op = "-" -> a - b
    [] op = "*" -> a * b
    [] op = "/" -> Quotient(a, b)
    [] op = "%" -> a - b * Quotient(a, b)

Upto(s, n) == SubSeq(s, 1, n)
Top(s) == s[Len(s)]

Failed(s) == [s EXCEPT !.status = "ERROR"]

PopOperator(s) == [s EXCEPT !.operators = Upto(@, Len(@) - 1)]

PopOperands(s, n) ==
  [s EXCEPT !.operands = Upto(@, IF Len(@) < n THEN 0 ELSE Len(@) - n)]

(* Fault: no end of the operand stack.                                     *)
PushOperandAlways(s, x) == [s EXCEPT !.operands = Append(@, x)]

PushOperand(s, x) ==
  IF Len(s.operands) = MaxOperands THEN Failed(s)
  ELSE [s EXCEPT !.operands = Append(@, x)]

PushOperator(s, op) ==
  IF Len(s.operators) = MaxOperators THEN Failed(s)
  ELSE [s EXCEPT !.operators = Append(@, op)]

(* The functions of the operators but ")". Operands are gone when one of   *)
(* them is missing. A modulo by 0 has no defined outcome: like a division. *)
Operate(s, op) ==
  LET n == Len(s.operands) IN
  CASE op = "(" -> s
    [] op = "." -> Failed(s)
    [] op = "!" /\ n = 0 -> Failed(s)
    [] op = "!" /\ n > 0 -> PushOperand(PopOperands(s, 1), Truth(Top(s.operands) = 0))
    [] op \in Binary /\ n < 2 -> Failed(PopOperands(s, 2))
    [] op \in Binary /\ n >= 2 ->
         LET a == s.operands[n - 1]
             b == s.operands[n]
         IN IF Divides(op) /\ b = 0 THEN Failed(PopOperands(s, 2))
            ELSE PushOperand(PopOperands(s, 2), Apply(op, a, b))

(* ")": everything down to the "(" is operated, errors are not looked at.  *)
CloseParenthesis(s) ==
  LET run[t \in Stacks] ==
        IF t.operators = <<>> THEN Failed(t)
        ELSE IF Top(t.operators) = "(" THEN PopOperator(t)
        ELSE run[[Operate(PopOperator(t), Top(t.operators)) EXCEPT !.status = "READY"]]
  IN run[s]

(* Fault: an operator does not operate an earlier one of its precedence.   *)
ReduceRight(s, precedence) ==
  LET run[t \in Stacks] ==
        IF \/ t.status = "ERROR" \/ t.operators = <<>>
           \/ Top(t.operators) = "(" \/ Precedence[Top(t.operators)] >= precedence
        THEN t
        ELSE run[Operate(PopOperator(t), Top(t.operators))]
  IN run[s]

(* The operators on top that bind at least as strongly are operated.       *)
Reduce(s, precedence) ==
  LET run[t \in Stacks] ==
        IF \/ t.status = "ERROR" \/ t.operators = <<>>
           \/ Top(t.operators) = "(" \/ Precedence[Top(t.operators)] > precedence
        THEN t
        ELSE run[Operate(PopOperator(t), Top(t.operators))]
  IN run[s]

(* eval_add_operator; ")" only looks whether there was room to push it.    *)
AddOperator(s, op) ==
  LET reduced == Reduce(s, Precedence[op])
      pushed == PushOperator(reduced, op)
  IN IF reduced.status = "ERROR" \/ pushed.status = "ERROR" \/ op # ")" THEN
       (IF reduced.status = "ERROR" THEN reduced ELSE pushed)
     ELSE CloseParenthesis(reduced)

(* antoi: whatever is no digit is passed over.                             *)
Number(text) ==
  LET run[r \in [rest : AtMost(Len(text), Bytes), value : Nat]] ==
        IF r.rest = <<>> THEN r.value
        ELSE run[[rest |-> Tail(r.rest),
                  value |-> IF ~IsDigit(Head(r.rest)) THEN r.value
                            ELSE 10 * r.value + (CHOOSE d \in 0 .. 9 : Digits[d + 1] = Head(r.rest))]]
  IN run[[rest |-> text, value |-> 0]]

(* eval_add_operand on a text that is not empty.                           *)
AddOperand(s, text) ==
  IF IsDigit(text[1]) THEN PushOperand(s, Number(text))
  ELSE IF text \in DOMAIN References THEN PushOperand(s, References[text])
  ELSE Failed(s)

-----------------------------------------------------------------------------
(* evaluate_block.                                                         *)

Window(s, from, to) == SubSeq(s.buffer, from + 1, to)

(* Where the block goes in the buffer, in arithmetic of 8 bits, and how    *)
(* much of it.                                                             *)
FillAt(s) == (s.bufferIndex - s.operandIndex) % 256

Room(s, block) ==
  LET free == BufferSize - FillAt(s) IN
  IF free <= 0 THEN 0 ELSE IF Len(block) < free THEN Len(block) ELSE free

Filled(s, block) ==
  LET at == FillAt(s)
      n == Room(s, block)
  IN [s EXCEPT
       !.buffer = [i \in 1 .. BufferSize |->
                     IF at < i /\ i <= at + n THEN block[i - at]
                     ELSE IF i = at + n + 1 /\ n = Len(block) THEN NUL
                     ELSE @[i]],
       !.bufferIndex = 0, !.operandIndex = 0]

(* An error forgets where the operand began.                               *)
Stopped(s) == [s EXCEPT !.status = "ERROR", !.operandIndex = 0]

OperatorsAt(s) ==
  {op \in Operators :
     LET end == s.bufferIndex + Len(Symbol[op]) IN
     end <= BufferSize /\ Window(s, s.bufferIndex, end) = Symbol[op]}

(* One position of the buffer: an operator ends the operand before it.     *)
ScanOperator(s, op) ==
  LET text == Window(s, s.operandIndex, s.bufferIndex)
      s1 == IF text = <<>> THEN s ELSE AddOperand(s, text)
      s2 == IF s1.status = "ERROR" THEN s1 ELSE AddOperator(s1, op)
      next == s.bufferIndex + Len(Symbol[op])
  IN IF s2.status = "ERROR" THEN Stopped(s2)
     ELSE [s2 EXCEPT !.bufferIndex = next, !.operandIndex = next]

Scan(s) ==
  LET run[t \in Stacks] ==
        IF \/ t.status = "ERROR" \/ t.bufferIndex >= BufferSize
           \/ t.buffer[t.bufferIndex + 1] = NUL
        THEN t
        ELSE run[IF OperatorsAt(t) = {} THEN [t EXCEPT !.bufferIndex = @ + 1]
                 ELSE ScanOperator(t, CHOOSE op \in OperatorsAt(t) : TRUE)]
  IN run[s]

(* A buffer full of one operand is taken for the whole of it.              *)
TakeFull(s) ==
  IF s.status # "ERROR" /\ s.operandIndex = 0 /\ s.bufferIndex >= BufferSize - 1
  THEN LET t == AddOperand(s, Window(s, 0, BufferSize - 1)) IN
       IF t.status = "ERROR" THEN Stopped(t) ELSE [t EXCEPT !.operandIndex = t.bufferIndex]
  ELSE s

(* The operand that is not ended yet moves to the start of the buffer.     *)
MoveTrailing(s) ==
  IF s.status = "ERROR" THEN s
  ELSE [s EXCEPT !.buffer = [i \in 1 .. BufferSize |->
                               IF i <= s.bufferIndex - s.operandIndex THEN @[i + s.operandIndex]
                               ELSE @[i]]]

(* A round that finds no room only scans, and makes room by that.          *)
EvaluateBlock(s, block) ==
  LET run[r \in [stack : Stacks, rest : AtMost(Len(block), Bytes)]] ==
        IF r.rest = <<>> \/ r.stack.status = "ERROR" THEN r.stack
        ELSE run[[stack |-> MoveTrailing(TakeFull(Scan(Filled(r.stack, r.rest)))),
                  rest |-> SubSeq(r.rest, Room(r.stack, r.rest) + 1, Len(r.rest))]]
  IN run[[stack |-> [s EXCEPT !.status = "READY"], rest |-> block]]

(* clean_stack                                                             *)
Cleaned(s) == [s EXCEPT !.operators = <<>>, !.operands = <<>>, !.bufferIndex = 0]

IsClean(s) == s = Cleaned(s) /\ s.operandIndex = 0

(* The last turn. When it is complete the result is on top of the operands *)
(* (Closed cleans the stack then, and only then).                          *)
Concluded(s) ==
  LET s1 == IF s.operandIndex < s.bufferIndex
            THEN AddOperand(s, Window(s, s.operandIndex, s.bufferIndex)) ELSE s
      s2 == IF s1.status = "ERROR" THEN s1 ELSE Reduce(s1, Lowest)
  IN IF s2.status = "ERROR" THEN Stopped(s2)
     ELSE IF Len(s2.operands) = 1 THEN [s2 EXCEPT !.operandIndex = 0, !.status = "COMPLETE"]
     ELSE Stopped(PopOperands(s2, 2))

-----------------------------------------------------------------------------
(* The root L and who uses it.                                             *)

(* What the stack is after root_resource_close.                            *)
Closed(concluded) ==
  [(IF concluded.status = "COMPLETE" THEN Cleaned(concluded) ELSE concluded)
     EXCEPT !.status = "READY"]

Stored(concluded) == Top(concluded.operands) % Word

CanStart == transfer.state # "running"

Begins ==
  /\ writes < MaxWrites
  /\ writes' = writes + 1

(* Someone else uses the stack.                                            *)
Disturb ==
  transfer' = IF CanStart THEN NoTransfer ELSE [transfer EXCEPT !.alone = FALSE]

Ends(state, e, clean, value) ==
  transfer' = [state |-> state, expression |-> e, sent |-> Len(e.text),
               alone |-> clean, value |-> value]

(* A block that cannot be written: the server deletes the resource.        *)
BlockRefused(s, e, clean) ==
  /\ stack' = [s EXCEPT !.status = "READY"]
  /\ opened' = FALSE
  /\ Ends("refused", e, clean, 0)

BlockWritten(s, e, n, clean) ==
  /\ stack' = s
  /\ opened' = TRUE
  /\ transfer' = [state |-> "running", expression |-> e, sent |-> n, alone |-> clean, value |-> 0]

(* opened stays as it is when a transfer ends.                             *)
LastBlockWritten(s, e, clean) ==
  \E c \in {Concluded(s)} :
    /\ stack' = Closed(c)
    /\ opened' = TRUE
    /\ IF c.status = "COMPLETE" THEN Ends("stored", e, clean, Stored(c))
                                ELSE Ends("refused", e, clean, 0)

(* n characters of e are written, after from others.                       *)
BlockOf(s, e, from, n, clean) ==
  \E t \in {EvaluateBlock(s, SubSeq(e.text, from + 1, from + n))} :
    IF t.status = "ERROR" THEN BlockRefused(t, e, clean)
    ELSE IF from + n < Len(e.text) THEN BlockWritten(t, e, from + n, clean)
    ELSE LastBlockWritten(t, e, clean)

(* The first block opens the resource, unless the server thinks it is.     *)
FirstBlock(e, n) ==
  /\ CanStart
  /\ Begins
  /\ \E s \in {IF opened THEN stack ELSE Cleaned(stack)} : BlockOf(s, e, 0, n, IsClean(s))

NextBlock ==
  /\ ~CanStart
  /\ \E n \in 1 .. Len(transfer.expression.text) - transfer.sent :
       BlockOf(stack, transfer.expression, transfer.sent, n, transfer.alone)
  /\ UNCHANGED writes

(* A lost block or the watchdog: the resource is deleted.                  *)
Abandon ==
  /\ ~CanStart
  /\ opened' = FALSE
  /\ transfer' = NoTransfer
  /\ UNCHANGED <<stack, writes>>

(* GET of another resource of L opens and closes that one.                 *)
Get ==
  /\ \E c \in {Concluded(Cleaned(stack))} : stack' = Closed(c)
  /\ Disturb
  /\ UNCHANGED <<opened, writes>>

(* A PUT without payload on any resource of L closes it.                   *)
EmptyPut ==
  /\ \E c \in {Concluded(stack)} : stack' = Closed(c)
  /\ Disturb
  /\ UNCHANGED <<opened, writes>>

(* A block for a resource the server could not lock, a first one or not;   *)
(* nothing is opened or closed when there is no such resource.             *)
Refused(first) ==
  /\ CanStart
  /\ first \/ opened
  /\ opened' = FALSE
  /\ transfer' = NoTransfer
  /\ UNCHANGED writes
  /\ \/ UNCHANGED stack
     \/ \E c \in {Concluded(IF opened THEN stack ELSE Cleaned(stack))} : stack' = Closed(c)

(* A transfer to the root A uses opened, and not the stack.                *)
OtherTransfer ==
  /\ CanStart
  /\ opened' \in BOOLEAN
  /\ transfer' = NoTransfer
  /\ UNCHANGED <<stack, writes>>

(* An agent writes an expression to a resource of its node, in two blocks  *)
(* at most: the client goes on after a block that was refused.             *)
LocalWrite(e, n) ==
  /\ Begins
  /\ \E s \in {EvaluateBlock(Cleaned(stack), SubSeq(e.text, 1, n))} :
       \E t \in {EvaluateBlock(s, SubSeq(e.text, n + 1, Len(e.text)))} :
         \E c \in {Concluded([t EXCEPT !.status = "READY"])} : stack' = Closed(c)
  /\ Disturb
  /\ UNCHANGED opened

(* The client evaluates the PRE of an agent: on a stack of its own, but    *)
(* with the operandIndex of evaluate_block.                                *)
Condition ==
  /\ stack.operandIndex # 0
  /\ stack' = [stack EXCEPT !.operandIndex = 0]
  /\ Disturb
  /\ UNCHANGED <<opened, writes>>

Init ==
  /\ stack = [operators |-> <<>>, operands |-> <<>>, buffer |-> [i \in 1 .. BufferSize |-> NUL],
              bufferIndex |-> 0, operandIndex |-> 0, status |-> "READY"]
  /\ opened = FALSE
  /\ writes = 0
  /\ transfer = NoTransfer

Next ==
  \/ \E e \in Expressions : \E n \in 1 .. Len(e.text) : FirstBlock(e, n) \/ LocalWrite(e, n)
  \/ \E first \in BOOLEAN : Refused(first)
  \/ NextBlock \/ Abandon \/ Get \/ EmptyPut \/ OtherTransfer \/ Condition

Spec == Init /\ [][Next]_vars

-----------------------------------------------------------------------------
(* What an expression means: the grammar the precedences stand for, with   *)
(* the value of each sentence, and what its evaluation needs of the stacks *)
(* (operators: pending are those that its end does not operate).           *)

Literal(text, value) ==
  [text |-> text, kind |-> "value", value |-> value, operands |-> 1, operators |-> 0, pending |-> 0]

MaxOf(a, b) == IF a < b THEN b ELSE a

Sentence2(l, op, r) ==
  LET undefined == \/ l.kind = "undefined" \/ r.kind = "undefined"
                   \/ Divides(op) /\ r.value = 0
  IN [text |-> l.text \o Symbol[op] \o r.text,
      kind |-> IF undefined THEN "undefined" ELSE "value",
      value |-> IF undefined THEN 0 ELSE Apply(op, l.value, r.value),
      operands |-> MaxOf(l.operands, 1 + r.operands),
      operators |-> MaxOf(l.operators, 1 + r.operators),
      pending |-> 1 + r.pending]

Negated(e) ==
  [e EXCEPT !.text = <<"!">> \o @, !.value = IF e.kind = "value" THEN Truth(@ = 0) ELSE 0,
            !.operators = 1 + @, !.pending = 1 + @]

Parenthesised(e) ==
  [e EXCEPT !.text = <<"(">> \o @ \o <<")">>,
            !.operators = MaxOf(1 + @, e.pending + 2), !.pending = 0]

(* The sentences over literals of n operators (a pair of parentheses is    *)
(* one) that bind at least as strongly as p; operators of one precedence   *)
(* are taken from left to right.                                           *)
SentencesOf(literals, ops) ==
  LET of[n \in Nat, p \in 2 .. 10] ==
        IF p = 2 THEN IF n = 0 THEN literals ELSE {Parenthesised(e) : e \in of[n - 1, 10]}
        ELSE of[n, p - 1] \cup
             (IF n = 0 THEN {}
              ELSE IF p = 3 THEN IF "!" \in ops THEN {Negated(e) : e \in of[n - 1, 2]} ELSE {}
              ELSE UNION {{Sentence2(l, op, r) : op \in {o \in ops \cap Binary : Precedence[o] = p},
                                                 l \in of[k, p], r \in of[n - 1 - k, p - 1]}
                          : k \in 0 .. n - 1})
  IN of

(* As the constant Expressions has them.                                   *)
Expression(e) ==
  [text |-> e.text, kind |-> e.kind, value |-> e.value,
   fits |-> e.operands <= MaxOperands /\ e.operators <= MaxOperators]

IllFormed(text) == [text |-> text, kind |-> "illformed", value |-> 0, fits |-> FALSE]

-----------------------------------------------------------------------------
(* Type: the two stacks keep within their arrays, and what is kept of an   *)
(* operand lies in the buffer, whatever is written in whatever blocks.     *)
TypeOK ==
  /\ stack \in Stacks /\ stack.status = "READY"
  /\ Len(stack.operands) <= MaxOperands
  /\ opened \in BOOLEAN
  /\ writes \in 0 .. MaxWrites
  /\ transfer \in Transfers \cup {NoTransfer}

(* What the transfer of an expression must come to: it stores the value,   *)
(* and is refused exactly when the expression has none or needs more than  *)
(* the stacks hold.                                                        *)
IsRight(e) ==
  /\ transfer.state = "stored" <=> e.kind = "value" /\ e.fits
  /\ transfer.state = "stored" => transfer.value = e.value % Word

HasEnded == transfer.state \in {"stored", "refused"}

(* The length of the operand that ends with the n-th character of a text.  *)
OperandBefore(text, n) ==
  LET starts == {0} \cup {i \in 1 .. n : \E op \in Operators : text[i] = Symbol[op][1]}
  IN n - (CHOOSE i \in starts : \A j \in starts : j <= i)

(* The last operand is no longer than the operator and the operand before  *)
(* it. A longer one may be moved over itself in the buffer before it is    *)
(* read where it was (emma-eval.c:576-581, :592).                          *)
LastIsKept(text) ==
  LET last == OperandBefore(text, Len(text))
      end == Len(text) - last
      operator == IF text[end] \in {"|", "&", "="} THEN 2 ELSE 1
  IN end = 0 \/ last <= operator + OperandBefore(text, end - operator)

(* Blocks do not matter (evaluate_block): a transfer that has the stack    *)
(* for itself does what its expression says, however the text is cut, in   *)
(* the middle of numbers and operators too, unless the last operand is too *)
(* long for the way it is moved.                                           *)
AloneIsRight ==
  HasEnded =>
    LET e == transfer.expression IN
    transfer.alone /\ e.kind # "illformed" /\ LastIsKept(e.text) => IsRight(e)

(* README.md:15: "`PUT` updates or compute the content of a ressource if   *)
(* the payload contains arithmetic operations": every expression that has  *)
(* the stack for itself gets its value.                                    *)
ComputesContent ==
  HasEnded =>
    LET e == transfer.expression IN
    transfer.alone /\ e.kind # "illformed" => IsRight(e)

=============================================================================
