------------------------------ MODULE MCEvaluator ------------------------------
(***************************************************************************)
(* A small evaluator, expressions over two numbers, a division by zero and *)
(* a reference, and texts that are no expressions.                         *)
(***************************************************************************)
EXTENDS Evaluator

Characters(string) == [i \in 1 .. Len(string) |-> SubSeq(string, i, i)]

MCReferences == [text \in {Characters("x")} |-> 3]

MCLiterals == {Literal(Characters("0"), 0), Literal(Characters("12"), 12),
               Literal(Characters("x"), 3)}

(* Of the sentences with at most three operators these: each (but "."),     *)
(* one behind another of the same, a higher and a lower precedence,        *)
(* parentheses, negation, and more than either stack holds. Of x-12 the    *)
(* last operand is as long as what stands before it, of (x)-12 it may be   *)
(* longer (LastIsKept).                                                    *)
MCTexts == {Characters(t) : t \in {
  "0", "12-x-x", "12==x*x", "x*x<12", "x>0&&12", "0||x%12", "12/x-x", "x+12/0",
  "(12-x)*x", "!(x-x)", "x-12", "(x)-12", "0==x-x*x", "((!x))"}}

MCOperators == {"||", "&&", "==", ">", "<", "+", "-", "/", "%", "*", "!"}

MCSentences ==
  LET of == SentencesOf(MCLiterals, MCOperators)
      few == SentencesOf(MCLiterals, {"-", "*", "==", "!"})
  IN {e \in of[0, 10] \cup of[1, 10] \cup of[2, 10] \cup few[3, 10] : e.text \in MCTexts}

MCExpressions ==
  {Expression(e) : e \in MCSentences} \cup {IllFormed(Characters(t)) : t \in {"(x", "x-", ")"}}

(* An expression of a few characters, for an evaluator of the code's size. *)
LongEnd ==
  {Expression(Sentence2(Literal(Characters("1"), 1), "+", Literal(Characters("100"), 100)))}
=============================================================================
