----------------------------- MODULE JSONnParse -----------------------------
(***************************************************************************)
(* The incremental JSON parser (emma-JSONnParse.c): how deep the next      *)
(* character lies, and whether it is in a text. The agent root feeds it    *)
(* what is written, at depth 1, and the client what it sends, at depth 0.  *)
(* Characters are symbols; "q" is the quote.                               *)
(***************************************************************************)
EXTENDS Integers

CleanParser == [obj |-> 0, arr |-> 0, str |-> FALSE]

Less(n) == IF n > 0 THEN n - 1 ELSE 0

(* The parser p after the character c.                                     *)
JSONnParse(p, c) ==
  IF p.str /\ c # "q" THEN p
  ELSE CASE c = "q" -> [p EXCEPT !.str = ~@]
         [] c = "[" -> [p EXCEPT !.arr = @ + 1]
         [] c = "]" -> [p EXCEPT !.arr = Less(@)]
         [] c = "{" -> [p EXCEPT !.obj = @ + 1]
         [] c = "}" -> [p EXCEPT !.obj = Less(@)]
         [] OTHER -> p

DepthAfter(p, c) == JSONnParse(p, c).obj + JSONnParse(p, c).arr

IsContent(p, c, depth) ==
  \/ p.str /\ c # "q"
  \/ c \notin {"q", "[", "]", "{", "}", ":", ",", " "} /\ DepthAfter(p, c) <= depth
  \/ DepthAfter(p, c) > depth /\ ~(DepthAfter(p, c) = depth + 1 /\ c \in {"[", "{"})

StartsText(p, c, depth) == c = "q" /\ ~p.str /\ DepthAfter(p, c) <= depth

StartsObject(p, c, depth) == c = "{" /\ ~p.str /\ DepthAfter(p, c) <= depth + 1

EndsObject(p, c, depth) == c = "}" /\ ~p.str /\ p.obj > 0 /\ DepthAfter(p, c) <= depth

(* A bracket or brace that nothing opened.                                 *)
IsError(p, c, depth) ==
  /\ ~p.str /\ DepthAfter(p, c) <= depth
  /\ (c = "]" /\ p.arr = 0) \/ (c = "}" /\ p.obj = 0)
=============================================================================
