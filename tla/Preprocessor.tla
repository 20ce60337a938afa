---------------------------- MODULE Preprocessor ----------------------------
(***************************************************************************)
(* The preprocessor of the client (emma-client.c): a state machine that    *)
(* copies a text of an agent's POST, block by block, and puts the values   *)
(* of resources in the place of references to them. It keeps its place in  *)
(* the text from one call to the next, in a window of ReplBuffer symbols.  *)
(*                                                                         *)
(* Files, values and blocks are made of symbols: "q" is the quote, "nul"   *)
(* the end of a C string, and an operator is one symbol.                   *)
(***************************************************************************)
EXTENDS Integers, SequencesExt

CONSTANTS
  ReplBuffer,   \* REPL_BUFFER
  BufferSize,   \* EMMA_CLIENT_BUFFER_SIZE
  Operators,    \* of emma-eval.c
  Resources     \* what the references stand for: a function from uris to values

ASSUME PreprocessorAssumption ==
  /\ ReplBuffer \in Nat \ {0} /\ BufferSize \in Nat \ {0}
  /\ \A uri \in DOMAIN Resources : Resources[uri] \in Seq(STRING)

VARIABLES
  file,            \* the agent's file, in Seq(STRING)
  POSTstartIndex,  \* where the client stands in it
  POSTblock,       \* the block that is being made
  pp               \* the static variables of the preprocessor

Delimiters == {":", "q", " ", "'", ",", "{", "}", "[", "]"}

Least(S) == CHOOSE s \in S : \A t \in S : s <= t

Shorter(m, n) == IF m < n THEN m ELSE n

emma_resource_read(text, size, index) ==
  SubSeq(text, index + 1, Shorter(index + size, Len(text)))

-----------------------------------------------------------------------------
(* Arrays of characters.                                                   *)

Window == 0 .. ReplBuffer

strlen(b) == Least({i \in Window : b[i] = "nul"})

Filled(b, S, c) == [i \in DOMAIN b |-> IF i \in S THEN c ELSE b[i]]

Copied(b, at, text) ==
  [i \in DOMAIN b |-> IF i - at \in 0 .. Len(text) - 1 THEN text[i - at + 1] ELSE b[i]]

Piece(b, from, to) == [i \in 1 .. to - from |-> b[from + i - 1]]

(* The first place from i on that holds one of C, or limit.                *)
FirstOf(b, C, i, limit) == Least({limit} \cup {j \in i .. limit - 1 : b[j] \in C})

(* Text up to its first nul, as a uri.                                     *)
Uri(text) ==
  LET end == Least({Len(text) + 1} \cup {i \in DOMAIN text : text[i] = "nul"})
  IN [i \in 1 .. end - 1 |-> IF text[i] = "#" THEN "/" ELSE text[i]]

CleanState ==
  [state |-> "END", namIndex |-> 0, buffer |-> [i \in Window |-> "nul"],
   buffer2 |-> [i \in Window |-> "nul"], ref |-> <<>>, refIndex |-> 0, bufferIndex |-> 0,
   copyIndex |-> 0, endNext |-> 0, operator |-> "nul", begins |-> "no", outputIndex |-> 0,
   returns |-> TRUE]

-----------------------------------------------------------------------------
(* The states. An action is a turn of the loop; the call returns when      *)
(* outputCond holds and the block is not all blank.                        *)

Turn(p) == pp' = p /\ UNCHANGED POSTblock

(* REPL_RAZ                                                                *)
Reset ==
  /\ pp.state = "RAZ"
  /\ Turn([pp EXCEPT !.state = "FILL", !.ref = <<>>, !.refIndex = 0, !.bufferIndex = 0,
                     !.copyIndex = 0, !.endNext = 0,
                     !.buffer[ReplBuffer] = "nul", !.buffer2[ReplBuffer] = "nul"])
  /\ UNCHANGED POSTstartIndex

(* The window after n characters were read to it at index.                 *)
Refilled(b, index, text) ==
  LET after == index + Len(text) + 1
  IN Filled(Copied(b, index, text), {after} \cap 0 .. ReplBuffer - 1, "nul")

(* Fault: the end of the text does not move the client's place back.       *)
PlaceIgnoringEnd(b, n) == pp.namIndex + n

(* *block: behind the end of the text if the window holds it.              *)
PlaceAfter(b, n) ==
  LET end == FirstOf(b, {"q"}, 0, ReplBuffer)
  IN IF end < ReplBuffer THEN pp.namIndex + n - (n - end) + 1 ELSE pp.namIndex + n

Fill ==
  /\ pp.state = "FILL" /\ pp.bufferIndex < ReplBuffer
  /\ LET text == emma_resource_read(file, ReplBuffer - pp.bufferIndex, pp.namIndex)
         b == Refilled(pp.buffer, pp.bufferIndex, text)
         ended == {i \in 0 .. pp.endNext - 1 : b[i] # "nul"}
     IN /\ POSTstartIndex' = PlaceAfter(b, Len(text))
        /\ Turn([pp EXCEPT !.state = "ANALYZE", !.namIndex = @ + Len(text), !.endNext = 0,
                           !.buffer = Filled(b, ended, " "), !.bufferIndex = 0])

find_operator(b) == FirstOf(b, Operators, 0, strlen(b))

Peeked(index) ==
  [Copied(pp.buffer2, 0, emma_resource_read(file, ReplBuffer, index)) EXCEPT ![ReplBuffer] = "nul"]

(* A reference goes over the end of the window, or begins behind it.       *)
BeginsNext(b2) ==
  /\ "#" \in {b2[i] : i \in 0 .. strlen(b2) - 1}
  /\ \E i \in 0 .. ReplBuffer - 1 : b2[i] = "#" /\ \A j \in 0 .. i : b2[j] \notin Delimiters

Analyze ==
  /\ pp.state = "ANALYZE" /\ pp.ref = <<>>
  /\ LET at == find_operator(pp.buffer)
         cut == [pp.buffer EXCEPT ![at] = "nul"]
         next == Peeked(pp.namIndex)
         begins == CASE "#" \in {cut[i] : i \in 0 .. at - 1} -> "current"
                     [] BeginsNext(next) -> "next"
                     [] OTHER -> "no"
     IN Turn([pp EXCEPT !.state = IF begins = "no" THEN "COPY_BUFFER" ELSE "EXTRACT_URI",
                        !.copyIndex = IF begins = "no" THEN 0 ELSE @,
                        !.buffer = IF begins = "no" THEN @ ELSE cut,
                        !.buffer2 = next, !.bufferIndex = at,
                        !.operator = pp.buffer[at], !.begins = begins])
  /\ UNCHANGED POSTstartIndex

(* The text before the reference has been copied.                          *)
AnalyzeReference ==
  /\ pp.state = "ANALYZE" /\ pp.ref # <<>>
  /\ Turn([pp EXCEPT !.state = "COPY_OPERAND", !.copyIndex = pp.bufferIndex,
                     !.buffer = [Filled(@, strlen(@) .. ReplBuffer - 1, " ")
                                   EXCEPT ![ReplBuffer] = "nul"]])
  /\ UNCHANGED POSTstartIndex

(* Where the reference in the window begins, ends, and whether it goes on  *)
(* behind it.                                                              *)
Extent(b, len) ==
  LET pos == IF pp.begins = "current" THEN FirstOf(b, {"#"}, 0, len) ELSE len
      before == {i \in 0 .. pos : b[i] \in Delimiters}
      begin == IF before = {} THEN 0 ELSE 1 + CHOOSE i \in before : \A j \in before : j <= i
      stop == FirstOf(b, Delimiters, begin, len)
  IN [begin |-> begin, end |-> IF begin > len THEN begin ELSE stop,
      open |-> stop >= len /\ len = ReplBuffer]

Extract ==
  /\ pp.state = "EXTRACT_URI"
  /\ LET len == strlen(pp.buffer)
         b == IF pp.begins = "next" THEN [pp.buffer EXCEPT ![len] = pp.operator] ELSE pp.buffer
         e == Extent(b, len)
         next == IF e.open THEN Peeked(pp.namIndex) ELSE pp.buffer2
         goesOn == IF e.open THEN FirstOf(next, Delimiters, 0, ReplBuffer) ELSE 0
         ref == Uri(Piece(b, e.begin, e.end) \o Piece(next, 0, goesOn))
         complete == ~e.open \/ goesOn < ReplBuffer
         limit == IF pp.operator = "nul" THEN len ELSE ReplBuffer
         solved == IF ref \in DOMAIN Resources
                   THEN Filled(b, {i \in e.begin .. ReplBuffer - 1 : b[i] # "nul"}, " ")
                   ELSE [b EXCEPT ![pp.bufferIndex] = pp.operator]
         again == complete /\ e.end < ReplBuffer
     IN Turn([pp EXCEPT !.state = "COPY_BUFFER", !.copyIndex = 0, !.ref = ref, !.buffer2 = next,
                        !.endNext = IF e.open THEN goesOn ELSE @,
                        !.namIndex = IF again THEN @ - (limit - e.end) ELSE @,
                        !.buffer = CASE again -> Filled(solved, e.end .. limit - 1, " ")
                                     [] complete /\ ~again -> solved
                                     [] OTHER -> b])
  /\ UNCHANGED POSTstartIndex

(* The end of a turn at which the call may end. A block that is all blank  *)
(* is dropped, and the call goes on.                                       *)
Return(p, out) ==
  /\ POSTblock' = out
  /\ pp' = IF \A i \in DOMAIN out : out[i] = " " THEN [p EXCEPT !.outputIndex = 0]
           ELSE [p EXCEPT !.returns = TRUE]
  /\ UNCHANGED POSTstartIndex

(* Where copying stops, room in the block apart.                           *)
StopsAt(b) == FirstOf(b, {"nul", "q"}, pp.copyIndex, pp.bufferIndex + 1)

CopyBuffer ==
  /\ pp.state = "COPY_BUFFER"
  /\ LET b == pp.buffer
         room == pp.copyIndex + BufferSize - pp.outputIndex
         stop == Shorter(StopsAt(b), room)
         text == [i \in 1 .. stop - pp.copyIndex |->
                    IF b[pp.copyIndex + i - 1] = "'" THEN "q" ELSE b[pp.copyIndex + i - 1]]
         out == Copied(POSTblock, pp.outputIndex, text)
         p == [pp EXCEPT !.copyIndex = stop, !.outputIndex = @ + Len(text)]
     IN IF b[stop] = "q" THEN Return([p EXCEPT !.state = "END"], out)
        ELSE IF p.outputIndex = BufferSize THEN Return(p, out)
        ELSE /\ POSTblock' = out
             /\ pp' = [p EXCEPT !.state = "SHIFT",
                                !.bufferIndex = IF b[stop] # "nul" THEN @ + 1 ELSE @]
             /\ UNCHANGED POSTstartIndex

(* The file ends here.                                                     *)
AtEnd == strlen(pp.buffer) < ReplBuffer /\ pp.buffer[pp.bufferIndex] = "nul"

ShiftAtEnd ==
  /\ pp.state = "SHIFT" /\ AtEnd
  /\ IF pp.ref # <<>> THEN Turn([pp EXCEPT !.state = "ANALYZE"]) /\ UNCHANGED POSTstartIndex
     ELSE Return([pp EXCEPT !.state = "END"], POSTblock)

Shift ==
  /\ pp.state = "SHIFT" /\ ~AtEnd
  /\ LET full == strlen(pp.buffer) = ReplBuffer
         n == FirstOf(pp.buffer, {"nul"}, pp.bufferIndex, ReplBuffer) - pp.bufferIndex
         shifted == [i \in Window |-> pp.buffer[IF i <= n THEN i + pp.bufferIndex ELSE i]]
     IN Turn([pp EXCEPT !.state = IF full THEN "FILL" ELSE "ANALYZE",
                        !.buffer = shifted, !.bufferIndex = IF full THEN n ELSE 0])
  /\ UNCHANGED POSTstartIndex

Value(ref) == IF ref \in DOMAIN Resources THEN Resources[ref] ELSE <<>>

(* Fault: the place in the block is not counted.                           *)
WholeBlock(at) == BufferSize

(* The room for an operand.                                                *)
Room(at) == BufferSize - at

(* What there is of the block is filled up but for its last symbol.        *)
CopyOperand ==
  /\ pp.state = "COPY_OPERAND"
  /\ LET begun == pp.outputIndex > 0
         out == IF begun THEN [Filled(POSTblock, pp.outputIndex .. BufferSize - 1, " ")
                                 EXCEPT ![BufferSize - 1] = "nul"]
                ELSE POSTblock
         at == IF begun THEN BufferSize - 1 ELSE 0
         text == emma_resource_read(Value(pp.ref), Room(at), pp.refIndex)
         p == [pp EXCEPT !.refIndex = @ + Len(text), !.outputIndex = at + Len(text)]
     IN IF p.outputIndex = BufferSize THEN Return(p, Copied(out, at, text))
        ELSE /\ POSTblock' = Copied(out, at, text)
             /\ pp' = [p EXCEPT !.state = "COPY_BUFFER", !.refIndex = 0, !.ref = <<>>]
             /\ UNCHANGED POSTstartIndex

End ==
  /\ pp.state = "END"
  /\ Return([pp EXCEPT !.outputIndex = 0], POSTblock)

(* A call for the agent's text at index; and the next call for its rest.   *)
Called(index) ==
  [pp EXCEPT !.state = "RAZ", !.namIndex = index, !.outputIndex = 0, !.returns = FALSE]

CalledAgain == [pp EXCEPT !.outputIndex = 0, !.returns = FALSE]

preprocessor ==
  /\ ~pp.returns
  /\ \/ Reset \/ Fill \/ Analyze \/ AnalyzeReference \/ Extract
     \/ CopyBuffer \/ Shift \/ ShiftAtEnd \/ CopyOperand \/ End
  /\ UNCHANGED file
=============================================================================
