----------------------------- MODULE MCAgentRun -----------------------------
(***************************************************************************)
(* Agents with the sizes of the code: windows of 16, blocks of 64 symbols. *)
(***************************************************************************)
EXTENDS AgentRun, TLC

Plain(t) == [reference |-> FALSE, symbols |-> t]
Ref(t) == [reference |-> TRUE, symbols |-> t]
Text(parts) == [kind |-> "text", parts |-> parts]
Object(t) == [kind |-> "object", parts |-> <<Plain(<<"{">> \o t \o <<"}">>)>>]

Many(t, n) == FlattenSeq([i \in 1 .. n |-> t])

X == Ref(<<"L", "#", "x">>)
Light == Ref(<<"R", "#", "l">>)
Time == Ref(<<"S", "#", "t">>)
Plus == Plain(<<"+", "1">>)

AnyOperators == {"+", "-", "*", "/", "%", "!", ".", "(", ")", "<", ">", "==", "&&", "||"}

(* A value of two blocks, and short ones.                                  *)
Values ==
  (<<"L", "/", "x">> :> Many(<<"7", "8">>, 35)) @@ (<<"L", "/", "y">> :> <<"9">>)
    @@ (<<"S", "/", "t">> :> <<"4">>)

(* An agent of three blocks, with braces and a key in a text.              *)
Sub ==
  Object(<<"q", "P", "q", ":", "[", "q", "}", "]", "q", ",", "{", "}", "]", ",">>
         \o <<"q", "P", "O", "S", "T", "q", ":", "[", "{", "}", ",", "q">>
         \o Many(<<"L", "#", "x", "+", "1">>, 21) \o <<"q", "]">>)

To(method, address, uri) ==
  [method |-> method, address |-> address, port |-> "p", uri |-> uri]

Put(address) == To(<<"P", "U", "T">>, address, <<"S", "/", "l">>)
Post(address) == To(<<"P", "O", "S", "T">>, address, <<"A", "/", "b", "/", "c">>)
Delete(address) == To(<<"D", "E", "L", "E", "T", "E">>, address, <<"L", "/", "y">>)
Get(address) == To(<<"G", "E", "T">>, address, <<"S", "/", "t">>)
Bare(address) == To(<<>>, address, <<"L", "/", "z">>)

Agent(post, target, postFirst) ==
  [post |-> post, target |-> target, postFirst |-> postFirst]

Word == Text(<<Plain(<<"7">>)>>)

(* As long as a block, with what the preprocessor turns into quotes; and   *)
(* two symbols longer.                                                     *)
Phrase == Text(<<Plain(Many(<<"a", "b", "'", " ">>, 16))>>)
LongPhrase == Text(<<Plain(Many(<<"a", "b", "'", " ">>, 16) \o <<"a", "b">>)>>)

Sum == Text(<<Plain(<<"2">>), Plus>>)

(* It ends with a block, in the middle of a window.                        *)
LongSum == Text(<<Plain(<<"2", "+">> \o Many(<<"7">>, 62))>>)
Reading == Text(<<X>>)
ReadingAndMore == Text(<<X, Plus>>)
Receiver == Text(<<Light, Plus, Plain(<<"*", " ", "2">>)>>)

Constants == {Text(<<>>), Word, Phrase, LongPhrase, Sum, LongSum, Object(<<>>), Sub}

(* References inside a text, as in src/README.md:60 and :102, some of them *)
(* behind a window of it, and one of nothing.                              *)
Ratio == Text(<<X, Plain(<<"/", "1", "0", " ", "+", " ">>), Light>>)
Registry ==
  Text(<<Plain(<<"{", "'", "n", "'", ":", "'", "u", "/", "j", "'", ",", "'", "r", "'", ":">>), Time,
         Plain(<<",", "'", "s", "'", ":">>), X, Plain(<<"}">>)>>)
Later == Text(<<Plain(Many(<<"1", "+">>, 7)), Time>>)
Increment == Text(<<Plain(<<"1", "+">>), Light>>)
Inside == {Ratio, Registry, Later, Increment}

RunAgents ==
  {Agent(<<c, d>>, <<Put("n2"), Post("n1"), Get("n3")>>, first) :
     c, d \in Constants, first \in BOOLEAN}
  \cup {Agent(<<c, d>>, <<Delete("n1"), Bare("n2")>>, first) :
           c \in Constants, d \in {Reading, ReadingAndMore, Receiver}, first \in BOOLEAN}
  \cup {Agent(<<c, Word>>, <<Put("n2"), Bare("n1")>>, first) : c \in Inside, first \in BOOLEAN}
  \cup {Agent(<<>>, <<Bare("n2"), Delete("n1")>>, first) : first \in BOOLEAN}

(* The second content is meant for the second target.                      *)
Expression == {Agent(<<Sum, Object(<<>>)>>, <<Put("n2"), Post("n3")>>, TRUE)}
=============================================================================
