---------------------------- MODULE MCAgentFiles ----------------------------
(***************************************************************************)
(* Three documents for three names and two files: a long one whose POST    *)
(* holds an agent with the same keys, a short one with brackets and a key  *)
(* in a text, and one that has PRE twice.                                  *)
(***************************************************************************)
EXTENDS AgentFiles, TLC

CONSTANTS u1, u2, u3

Pair(k, v) == <<"q", k, "q", ":">> \o v
Text(t) == <<"q">> \o t \o <<"q">>
Array(v) == <<"[">> \o v \o <<"]">>
Object(v) == <<"{">> \o v \o <<"}">>

Inner == Object(Pair("PRE", Text(<<"y">>)))

Long ==
  Object(Pair("POST", Array(Inner)) \o <<",">> \o Pair("TARGET", Array(Text(<<"x">>))) \o <<",">>
         \o Pair("PRE", Text(<<"x", "x", "x">>)))

Short == Object(Pair("NAME", Text(<<"PRE", "]", "{">>)) \o <<",">> \o Pair("PRE", Text(<<"z">>)))

Repeated == Object(Pair("PRE", Text(<<"v">>)) \o <<",">> \o Pair("PRE", Text(<<"v">>)))

AllDocuments == {Long, Short, Repeated}
LocalOnes == {Short, Repeated}

ASSUME DocumentsAssumption == WellWritten

AnyNames == Permutations(Names)
=============================================================================
