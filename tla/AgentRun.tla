------------------------------- MODULE AgentRun -------------------------------
(***************************************************************************)
(* One run of one agent (RUNNING in emma-client.c), once its PRE holds:    *)
(* the client reads the next target from TARGET and the next content from  *)
(* POST, each from where it stands in the agent's file, and sends the      *)
(* content to the target, block by block, until there are no more targets. *)
(*                                                                         *)
(* Resource names, addresses and ports are symbols; a target is            *)
(* method[address]:port/uri, as in "PUT[aaaa::2]:5683/S/light".            *)
(***************************************************************************)
EXTENDS Preprocessor, JSONnParse

CONSTANTS
  Agents,       \* what the agent may be: [post, target, postFirst]
  TargetBlock,  \* BLOCK_SIZE of getNextTARGET
  Numbers,      \* the symbols that are addresses or ports
  OwnAddress    \* that of this node

VARIABLES
  agent,    \* the agent
  doing,    \* "target", "content", "block", "call", "send", "done"
  TARGET,   \* the static variables of getNextTARGET and getIPaddress
  request,  \* what is being sent: to, payload, number of the block, more
  mode,     \* POSTpreEvaluate
  parser,   \* POSTjsonParser
  previousFail,
  sent,     \* history: what was sent to whom, and how far
  turn      \* history: its change tells a step that changes nothing else from none

vars == <<file, POSTstartIndex, POSTblock, pp, agent, doing, TARGET, request, mode, parser,
          previousFail, sent, turn>>

-----------------------------------------------------------------------------
(* The agent's file, as its contents and targets are written in it.        *)

(* A content is made of parts, of which some are references.               *)
Body(c) == FlattenSeq([i \in DOMAIN c.parts |-> c.parts[i].symbols])

Written(c) == IF c.kind = "text" THEN <<"q">> \o Body(c) \o <<"q">> ELSE Body(c)

TargetText(t) ==
  t.method \o <<"[", t.address, "]", ":", t.port, "/">> \o t.uri

Listed(items) ==
  <<"[">> \o FlattenSeq([i \in DOMAIN items |->
                           IF i = 1 THEN items[i] ELSE <<",">> \o items[i]]) \o <<"]">>

PostKey == <<"q", "P", "O", "S", "T", "q", ":">>

TargetKey == <<"q", "T", "A", "R", "G", "E", "T", "q", ":">>

PostText(a) == PostKey \o Listed([i \in DOMAIN a.post |-> Written(a.post[i])])

TargetsText(a) ==
  TargetKey \o Listed([i \in DOMAIN a.target |-> <<"q">> \o TargetText(a.target[i]) \o <<"q">>])

FileOf(a) ==
  LET fields == IF a.postFirst THEN <<PostText(a), TargetsText(a)>>
                ELSE <<TargetsText(a), PostText(a)>>
  IN <<"{">> \o fields[1] \o <<",">> \o fields[2] \o <<"}">>

(* root_agent_regex: the offset of the bracket of a value, and of the      *)
(* comma or end behind it.                                                 *)
PostStart(a) == 1 + Len(PostKey) + IF a.postFirst THEN 0 ELSE Len(TargetsText(a)) + 1

PostStop(a) == IF a.postFirst THEN 1 + Len(PostText(a)) ELSE Len(FileOf(a))

TargetStart(a) == 1 + Len(TargetKey) + IF a.postFirst THEN Len(PostText(a)) + 1 ELSE 0

TargetStop(a) == IF a.postFirst THEN Len(FileOf(a)) ELSE 1 + Len(TargetsText(a))

-----------------------------------------------------------------------------
(* getIPaddress: a symbol of the address and port.                         *)

CleanAddress == [valid |-> 0, digits |-> "nul", address |-> "nul", port |-> "nul", ended |-> FALSE]

Addressed(ip, c) ==
  CASE c = "[" -> [CleanAddress EXCEPT !.valid = 1]
    [] c = "]" /\ ip.valid # 0 -> [ip EXCEPT !.valid = 2, !.address = ip.digits, !.digits = "nul"]
    [] c \in {"/", "q"} -> [ip EXCEPT !.port = ip.digits, !.ended = ip.valid = 2, !.valid = 0]
    [] c \in Numbers \cup {"D", "E"} -> [ip EXCEPT !.digits = c]
    [] c = ":" \/ c = "]" -> ip
    [] OTHER -> [ip EXCEPT !.valid = 0]

-----------------------------------------------------------------------------
(* getNextTARGET.                                                          *)

Methods == <<<<"G", "E", "T">>, <<"P", "U", "T">>, <<"P", "O", "S", "T">>,
             <<"D", "E", "L", "E", "T", "E">>>>

Longer(m, i, c) ==
  IF i < Len(Methods[m]) /\ Methods[m][i + 1] = c THEN i + 1 ELSE 0

(* The search for a method ends with the first that is complete.           *)
MethodSought(t, c) ==
  LET longer == [m \in DOMAIN Methods |-> Longer(m, t.patternIndex[m], c)]
      complete == {m \in DOMAIN Methods : longer[m] = Len(Methods[m])}
      last == Least(complete \cup {Len(Methods)})
  IN IF c = "[" THEN [t EXCEPT !.methodSet = TRUE]
     ELSE [t EXCEPT !.patternIndex = [m \in DOMAIN Methods |-> IF m <= last THEN longer[m] ELSE @[m]],
                    !.method = IF complete = {} THEN @ ELSE last,
                    !.methodSet = complete # {}]

(* A symbol of the list of targets; t.result ends the search.              *)
Sought(t, c) ==
  IF t.result THEN t
  ELSE IF t.found /\ c = "q" THEN [t EXCEPT !.result = TRUE]
  ELSE IF t.found THEN [t EXCEPT !.uri = Append(@, c), !.startIndex = @ + 1]
  ELSE LET m == IF t.methodSet THEN t ELSE MethodSought(t, c)
           ip == IF m.methodSet THEN Addressed(m.ip, c) ELSE m.ip
       IN [m EXCEPT !.ip = [ip EXCEPT !.ended = FALSE], !.found = ip.ended,
                    !.startIndex = @ + 1]

(* Fault: the place in the list is not kept from one call to the next.     *)
NewSearchFromStart(t) ==
  [t EXCEPT !.found = FALSE, !.methodSet = FALSE, !.uri = <<>>, !.method = 0, !.result = FALSE,
            !.startIndex = TargetStart(agent) + 1]

NewSearch(t) ==
  [t EXCEPT !.found = FALSE, !.methodSet = FALSE, !.uri = <<>>, !.method = 0, !.result = FALSE]

getNextTARGET(t) ==
  LET RECURSIVE Search(_)
      Search(s) ==
        LET block == emma_resource_read(file, TargetBlock, s.startIndex)
            after == FoldLeft(Sought, s, block)
        IN IF s.startIndex >= TargetStop(agent) THEN s
           ELSE IF after.result \/ Len(block) < TargetBlock THEN after
           ELSE Search(after)
  IN Search(NewSearch(t))

FirstSearch(a) ==
  [startIndex |-> TargetStart(a) + 1, found |-> FALSE, methodSet |-> FALSE, method |-> 0,
   patternIndex |-> [m \in DOMAIN Methods |-> 0], ip |-> CleanAddress, uri |-> <<>>,
   result |-> FALSE]

(* The method that is sent: GET is "not implemented", and none means PUT.  *)
Sends(m) == CASE m = 3 -> "POST" [] m = 4 -> "DELETE" [] OTHER -> "PUT"

NextTarget ==
  /\ doing = "target"
  /\ TARGET' = getNextTARGET(TARGET)
  /\ IF TARGET'.result
     THEN /\ doing' = "content"
          /\ request' = [to |-> [method |-> Sends(TARGET'.method), address |-> TARGET'.ip.address,
                                 port |-> TARGET'.ip.port, uri |-> TARGET'.uri],
                         number |-> 0, size |-> 0, last |-> FALSE]
     ELSE doing' = "done" /\ UNCHANGED request
  /\ UNCHANGED <<file, POSTstartIndex, POSTblock, pp, agent, mode, parser, previousFail, sent>>

-----------------------------------------------------------------------------
(* The content: a text or an object, from where the client stands.         *)

(* The parser before each symbol of a text that p meets, and behind it.    *)
Parsers(p, text) == FoldLeft(LAMBDA ps, c : Append(ps, JSONnParse(Last(ps), c)), <<p>>, text)

StartsContent(p, c) == StartsText(p, c, 0) \/ StartsObject(p, c, 0) \/ IsError(p, c, 0)

Seek ==
  LET RECURSIVE From(_, _, _)
      From(i, p, before) ==
        LET block == emma_resource_read(file, BufferSize, i)
            out == Copied(before, 0, block)
            ps == Parsers(p, block)
            starts == {j \in DOMAIN block : StartsContent(ps[j], block[j])}
            n == IF starts = {} THEN Len(block) ELSE Least(starts) - 1
        IN IF starts = {} /\ Len(block) = BufferSize /\ i + n < PostStop(agent)
           THEN From(i + n, Last(ps), out)
           ELSE [index |-> i + n, out |-> out,
                 mode |-> CASE starts # {} /\ block[n + 1] = "q" -> "text"
                            [] starts # {} /\ block[n + 1] = "{" -> "raw"
                            [] OTHER -> mode]
  IN From(POSTstartIndex, CleanParser, POSTblock)

(* When there is none, the client goes on as with the content before.      *)
FindContent ==
  /\ doing = "content"
  /\ \E found \in {Seek} :
       POSTstartIndex' = found.index /\ POSTblock' = found.out /\ mode' = found.mode
  /\ parser' = CleanParser
  /\ doing' = IF mode' = "unknown" THEN "target" ELSE "block"
  /\ UNCHANGED <<file, pp, agent, TARGET, request, previousFail, sent>>

(* A block of a text, by the preprocessor.                                 *)
PrepareText ==
  /\ doing = "block" /\ mode = "text"
  /\ doing' = "call"
  /\ IF request.number = 0
     THEN POSTstartIndex' = POSTstartIndex + 1 /\ pp' = Called(POSTstartIndex')
     ELSE pp' = CalledAgain /\ UNCHANGED POSTstartIndex
  /\ UNCHANGED <<file, POSTblock, agent, TARGET, request, mode, parser, previousFail, sent>>

Preprocess ==
  /\ doing = "call"
  /\ preprocessor
  /\ UNCHANGED <<agent, doing, TARGET, request, mode, parser, previousFail, sent>>

Preprocessed ==
  /\ doing = "call" /\ pp.returns
  /\ doing' = "send"
  /\ request' = [request EXCEPT !.size = pp.outputIndex]
  /\ UNCHANGED <<file, POSTstartIndex, POSTblock, pp, agent, TARGET, mode, parser, previousFail, sent>>

(* Fault: the end of an object within the object ends it.                  *)
EndsAtAnyBrace(p, c) == c = "}" /\ ~p.str

EndsContent(p, c) == EndsObject(p, c, 0)

(* A block of an object, as it is.                                         *)
PrepareObject ==
  /\ doing = "block" /\ mode = "raw"
  /\ LET block == emma_resource_read(file, BufferSize, POSTstartIndex)
         ps == Parsers(parser, block)
         ends == {j \in DOMAIN block : EndsContent(ps[j], block[j])}
         n == Least({Len(block)} \cup ends)
     IN /\ POSTblock' = Copied(POSTblock, 0, block)
        /\ POSTstartIndex' = POSTstartIndex + n
        /\ parser' = ps[n + 1]
        /\ request' = [request EXCEPT !.size = n, !.last = ends # {}]
  /\ doing' = "send"
  /\ UNCHANGED <<file, pp, agent, TARGET, mode, previousFail, sent>>

-----------------------------------------------------------------------------
(* Sending it.                                                             *)

POSTmore == request.size = BufferSize /\ ~request.last

Block == Piece(POSTblock, 0, request.size)

(* The block is out; distributed says whether it came to anything.         *)
Logged(distributed) ==
  LET whole == distributed /\ ~POSTmore
  IN sent' = IF request.number = 0
             THEN Append(sent, [to |-> request.to, payload |-> Block, whole |-> whole])
             ELSE [sent EXCEPT ![Len(sent)].payload = @ \o Block, ![Len(sent)].whole = whole]

NextBlock ==
  /\ request' = [request EXCEPT !.number = @ + 1]
  /\ doing' = IF POSTmore THEN "block" ELSE IF previousFail' THEN "done" ELSE "target"

(* To another node: a chunk without an answer ends the request, not the run. *)
SendChunk ==
  /\ doing = "send" /\ request.to.address # OwnAddress
  /\ \/ /\ Logged(TRUE)
        /\ UNCHANGED previousFail
        /\ NextBlock
     \/ /\ Logged(FALSE)
        /\ previousFail' = FALSE
        /\ doing' = "target" /\ UNCHANGED request
  /\ UNCHANGED <<file, POSTstartIndex, POSTblock, pp, agent, TARGET, mode, parser>>

(* To this node: a block that fails does not stop the ones behind it.      *)
WriteLocally ==
  /\ doing = "send" /\ request.to.address = OwnAddress
  /\ previousFail' \in IF request.to.method = "DELETE" THEN {FALSE} ELSE BOOLEAN
  /\ Logged(TRUE)
  /\ NextBlock
  /\ UNCHANGED <<file, POSTstartIndex, POSTblock, pp, agent, TARGET, mode, parser>>

-----------------------------------------------------------------------------

Init ==
  /\ agent \in Agents
  /\ file = FileOf(agent)
  /\ doing = "target"
  /\ TARGET = FirstSearch(agent)
  /\ POSTstartIndex = PostStart(agent) + 1
  /\ POSTblock = [i \in 0 .. BufferSize - 1 |-> "nul"]
  /\ pp = CleanState
  /\ request = <<>>
  /\ mode \in {"unknown", "text", "raw"}  \* of the agent before
  /\ parser = CleanParser
  /\ previousFail = FALSE
  /\ sent = <<>>
  /\ turn = FALSE

Step ==
  \/ NextTarget \/ FindContent
  \/ PrepareText \/ Preprocess \/ Preprocessed \/ PrepareObject
  \/ SendChunk \/ WriteLocally

Turns == doing # "done" /\ turn' = ~turn

Next == (Step /\ Turns) \/ (doing = "done" /\ UNCHANGED vars)

(* The process is polled, and a blocking request ends (see BlockTransfer). *)
(* A run that is not over has a step (deadlock is checked), one in which   *)
(* the preprocessor stays as it is among them: every step turns.           *)
Fairness == WF_turn(Turns)

Spec == Init /\ [][Next]_vars /\ Fairness

-----------------------------------------------------------------------------
(* What an agent means: the k-th content goes to the k-th target, with the *)
(* values of the references it holds; blanks do not count.                 *)

Visible(text) == SelectSeq(text, LAMBDA c : c \notin {" ", "nul"})

Quoted(text) == [i \in DOMAIN text |-> IF text[i] = "'" THEN "q" ELSE text[i]]

Meaning(c) ==
  IF c.kind = "object" THEN Body(c)
  ELSE FlattenSeq([i \in DOMAIN c.parts |->
         LET uri == Uri(c.parts[i].symbols)
         IN IF c.parts[i].reference /\ uri \in DOMAIN Resources THEN Resources[uri]
            ELSE Quoted(c.parts[i].symbols)])

MeantTarget(t) ==
  [method |-> CASE t.method = Methods[3] -> "POST" [] t.method = Methods[4] -> "DELETE"
                [] OTHER -> "PUT",
   address |-> t.address, port |-> t.port, uri |-> t.uri]

NoReference(c) == \A i \in DOMAIN c.parts : ~c.parts[i].reference

(* Contents behind which the client stands where it should.                *)
KeepsPlace(c) ==
  c.kind = "text" =>
    NoReference(c) /\ \A i \in DOMAIN c.parts : Range(c.parts[i].symbols) \cap Operators = {}

-----------------------------------------------------------------------------
(* Properties.                                                             *)

(* The variables have their types; the indices of the preprocessor stay in *)
(* their arrays, a window is only filled where it has room (REPL_FILL has  *)
(* an error state for it, "Parse error (uri too long)", that is never      *)
(* entered), and the symbol behind a window ends it.                       *)
TypeOK ==
  /\ doing \in {"target", "content", "block", "call", "send", "done"}
  /\ POSTstartIndex \in Nat /\ turn \in BOOLEAN
  /\ pp.namIndex \in Nat /\ pp.bufferIndex \in Window /\ pp.copyIndex \in Window
  /\ pp.outputIndex \in 0 .. BufferSize /\ pp.endNext \in Window
  /\ pp.state = "FILL" => pp.bufferIndex < ReplBuffer
  /\ pp.buffer[ReplBuffer] = "nul" /\ pp.buffer2[ReplBuffer] = "nul"
  /\ DOMAIN pp.buffer = Window /\ DOMAIN POSTblock = 0 .. BufferSize - 1

(* The k-th request of a run goes to the k-th TARGET, with its method,     *)
(* address, port and uri, wherever the targets fall in the blocks they are *)
(* read by, and whatever failed before: getNextTARGET (emma-client.c:572)  *)
(* keeps its place, the address parser its state from one call to the next.*)
TargetsAreMeant ==
  /\ Len(sent) <= Len(agent.target)
  /\ \A k \in DOMAIN sent : sent[k].to = MeantTarget(agent.target[k])

PayloadIsMeant(k) ==
  LET payload == Visible(sent[k].payload)
      meant == Visible(Meaning(agent.post[k]))
  IN IF sent[k].whole THEN payload = meant ELSE IsPrefix(payload, meant)

(* README.md:51: the client "transmits the requests contained in the       *)
(* TARGET file with their corresponding payload stored in POST field": the *)
(* k-th content goes to the k-th target.                                   *)
PayloadsAreMeant ==
  \A k \in DOMAIN sent \cap DOMAIN agent.post : PayloadIsMeant(k)

(* The same, as long as the contents before were sent whole and hold       *)
(* neither an operator nor a reference, and POST is not the last field if  *)
(* this one holds a reference: then what the preprocessor copies by        *)
(* windows and blocks, and what the client cuts from the list by the depth *)
(* of its braces, is the content and no more of it, and the client stands  *)
(* behind it for the next (emma-client.c:260-320, 1002).                   *)
ContentsAreMeant ==
  \A k \in DOMAIN sent \cap DOMAIN agent.post :
    (/\ \A j \in 1 .. k - 1 : KeepsPlace(agent.post[j]) /\ sent[j].whole
     /\ agent.postFirst \/ NoReference(agent.post[k]))
    => PayloadIsMeant(k)

ReferencesFirst(c) == \A i \in DOMAIN c.parts : c.parts[i].reference => i = 1

(* Whatever requests fail, a run comes to its end, and the client to the   *)
(* next agent (emma-client.c:250-446), as long as the references of a text *)
(* are at its beginning: the preprocessor returns, a content has a last    *)
(* block, and each call of getNextTARGET goes on in the list. With a       *)
(* reference behind something else, as in src/README.md:102, the           *)
(* preprocessor may drop the same blank block for ever, without yielding   *)
(* (emma-client.c:1274-1285), or the client send blocks for ever.          *)
AgentRunEnds == (\A k \in DOMAIN agent.post : ReferencesFirst(agent.post[k])) => <>(doing = "done")
=============================================================================
