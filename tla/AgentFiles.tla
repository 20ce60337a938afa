------------------------------ MODULE AgentFiles ------------------------------
(***************************************************************************)
(* The agents of a node as files (root-agent.c): a fixed number of files   *)
(* that are reused and never truncated, written block by block while an    *)
(* incremental JSON parser (emma-JSONnParse.c) and a search for four keys  *)
(* note where PRE, POST, TARGET and NAME begin, and read by the client     *)
(* between those positions (emma-client.c).                                *)
(*                                                                         *)
(* A file is a sequence of symbols. A symbol is a character, "q" for the   *)
(* quote, or the name of one of the four keys as a whole.                  *)
(***************************************************************************)
EXTENDS Integers, Sequences, FiniteSets, JSONnParse

CONSTANTS
  Names,           \* uris of agents
  Documents,       \* what is written to them
  LocalDocuments,  \* what agents of the node itself write
  Slots,           \* 0 .. ROOT_AGENT_MAX_ALLOC - 1
  BlockSize,       \* REST_MAX_CHUNK_SIZE
  FailingBlocks,   \* those the file system may fail to write
  Others,          \* other requests come during a transfer
  NoName, NoDocument, NoAgent, NoTransfer

ASSUME AgentAssumption ==
  /\ Documents \subseteq Seq(STRING) \ {<<>>} /\ LocalDocuments \subseteq Documents
  /\ Slots \subseteq Nat /\ IsFiniteSet(Slots) /\ IsFiniteSet(Names)
  /\ BlockSize \in Nat \ {0}
  /\ FailingBlocks \subseteq Nat /\ Others \in BOOLEAN
  /\ NoName \notin Names /\ NoDocument \notin Documents /\ NoAgent \notin Slots

VARIABLES
  memoryIndex,  \* the file of the agent of each name, if there is one
  agent,        \* the rest of its root_agent_t
  memory,       \* the files in use
  file,         \* what is in the files, used or not
  incoming,     \* the transfer under way: uri, document, method, last block sent
  locked,       \* the uri the server has locked for it
  count,
  whole,        \* history: the document a name was last written in full
  partBy        \* history: who wrote what a name has, if it is not whole

vars == <<memoryIndex, agent, memory, file, incoming, locked, count, whole, partBy>>

Patterns == <<"PRE", "POST", "TARGET", "NAME">>
Keys == {Patterns[i] : i \in DOMAIN Patterns}

agent_patterns ==
  [k \in Keys |-> <<"q", k, "q", ":", IF k \in {"POST", "TARGET"} THEN "[" ELSE "q">>]

-----------------------------------------------------------------------------
(* root_agent_analyze_block.                                               *)

NextMatch(k, i, c) ==
  IF i < Len(agent_patterns[k]) /\ c = agent_patterns[k][i + 1] THEN i + 1 ELSE 0

(* Fault: the position is that in the block.                               *)
PlaceInBlock(a, i) == i

Place(a, i) == a.size + i

(* The character c at place i of a block. A key found twice ends the       *)
(* analysis, before the patterns behind it are looked at.                  *)
Feed(a, c, i) ==
  LET match == [k \in Keys |-> NextMatch(k, a.patternIndex[k], c)]
      found == {k \in Keys : match[k] = Len(agent_patterns[k]) /\ ~IsContent(a.parser, c, 1)}
      again == {k \in found : a.fileIndex[k] # 0}
      skipped == {Patterns[j] : j \in {j \in DOMAIN Patterns : \E h \in 1 .. j - 1 : Patterns[h] \in again}}
  IN IF a.twice THEN a
     ELSE [a EXCEPT
             !.parser = JSONnParse(@, c),
             !.patternIndex = [k \in Keys |-> IF k \in skipped THEN @[k] ELSE match[k]],
             !.fileIndex = [k \in Keys |-> IF k \in found \ again THEN Place(a, i) ELSE @[k]],
             !.twice = again # {}]

(* Fault: the positions of the document before are kept.                   *)
ResetParser(a) == [a EXCEPT !.parser = CleanParser, !.size = 0, !.twice = FALSE]

NewAgent ==
  [patternIndex |-> [k \in Keys |-> 0], fileIndex |-> [k \in Keys |-> 0], size |-> 0,
   parser |-> CleanParser, twice |-> FALSE]

root_agent_reset(a) == NewAgent

Analysed(agt, block, n) ==
  LET first == IF n = 0 THEN root_agent_reset(agt) ELSE [agt EXCEPT !.twice = FALSE]
      Fed[i \in 0 .. Len(block)] ==
        IF i = 0 THEN first ELSE Feed(Fed[i - 1], block[i], i - 1)
  IN Fed[Len(block)]

-----------------------------------------------------------------------------
(* The files.                                                              *)

Least(S) == CHOOSE s \in S : \A t \in S : s <= t

InUse == {u \in Names : memoryIndex[u] # NoAgent}

(* Fault: the index is the number of files in use.                         *)
IndexFromCount == Cardinality(memory)

getMemoryIndex == Least(Slots \ memory)

(* The pool has as many agents as there are files.                         *)
CanHave(u) == u \in InUse \/ Cardinality(InUse) < Cardinality(Slots)

(* The file of u's agent, or of the one that root_agent_alloc makes.        *)
FileFor(u) == IF u \in InUse THEN memoryIndex[u] ELSE getMemoryIndex

(* What is there when block is written at offset, a gap included.          *)
Overwritten(old, offset, block) ==
  LET end == offset + Len(block)
  IN [i \in 1 .. (IF end > Len(old) THEN end ELSE Len(old)) |->
        IF i > offset /\ i <= end THEN block[i - offset]
        ELSE IF i <= Len(old) THEN old[i] ELSE "gap"]

LastBlock(d) == (Len(d) - 1) \div BlockSize

Blocks ==
  [d \in Documents |->
     [n \in 0 .. LastBlock(d) |->
        SubSeq(d, n * BlockSize + 1, IF n = LastBlock(d) THEN Len(d) ELSE (n + 1) * BlockSize)]]

(* Fault: the size is not updated.                                         *)
WriteUncounted(agt, old, d, n, fails) ==
  LET a == Analysed(agt, Blocks[d][n], n)
  IN IF a.twice \/ fails THEN [agt |-> a, file |-> old, ok |-> FALSE]
     ELSE [agt |-> a, file |-> Overwritten(old, n * BlockSize, Blocks[d][n]), ok |-> TRUE]

(* root_agent_write: the agent and the file after it, and whether all of   *)
(* the block was written.                                                  *)
Write(agt, old, d, n, fails) ==
  LET a == Analysed(agt, Blocks[d][n], n)
  IN IF a.twice \/ fails THEN [agt |-> a, file |-> old, ok |-> FALSE]
     ELSE [agt |-> [a EXCEPT !.size = @ + Len(Blocks[d][n])],
           file |-> Overwritten(old, n * BlockSize, Blocks[d][n]), ok |-> TRUE]

Fails(n) == {FALSE} \cup {TRUE : i \in {n} \cap FailingBlocks}

-----------------------------------------------------------------------------
(* The server: emma_server_handler on blocks 0 .. incoming.sent, which the *)
(* network may repeat and delay.                                           *)

root_agent_free(u) ==
  /\ memoryIndex' = [memoryIndex EXCEPT ![u] = NoAgent]
  /\ agent' = [agent EXCEPT ![u] = NewAgent]
  /\ memory' = memory \ {memoryIndex[u]}

Gone(u) ==
  /\ IF u \in InUse THEN root_agent_free(u) ELSE UNCHANGED <<memoryIndex, agent, memory>>
  /\ whole' = [whole EXCEPT ![u] = NoDocument]
  /\ partBy' = [partBy EXCEPT ![u] = "none"]

Begin(u, d, method) ==
  /\ incoming' = [uri |-> u, doc |-> d, method |-> method, sent |-> 0]
  /\ UNCHANGED <<memoryIndex, agent, memory, file, locked, count, whole, partBy>>

PostToExisting == incoming.method = "POST" /\ incoming.uri \in InUse /\ locked = NoName

Cancels(n) == n # 0 /\ n - count \notin {0, 1}

(* A packet was lost, or comes late.                                       *)
Cancel(n) ==
  /\ ~PostToExisting /\ Cancels(n)
  /\ Gone(incoming.uri)
  /\ locked' = NoName
  /\ UNCHANGED <<file, incoming, count>>

NoPlace ==
  /\ ~PostToExisting /\ locked = NoName /\ ~CanHave(incoming.uri)
  /\ count' = -1
  /\ UNCHANGED <<memoryIndex, agent, memory, file, incoming, locked, whole, partBy>>

Takes(n) ==
  /\ ~PostToExisting /\ ~Cancels(n)
  /\ IF n = 0 THEN locked = NoName /\ CanHave(incoming.uri)
     ELSE locked = incoming.uri /\ n # count

Result(n, fails) ==
  Write(agent[incoming.uri], file[FileFor(incoming.uri)], incoming.doc, n, fails)

(* u has an agent, with the file f.                                        *)
Has(u, f, a, content) ==
  /\ memoryIndex' = [memoryIndex EXCEPT ![u] = f]
  /\ agent' = [agent EXCEPT ![u] = a]
  /\ memory' = memory \cup {f}
  /\ file' = [file EXCEPT ![f] = content]

Stored(n, w) ==
  LET u == incoming.uri
      more == n < LastBlock(incoming.doc)
  IN /\ w.ok
     /\ Has(u, FileFor(u), w.agt, w.file)
     /\ locked' = IF more THEN u ELSE NoName
     /\ incoming' = [incoming EXCEPT !.sent = IF more /\ n = @ THEN @ + 1 ELSE @]
     /\ whole' = [whole EXCEPT ![u] = IF more THEN NoDocument ELSE incoming.doc]
     /\ partBy' = [partBy EXCEPT ![u] = IF more THEN "request" ELSE "none"]

(* Fault: what could not be written in full stays.                         *)
KeepPart(w) ==
  /\ ~w.ok
  /\ Has(incoming.uri, FileFor(incoming.uri), w.agt, w.file)
  /\ whole' = [whole EXCEPT ![incoming.uri] = NoDocument]
  /\ partBy' = [partBy EXCEPT ![incoming.uri] = "request"]
  /\ locked' = NoName
  /\ UNCHANGED incoming

Refused(w) ==
  /\ ~w.ok
  /\ Gone(incoming.uri)
  /\ locked' = NoName
  /\ UNCHANGED <<file, incoming>>

PutBlock(n) ==
  /\ Takes(n)
  /\ count' = n
  /\ \E fails \in Fails(n) : \E w \in {Result(n, fails)} : Stored(n, w) \/ Refused(w)

(* Any request without a block sets the count.                             *)
OtherRequest ==
  /\ locked = NoName \/ Others
  /\ count' = 0
  /\ UNCHANGED <<memoryIndex, agent, memory, file, incoming, locked, whole, partBy>>

Delete(u) ==
  /\ u \in InUse /\ locked # u
  /\ locked = NoName \/ Others
  /\ Gone(u)
  /\ count' = 0
  /\ UNCHANGED <<file, incoming, locked>>

Watchdog ==
  /\ locked # NoName
  /\ Gone(locked)
  /\ locked' = NoName
  /\ UNCHANGED <<file, incoming, count>>

-----------------------------------------------------------------------------
(* The client of the node itself, in one of the runs that find every       *)
(* resource unlocked. A block that fails does not stop it.                 *)

Then(v, d, n, bad) == [Write(v.agt, v.file, d, n, n = bad) EXCEPT !.ok = @ /\ v.ok]

LocalResult(u, d, bad) ==
  LET After[n \in -1 .. LastBlock(d)] ==
        IF n = -1 THEN [agt |-> agent[u], file |-> file[FileFor(u)], ok |-> TRUE]
        ELSE CHOOSE w \in {Then(v, d, n, bad) : v \in {After[n - 1]}} : TRUE
  IN After[LastBlock(d)]

(* A PUT, or a POST of an agent that does not exist, by another agent.     *)
LocalWrite(u, d) ==
  /\ locked = NoName /\ CanHave(u) /\ InUse \ {u} # {}
  /\ \E bad \in {-1} \cup (FailingBlocks \cap 0 .. LastBlock(d)) :
     \E w \in {LocalResult(u, d, bad)} :
       /\ Has(u, FileFor(u), w.agt, w.file)
       /\ whole' = [whole EXCEPT ![u] = IF w.ok THEN d ELSE NoDocument]
       /\ partBy' = [partBy EXCEPT ![u] = IF w.ok THEN "none" ELSE "agent"]
  /\ UNCHANGED <<incoming, locked, count>>

LocalDelete(u) ==
  /\ locked = NoName /\ u \in InUse
  /\ Gone(u)
  /\ UNCHANGED <<file, incoming, locked, count>>

(* Fault: a value ends before the first key of the document.               *)
StopAtFirst(a, key) ==
  [start |-> a.fileIndex[key],
   stop |-> Least({a.size} \cup
                  {t \in {a.fileIndex[k] - Len(agent_patterns[k]) : k \in Keys} : t > 0})]

(* Where the value of a key is in the file.                                *)
root_agent_regex(a, key) ==
  LET start == a.fileIndex[key]
  IN [start |-> start,
      stop |-> Least({a.size} \cup
                     {t \in {a.fileIndex[k] - Len(agent_patterns[k]) : k \in Keys} : t > start})]

root_agent_read(f, size, index) ==
  SubSeq(f, index + 1, IF index + size < Len(f) THEN index + size ELSE Len(f))

(* Fault: the quote before the text is read as well.                       *)
PreFromQuote(start) == start

PreFrom(start) == start + 1

(* The text of PRE as the client reads it, a block at a time to its quote. *)
ReadPre(a, f) ==
  LET slice == root_agent_regex(a, "PRE")
      Text[i \in Nat] ==
        IF i >= slice.stop THEN <<>>
        ELSE LET block == root_agent_read(f, BlockSize, i)
                 quotes == {j \in 1 .. Len(block) : block[j] = "q"}
             IN IF quotes # {} THEN SubSeq(block, 1, Least(quotes) - 1)
                ELSE IF Len(block) < BlockSize THEN block
                ELSE block \o Text[i + BlockSize]
  IN Text[PreFrom(slice.start)]

-----------------------------------------------------------------------------

Init ==
  /\ memoryIndex = [u \in Names |-> NoAgent]
  /\ agent = [u \in Names |-> NewAgent]
  /\ memory = {}
  /\ file = [s \in Slots |-> <<>>]
  /\ incoming = NoTransfer
  /\ locked = NoName
  /\ count = 0
  /\ whole = [u \in Names |-> NoDocument]
  /\ partBy = [u \in Names |-> "none"]

Block(n) == Cancel(n) \/ (n = 0 /\ NoPlace) \/ PutBlock(n)

Next ==
  \/ \E u \in Names, d \in Documents, m \in {"PUT", "POST"} : Begin(u, d, m)
  \/ incoming # NoTransfer /\ \E n \in 0 .. incoming.sent : Block(n)
  \/ OtherRequest \/ Watchdog
  \/ \E u \in Names : Delete(u) \/ LocalDelete(u)
  \/ \E u \in Names, d \in LocalDocuments : LocalWrite(u, d)

Spec == Init /\ [][Next]_vars

-----------------------------------------------------------------------------
(* What a document means, without a parser: a key is where its pattern     *)
(* stands in the outermost braces.                                         *)

Quotes(d, i) == Cardinality({j \in 1 .. i : d[j] = "q"})

Outside(d, S) == {i \in DOMAIN d : d[i] \in S /\ Quotes(d, i) % 2 = 0}

Depth(d, i) ==
  Cardinality({j \in Outside(d, {"{", "["}) : j <= i})
    - Cardinality({j \in Outside(d, {"}", "]"}) : j <= i})

Places ==
  [d \in Documents |-> [k \in Keys |->
     {i \in 1 .. Len(d) - Len(agent_patterns[k]) + 1 :
        /\ SubSeq(d, i, i + Len(agent_patterns[k]) - 1) = agent_patterns[k]
        /\ Depth(d, i) = 1 /\ Quotes(d, i) % 2 = 1}]]

Twice(d) == \E k \in Keys : Cardinality(Places[d][k]) > 1

(* The offset of the last character of the pattern.                        *)
Meant ==
  [d \in Documents |-> [k \in Keys |->
     IF Places[d][k] = {} THEN 0 ELSE Least(Places[d][k]) + Len(agent_patterns[k]) - 2]]

(* The offset of the bracket or quote that ends the value.                 *)
ValueEnd ==
  [d \in Documents |-> [k \in Keys |->
     Least({i \in DOMAIN d : /\ i > Meant[d][k] + 1 /\ Depth(d, i) = 1
                             /\ d[i] = IF k \in {"POST", "TARGET"} THEN "]" ELSE "q"}) - 1]]

MeantPre(d) == SubSeq(d, Meant[d]["PRE"] + 2, ValueEnd[d]["PRE"])

(* JSON without blanks, as the agents are written that the patterns are    *)
(* for: a key follows a brace or a comma, brackets are closed after they   *)
(* are opened, and the outermost braces hold all of the document.          *)
Opened(d, c, i) == Cardinality({j \in Outside(d, {c}) : j <= i})

KeysFollow(d) ==
  \A k \in Keys, i \in DOMAIN d :
    (\A j \in 1 .. 4 : i - 1 + j \in DOMAIN d /\ d[i - 1 + j] = agent_patterns[k][j]) =>
       i > 1 /\ d[i - 1] \in {"{", ","} /\ Quotes(d, i) % 2 = 1

BracketsClose(d) ==
  \A i \in DOMAIN d :
    /\ Opened(d, "}", i) <= Opened(d, "{", i)
    /\ Opened(d, "]", i) <= Opened(d, "[", i)
    /\ i # Len(d) => Depth(d, i) >= 1

Compact(d) == KeysFollow(d) /\ BracketsClose(d)

(* A value ends before the comma or the brace in front of the next key.    *)
Closed(d) ==
  \A k \in Keys : \A p \in Places[d][k] :
    \E e \in p + 5 .. Len(d) :
      /\ Depth(d, e) = 1 /\ d[e] = IF k \in {"POST", "TARGET"} THEN "]" ELSE "q"
      /\ \A l \in Keys : \A i \in Places[d][l] : i \notin p + 1 .. e + 1

WellWritten == \A d \in Documents : Compact(d) /\ Closed(d)

-----------------------------------------------------------------------------
(* Properties.                                                             *)

TypeOK ==
  /\ memoryIndex \in [Names -> Slots \cup {NoAgent}] /\ memory \subseteq Slots
  /\ \A u \in Names :
       /\ \A k \in Keys : /\ agent[u].patternIndex[k] \in 0 .. Len(agent_patterns[k])
                          /\ agent[u].fileIndex[k] \in Nat
       /\ whole[u] # NoDocument => \A k \in Keys : agent[u].fileIndex[k] < agent[u].size
  /\ locked \in Names \cup {NoName}
  /\ whole \in [Names -> Documents \cup {NoDocument}]
  /\ partBy \in [Names -> {"none", "request", "agent"}]

(* "BAD filesystem management (memory leak)" (root-agent.c:77): agents     *)
(* never share a file, and the files in use are those of the agents, so    *)
(* that whoever gets an agent from the pool gets a file.                   *)
FilesAreApart ==
  /\ \A u, v \in InUse : memoryIndex[u] = memoryIndex[v] => u = v
  /\ memory = {memoryIndex[u] : u \in InUse}

(* "startIndex is already saved in agent structure" (root-agent.c:288):    *)
(* wherever the document was cut into blocks, the keys are noted where     *)
(* they are, and those of an agent inside of the document are not.         *)
PositionsAreMeant ==
  \A u \in InUse : whole[u] # NoDocument =>
    \A k \in Keys : agent[u].fileIndex[k] = Meant[whole[u]][k]

(* "Compute stopIndex" (root-agent.c:288): between start and stop there is *)
(* the value of the key, whole, no other key and nothing of a document     *)
(* the file had before.                                                    *)
SlicesAreOwn ==
  \A u \in InUse : whole[u] # NoDocument =>
    LET d == whole[u]
        f == file[memoryIndex[u]]
    IN /\ SubSeq(f, 1, Len(d)) = d
       /\ \A k \in Keys \ {"NAME"} : Places[d][k] # {} =>
            \E slice \in {root_agent_regex(agent[u], k)} :
              /\ slice.start < ValueEnd[d][k] /\ ValueEnd[d][k] < slice.stop
              /\ slice.stop <= Len(d)
              /\ \A l \in Keys : \A i \in Places[d][l] : i - 1 \notin slice.start .. slice.stop

(* "Read PRE condition" (emma-client.c:215): what is evaluated is the text *)
(* of the agent's own PRE, though the reader takes whole blocks and the    *)
(* file may be longer than the agent.                                      *)
PreIsOwn ==
  \A u \in InUse : whole[u] # NoDocument =>
    (Places[whole[u]]["PRE"] # {} =>
       ReadPre(agent[u], file[memoryIndex[u]]) = MeantPre(whole[u]))

(* "we release the resource because it is incomplete" (emma-server.c:340): *)
(* no agent that a request made is left in part.                           *)
RequestsAreWhole ==
  \A u \in InUse : partBy[u] = "request" => locked = u

(* "Not the first time we match this pattern" (root-agent.c:172): with a   *)
(* sound file system no block is refused but of a document that has a key  *)
(* twice, whatever the agent was before.                                   *)
OnlyTwiceIsRefused ==
  incoming # NoTransfer =>
    \A n \in 0 .. incoming.sent :
      Takes(n) => Result(n, FALSE).ok \/ Twice(incoming.doc)
=============================================================================
