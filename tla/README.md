# EMMA node: specifications, model checking and proofs

EMMA is a middleware for sensor nodes on Contiki: a node offers *resources*
over CoAP under three roots (`A` agents, `L` local variables, `S` the system),
and runs the *agents* among them, small JSON scripts that send requests to
resources of this and of other nodes whenever a condition holds. The code is
`src/src/apps/emma-node/` (5.8 kLOC C); everything under `src/dep/` is Contiki
and Erbium, vendored. This directory holds TLA+ modules of the node's own core,
TLC configurations that check them on small instances, and TLAPS proofs.

## 1. Inventory

| Part (file) | State | Operations | Who calls it, and how |
|---|---|---|---|
| resource interface and tree (`emma-resource.c`) | `memb` pool of resource blocks, `prev`/`next`/`subRoot` links below the list of each root, per resource mutex, last modifier, clock time; the global last modifier | add, del, lock, release, set/get last modifier and clock time, exists, read, write, open, close | plain calls from server, client, system process |
| iterator (`emma-resource.c:74-78`, `:311-386`) | five file-level variables, *one* walk for the whole node | start a walk at a root, go on (root 0), reset | client, server, watchdog, `.well-known/core`, `S/resources`; `del` resets it |
| agent root (`root-agent.c`) | pool of 5 data slots, memory index, a file per slot, pattern positions, JSON parser | alloc, free, reset, write (with syntax check), read, pattern search | through the root's function table |
| local root (`root-resource.c`) | pool of 5 slots, a 16-bit value each, one evaluation stack | alloc, free, open, write (evaluates), read, close | function table |
| system root (`root-system.c`) | pool of 6 slots, all used at start | read only; process that touches `S/time` every 5 s | function table, timer |
| server (`emma-server.c`) | `opened`, `locked`, the handler's static `count` | request handler (GET, PUT, POST, DELETE), watchdog, `.well-known/core` | Erbium calls the handler for every datagram; timer |
| client (`emma-client.c`) | `state`, the agent's name, `previousFail`, `pre`, positions in the agent's file | IDLE, START, WAITING_MUTEX, RUNNING, RELEASE; blocking requests | its own Contiki process |
| evaluator (`emma-eval.c`) | an evaluation stack of L, one of the client, a static index both share | expressions, block by block | local root and client |
| JSON parser (`emma-JSONnParse.c`) | depth of objects and arrays, inside of a text or not; one per agent | one character per call | agent root, for every block written; client, for what it sends |
| preprocessor, TARGET parsing (`emma-client.c:572-668`, `:815-1288`) | positions in the agent's file, windows of 16 characters of it, a state of nine | replace references in POST, find method, address and path of the next target | client |
| CoAP transactions and engine (Erbium, with `src/patch/patch_erbium.diff`) | open transactions with identifier, retransmission counter and timer; the current identifier | blocking requests, retransmission, matching of answers, the handler's wish not to answer | client and server |
| start-up (`emma-init.c`), example (`src/src/examples`) | none | init calls | once |

What is hard here:

* **Cooperative concurrency.** Processes and handlers run until they yield, so
  each is atomic, except the client's run of the agents, which yields in
  `COAP_BLOCKING_REQUEST`: requests, the watchdog and the system process then run
  on the same resources and *on the same iterator*.
* **One of everything.** One iterator, one `locked`, one `count` for all
  resources and all senders.
* **Unreliable delivery.** Blocks of a transfer are lost, repeated, reordered and
  abandoned half-way; the server judges each by `count` in unsigned arithmetic.
* **Identifiers and answers.** An answer is matched by 16 bits, a datagram may
  arrive long after its transfer, a multicast may have many answers or, because a
  handler may ask for no answer by setting an unsigned field to -1, odd ones.
* **Streams.** Agents and expressions are parsed as their blocks arrive; what has
  been seen of a key, a number or an operator is carried over. Files are reused
  and never truncated.
* **Pools.** Every resource takes a block and a data slot; error paths must give
  both back, or neither.
* **Liveness by time-outs.** Only the watchdog ends an abandoned transfer, and
  only the system process makes up for a wake-up the client overwrote.

What makes each part correct: the pools account for what is linked and what is
not; every resource is reached by a lookup and met once by a walk; a walk ends;
a transfer either completes or leaves nothing; a mutex has an owner who releases
it; the client gets past locked resources, its runs end, and it runs again.
The `hazards` of `PROJECT.json` list where each of these bites.

## 2. Modules

```
ResourceStore      what the resource interface promises      <- abstract
   ^      ^------------------------ EmmaNode                 <- whole node
   | implements                        (server, watchdog, client, system process)
ResourceTree       the same calls on linked blocks, pools, iterator
TreeStore          the refinement mapping
Evaluator          expressions, block by block, and the root L that evaluates them
JSONnParse         the incremental parser
   ^      ^
AgentFiles |       agents as files, the search for their keys, the root A
Preprocessor       the texts of POST, block by block, with references replaced
   ^       |
AgentRun --+       one run of one agent: targets, contents, what is sent to whom
Delivery           what a transfer promises                  <- abstract
   ^ implements
BlockTransfer      clients and servers of several nodes over CoAP
MC<Module>         small instances
ResourceStoreProofs <- EmmaNodeProofs, BlockTransferProofs, AgentFilesProofs,  <- TLAPS
ResourceTreeProofs <- ResourceTreeWalkProofs <- TreeStoreProofs, EvaluatorProofs
```

Three modules look at the server's handler, each for what it leaves in its part:
`EmmaNode` at all resources of one node, with requests that come out of nowhere;
`BlockTransfer` at one resource on several nodes, with the senders and the
network; `AgentFiles` at what is written to agents. The guards (first block while
`locked`, `block_num - count > 1`, POST to what exists) are the same in all.

**ResourceStore** (from `emma-resource.c` and the pools of the roots). A store is
a record: `tree` (name -> mutex, last modifier, clock time), `order` (the walk of
each root), `blocks` and `slots` in use, the global `lastModifier`, and `fault`
(a `NULL` block was cleaned, `:498`). `Add`, `Del`, `Lock`, `Release`,
`SetLastModified`, `SetClocktime` are operators from store to store with the
return codes as values of their own (`AddCode`, `DelCode`), so that a handler that
makes several calls composes them. The state machine offers one call per step. A
name is a value with a `Parent` and a root, so folders of any depth are covered.

**ResourceTree** is the same interface on its data: `blk` with
`prev`/`next`/`subRoot`, `list` per root, the set of blocks handed out, the data
slots by number, and the iterator as the code has it, with every `if` of its loop
(`Pass`). `memb_alloc` hands out the lowest free block *with the content its last
user left*. `StoreView` reads the abstract store off the blocks by lookup and
post-order. A walk that
does not end is found by running the loop for more passes than a proper walk can
need and sets `fault`, after which the model stops. The refinement is in
**TreeStore**: `view` is a history variable that is `StoreView` after each step, and
`ImplementsStore` says that it behaves as the store of `ResourceStore`. (The two
`fault`s differ: the tree's is a loop of the iterator, the store's that a `NULL`
block is cleaned, which `PoolNeverExhausted` excludes.)

**EmmaNode** composes the store with its users. One action stands for one run of
a handler or process up to its next yield. `Handle(r)` has a disjunct per way
through `emma_server_handler`: `Dropped` (POST to an existing resource, first
block during a transfer, repeated block), `LostPacket`, `Refused` (not locked),
`Stored`, `WriteFailed`, `NoPayload`, `Get`, `List` (GET of a root or of
`S/resources`), `WellKnown`, `Delete`. `Watchdog` is one expiry of the server's
timer with its three looks. The client's state `RUNNING` is split: `AGENT` is a
run between two calls of the iterator or two targets, during which nothing else
happens (`Free`), and `AWAIT` is the blocking request, during which everything
else may. `written` is a history variable: the numbers of the blocks a resource
has of its last transfer.

**Evaluator** is what `EmmaNode` leaves open of a write to L: the stack machine of
`emma-eval.c` and, around it, everyone who uses the one stack of
`root-resource.c`. `EvaluateBlock` is `evaluate_block` on a block of characters:
each round fills the buffer behind the operand that is not ended (`Filled`, in
arithmetic of 8 bits), scans it for operators (`Scan`), takes a buffer without
one for an operand (`TakeFull`) and moves the rest to the front; `Concluded` is
the last turn. `AddOperator`, `Reduce`, `Operate` and `CloseParenthesis` are
`eval_add_operator` and the functions of the operator table, including that ")"
ignores errors. `stack` carries `evaluate_block`'s static `operandIndex`, because
the client's evaluations reset it too (`Condition`). The actions are a first and a
later block of the server's transfer, with the whole of what the handler does
(open unless `opened`, write, delete on error, close after the last block),
abandoned transfers, GET and empty PUT of other resources (which open or close
them, and so clean or conclude the stack), refused blocks, transfers to other
roots (which leave `opened` set) and local writes of agents. `SentencesOf` is the
reference: a grammar with the value of each sentence and the depth of stack it
needs, written from the precedences alone.

**BlockTransfer** is the sender's side (`emma-client.c:403-436` around
`coap_blocking_request`) against the receiver's, over a network that is the set of
all datagrams sent: each may arrive never, late, or often. A client waits in a
transaction (`phase`), retransmits it when the timer expires, and goes on, ends or
gives up when an answer with its identifier has come (`GetAnswer`) or the last
retransmission was sent. The server answers with a code (`Answer`), or asks for no
answer (`Suppress`); the latter works differently on nodes where an `int` has 16
bits and where it has more (`WideInt`), because the patched engine compares a
`uint16_t` with -1. A block that the writer refuses is answered with `FailureCode`,
which for the last block of a POST is CREATED (`emma-server.c:412-413`). Other
requests, the watchdog and the node's own agents are reduced to what they do to
this resource; of the former this is `count`, which gets their block number
(`OtherBlocks`). `data` says which transfer each block of the resource is of.
`Content` maps all this to **Delivery**: a resource that can be read is absent or
the whole of one transfer, and a sender that succeeds has been stored somewhere.

The transfer keeps these promises only if the network is used in an orderly way
(`Orderly`, an assumption of the instance and of the theorems). Each conjunct
stands for something the code has no defence against:

* a datagram that arrives after its transfer: the server keeps no list of requests
  it has answered, so a repeated first block opens the resource again;
* two senders, or a multicast of several blocks, for one resource: a receiver that
  was left with half of one content takes the later blocks of the other, as they
  fit to `count` (what `emma-server.c:343` means to prevent);
* a POST whose last block is refused, or whose resource an agent deletes
  meanwhile: it is answered with CREATED;
* a sender whose identifiers reach 65535 and a receiver with a wide `int`: the
  answer "no answer" then carries the identifier the sender waits for;
* another request that carries a block number other than 0 (a request without a
  block has 0): `count` is set to it (`emma-server.c:510`), and the next block of a
  transfer, if it has this number, is ignored as repeated, answered and never
  written. With `OtherBlocks = {0, 1}` TLC finds `IgnoredIsStored` and
  `SentIsStored` violated.

**AgentFiles** is `root-agent.c` with the parser (**JSONnParse**) and what the client reads. A
file is a sequence of symbols: characters, `q` for the quote, and the four keys as
one symbol each. `Feed` is the loop of `root_agent_analyze_block` for a character,
with the parser's verdict (`IsContent`) at depth 1 and the four partial matches;
`Analysed` folds it over a block; `Write` is `root_agent_write`, which may fail on
the file system (`FailingBlocks`). `FileFor` is the file `root_agent_alloc` picks,
`Overwritten` what is in a file that is written at an offset and never truncated.
The actions are the blocks of one transfer at a time, of which the network may
repeat any; other requests, DELETE and the watchdog; and writes and deletes by
the agents of the node, which go on after a block that fails. `root_agent_regex`
and `ReadPre` are the reading side. `Places`, `Meant` and `ValueEnd` are the
reference: where the keys and values of a document are, said by counting quotes
and brackets. Documents are compact JSON, as `agent_patterns` requires; the keys
of a document with blanks behind the colon, as `README.md:58` of the repository
prints one, are not found.

**Preprocessor** is the state machine of that name in `emma-client.c`, an action
per state: `Reset` (REPL_RAZ), `Fill`, `Analyze` and `AnalyzeReference`, `Extract`
(REPL_EXTRACT_URI), `CopyBuffer`, `Shift` and `ShiftAtEnd`, `CopyOperand`, `End`.
Its statics are the record `pp`; `buffer` and `buffer2` are the two windows with
the character behind each, and `begins` is `FLAG`. `POSTstartIndex` is `*block`,
which it moves as it reads (`PlaceAfter`). REPL_ERROR is never entered
(`TypeOK` says why) and has no action.

**AgentRun** is what the client does for one agent whose PRE holds
(`emma-client.c:241-446`): `NextTarget` is a call of `getNextTARGET`, which reads
the list by 16 characters, looks for one of four methods (`MethodSought`), feeds
`getIPaddress` (`Addressed`) and collects the uri; `FindContent` looks for the
next text or object of POST, `PrepareText` and `PrepareObject` make a block of it
and `SendChunk` or `WriteLocally` send the block, which may fail. `agent` is the
agent as its author meant it, `file` how it is written, `sent` a history of what
was sent to whom. `Meaning` is the reference: a content with the values of its
references, blanks apart. When the run begins `mode` is what the agent before has
left.

### Abstractions, and why they lose nothing the properties look at

* *Names and contents.* A resource is its full name; strings, payloads, paths in
  bytes, response codes and logging are left out. Resource names over the
  length limits, which the code truncates, are excluded.
* *Writes* may succeed or fail at any block: the JSON check, the file and the
  evaluator behind it are that choice (`Evaluator` has the latter). *Conditions* (`PRE`) may hold or not at
  any time. The targets of an agent are a set, served in any order.
* *open* answers 1 or -1, both true, so "Cannot open resource"
  (`emma-server.c:416-431`) is unreachable and has no action.
* *Time* is `Fresh` or `Old`. `Elapse` lets all clock times grow old at once; the
  code compares each with the same clock, and a younger one only delays the
  watchdog. A new resource may have any clock time, because
  `emma_clean_resource` leaves the one of the block's last user.
* *The iterator in EmmaNode* is what it is going to answer: the rest of a root's
  list. With flat names (assumed in `NodeAssumption`) this is exact for an
  undisturbed walk (`WalkMeetsEach`) and for adds (`AddsAtRootKeepWalk`).
  `del` resets it. If the deleted resource is the first agent, the iterator stands
  on the freed block (`onFreed`), goes on from it once (`lost`), and loops in the
  next call (`Hangs`), as `tree_walk_hangs` shows on the pointers.
* *Requests* come in any order, any number of times: this is loss, duplication
  and reordering of datagrams by other nodes at once.
* *In Evaluator* a text is a sequence of characters without blanks, references have
  fixed values, all transfers go to resources that can be deleted, and a modulo by
  zero is refused like a division (in C it is undefined). Operands are shorter than
  `BufferSize - 2` characters: longer ones are cut by `emma-eval.c:568` without an
  error, in the model as in the code, and no expression of the runs has one. The
  operand that is moved over itself (`emma-eval.c:576-581`, `:592`) is in the
  model, see `eval_overwrites`.
* *memb* hands out each block at most once. In the other modules `root_agent`'s
  memory index follows its pool, so a data slot is one number; that it does is
  `FilesAreApart`.
* *In AgentFiles* a block boundary may fall anywhere but inside of the name of a
  key; positions count symbols. A write that fails writes nothing. The server's
  `locked` is the uri it was set for. Whether the writer's pool is exhausted is
  seen by the number of agents.
* *In Preprocessor and AgentRun* a file is a sequence of symbols: an operator, an
  address and a port are one each, and the value of a resource is fixed during a
  run. The sizes of windows and blocks are those of the code (16, 64, 16). PRE
  holds; each field is there, once; uris fit `EMMA_MAX_URI_SIZE`. The file ends
  where the agent ends (it may go on, see `AgentFiles`). Whether a local write
  comes to anything is a choice: what it writes is in the other modules.
* *In BlockTransfer* blocks are numbered, not read; every node has one resource;
  transfers of one node follow each other, as its client makes one at a time.

## 3. Runs

| Run | Instance | States | What it shows |
|---|---|---|---|
| `tree` | 5 agent paths up to depth 3, 3 slots, 4 blocks, all iterator calls | 77 k | links stay doubly linked, nothing is shared, a walk meets each resource once, an add at the head of a list does not disturb a walk, adds never use up the blocks; the blocks implement `ResourceStore` |
| `node_sender` | 1 agent, 1 local, `S/time`; PUT and POST transfers of 3 blocks; with fairness | 51 k | transfers are whole or gone; locks have owners; waiting ends, runs end, the client runs again |
| `node_agents` | 2 agents that delete and create each other, requests of every kind | 133 k | the iterator's type, which freed blocks it can meet, and that the store is sound between the calls of the handlers |
| `eval` | 14 expressions with every operator but `.` (which only fails), 3 texts that are none; buffer of 5, stacks of 3; blocks cut anywhere; 2 writes and any disturbances | 729 k | a transfer alone on the stack stores what its expression means, or is refused exactly when it must be, unless its last operand is longer than what stands before it |
| `transfer` | 3 nodes, 3 transfers (a POST of 3 blocks with an empty end and a PUT of 2 to a node that sends a multicast of 1 back and to a third), identifiers of 3 bits, 2 retransmissions, one receiver with requests and agents of its own, two nodes with an `int` of 16 bits and one with more; with fairness | 288 k | what was sent was stored, readable resources are one content, ignored blocks are there, answers are the right ones, transfers end unless their own node drops their identifier; all of it implements `Delivery` |
| `agent` | 3 names, 2 files, 3 documents of 2 and 4 blocks of 10 symbols (an agent within an agent, a key and brackets in a text, a key twice), failures of block 2, local writes of two of them | 117 k | keys are noted where they are, values read are the document's own, files are not shared, no request leaves a part, only a repeated key is refused |
| `run` | 186 agents (a POST of two contents: empty, a word, a text of a block, a longer one, sums, references at the beginning or inside, an empty object, an agent; or none at all; two or three targets; POST before and behind TARGET), each after any other; every request may fail; with fairness | 18 k | requests go to the targets in their order, with the contents in theirs, as far as no content puts the client out of place; the run ends if references are at the beginning of the texts |

All of them explore their whole state space. The bounds are chosen so that the
cases that matter occur: more names than slots (a root is full) and a folder
missing (a leak) in `tree`; freed blocks are reused; transfers of
three blocks have a first, a middle and a last one, and hence a block that can be
lost between two others; two agents are what it takes to delete the first and
have another behind it. In `eval` the stacks are small enough to overflow (an
expression four operands deep, one with four operators open), the buffer is
shorter than most expressions, and the second write starts from every stack and
stale buffer the first one and the disturbances leave; the last operand of one
expression is as long as what stands before it, and that of another longer. In
`transfer` the identifiers of the six blocks and the one that means "no answer" lie
close enough to meet; a transfer of three blocks and one of two follow each other
into one resource, and the multicast has the identifier of the third block of the
former, so that each of the two senders may drop a request with the identifier its
own client waits for. In `agent` more names than files make the pool run out and
files come back with a longer document in them; the long document is cut within
a key's pattern, within a text, and within the inner agent. Names are
interchangeable there (`SYMMETRY`). `Others` is FALSE: other requests come between
transfers only (section 3, below). In `run` the texts end within a window, with a
window, with a block and behind one; the values are shorter and longer than a
block; the agent within the agent takes three blocks, with brackets in a text, a
key and references of its own; references are at the beginning of a text, inside
of its first window, over its end and behind it, with a value and without. Deadlock checking is off only where a `fault` or a hung
iterator stops the model (`tree`, `node_agents`) and in
the violation runs.

The quiet part of the liveness properties (`Quiet`) is that no more requests
arrive; without it other nodes may keep any resource locked. **Fairness**
(`Fairness`) is weak fairness of the client, the watchdog, time and the system
process: Contiki polls every process that has an event, event timers expire, and
Erbium ends a blocking request after its last retransmission. `BlockTransfer` says
the last of these in detail: its `Fairness` is that the timer of an open
transaction expires and that a client whose request has ended is polled; no
datagram need ever arrive. `AgentRun` assumes that a run that is not over goes on:
its `Fairness` is weak fairness of a step. A state of the preprocessor that changes
nothing is a step like any other, so that a busy loop in it is one way to go on for
ever: `turn`, which changes with every step, tells it from a run that stands still.
Nothing is assumed
of other nodes, and nothing of which branch a process takes.

Runs that end in a violation of what the code says of itself (details, with the
quoted lines, under `findings` in `PROJECT.json`):

| Run | Property | In short |
|---|---|---|
| `tree_walk_hangs` | `ContinuedWalkReturns` | a walk over a changed list loops in one call (so does the client's run when an agent deletes itself, `HangInWalk`) |
| `node_delete_loops` | `RunsEnd` | a local DELETE restarts the run, for ever |
| `node_server_stuck` | `ServerUnlocks` | the client's release takes the mutex of an abandoned transfer, and the watchdog cannot reset `locked` any more |
| `eval_overwrites` | `ComputesContent` | a last operand that is longer than what stands before it is moved over itself and then read where it was: `1+100` stores 1 |
| `run_expression` | `PayloadsAreMeant` | behind a text with an operator the client's place in POST is too far: the next target gets something else |

These are in the models and have no run of their own:

* an add into a missing folder leaks its block and slot (`AddNoFolder`), and a late
  block may delete a complete resource (`LostPacket` when no transfer is under way);
* two uses of the stack of L: a GET, a local write of an agent or a PUT without
  payload between two blocks of a transfer cleans or concludes what the transfer
  has left on it, and another value is stored (`AloneIsRight` is about the rest;
  `root-resource.c:137-138` asks for a stack per resource);
* a block repeated after another request: `count` (`emma-server.c:510`) is the
  other request's, so that the block is written to the same place but analysed and
  counted a second time, and the keys behind it are noted a block too far. With
  `Others` = TRUE, `PositionsAreMeant` fails;
* two senders (`OneSender` is assumed in `node_sender`): `CancelsOnlyLost` fails,
  because `count` is one variable for all resources, and blocks that were never
  written are ignored as repeated (`emma-server.c:371`);
* a chunk that is not distributed leaves the client in the middle of its content
  (`emma-client.c:419-424`): the next target gets a part of it. With more targets
  than contents the client sends what follows the list of POST;
* a reference in the last text of the file: the window is not full any more and
  `emma-client.c:993` ends it a character late, so that a stale one is sent or the
  text is cut (`NoReference` in `ContentsAreMeant`);
* texts whose references are not at the beginning (`ReferencesFirst` in
  `AgentRunEnds`), as `src/README.md:60` and `:102` have them: in the run, the second
  of these and `1+R#light` end in a state of the preprocessor that drops the same
  blank block for ever, without yielding (`emma-client.c:1265-1285`). Of others the
  client sends blocks for ever (`S#time-S#time+L#x` behind TARGET), and these are
  not in the run, as it would not be finite;
* a node with an `int` of 16 bits that drops a request, with the identifier its own
  client waits for (`src/patch/patch_erbium.diff:179-184`): the engine clears the
  client's transaction, and the client waits for ever (`phase` is "forgotten";
  `TransfersEnd` leaves it out, and does not hold without that). Nothing in the code
  keeps the identifiers of two nodes apart, which both draw from `random_rand`.

Every property of a passing run is paired with a mutant of the code's model
(operators commented `Fault:`) that breaks it.

## 4. Proofs

`ResourceStoreProofs` proves, for all names, folders, pools and boot lists, that
`Sound(store)` is an invariant of `ResourceStore` (`StoreSound`), and from it
its type, that no `NULL` block is cleaned, that folders exist, that the walk holds
each resource once (the run `tree` has them by `ImplementsStore`), and that no root holds more resources than data
slots are in use (`SlotsCovered`). The properties are not inductive one by one:

* that `emma_resource_add` always gets a block (`BlocksNeverRunOut`) needs the
  count `BlocksAccounted`: blocks in use = data slots in use. Add takes one of
  each before it knows whether it can link them and, on code 5, leaks one of each;
  del gives back one of each. As the pools hold fewer slots than there are blocks
  (`PoolsAssumption`, `emma-conf.h:68`), and add asks for the block first, some
  slot is always exhausted before the blocks are, and `:518` answers;
* that `del` never makes a count negative needs `SlotsCover`: the resources
  linked under a root are no more than its slots in use;
* that the walk holds each resource once (`WalkListsAll`) is needed for `Linked`
  and `Unlinked`, the two operations on a root's list, to find their places; the
  lemmas `LinkedProperties` and `UnlinkedProperties` say what they return;
* that folders exist (`FoldersLinked`) holds because `del` refuses a folder with
  children and `add` a name without its folder.

`ResourceTreeProofs` proves `TypeOK`, `WellLinked` and `NothingShared` of
`ResourceTree` for pools and roots of any size and paths of any depth. The
properties speak of `PostOrder`, a recursion over the links, and are not
inductive: a freed block keeps its old links, so nothing can be said of all
blocks, and what is linked is known only by walking. The invariant `TreeInv`
therefore guesses, for each block, the set `T[b]` of what hangs at it (its
content, itself, and what follows on its list), and demands of the blocks that
hang at a root (`Forest`):

* `T[b]` is the disjoint union of what hangs at `subRoot`, of `b`, and of what
  hangs at `next`: no block is reached twice, and no chain of links is a circle;
* what `b` links points back to it, and the first block of a root to nothing;
* two roots share nothing; data slots differ within a root and belong to its pool
  (`DataOwn`).

`Grown` and `Shrunk` say how `T` changes when `emma_resource_add` links a block
and `emma_resource_del` unlinks one (`LinkInOrder`, `UnlinkInOrder`: an argument
for the block, its predecessor, its successor, its folder and all others);
`LookupFinds` shows that the block before a resource, as the lookup reports it,
is the one that links it. `PostOrderLists` connects `T` with the properties:
`PostOrder` of a root lists what hangs at it, each block once. The iterator needs
no forest: even on a freed block it stays in the pool (`SteppedTyped`).

`ResourceTreeWalkProofs` proves `WalkMeetsEach`: the calls of the iterator that
start at a root answer its resources in post-order and then the root's name. The
iterator has no stack and knows only where it came from. `Turns` says what each
way through its loop does; it rests on `prev`, `next` and `subRoot` of a block
never being equal, which the forest gives. `DownWalk` is a call that comes to a
block from above or from before it, `UpWalk` one that comes back; `up[b]` is the
folder `UpWalk` ends at. `WhatIsNext` finds in the post-order what follows a
block, and `NextCall` shows that the next call answers it.

It also proves `AddsAtRootKeepWalk` (`WalksOutlastAdds`), for an iterator wherever
dels have left it. Two invariants say what the forest does not: the links of every
block in use, a leaked one too, lead to blocks in use that lead back
(`UsedBacked`), and what the iterator would go to next is nothing or the block it
stands on (`Ahead`). The iterator with the new block and the one without it are then
`Alike` at every turn: they are the same, or one stands at the end and the other on
the new block, come back to from the former head. `PassAlike`, `LoopAlike`,
`StepAlike` and `MeetsAlike` carry this over a turn, a call and a walk.

`TreeStoreProofs` proves that the blocks implement the store (`TreeIsStore`, the
property `ImplementsStore`), for pools of any size and names of any depth. To the
forest `T` the invariant `Stands(T, P)` adds a naming: `P[b]` is the uri of a block
that is linked, blocks on one list differ in their last name, and what hangs at
`subRoot` is named in its folder (`Named`). The argument has three parts:

* *Lookup.* `LookupIs`: `emma_get_resource` finds the block named `u` if there is
  one, and the folder of `u` if that is linked. The code compares one name per
  level; that it cannot take a wrong turn is `FoundOn`: of all that hangs at a list,
  what shares the next name hangs at the one block it stops at.
* *Order.* `WalkNames`: the store's order of a root is the post-order of its
  blocks, by name. `LinkOrders` and `UnlinkOrders` say where a block comes into that
  order and leaves it; on names these are `Linked` and `Unlinked` of
  `ResourceStore`, which place a new resource before all that its folder holds.
* *Calls.* A case per call and return code (`StoreAdds` to `StoreDels`, `CallSeen`),
  with the pools counted, and the start (`BootSeen`), at which the system's
  resources are linked one before the other.

It also proves `PoolNeverExhausted` (`BlocksLast`) for the blocks themselves: the
invariant `Counted` says that as many blocks are out as data slots, summed over the
roots. `TakeCounts` and `DelCounts` show that each call takes one of each or gives
one of each back, a refused and leaking add too; as the roots have fewer slots than
there are blocks (`PoolAssumption`), one is left.

These are inductions over data. The library's induction theorems take an operator
as their parameter, which no installed prover can instantiate; the module states
them for sets instead, by a least counterexample (`RankInduction`,
`NumberInduction`), and derives from them that a loop which counts down has a
function (`TailRecursion`) and keeps what each turn keeps (`LoopRule`). So the
recursions of `ResourceTree` carry a number that decreases (`left`, `level`).

`EmmaNodeProofs` proves `NodeKeepsStoreSound`: no request, watchdog, time-out or
agent of `EmmaNode` breaks the store's soundness, though handlers make up to five
calls in one step with intermediate results. It goes call by call through the
lemmas above; the invariant adds only that the client's targets are names.

It proves `NodeTypeOK` and `OnlyHeadIsFreed`. The invariant
adds to the types what is between the calls of a walk (`Stands`): all that the
iterator is going to answer exists, but for the first, which may have been
deleted under it (`onFreed`), until it goes on from there (`lost`). It is
inductive because every `del` resets the iterator.

It also proves `NoOrphanMutex`, `PartialsAreHeld`,
`EndedTransfersAreWhole` and `CancelsOnlyLost`, each under assumptions that the
theorem states and the run `node_sender` satisfies: blocks address one resource
(`OneResource`); all its transfers have as many blocks, nothing else has a block
number, and no agent of the node writes it (`OneTransfer`); for `CancelsOnlyLost`
nothing but blocks and `.well-known/core` arrives (`OnlyBlocks`). The code relies
on each of them: `locked` and `count` are one variable for all resources, and
every other request sets `count` in the middle of a transfer
(`emma-server.c:510`). The invariants are `MutexInv` (while the client does not
run, a mutex that is set is that of the resource of the server's transfer) and
`TransferInv` (a locked resource has the blocks `0 .. m` with `count <= m`, and
`count = m` when nothing resets it; one that is not locked has all or none). TLC
has checked both on the run's states before they were proved.

`BlockTransferProofs` proves every invariant of the run `transfer`, and that
`BlockTransfer` implements `Delivery` (`TransferDelivers`), for any nodes,
contents, lengths, identifiers, faults and receivers that are `Orderly`. A server
knows a block's number but not its transfer, so that `OneVersion` is far from
inductive. `IInv` says why it holds:

* `Sending` and `Travelling`: what a client waits for is on the network, the
  datagrams from one client are of its current transfer, and their identifiers are
  as far apart as their blocks; hence an answer with the right identifier is the
  answer to the right block (`OwnAnswersOnly`);
* `Ahead`: a sender past its first block has been answered "ok" by a receiver;
* `Mine`: what a receiver has locked are the first `count + 1` blocks of the
  transfer under way, or nothing because its agents have deleted it, and each
  transfer that is ahead is that transfer; so the next block that fits `count`
  extends the prefix, and the last one completes it;
* `Answered`: "ok" to a last block means that the content was stored.

The refinement then is a case per action: `ContentAt` and `ContentBecomes` say
what `Content` is from the state of one resource.

`AgentFilesProofs` proves `FilesAreApart` and `RequestsAreWhole` for any names,
files, documents, block sizes and failures, and also when other requests come
between the blocks (`Others`). The first needs that `getMemoryIndex` finds a free
file whenever the pool has an agent left: files in use are the image of the agents
in use, hence fewer than all, and `Least` of the rest is one of them
(`AFileIsFree`). The second needs that the server's lock is on an agent that
exists and belongs to the transfer whose later blocks are taken (`TransferTyped`,
`LockIsOwn`): the watchdog and a refused block then delete exactly the part.

It proves `TypeOK` (`AgentTypes`) under the same conditions. `TInv` adds what the
type rests on: a position that is noted lies in the bytes that were written
(`PositionsInside`), what is sent are blocks of the document (`SentAreBlocks`),
and what is locked is a part (`LockedIsPart`).

The other four properties of the run `agent` are about what the search of
`root_agent_analyze_block` finds, and hold for any documents of any length, cut
into blocks of any size, and any failures:

* `PositionsForEver`: each key is noted where the document has it
  (`PositionsAreMeant`);
* `OnlyTwiceForEver`: only a key that stands there twice makes the search refuse
  a block (`OnlyTwiceIsRefused`);
* `SlicesForEver`: what `root_agent_regex` marks as the value of a key holds the
  value and no other key (`SlicesAreOwn`);
* `PreForEver`: what the client reads as PRE, block by block until it meets a
  quote, is the text of PRE (`PreIsOwn`).

They assume what the run has too. `WellWritten` says of the documents that they
are compact JSON: a quoted key with its colon follows a brace or a comma and its
first quote opens, brackets close after they open, the outermost braces hold
everything (`Compact`), and each value ends before the next key (`Closed`). The patterns of
the code need the first, and its parser, which has no stack, the others; TLC
evaluates `WellWritten` for the documents of the run (`DocumentsAssumption`).
`~Others` says that no other request comes between the blocks of a transfer;
otherwise a block is analysed twice and `PositionsAreMeant` fails (section 3).

The invariant `PInv` says what the agent has kept after `m` characters of a
document (`Fits`): the parser holds the brackets and quotes that are open there
(`ParserAt`); the state of each pattern is the part of it that stands just before
`m` (`Matched`) and no part that stands there was missed (`NotMissed`); and a
position is noted exactly for each key that has ended (`Noted`). `FeedFits` takes
this over one character, or finds a key for the second time; the pattern starts
again only at a character that can begin a key, and `Compact` is what makes that
enough. With it go the bytes of the file (`Holds`) and the size (`Ready`): for
each agent that is whole, and for the part under way up to the block `count`
(`WholesAreReady`, `PartIsReady`). For the slices, `Closing` and `ValueEndIs` find
the end of a value in the document, and `TextHasNoQuote` shows that a text has no
quote before it.

`Analysed` and `ReadPre` are recursive functions. `StepsExist` and `TextExists`
build them, and `CountingUp` is the induction, by a least counterexample as in
`ResourceTreeWalkProofs`.

`EvaluatorProofs` proves `TypeOK` of `Evaluator` (`EvaluatorTypes`) for stacks and a
buffer of any size, any references, and texts of any characters cut into any
blocks: the operators and operands keep within their arrays, and the two places in
the buffer within the buffer, whoever uses the stack between the blocks. The
invariant is inductive; the work is in the calls of `emma-eval.c`. Each is shown to
leave a stack `Near` the one it was given (the buffer as it was), or the `Same` (the
operators too), or `Held` (buffer and places may differ), and these relations compose
along the code. That each loop of the code comes to its end is part of the proof:
of a recursion that does not, nothing can be said. A rank goes down with every turn
(`LoopRule`, as above):

* `Reduce` and `CloseParenthesis` take one operator off the stack (`OperateTop`);
* `Scan` moves on in the buffer, by a character or an operator (`ScanOnMoves`);
* a round of `evaluate_block` takes some of the block *or* makes room for the next
  one to do so (`BlockRank`). When a block begins there may be no room: other users of
  the stack move one of the two places and not the other, and their distance, in 8
  bits, is then behind the buffer. The first round takes nothing, but after any round
  there is room, because `TakeFull` ends an operand that fills the buffer
  (`TakeFullMakesRoom`, `RoundMakesRoom`).

Assumptions of the proofs are those of the modules: `NamesAssumption`,
`BootAssumption`, `PoolsAssumption`, `TreeAssumption`, `NamingAssumption`, `PoolAssumption`, `NodeAssumption`,
`TransferAssumption`, `AgentAssumption`, `EvaluatorAssumption`, and `Orderly`, `OneResource`,
`OneTransfer`, `OnlyBlocks`, `WellWritten` and `~Others` where a theorem says so. TLC evaluates the
modules' assumptions in the runs.

Only model-checked: liveness, which the prover cannot state (ENABLED);
`AgentRun`, whose loops over texts are RECURSIVE operators, with which the prover
loses its arithmetic; `AloneIsRight` of `Evaluator`, which compares a machine with a
grammar, an induction over expressions.

## 5. Not modelled, and the plan

Not modelled:

* the client's own evaluation stack, and so the value of `PRE` (what is read of it
  is in `AgentFiles`); `intoa`; integer widths in expressions;
* the digits and the expansion of an address in `getIPaddress`; uris that are too
  long; `getNextPOST` (`emma-client.c:671-780`), which nothing calls;
* GET of an agent and references to one (`A#name`), which do read past its end;
* the texts of `S/*`, the listing of resources as text, `JSONnParse_check`, the
  example application;
* of Erbium: observers, separate responses, resets, options; of Contiki: all but
  what is named above.

What would come next:

1. `Evaluator`: the client's stack beside the root's, and with it what a condition
   evaluates to while transfers run; operators at the width of `operand_t`.
2. Pure algorithms against references: `intoa`, the expansion of addresses.
   References anywhere in a text, once the preprocessor is repaired.
3. Proofs: the positions of `AgentFiles` under requests that leave the transfer
   alone; the windows of `Preprocessor`, for files of any length.
