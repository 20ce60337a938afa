----------------------------- MODULE BlockTransfer -----------------------------
(***************************************************************************)
(* A content on its way from the client of one node (emma-client.c) to a   *)
(* resource of others (emma-server.c), block by block over CoAP (Erbium,   *)
(* er-coap-07, with src/patch/patch_erbium.diff): message identifiers,     *)
(* transactions, retransmissions and answers on a network that loses,      *)
(* repeats and reorders datagrams. A target may be a multicast address.    *)
(*                                                                         *)
(* Every node has one resource here, the one the transfers are about;      *)
(* EmmaNode has a node with many. A content is known by its transfer, and  *)
(* a block of it by its number.                                            *)
(***************************************************************************)
EXTENDS Integers, FiniteSets

CONSTANTS
  Nodes,
  Transfers,      \* each is made once
  From, To,       \* the node that makes it, and those it is for
  Method,         \* "PUT" or "POST"
  Last,           \* the number of its last block
  EmptyEnd,       \* transfers whose last block has no payload
  Faulty,         \* transfers of which a block may be refused by the writer
  MidCount,       \* 2^16
  FirstMids,      \* what coap_set_current_mid(random_rand()) may set on a node
  MaxRetransmit,  \* COAP_MAX_RETRANSMIT
  Active,         \* nodes with other requests and agents of their own
  OtherBlocks,    \* the block numbers of those requests, 0 without a block
  Deleters,       \* those whose agents delete the resource
  WideInt,        \* nodes where an int has more than 16 bits
  Lingering,      \* a datagram may outlive the transfer it belongs to
  NoTransfer

Mids == 0 .. MidCount - 1

(* The uint16_t -1 that asks for no answer.                                *)
DropMid == MidCount - 1

ASSUME TransferAssumption ==
  /\ From \in [Transfers -> Nodes] /\ To \in [Transfers -> SUBSET Nodes]
  /\ \A t \in Transfers : From[t] \notin To[t]
  /\ Method \in [Transfers -> {"PUT", "POST"}]
  /\ Last \in [Transfers -> Nat]
  /\ MidCount \in Nat \ {0} /\ FirstMids \in [Nodes -> SUBSET Mids]
  /\ \A t \in Transfers : Last[t] < MidCount
  /\ MaxRetransmit \in Nat \ {0}
  /\ EmptyEnd \subseteq Transfers /\ Faulty \subseteq Transfers
  /\ WideInt \subseteq Nodes /\ Active \subseteq Nodes /\ Deleters \subseteq Active
  /\ OtherBlocks \subseteq Nat
  /\ Lingering \in BOOLEAN
  /\ NoTransfer \notin Transfers

VARIABLES
  requests,   \* the network: all datagrams that may still arrive
  answers,
  phase,      \* the client of a node in COAP_BLOCKING_REQUEST
  sending,    \* its transfer, the number of the block, the transaction's mid
  block,
  mid,
  retrans,
  exists,     \* the resource and the server of a node
  mutex,
  locked,
  count,
  data,       \* whose block was written last, by number
  result,     \* history: what became of a transfer for its sender
  stored      \* history: the transfers of which a node got every block

netVars == <<requests, answers>>
clientVars == <<sending, block, mid, retrans, result>>
serverVars == <<exists, mutex, locked, count, data, stored>>
vars == <<netVars, phase, clientVars, serverVars>>

Blocks == UNION {0 .. Last[t] : t \in Transfers}

-----------------------------------------------------------------------------
(* The client: emma-client.c:403-436 around coap_blocking_request.         *)

Ask(t, n, m) == [t |-> t, num |-> n, mid |-> m]

(* Fault: the blocks of a transfer all have one identifier.                *)
SameMid(m) == m

(* ++current_mid                                                           *)
NextMid(m) == (m + 1) % MidCount

Staying(net, s) == {d \in net : Lingering \/ From[d.t] # s}

Begin(t) ==
  /\ phase[From[t]] = "idle" /\ result[t] = "new"
  /\ \E first \in FirstMids[From[t]] :
       /\ mid' = [mid EXCEPT ![From[t]] = NextMid(first)]
       /\ requests' = Staying(requests, From[t]) \cup {Ask(t, 0, NextMid(first))}
  /\ answers' = Staying(answers, From[t])
  /\ phase' = [phase EXCEPT ![From[t]] = "waiting"]
  /\ sending' = [sending EXCEPT ![From[t]] = t]
  /\ block' = [block EXCEPT ![From[t]] = 0]
  /\ retrans' = [retrans EXCEPT ![From[t]] = 0]
  /\ result' = [result EXCEPT ![t] = "going"]
  /\ UNCHANGED serverVars

(* Fault: retransmissions are not counted.                                 *)
RetransmitAlways(s) ==
  /\ phase[s] = "waiting"
  /\ requests' = requests \cup {Ask(sending[s], block[s], mid[s])}
  /\ UNCHANGED <<answers, phase, clientVars, serverVars>>

(* Fault: the last retransmission is one more.                             *)
RetransmitOnceMore(s) ==
  /\ phase[s] = "waiting"
  /\ requests' = requests \cup {Ask(sending[s], block[s], mid[s])}
  /\ retrans' = [retrans EXCEPT ![s] = @ + 1]
  /\ phase' = [phase EXCEPT ![s] = IF retrans[s] < MaxRetransmit THEN @ ELSE "timeout"]
  /\ UNCHANGED <<answers, sending, block, mid, result, serverVars>>

(* The timer of the transaction expires. The last retransmission is not    *)
(* waited for.                                                             *)
Retransmit(s) ==
  /\ phase[s] = "waiting"
  /\ requests' = requests \cup {Ask(sending[s], block[s], mid[s])}
  /\ retrans' = [retrans EXCEPT ![s] = @ + 1]
  /\ phase' = [phase EXCEPT ![s] = IF retrans[s] + 1 < MaxRetransmit THEN @ ELSE "timeout"]
  /\ UNCHANGED <<answers, sending, block, mid, result, serverVars>>

(* The transaction an answer belongs to is found by the identifier alone.  *)
Closes(s, a) == From[a.t] = s /\ phase[s] = "waiting" /\ a.mid = mid[s]

(* Code 2.xx is success; a request that is dropped has 2.05.               *)
GetAnswer(s, a) ==
  /\ a \in answers /\ Closes(s, a)
  /\ phase' = [phase EXCEPT ![s] = IF a.code = "bad" THEN "refused" ELSE "accepted"]
  /\ UNCHANGED <<netVars, clientVars, serverVars>>

(* The callback has polled the client, which goes on.                      *)
NextBlock(s) ==
  /\ phase[s] = "accepted" /\ block[s] < Last[sending[s]]
  /\ block' = [block EXCEPT ![s] = @ + 1]
  /\ mid' = [mid EXCEPT ![s] = NextMid(@)]
  /\ requests' = requests \cup {Ask(sending[s], block[s] + 1, NextMid(mid[s]))}
  /\ retrans' = [retrans EXCEPT ![s] = 0]
  /\ phase' = [phase EXCEPT ![s] = "waiting"]
  /\ UNCHANGED <<answers, sending, result, serverVars>>

End(s, outcome) ==
  /\ result' = [result EXCEPT ![sending[s]] = outcome]
  /\ phase' = [phase EXCEPT ![s] = "idle"]
  /\ sending' = [sending EXCEPT ![s] = NoTransfer]
  /\ block' = [block EXCEPT ![s] = 0]
  /\ retrans' = [retrans EXCEPT ![s] = 0]
  /\ UNCHANGED <<netVars, mid, serverVars>>

Succeed(s) == phase[s] = "accepted" /\ block[s] = Last[sending[s]] /\ End(s, "sent")

Fail(s) == phase[s] \in {"refused", "timeout"} /\ End(s, "failed")

Client(s) ==
  \/ Retransmit(s) \/ NextBlock(s) \/ Succeed(s) \/ Fail(s)
  \/ \E a \in answers : GetAnswer(s, a)

-----------------------------------------------------------------------------
(* The server: emma_server_handler of node r on a block d.                 *)

Payload(d) == ~(d.num = Last[d.t] /\ d.t \in EmptyEnd)

More(d) == d.num < Last[d.t]

Answer(d, code) ==
  answers' = answers \cup {[t |-> d.t, num |-> d.num, mid |-> d.mid, code |-> code]}

(* response->mid = -1: where the 16 bits of mid are widened by the         *)
(* comparison with -1 it is never equal, and the answer goes out with that *)
(* mid. Elsewhere the first transaction with the mid of the request is     *)
(* cleared, be it the one the node's own client waits for.                 *)
Suppress(r, d) ==
  /\ answers' = answers \cup
       {[t |-> d.t, num |-> d.num, mid |-> DropMid, code |-> "drop"] : w \in {r} \cap WideInt}
  /\ phase' = IF r \notin WideInt /\ phase[r] = "waiting" /\ mid[r] = d.mid
              THEN [phase EXCEPT ![r] = "forgotten"] ELSE phase

PostToExisting(r, d) == Method[d.t] = "POST" /\ exists[r] /\ ~locked[r]

Busy(r, d) == d.num = 0 /\ locked[r]

Dropped(r, d) ==
  /\ PostToExisting(r, d) \/ (Payload(d) /\ Busy(r, d))
  /\ Suppress(r, d)
  /\ UNCHANGED <<requests, clientVars, serverVars>>

Taken(r, d) == Payload(d) /\ ~PostToExisting(r, d) /\ ~Busy(r, d)

(* block_num - count > 1 in unsigned arithmetic.                           *)
Cancels(r, d) == d.num # 0 /\ d.num - count[r] \notin {0, 1}

(* Fault: an aborted transfer leaves its resource.                         *)
GoneKept(r) ==
  /\ mutex' = [mutex EXCEPT ![r] = FALSE]
  /\ locked' = [locked EXCEPT ![r] = FALSE]
  /\ UNCHANGED <<exists, data, stored>>

(* The resource of a transfer that is given up goes.                       *)
Gone(r) ==
  /\ exists' = [exists EXCEPT ![r] = FALSE]
  /\ mutex' = [mutex EXCEPT ![r] = FALSE]
  /\ locked' = [locked EXCEPT ![r] = FALSE]
  /\ data' = [data EXCEPT ![r] = [n \in Blocks |-> NoTransfer]]
  /\ UNCHANGED stored

LostPacket(r, d) ==
  /\ Taken(r, d) /\ Cancels(r, d)
  /\ Gone(r)
  /\ Suppress(r, d)
  /\ UNCHANGED <<requests, clientVars, count>>

(* A first block whose resource is locked by the client or cannot be       *)
(* added, or another block when no transfer is under way.                  *)
Refused(r, d) ==
  /\ Taken(r, d) /\ ~Cancels(r, d) /\ ~locked[r]
  /\ d.num = 0 => exists[r] = mutex[r]
  /\ Suppress(r, d)
  /\ count' = [count EXCEPT ![r] = IF d.num = 0 THEN -1 ELSE @]
  /\ UNCHANGED <<requests, clientVars, exists, mutex, locked, data, stored>>

(* The first block locks the resource, which it creates if need be.        *)
Writes(r, d) ==
  /\ Taken(r, d) /\ ~Cancels(r, d)
  /\ IF d.num = 0 THEN ~mutex[r] ELSE locked[r]

AlreadyProceeded(r, d) == Writes(r, d) /\ d.num # 0 /\ d.num = count[r]

Ignored(r, d) ==
  /\ AlreadyProceeded(r, d)
  /\ Answer(d, "ok")
  /\ UNCHANGED <<requests, phase, clientVars, serverVars>>

(* Fault: the first block does not reset the count.                        *)
CountKept(r, d) == IF d.num = 0 THEN count[r] ELSE d.num

CountAfter(r, d) == d.num

Complete(r, t) == \A n \in 0 .. Last[t] : data[r][n] = t

Stored(r, d) ==
  /\ Writes(r, d) /\ (d.num = 0 \/ (d.num # count[r] /\ exists[r]))
  /\ exists' = [exists EXCEPT ![r] = TRUE]
  /\ mutex' = [mutex EXCEPT ![r] = IF ~More(d) THEN FALSE ELSE IF d.num = 0 THEN TRUE ELSE @]
  /\ locked' = [locked EXCEPT ![r] = More(d)]
  /\ count' = [count EXCEPT ![r] = CountAfter(r, d)]
  /\ data' = [data EXCEPT ![r][d.num] = d.t]
  /\ stored' = stored \cup (IF ~More(d) /\ Complete(r, d.t)' THEN {<<d.t, r>>} ELSE {})
  /\ Answer(d, "ok")
  /\ UNCHANGED <<requests, phase, clientVars>>

(* Fault: the answer to a block that could not be written.                 *)
AlwaysOk(d) == "ok"

(* After the last block of a POST CREATED replaces BAD_REQUEST.            *)
FailureCode(d) == IF ~More(d) /\ Method[d.t] = "POST" THEN "ok" ELSE "bad"

WriteFailed(r, d) ==
  /\ Writes(r, d) /\ (d.num = 0 \/ d.num # count[r])
  /\ d.t \in Faulty \/ (d.num # 0 /\ ~exists[r])
  /\ Gone(r)
  /\ count' = [count EXCEPT ![r] = d.num]
  /\ Answer(d, FailureCode(d))
  /\ UNCHANGED <<requests, phase, clientVars>>

(* A last block without payload: the mutex is released, locked stays.      *)
NoPayload(r, d) ==
  /\ ~Payload(d) /\ ~PostToExisting(r, d)
  /\ mutex' = [mutex EXCEPT ![r] = FALSE]
  /\ count' = [count EXCEPT ![r] = d.num]
  /\ Answer(d, "bad")
  /\ UNCHANGED <<requests, phase, clientVars, exists, locked, data, stored>>

Handle(r, d) ==
  \/ Dropped(r, d) \/ LostPacket(r, d) \/ Refused(r, d)
  \/ Ignored(r, d) \/ Stored(r, d) \/ WriteFailed(r, d) \/ NoPayload(r, d)

(* What else happens on the node (EmmaNode has it in full).                *)

(* A request for another resource leaves its block number, an aborted one  *)
(* leaves the count as it was.                                             *)
OtherRequest(r) ==
  /\ r \in Active
  /\ \E n \in OtherBlocks : count' = [count EXCEPT ![r] = n]
  /\ UNCHANGED <<netVars, phase, clientVars, exists, mutex, locked, data, stored>>

(* The mutex was set for too long by a transfer.                           *)
Watchdog(r) ==
  /\ mutex[r] /\ locked[r]
  /\ Gone(r)
  /\ UNCHANGED <<netVars, phase, clientVars, count>>

(* The node's client locks the resource, releases it whoever locked it,    *)
(* or deletes it in a run of its agents.                                   *)
OwnLock(r) ==
  /\ r \in Active /\ exists[r] /\ ~mutex[r]
  /\ mutex' = [mutex EXCEPT ![r] = TRUE]
  /\ UNCHANGED <<netVars, phase, clientVars, exists, locked, count, data, stored>>

OwnRelease(r) ==
  /\ r \in Active /\ mutex[r]
  /\ mutex' = [mutex EXCEPT ![r] = FALSE]
  /\ UNCHANGED <<netVars, phase, clientVars, exists, locked, count, data, stored>>

OwnDelete(r) ==
  /\ r \in Deleters /\ exists[r]
  /\ exists' = [exists EXCEPT ![r] = FALSE]
  /\ mutex' = [mutex EXCEPT ![r] = FALSE]
  /\ data' = [data EXCEPT ![r] = [n \in Blocks |-> NoTransfer]]
  /\ UNCHANGED <<netVars, phase, clientVars, locked, count, stored>>

Server(r) ==
  \/ \E d \in requests : r \in To[d.t] /\ Handle(r, d)
  \/ OtherRequest(r) \/ Watchdog(r) \/ OwnLock(r) \/ OwnRelease(r) \/ OwnDelete(r)

-----------------------------------------------------------------------------

Init ==
  /\ requests = {} /\ answers = {}
  /\ phase = [s \in Nodes |-> "idle"]
  /\ sending = [s \in Nodes |-> NoTransfer]
  /\ block = [s \in Nodes |-> 0]
  /\ mid = [s \in Nodes |-> 0]
  /\ retrans = [s \in Nodes |-> 0]
  /\ exists = [r \in Nodes |-> FALSE]
  /\ mutex = [r \in Nodes |-> FALSE]
  /\ locked = [r \in Nodes |-> FALSE]
  /\ count = [r \in Nodes |-> 0]
  /\ data = [r \in Nodes |-> [n \in Blocks |-> NoTransfer]]
  /\ result = [t \in Transfers |-> "new"]
  /\ stored = {}

Next == (\E t \in Transfers : Begin(t)) \/ (\E n \in Nodes : Client(n) \/ Server(n))

Spec == Init /\ [][Next]_vars

(* Timers expire, and a process that was polled runs.                      *)
Fairness ==
  \A s \in Nodes : WF_vars(Retransmit(s)) /\ WF_vars(NextBlock(s) \/ Succeed(s) \/ Fail(s))

FairSpec == Spec /\ Fairness

(* The use of the network under which a transfer keeps its promises. No    *)
(* datagram outlives its transfer. Contents for one receiver have one      *)
(* sender, and one that goes to others as well is a single block: after a  *)
(* multicast that a receiver has half of, the blocks of the next one would *)
(* be added to it. The writer accepts a POST, and no agent deletes what it *)
(* makes, since CREATED hides the failure. The identifier of an answer to  *)
(* a dropped request is none the sender waits for. No other request has a  *)
(* block number but 0: the next block of a transfer would be taken for a   *)
(* repeated one, answered and never written.                               *)
Orderly ==
  /\ ~Lingering
  /\ \A t, u \in Transfers : t # u =>
       \A r \in To[t] \cap To[u] :
         From[t] = From[u] /\ (To[t] = {r} \/ Last[t] = 0) /\ (To[u] = {r} \/ Last[u] = 0)
  /\ \A t \in Transfers : Method[t] = "POST" =>
       t \in EmptyEnd \/ (t \notin Faulty /\ (Last[t] = 0 \/ To[t] \cap Deleters = {}))
  /\ \A t \in Transfers : To[t] \cap WideInt # {} =>
       \A first \in FirstMids[From[t]], n \in 0 .. Last[t] :
         first + 1 + n \notin {DropMid, DropMid + MidCount}
  /\ OtherBlocks \subseteq {0}

-----------------------------------------------------------------------------
(* Properties.                                                             *)

TypeOK ==
  /\ requests \subseteq [t : Transfers, num : Blocks, mid : Mids]
  /\ answers \subseteq [t : Transfers, num : Blocks, mid : Mids, code : {"ok", "bad", "drop"}]
  /\ phase \in [Nodes -> {"idle", "waiting", "accepted", "refused", "timeout", "forgotten"}]
  /\ sending \in [Nodes -> Transfers \cup {NoTransfer}]
  /\ block \in [Nodes -> Nat] /\ mid \in [Nodes -> Mids]
  /\ retrans \in [Nodes -> 0 .. MaxRetransmit]
  /\ exists \in [Nodes -> BOOLEAN] /\ mutex \in [Nodes -> BOOLEAN]
  /\ locked \in [Nodes -> BOOLEAN] /\ count \in [Nodes -> Nat \cup {-1}]
  /\ data \in [Nodes -> [Blocks -> Transfers \cup {NoTransfer}]]
  /\ result \in [Transfers -> {"new", "going", "sent", "failed"}]
  /\ stored \subseteq Transfers \X Nodes
  /\ \A s \in Nodes : phase[s] # "idle" => block[s] <= Last[sending[s]]

(* "Chunk #%d distributed." (emma-client.c:428): when every block of a     *)
(* transfer was, one of its receivers has had all of them, in one          *)
(* resource.                                                               *)
SentIsStored ==
  \A t \in Transfers : result[t] = "sent" => \E r \in To[t] : <<t, r>> \in stored

(* "%s is locked by another transaction" (emma-server.c:323): a resource   *)
(* outside of a transfer has all its blocks from one transfer.             *)
OneVersion ==
  \A r \in Nodes : exists[r] /\ ~locked[r] => \E t \in Transfers : r \in To[t] /\ Complete(r, t)

(* "Packet already proceeded, just ignore it" (emma-server.c:372): a block *)
(* that is answered without being written is in the resource.              *)
IgnoredIsStored ==
  \A r \in Nodes, d \in requests :
    r \in To[d.t] /\ exists[r] /\ AlreadyProceeded(r, d) => data[r][d.num] = d.t

(* "we drop the request without responding" (emma-server.c:296), and       *)
(* answers are told apart by 16 bits: what closes a transaction is the     *)
(* answer to the block the client waits for, of a server that took it.     *)
OwnAnswersOnly ==
  \A s \in Nodes : \A a \in answers :
    Closes(s, a) => a.t = sending[s] /\ a.num = block[s] /\ a.code # "drop"

(* COAP_BLOCKING_REQUEST (emma-client.c:417) does not block for ever:      *)
(* whatever the network does, no transfer is under way for ever, it is     *)
(* sent or given up, unless its client waits with the identifier of a      *)
(* request that its own node drops. "If user application don't want        *)
(* answer, just drop transaction" (patch_erbium.diff:179): the node clears *)
(* its own transaction, whose timer and answer are gone, and nothing wakes *)
(* the client any more.                                                    *)
TransfersEnd ==
  <>[](\A t \in Transfers : result[t] = "going" => phase[From[t]] = "forgotten")

CONSTANTS Absent, Changing

(* What a reader of a resource finds.                                      *)
Content ==
  [r \in Nodes |->
     IF ~exists[r] THEN Absent
     ELSE IF locked[r] THEN Changing
     ELSE IF \E t \in Transfers : Complete(r, t)
          THEN CHOOSE t \in Transfers : Complete(r, t) ELSE NoTransfer]

Abstract == INSTANCE Delivery WITH content <- Content

(* The transfer is what Delivery promises.                                 *)
ImplementsDelivery == Abstract!Spec
=============================================================================
