------------------------------- MODULE EmmaNode -------------------------------
(***************************************************************************)
(* A whole node: the CoAP request handler and the watchdog of the server   *)
(* (emma-server.c), the client process that runs the agents                *)
(* (emma-client.c) and the system process (root-system.c), on one resource *)
(* store and one shared iterator.                                          *)
(*                                                                         *)
(* Contiki's processes are cooperative: a handler or process runs until it *)
(* yields, and is one step here. A run of the agents is many steps, but    *)
(* only a request of an agent to another node lets the others in between   *)
(* (client = "AWAIT"); while client = "AGENT" nothing else happens.        *)
(*                                                                         *)
(* The names used are flat, no resource lies in a folder. The iterator is  *)
(* then what it is going to answer: the rest of the list of a root, the    *)
(* name of that root, and the next root. ResourceTree has the pointers.    *)
(***************************************************************************)
EXTENDS ResourceStore

CONSTANTS
  SysTime,       \* "S/time"
  Requests,      \* what other nodes may send: CoAP requests
  Targets        \* [Uris -> the requests an agent of that name makes]

SERVER == 1
CLIENT == 2
SYSTEM == 3

(* A clock time is old once EMMA_SERVER_TIMEOUT_SECOND have gone by.       *)
Old == 0
Fresh == 1

ASSUME NodeAssumption ==
  /\ \A u \in Uris : Parent[u] = NoUri
  /\ SysTime \in BootUris
  /\ Requests \subseteq [method : {"GET", "LIST", "CORE", "PUT", "POST", "DELETE"},
                         uri : Uris, num : Nat, more : BOOLEAN, payload : BOOLEAN]
  /\ Targets \in [Uris -> SUBSET [local : BOOLEAN, method : {"PUT", "POST", "DELETE"},
                                  uri : Uris]]
  /\ Keys = {Nobody, SERVER, CLIENT, SYSTEM}
  /\ Times = {Old, Fresh}

VARIABLES
  it,            \* the iterator of get_next_resource_name_by_root
  opened,        \* emma-server.c: opened, locked and the handler's count
  locked,
  count,
  client,        \* the client's state; RUNNING, AGENT and AWAIT are its RUNNING
  agent,         \* the agent being run
  todo,          \* its targets still to be served
  previousFail,
  hung,          \* the iterator loops and the node with it
  written        \* history: the blocks a resource has of the last transfer to it

serverVars == <<opened, locked, count>>
clientVars == <<client, agent, todo, previousFail>>
nodeVars == <<store, it, serverVars, clientVars, hung, written>>

-----------------------------------------------------------------------------
(* The iterator.                                                           *)

RootSeq == <<"A", "L", "S">>

(* onFreed: the resource it answers next was deleted after the iterator    *)
(* was put on it. lost: it has gone on from such a resource.               *)
IteratorAt(r, rest) == [root |-> r, rest |-> rest, onFreed |-> FALSE, lost |-> FALSE]

AtRoot(s, r) ==
  IteratorAt(r, IF r <= Len(RootSeq) THEN s.order[RootSeq[r]] ELSE <<>>)

(* Fault: a walk that goes on behind the last root.                        *)
NextOfUnguarded(s, i) ==
  IF i.rest # <<>> THEN [i EXCEPT !.rest = Tail(@)] ELSE AtRoot(s, i.root + 1)

(* Past the last root it stays there, answering nothing.                   *)
NextOf(s, i) ==
  IF i.rest # <<>>
  THEN [i EXCEPT !.rest = Tail(@), !.onFreed = FALSE, !.lost = i.onFreed]
  ELSE IF i.root <= Len(RootSeq) THEN AtRoot(s, i.root + 1) ELSE i

(* The name answered, NoUri for that of a root.                            *)
Answer(i) == IF i.rest = <<>> THEN NoUri ELSE Head(i.rest)

(* Gone on from a freed block it stands on a block whose prev is not the   *)
(* one it came from: the loop of the next call neither answers nor moves.  *)
Hangs(i) == i.lost /\ i.rest # <<>>

(* The positions a walk from root r comes to.                              *)
Positions(s, r) ==
  (UNION {{IteratorAt(q, SubSeq(s.order[RootSeq[q]], n, Len(s.order[RootSeq[q]]))) :
             n \in (IF q = r THEN 2 ELSE 1) .. Len(s.order[RootSeq[q]]) + 1} :
          q \in r .. Len(RootSeq)})
  \cup {AtRoot(s, Len(RootSeq) + 1)}

(* Fault: a del that leaves the iterator where it is.                      *)
AfterDelNoReset(s, u) == it

(* del puts the iterator on the first agent, then frees it or another.     *)
AfterDel(s, u) ==
  LET agents == s.order["A"] IN
  IF DelCode(s, u) = DelOk /\ agents # <<>> /\ Head(agents) = u
  THEN [IteratorAt(1, agents) EXCEPT !.onFreed = TRUE]
  ELSE AtRoot(Del(s, u), 1)

(* An add may be given the freed block the iterator stands on. A resource  *)
(* of another root is then answered with a name under A that nothing has,  *)
(* like the block of an add that fails.                                    *)
AfterAdd(s, u, i) ==
  LET r == RootOf[u]
      new == Add(s, u, Old).order[r]
      found == IF AddCode(s, u) # AddOk THEN <<NoUri>>
               ELSE IF r = "A" THEN new ELSE [n \in 1 .. Len(new) |-> NoUri]
  IN {i} \cup IF i.onFreed /\ AddCode(s, u) \in {AddOk, AddRootFull}
              THEN {IteratorAt(1, found)} ELSE {}

-----------------------------------------------------------------------------
(* The server: emma_server_handler on a request r.                         *)

(* A step of another process than the running client.                      *)
Free == client # "AGENT" /\ ~hung

Block(r) == r.method \in {"PUT", "POST"} /\ r.payload

(* Three kinds of blocks change nothing: a POST to a resource there is, a  *)
(* first block during a transfer, the block that was handled last.         *)
PostToExisting(r) == r.method = "POST" /\ Exists(store, r.uri) /\ ~locked

Busy(r) == Block(r) /\ r.num = 0 /\ locked

AlreadyProceeded(r) ==
  Block(r) /\ ~PostToExisting(r) /\ r.num # 0 /\ locked /\ r.num = count

(* Fault: one lost block is not noticed.                                   *)
CancelsLate(r) ==
  Block(r) /\ ~PostToExisting(r) /\ r.num # 0 /\ r.num - count \notin {0, 1, 2}

(* block_num - count > 1 in unsigned arithmetic.                           *)
Cancels(r) ==
  Block(r) /\ ~PostToExisting(r) /\ r.num # 0 /\ r.num - count \notin {0, 1}

(* Fault: count is set by a block that is dropped.                         *)
DroppedCounts(r) ==
  /\ PostToExisting(r) \/ Busy(r) \/ AlreadyProceeded(r)
  /\ count' = r.num
  /\ UNCHANGED <<store, it, opened, locked, clientVars, hung, written>>

Dropped(r) ==
  /\ PostToExisting(r) \/ Busy(r) \/ AlreadyProceeded(r)
  /\ UNCHANGED nodeVars

(* Fault: the resource is released, but stays.                             *)
AbortKeeps(s, u) == Release(s, u)

(* The resource of an incomplete transfer goes, or at least its lock.      *)
Abort(s, u) ==
  IF DelCode(s, u) = DelOk THEN SetLastModified(Del(s, u), NoUri, SERVER) ELSE Release(s, u)

(* A resource that is gone has no blocks.                                  *)
Kept(s) == [u \in Uris |-> IF Exists(s, u) THEN written[u] ELSE {}]

LostPacket(r) ==
  /\ Cancels(r)
  /\ store' = Abort(store, r.uri)
  /\ it' = AfterDel(store, r.uri)
  /\ written' = Kept(store')
  /\ opened' = FALSE /\ locked' = FALSE
  /\ UNCHANGED <<count, clientVars, hung>>

(* A block that is neither dropped nor cancels. The first one creates the  *)
(* resource, if it can, and locks it; open never fails.                    *)
Begun(r, t) ==
  LET added == Add(store, r.uri, t) IN
  IF r.num # 0 THEN [store |-> store, locked |-> locked, count |-> count, its |-> {it}]
  ELSE [store |-> Lock(added, r.uri), locked |-> Locks(added, r.uri), count |-> -1,
        its |-> AfterAdd(store, r.uri, it)]

Accepted(r) ==
  Block(r) /\ ~PostToExisting(r) /\ ~Busy(r) /\ ~AlreadyProceeded(r) /\ ~Cancels(r)

Refused(r, b) ==
  /\ Accepted(r) /\ ~b.locked
  /\ store' = b.store
  /\ it' \in b.its
  /\ opened' = FALSE /\ locked' = FALSE
  /\ count' = b.count
  /\ UNCHANGED <<clientVars, hung, written>>

(* Fault: the mutex is still set after the last block.                     *)
FinishedLocked(s, r) == IF r.more THEN s ELSE SetLastModified(s, r.uri, SERVER)

Finished(s, r) ==
  IF r.more THEN s ELSE Release(SetLastModified(s, r.uri, SERVER), r.uri)

(* A resource of S has no write.                                           *)
Stored(r, b) ==
  /\ Accepted(r) /\ b.locked
  /\ Exists(b.store, r.uri) /\ RootOf[r.uri] # "S"
  /\ store' = Finished(SetClocktime(b.store, r.uri, Fresh), r)
  /\ it' \in b.its
  /\ opened' = TRUE /\ locked' = r.more
  /\ count' = r.num
  /\ written' = [written EXCEPT ![r.uri] = (IF r.num = 0 THEN {} ELSE @) \cup {r.num}]
  /\ UNCHANGED <<clientVars, hung>>

(* The writer refuses the block; what follows is done nevertheless.        *)
WriteFailed(r, b) ==
  /\ Accepted(r) /\ b.locked
  /\ store' = Finished(SetClocktime(Abort(b.store, r.uri), r.uri, Fresh), r)
  /\ it' = AfterDel(b.store, r.uri)
  /\ written' = Kept(store')
  /\ opened' = FALSE /\ locked' = FALSE
  /\ count' = r.num
  /\ UNCHANGED <<clientVars, hung>>

NoPayload(r) ==
  /\ r.method \in {"PUT", "POST"} /\ ~r.payload /\ ~PostToExisting(r)
  /\ store' = Finished(store, r)
  /\ count' = r.num
  /\ UNCHANGED <<it, opened, locked, clientVars, hung, written>>

(* Locked and released again in the same handler; count is set to 0 like   *)
(* by every request without a block number.                                *)
Get(r) ==
  /\ r.method = "GET"
  /\ count' = 0
  /\ UNCHANGED <<store, it, opened, locked, clientVars, hung, written>>

(* A walk from a root on until the packet is full, of a GET on a root (the *)
(* one of r.uri) or on S/resources.                                        *)
List(r) ==
  /\ r.method = "LIST"
  /\ \E q \in 1 .. Len(RootSeq) :
       RootSeq[q] = RootOf[r.uri] /\ it' \in Positions(store, q)
  /\ count' = 0
  /\ UNCHANGED <<store, opened, locked, clientVars, hung, written>>

(* The same of .well-known/core, with its own handler.                     *)
WellKnown(r) ==
  /\ r.method = "CORE"
  /\ it' \in Positions(store, 1)
  /\ UNCHANGED <<store, serverVars, clientVars, hung, written>>

Delete(r) ==
  /\ r.method = "DELETE"
  /\ IF Locks(store, r.uri)
     THEN /\ store' = Abort(store, r.uri)
          /\ it' = AfterDel(store, r.uri)
          /\ written' = Kept(store')
     ELSE UNCHANGED <<store, it, written>>
  /\ count' = 0
  /\ UNCHANGED <<opened, locked, clientVars, hung>>

Handle(r) ==
  /\ Free
  /\ \/ Dropped(r)
     \/ LostPacket(r)
     \/ \E t \in Times : \E b \in {Begun(r, t)} :
          Refused(r, b) \/ Stored(r, b) \/ WriteFailed(r, b)
     \/ NoPayload(r)
     \/ Get(r)
     \/ List(r)
     \/ WellKnown(r)
     \/ Delete(r)

(* The watchdog looks at the next resource of whatever walk there was and  *)
(* at the first ones of A and of L: the loop's i is the root it passes on, *)
(* and 0 means the next. A resource locked for too long goes.              *)
(* Fault: the watchdog spares a client that waits.                         *)
TimedOutIdle(s, u) ==
  IsLocked(s, u) /\ s.tree[u].clocktime = Old /\ client = "IDLE"

TimedOut(s, u) ==
  /\ IsLocked(s, u) /\ s.tree[u].clocktime = Old
  /\ client \in {"IDLE", "WAITING_MUTEX"}

Look(w, i) ==
  LET u == Answer(i) IN
  IF TimedOut(w.store, u)
  THEN [store |-> Abort(w.store, u), it |-> AfterDel(w.store, u), hit |-> TRUE]
  ELSE [w EXCEPT !.it = NextOf(w.store, i)]

WatchdogLooks ==
  /\ Free /\ ~Hangs(it)
  /\ \E w0 \in {[store |-> store, it |-> it, hit |-> FALSE]} :
     \E w1 \in {Look(w0, w0.it)} :
     \E w2 \in {Look(w1, AtRoot(w1.store, 1))} :
     \E w3 \in {Look(w2, AtRoot(w2.store, 2))} :
       /\ store' = w3.store /\ it' = w3.it /\ written' = Kept(w3.store)
       /\ opened' = (opened /\ ~w3.hit) /\ locked' = (locked /\ ~w3.hit)
  /\ UNCHANGED <<count, clientVars, hung>>

(* The first of its calls goes on with a walk that loops.                  *)
WatchdogHangs ==
  /\ Free /\ Hangs(it)
  /\ hung' = TRUE
  /\ UNCHANGED <<store, it, serverVars, clientVars, written>>

Watchdog == WatchdogLooks \/ WatchdogHangs

(* EMMA_SERVER_TIMEOUT_SECOND go by. A time set later does not matter to   *)
(* an earlier one, so that all may grow old together.                      *)
Elapse ==
  /\ Free
  /\ store' = [store EXCEPT !.tree = [u \in DOMAIN @ |-> [@[u] EXCEPT !.clocktime = Old]]]
  /\ UNCHANGED <<it, serverVars, clientVars, hung, written>>

(* Fault: S/time is not released.                                          *)
SystemTickLocks ==
  /\ Free
  /\ Locks(store, SysTime)
  /\ store' = SetLastModified(Lock(store, SysTime), SysTime, SYSTEM)
  /\ UNCHANGED <<it, serverVars, clientVars, hung, written>>

(* emma_system_process, every EMMA_CLIENT_POLLING_INTERVAL seconds.        *)
SystemTick ==
  /\ Free
  /\ Locks(store, SysTime)
  /\ store' = SetLastModified(store, SysTime, SYSTEM)
  /\ UNCHANGED <<it, serverVars, clientVars, hung, written>>

-----------------------------------------------------------------------------
(* The client process.                                                     *)

WakeUp ==
  /\ client = "IDLE"
  /\ store.lastModifier # CLIENT \/ previousFail
  /\ client' = "START" /\ previousFail' = FALSE
  /\ UNCHANGED <<store, it, serverVars, agent, todo, hung, written>>

Start ==
  /\ client = "START"
  /\ client' = "WAITING_MUTEX"
  /\ UNCHANGED <<store, it, serverVars, agent, todo, previousFail, hung, written>>

(* All names in the order of the walk. It stops at the first that can be   *)
(* locked, or that someone else than the client had locked.                *)
AllNames == store.order["A"] \o store.order["L"] \o store.order["S"]

Skipped(u) == IsLocked(store, u) /\ store.tree[u].lastModified = CLIENT

StopsAt(n) ==
  /\ n \in 1 .. Len(AllNames)
  /\ ~Skipped(AllNames[n])
  /\ \A m \in 1 .. n - 1 : Skipped(AllNames[m])

(* The iterator just behind u.                                             *)
Behind(u) ==
  LET r == CHOOSE q \in 1 .. Len(RootSeq) : RootSeq[q] = RootOf[u]
      names == store.order[RootOf[u]]
      at == CHOOSE n \in 1 .. Len(names) : names[n] = u
  IN IteratorAt(r, SubSeq(names, at + 1, Len(names)))

LockFirst ==
  /\ client = "WAITING_MUTEX"
  /\ \E n \in 1 .. Len(AllNames) :
       /\ StopsAt(n)
       /\ it' = Behind(AllNames[n])
       /\ IF Locks(store, AllNames[n])
          THEN /\ store' = SetLastModified(Lock(store, AllNames[n]), AllNames[n], CLIENT)
               /\ client' = "RUNNING"
          ELSE UNCHANGED <<store, client>>
  /\ UNCHANGED <<serverVars, agent, todo, previousFail, hung, written>>

NothingToLock ==
  /\ client = "WAITING_MUTEX"
  /\ \A n \in 1 .. Len(AllNames) : Skipped(AllNames[n])
  /\ it' = AtRoot(store, Len(RootSeq) + 1)
  /\ client' = "RUNNING"
  /\ UNCHANGED <<store, serverVars, agent, todo, previousFail, hung, written>>

EndRun(i) ==
  /\ store' = SetLastModified(store, NoUri, CLIENT)
  /\ it' = i
  /\ client' = "RELEASE" /\ agent' = NoUri /\ todo' = {}
  /\ UNCHANGED hung

(* The loop over the agents goes on as long as the name is one of root A;  *)
(* the name of that root itself is passed over.                            *)
RunAgent(i) ==
  /\ ~Hangs(i) /\ i.root = 1 /\ i.rest # <<>>
  /\ client' = "AGENT" /\ agent' = Answer(i)
  /\ todo' = IF Exists(store, Answer(i)) THEN Targets[Answer(i)] ELSE {}
  /\ it' = NextOf(store, i)
  /\ UNCHANGED <<store, hung>>

NoMoreAgents(i) ==
  /\ ~Hangs(i) /\ ~(i.root = 1 /\ i.rest # <<>>)
  /\ EndRun(NextOf(store, IF i.root = 1 THEN NextOf(store, i) ELSE i))

HangInWalk(i) ==
  /\ Hangs(i)
  /\ hung' = TRUE
  /\ UNCHANGED <<store, it, client, agent, todo>>

Visit(i) == RunAgent(i) \/ NoMoreAgents(i) \/ HangInWalk(i)

RunFirst ==
  /\ client = "RUNNING"
  /\ Visit(AtRoot(store, 1))
  /\ UNCHANGED <<serverVars, previousFail, written>>

(* Fault: the walk starts again.                                           *)
RunNextFirst ==
  /\ client = "AGENT" /\ ~previousFail
  /\ Exists(store, agent) => todo \in {{}, Targets[agent]}
  /\ Visit(AtRoot(store, 1))
  /\ UNCHANGED <<serverVars, previousFail, written>>

(* Its PRE does not hold, or its targets are served.                       *)
RunNext ==
  /\ client = "AGENT" /\ ~previousFail
  /\ Exists(store, agent) => todo \in {{}, Targets[agent]}
  /\ Visit(it)
  /\ UNCHANGED <<serverVars, previousFail, written>>

StopOnFailure ==
  /\ client = "AGENT" /\ previousFail
  /\ EndRun(it)
  /\ UNCHANGED <<serverVars, previousFail, written>>

(* One of the agent's targets. On this node no lock is looked at.          *)
Serve(target) ==
  /\ client = "AGENT" /\ ~previousFail
  /\ Exists(store, agent)
  /\ target \in todo
  /\ todo' = todo \ {target}
  /\ UNCHANGED <<agent, hung, serverVars>>

(* A POST to what there is ends with its first block, or fails with the    *)
(* next one; an agent does not write to itself.                            *)
NotServed(target) ==
  /\ Serve(target) /\ target.local
  /\ \/ target.method = "POST" /\ Exists(store, target.uri) /\ previousFail' \in BOOLEAN
     \/ target.method = "PUT" /\ target.uri = agent /\ previousFail' = FALSE
  /\ UNCHANGED <<store, it, client, written>>

LocalDelete(target) ==
  /\ Serve(target) /\ target.local
  /\ target.method = "DELETE"
  /\ store' = Del(store, target.uri)
  /\ it' = AfterDel(store, target.uri)
  /\ written' = Kept(store')
  /\ UNCHANGED <<client, previousFail>>

LocalWrite(target) ==
  /\ Serve(target) /\ target.local
  /\ target.method = "PUT" \/ (target.method = "POST" /\ ~Exists(store, target.uri))
  /\ target.uri # agent
  /\ \E t \in Times : store' = Add(store, target.uri, t)
  /\ it' \in AfterAdd(store, target.uri, it)
  /\ previousFail' \in BOOLEAN
  /\ written' = [written EXCEPT ![target.uri] = {}]
  /\ UNCHANGED client

(* COAP_BLOCKING_REQUEST, and its end by an answer or after the last       *)
(* retransmission; either way the run goes on.                             *)
SendRequest(target) ==
  /\ Serve(target) /\ ~target.local
  /\ client' = "AWAIT"
  /\ UNCHANGED <<store, it, previousFail, written>>

RequestEnds ==
  /\ client = "AWAIT"
  /\ client' = "AGENT"
  /\ UNCHANGED <<store, it, serverVars, agent, todo, previousFail, hung, written>>

(* Every resource is released, whoever locked it.                          *)
ReleaseAll ==
  /\ client = "RELEASE"
  /\ store' = [store EXCEPT !.tree = [u \in DOMAIN @ |-> [@[u] EXCEPT !.mutex = FALSE]]]
  /\ it' = AtRoot(store, Len(RootSeq) + 1)
  /\ client' = "IDLE"
  /\ UNCHANGED <<serverVars, agent, todo, previousFail, hung, written>>

Client ==
  /\ ~hung
  /\ \/ WakeUp \/ Start \/ LockFirst \/ NothingToLock
     \/ RunFirst \/ RunNext \/ StopOnFailure
     \/ \E target \in todo :
          NotServed(target) \/ LocalDelete(target) \/ LocalWrite(target) \/ SendRequest(target)
     \/ RequestEnds \/ ReleaseAll

-----------------------------------------------------------------------------

NodeInit ==
  /\ \E t \in Times : store = BootStore([u \in BootUris |-> NewEntry(t)])
  /\ it = IteratorAt(1, <<>>)
  /\ opened = FALSE /\ locked = FALSE /\ count = 0
  /\ client = "IDLE" /\ agent = NoUri /\ todo = {} /\ previousFail = FALSE
  /\ hung = FALSE
  /\ written = [u \in Uris |-> {}]

Arrives == \E r \in Requests : Handle(r)

NodeNext == Arrives \/ Watchdog \/ Elapse \/ SystemTick \/ Client

NodeSpec == NodeInit /\ [][NodeNext]_nodeVars

(* Contiki's scheduler runs every process that has an event, timers expire *)
(* and a blocking request ends after its last retransmission. Nothing is   *)
(* assumed of the other nodes.                                             *)
Fairness ==
  /\ WF_nodeVars(Client)
  /\ WF_nodeVars(Watchdog)
  /\ WF_nodeVars(Elapse)
  /\ WF_nodeVars(SystemTick)

FairNodeSpec == NodeSpec /\ Fairness

-----------------------------------------------------------------------------
(* Properties.                                                             *)

NodeTypeOK ==
  /\ WellTyped(store)
  /\ it \in [root : 1 .. Len(RootSeq) + 1, rest : Seq(Uris \cup {NoUri}),
             onFreed : BOOLEAN, lost : BOOLEAN]
  /\ opened \in BOOLEAN /\ locked \in BOOLEAN /\ count \in Nat \cup {-1}
  /\ client \in {"IDLE", "START", "WAITING_MUTEX", "RUNNING", "AGENT", "AWAIT", "RELEASE"}
  /\ agent \in Uris \cup {NoUri}
  /\ todo \subseteq UNION {Targets[u] : u \in Uris}
  /\ previousFail \in BOOLEAN /\ hung \in BOOLEAN
  /\ written \in [Uris -> SUBSET Nat]

(* The store stays sound under every handler and process of the node, not  *)
(* only under single calls of its interface.                               *)
StoreStaysSound == Sound(store)

Whole(u) == \E r \in Requests : r.uri = u /\ Block(r) /\ ~r.more /\ written[u] = 0 .. r.num

Partial(u) == written[u] # {} /\ ~Whole(u)

(* A resource whose transfer was begun and not ended is there only as long *)
(* as the server is in that transfer: every way out of it (a lost block, a *)
(* failed write, the watchdog) takes the resource away.                    *)
PartialsAreHeld == \A u \in Uris : Partial(u) => locked

(* No mutex is left behind: one that is set is the server's, during a      *)
(* transfer, or the client's, from LockFirst to ReleaseAll.                *)
NoOrphanMutex ==
  (\E u \in Uris : IsLocked(store, u))
    => locked \/ client \in {"RUNNING", "AGENT", "AWAIT", "RELEASE"}

(* Outside its own calls the iterator answers resources that there are;    *)
(* but for the one that del itself took from under it (emma-resource.c:567)*)
(* no freed block is met.                                                  *)
OnlyHeadIsFreed ==
  ~it.lost => \A n \in 1 .. Len(it.rest) :
    it.rest[n] = NoUri \/ Exists(store, it.rest[n]) \/ (n = 1 /\ it.onFreed)

(* A transfer that ends well has left every block from the first to the    *)
(* last in the resource, whatever was lost, repeated or reordered.         *)
EndedTransfersAreWhole ==
  [][\A r \in Requests, t \in Times :
       ~r.more /\ Stored(r, Begun(r, t)) => written'[r.uri] = 0 .. r.num]_nodeVars

(* "If we lost a packet of object transaction" (emma-server.c:339): a      *)
(* block that follows on what was written is not taken for a lost packet.  *)
CancelsOnlyLost == \A r \in Requests : Cancels(r) => written[r.uri] # 0 .. r.num - 1

Quiet == <>[][~Arrives]_nodeVars

(* The client is not kept waiting for a resource: when no request comes in *)
(* any more, the watchdog frees what an abandoned transfer has locked      *)
(* (emma-server.c:84).                                                     *)
WaitingEnds == Quiet => [](client = "WAITING_MUTEX" => <>(client = "RUNNING"))

(* A run overwrites the last modifier with its own (emma-client.c:459) and *)
(* so may lose a wake-up; the system process brings the next one.          *)
WakesAgain == Quiet => []<>(client = "RUNNING")

(* "STOP everything if one failed OR if we DELETE an agent"                *)
(* (emma-client.c:449): a run comes to its end, when no request comes in   *)
(* any more that could move the iterator it walks with.                    *)
RunsEnd == Quiet => [](client = "AGENT" => <>(client = "RELEASE"))

(* "WATCHDOG for deadlock" (emma-server.c:84): a transfer abandoned by its *)
(* sender does not keep the server from starting another one.              *)
ServerUnlocks == Quiet => []<>~locked
=============================================================================
